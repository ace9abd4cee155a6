--------------------------- MODULE NodeStoreProofs ---------------------------
(***************************************************************************)
(* What the lists of the store keep while one worker runs the requests and *)
(* groups are created and extended between its transactions, for any sets  *)
(* of nodes, groups and subscriptions and any sizes of the lists.          *)
(***************************************************************************)
EXTENDS NodeStore, FiniteSetTheorems, SequenceTheorems, WellFoundedInduction, TLAPS

(* Two workers move the places under each other (see the README): what is  *)
(* shown here is of one at a time, which may die between any two steps.    *)
Single == \E w : Workers = {w}

-----------------------------------------------------------------------------
(* The transactions a worker may have left to run.                         *)
Adding ==
  {<<"appendGroup", "appendSub", "place", "fetch", "putSub", "regroup", "putGroup">>,
   <<"appendSub", "place", "fetch", "putSub", "regroup", "putGroup">>,
   <<"place", "fetch", "putSub", "regroup", "putGroup">>,
   <<"fetch", "putSub", "regroup", "putGroup">>, <<"putSub", "regroup", "putGroup">>,
   <<"regroup", "putGroup">>, <<"putGroup">>, <<"putSub">>}
Listing ==
  {<<"count", "append", "find", "list">>, <<"append", "find", "list">>, <<"find", "list">>,
   <<"create", "find", "list">>, <<"count", "append", "list">>, <<"append", "list">>,
   <<"list">>, <<"relocate", "list", "unlist">>, <<"list", "unlist">>, <<"unlist">>}
Dropping ==
  {<<"dropGroups", "dropSub">>, <<"dropSub">>, <<"dropSub", "dropGroups">>,
   <<"dropNodes", "dropGroups">>, <<"orphans", "dropGroups">>, <<"dropGroups">>}
Plans == {<<>>, <<"putServer">>} \union Adding \union Listing \union Dropping

Pairs == Nat \X (Nat \ {0})
SubRecords == [id : Subs, nodes : Downloads]
GroupRecords == [id : GroupIds, refs : SUBSET Pairs]
Tasks ==
  [todo : Plans, nodes : Seq(Nodes), place : Nat, refs : SUBSET Pairs, to : Nat, from : Nat,
   sub : SubRecords \union {NoSub}, group : GroupRecords \union {NoGroup}, goal : GroupIds,
   ids : Seq(GroupIds), drop : SUBSET Nat]

Typed ==
  /\ servers \in Seq(Nodes) /\ subs \in Seq(SubRecords) /\ groups \in Seq(GroupRecords)
  /\ job \in [Workers -> Tasks]

(* What the task t has read is still so when it uses it.                   *)
Ahead(t, label) == t.todo # <<>> /\ Head(t.todo) = label

(* The new nodes will be, or are, where the task expects them.             *)
KnowsNodes(t) ==
  /\ Ahead(t, "append") =>
       t.place = Len(servers) /\ t.refs = {<<0, t.place + k>> : k \in DOMAIN t.nodes}
  /\ Ahead(t, "find") \/ Ahead(t, "create") \/ Ahead(t, "list") =>
       \A k \in DOMAIN t.nodes :
         /\ t.place + k \in DOMAIN servers
         /\ servers[t.place + k] = t.nodes[k] /\ <<0, t.place + k>> \in t.refs
  /\ Ahead(t, "relocate") \/ t.todo = <<"list", "unlist">> => t.nodes = <<>>
  /\ Ahead(t, "putServer") => t.nodes # <<>>

(* A move has another target than source, and has listed its nodes there.  *)
KnowsMove(t) ==
  /\ Ahead(t, "relocate") => t.ids # <<>> /\ t.ids[1] # t.goal
  /\ t.todo = <<"list", "unlist">> => t.from # t.to
  /\ Ahead(t, "unlist") =>
       /\ t.from # t.to
       /\ t.to # 0 => t.to \in DOMAIN groups /\ t.refs \subseteq groups[t.to].refs

(* A subscription is stored at its own place.                              *)
KnowsSub(t) ==
  /\ t.todo \in Adding /\ ~Ahead(t, "putGroup") => t.sub \in SubRecords
  /\ Ahead(t, "place") => subs # <<>> /\ subs[Len(subs)].id = t.sub.id
  /\ Ahead(t, "fetch") \/ Ahead(t, "putSub") =>
       t.place \in DOMAIN subs /\ subs[t.place].id = t.sub.id
  /\ Ahead(t, "putGroup") => t.group \in GroupRecords

(* The groups a cleanup has read are where they were; those that came      *)
(* after are of users.                                                     *)
Agree(ids) ==
  /\ Len(ids) <= Len(groups)
  /\ \A i \in DOMAIN groups : IF i <= Len(ids) THEN groups[i].id = ids[i] ELSE groups[i].id \notin Subs
KnowsOrphans(t) ==
  /\ Ahead(t, "orphans") => Agree(t.ids)
  /\ Ahead(t, "dropGroups") /\ t.ids # <<>> =>
       /\ Agree(t.ids)
       /\ t.drop = {k \in DOMAIN t.ids : t.ids[k] \in Subs /\ Place(subs, t.ids[k]) = 0}
  /\ Ahead(t, "dropSub") \/ Ahead(t, "dropNodes") \/ t.todo = <<"dropGroups", "dropSub">> =>
       t.ids = <<>>

Known(t) == KnowsNodes(t) /\ KnowsMove(t) /\ KnowsSub(t) /\ KnowsOrphans(t)

IInv == Typed /\ \A w \in Workers : Known(job[w])

-----------------------------------------------------------------------------
(* Of two places of a set, fewer come before the earlier one: every number *)
(* up to the size of the set is the rank of just one place.                *)
LEMMA Ranks ==
  ASSUME NEW S \in SUBSET Nat, IsFiniteSet(S)
  PROVE  /\ Cardinality(S) \in Nat
         /\ \A k \in 1 .. Cardinality(S) : Nth(S, k) \in S
         /\ \A i \in S : \E k \in 1 .. Cardinality(S) : Nth(S, k) = i
<1> DEFINE n == Cardinality(S)
           before(i) == {m \in S : m < i}
           rank == [i \in S |-> Cardinality(before(i)) + 1]
<1>1. n \in Nat
  BY FS_CardinalityType
<1>2. ASSUME NEW i \in S
      PROVE  IsFiniteSet(before(i)) /\ Cardinality(before(i)) \in Nat /\ rank[i] \in 1 .. n
  <2>1. before(i) \in SUBSET S /\ before(i) # S
    OBVIOUS
  <2>2. /\ IsFiniteSet(before(i)) /\ Cardinality(before(i)) <= n
        /\ n = Cardinality(before(i)) => S = before(i)
    BY <2>1, FS_Subset
  <2>3. Cardinality(before(i)) \in Nat
    BY <2>2, FS_CardinalityType
  <2> HIDE DEF before
  <2> QED BY <1>1, <2>1, <2>2, <2>3
<1>3. ASSUME NEW i \in S, NEW j \in S, i < j
      PROVE  rank[i] # rank[j]
  <2>1. before(i) \in SUBSET before(j) /\ i \in before(j) /\ i \notin before(i)
    <3>1. \A m \in S : m \in Nat
      OBVIOUS
    <3>2. \A m \in S : m < i => m < j
      BY <1>3, <3>1
    <3>3. before(i) \subseteq before(j)
      BY <3>2
    <3>4. i \in before(j) /\ ~(i < i)
      BY <1>3, <3>1
    <3> QED BY <3>3, <3>4
  <2>2. Cardinality(before(j)) = Cardinality(before(i)) => before(j) = before(i)
    BY <1>2, <2>1, FS_Subset
  <2>3. rank[i] = Cardinality(before(i)) + 1 /\ rank[j] = Cardinality(before(j)) + 1
    OBVIOUS
  <2>4. Cardinality(before(i)) \in Nat /\ Cardinality(before(j)) \in Nat
    BY <1>2
  <2> HIDE DEF before, rank
  <2> QED BY <2>1, <2>2, <2>3, <2>4
<1>4. rank \in Injection(S, 1 .. n)
  <2>1. rank \in [S -> 1 .. n]
    BY <1>2
  <2>2. ASSUME NEW i \in S, NEW j \in S, rank[i] = rank[j]
        PROVE  i = j
    <3>1. i < j \/ j < i \/ i = j
      OBVIOUS
    <3> HIDE DEF rank
    <3> QED BY <1>3, <2>2, <3>1
  <2> HIDE DEF rank
  <2> QED BY <2>1, <2>2 DEF Injection, IsInjective
<1>5. IsFiniteSet(1 .. n) /\ Cardinality(1 .. n) = n
  BY <1>1, FS_Interval
<1>6. rank \in Surjection(S, 1 .. n)
  BY <1>4, <1>5, FS_Injection
<1>7. \A k \in 1 .. n : \E i \in S : rank[i] = k
  BY <1>6 DEF Surjection
<1>8. \A i \in S : rank[i] = Cardinality(before(i)) + 1
  OBVIOUS
<1>9. \A k \in 1 .. n, i \in S : rank[i] = k <=> Cardinality(before(i)) = k - 1
  BY <1>1, <1>2, <1>8
<1>10. \A k \in 1 .. n : Nth(S, k) \in S /\ Cardinality(before(Nth(S, k))) = k - 1
  <2> SUFFICES ASSUME NEW k \in 1 .. n
               PROVE  Nth(S, k) \in S /\ Cardinality(before(Nth(S, k))) = k - 1
    OBVIOUS
  <2>1. \E i \in S : Cardinality(before(i)) = k - 1
    BY <1>7, <1>9
  <2> QED BY <2>1, Zenon DEF Nth
<1>11. \A k \in 1 .. n : Nth(S, k) \in S /\ rank[Nth(S, k)] = k
  BY <1>9, <1>10
<1>12. ASSUME NEW i \in S PROVE \E k \in 1 .. n : Nth(S, k) = i
  <2>1. rank[i] \in 1 .. n
    BY <1>2
  <2>2. rank[Nth(S, rank[i])] = rank[i] /\ Nth(S, rank[i]) \in S
    BY <1>11, <2>1
  <2> HIDE DEF rank, n
  <2>3. Nth(S, rank[i]) = i
    BY <1>4, <2>2 DEF Injection, IsInjective
  <2> QED BY <2>1, <2>3
<1> QED BY <1>1, <1>11, <1>12

(* What is left of a list are the elements at the other places.            *)
LEMMA Removed ==
  ASSUME NEW T, NEW list \in Seq(T), NEW places
  PROVE  LET rest == ListRemove(list, places)
         IN  /\ rest \in Seq(T)
             /\ \A k \in DOMAIN rest : \E i \in DOMAIN list \ places : rest[k] = list[i]
             /\ \A i \in DOMAIN list \ places : \E k \in DOMAIN rest : rest[k] = list[i]
<1> DEFINE stay == DOMAIN list \ places
           rest == ListRemove(list, places)
<1>1. DOMAIN list = 1 .. Len(list) /\ Len(list) \in Nat
  OBVIOUS
<1>2. stay \in SUBSET Nat /\ IsFiniteSet(stay)
  <2>1. IsFiniteSet(1 .. Len(list))
    BY <1>1, FS_Interval
  <2> QED BY <1>1, <2>1, FS_Subset
<1>3. /\ Cardinality(stay) \in Nat
      /\ \A k \in 1 .. Cardinality(stay) : Nth(stay, k) \in stay
      /\ \A i \in stay : \E k \in 1 .. Cardinality(stay) : Nth(stay, k) = i
  BY <1>2, Ranks
<1>4. rest = [k \in 1 .. Cardinality(stay) |-> list[Nth(stay, k)]]
  BY DEF ListRemove, Pick
<1>5. \A i \in stay : list[i] \in T
  OBVIOUS
<1>6. rest \in Seq(T)
  <2> HIDE DEF stay, rest
  <2> QED BY <1>3, <1>4, <1>5
<1>7. \A k \in DOMAIN rest : \E i \in stay : rest[k] = list[i]
  BY <1>3, <1>4
<1>8. \A i \in stay : \E k \in DOMAIN rest : rest[k] = list[i]
  BY <1>3, <1>4
<1> QED BY <1>6, <1>7, <1>8

(* Place finds the first element with the id, and only if there is one.    *)
LEMMA Found ==
  ASSUME NEW T, NEW list \in Seq(T), NEW id
  PROVE  /\ Place(list, id) \in Nat
         /\ Place(list, id) # 0 => Place(list, id) \in DOMAIN list /\ list[Place(list, id)].id = id
         /\ Place(list, id) # 0 <=> \E i \in DOMAIN list : list[i].id = id
<1> DEFINE with == {i \in DOMAIN list : list[i].id = id}
<1>1. CASE with = {}
  BY <1>1 DEF Place
<1>2. CASE with # {}
  <2>1. with \subseteq Nat
    OBVIOUS
  <2>2. PICK i \in with : \A k \in with : <<k, i>> \notin OpToRel(<, Nat)
    BY <1>2, <2>1, NatLessThanWellFounded, WFMin
  <2>3. \A k \in with : ~(k < i)
    BY <2>1, <2>2 DEF OpToRel
  <2>4. \A k \in 1 .. i - 1 : k \in DOMAIN list /\ k < i
    BY <2>1
  <2>5. \A k \in 1 .. i - 1 : list[k].id # id
    BY <2>3, <2>4
  <2>6. Place(list, id) \in with
    <3>1. \E j \in DOMAIN list : list[j].id = id
      BY <1>2
    <3>2. i \in DOMAIN list /\ list[i].id = id /\ \A j \in 1 .. i - 1 : list[j].id # id
      BY <2>5
    <3> HIDE DEF with
    <3>3. Place(list, id) \in DOMAIN list /\ list[Place(list, id)].id = id
      BY <3>1, <3>2, Zenon DEF Place
    <3> QED BY <3>3 DEF with
  <2>7. with \subseteq Nat \ {0}
    OBVIOUS
  <2> HIDE DEF with
  <2>8. Place(list, id) \in Nat /\ Place(list, id) # 0 /\ Place(list, id) \in with
    BY <2>6, <2>7
  <2> QED BY <2>8 DEF with
<1> QED BY <1>1, <1>2

-----------------------------------------------------------------------------
(* Which transaction follows which.                                        *)
Follows(a, b) ==
  \/ a = "count" /\ b = "append"
  \/ a = "append" /\ b \in {"find", "list"}
  \/ a = "find" /\ b = "list"
  \/ a = "create" /\ b = "find"
  \/ a = "list" /\ b = "unlist"
  \/ a = "relocate" /\ b = "list"
  \/ a = "appendGroup" /\ b = "appendSub"
  \/ a = "appendSub" /\ b = "place"
  \/ a = "place" /\ b = "fetch"
  \/ a = "fetch" /\ b = "putSub"
  \/ a = "putSub" /\ b = "regroup"
  \/ a = "regroup" /\ b = "putGroup"
  \/ a = "dropGroups" /\ b = "dropSub"
  \/ a \in {"dropSub", "dropNodes", "orphans"} /\ b = "dropGroups"

(* What is left of a row once its first transaction has run.               *)
LEMMA RowSteps ==
  ASSUME NEW s \in Plans, s # <<>>
  PROVE  /\ Len(s) # 1 =>
              /\ Tail(s) \in Plans /\ Tail(s) # <<>> /\ Follows(Head(s), Head(Tail(s)))
              /\ Head(Tail(s)) # "putGroup" => (Tail(s) \in Adding <=> s \in Adding)
         /\ Tail(s) = <<"list", "unlist">> => Head(s) = "relocate"
         /\ Tail(s) # <<"dropGroups", "dropSub">>
         /\ Head(s) = "putGroup" => Len(s) = 1
         /\ Head(s) = "list" /\ Len(s) # 1 => s = <<"list", "unlist">>
         /\ Head(s) = "dropGroups" /\ Len(s) # 1 => s = <<"dropGroups", "dropSub">>
         /\ Head(s) = "find" => s = <<"find", "list">>
         /\ Head(s) \in {"appendGroup", "appendSub", "place", "fetch", "putSub", "regroup"} =>
              s \in Adding
<1>1. CASE s = <<"putServer">>
  BY <1>1 DEF Plans, Adding, Listing, Dropping, Follows
<1>2. CASE s = <<"appendGroup", "appendSub", "place", "fetch", "putSub", "regroup", "putGroup">>
  BY <1>2 DEF Plans, Adding, Listing, Dropping, Follows
<1>3. CASE s = <<"appendSub", "place", "fetch", "putSub", "regroup", "putGroup">>
  BY <1>3 DEF Plans, Adding, Listing, Dropping, Follows
<1>4. CASE s = <<"place", "fetch", "putSub", "regroup", "putGroup">>
  BY <1>4 DEF Plans, Adding, Listing, Dropping, Follows
<1>5. CASE s = <<"fetch", "putSub", "regroup", "putGroup">>
  BY <1>5 DEF Plans, Adding, Listing, Dropping, Follows
<1>6. CASE s = <<"putSub", "regroup", "putGroup">>
  BY <1>6 DEF Plans, Adding, Listing, Dropping, Follows
<1>7. CASE s = <<"regroup", "putGroup">>
  BY <1>7 DEF Plans, Adding, Listing, Dropping, Follows
<1>8. CASE s = <<"putGroup">>
  BY <1>8 DEF Plans, Adding, Listing, Dropping, Follows
<1>9. CASE s = <<"putSub">>
  BY <1>9 DEF Plans, Adding, Listing, Dropping, Follows
<1>10. CASE s = <<"count", "append", "find", "list">>
  BY <1>10 DEF Plans, Adding, Listing, Dropping, Follows
<1>11. CASE s = <<"append", "find", "list">>
  BY <1>11 DEF Plans, Adding, Listing, Dropping, Follows
<1>12. CASE s = <<"find", "list">>
  BY <1>12 DEF Plans, Adding, Listing, Dropping, Follows
<1>13. CASE s = <<"create", "find", "list">>
  BY <1>13 DEF Plans, Adding, Listing, Dropping, Follows
<1>14. CASE s = <<"count", "append", "list">>
  BY <1>14 DEF Plans, Adding, Listing, Dropping, Follows
<1>15. CASE s = <<"append", "list">>
  BY <1>15 DEF Plans, Adding, Listing, Dropping, Follows
<1>16. CASE s = <<"list">>
  BY <1>16 DEF Plans, Adding, Listing, Dropping, Follows
<1>17. CASE s = <<"relocate", "list", "unlist">>
  BY <1>17 DEF Plans, Adding, Listing, Dropping, Follows
<1>18. CASE s = <<"list", "unlist">>
  BY <1>18 DEF Plans, Adding, Listing, Dropping, Follows
<1>19. CASE s = <<"unlist">>
  BY <1>19 DEF Plans, Adding, Listing, Dropping, Follows
<1>20. CASE s = <<"dropGroups", "dropSub">>
  BY <1>20 DEF Plans, Adding, Listing, Dropping, Follows
<1>21. CASE s = <<"dropSub">>
  BY <1>21 DEF Plans, Adding, Listing, Dropping, Follows
<1>22. CASE s = <<"dropSub", "dropGroups">>
  BY <1>22 DEF Plans, Adding, Listing, Dropping, Follows
<1>23. CASE s = <<"dropNodes", "dropGroups">>
  BY <1>23 DEF Plans, Adding, Listing, Dropping, Follows
<1>24. CASE s = <<"orphans", "dropGroups">>
  BY <1>24 DEF Plans, Adding, Listing, Dropping, Follows
<1>25. CASE s = <<"dropGroups">>
  BY <1>25 DEF Plans, Adding, Listing, Dropping, Follows
<1> QED
  BY <1>1, <1>2, <1>3, <1>4, <1>5, <1>6, <1>7, <1>8, <1>9, <1>10, <1>11, <1>12, <1>13, <1>14, <1>15, <1>16, <1>17, <1>18, <1>19, <1>20, <1>21, <1>22, <1>23, <1>24, <1>25 DEF Plans, Adding, Listing, Dropping

(* The rows requests begin with.                                           *)
LEMMA RowHeads ==
  /\ LET s == <<"count", "append", "find", "list">>
     IN  s \in Plans \ Adding /\ s # <<>> /\ Head(s) = "count"
  /\ LET s == <<"count", "append", "list">>
     IN  s \in Plans \ Adding /\ s # <<>> /\ Head(s) = "count"
  /\ LET s == <<"create", "find", "list">>
     IN  /\ s \in Plans \ Adding /\ s # <<>> /\ Head(s) = "create"
         /\ s # <<"list", "unlist">> /\ s # <<"dropGroups", "dropSub">>
  /\ LET s == <<"list">>
     IN  s \in Plans \ Adding /\ s # <<>> /\ Head(s) = "list" /\ s # <<"list", "unlist">>
  /\ LET s == <<"list", "unlist">>
     IN  s \in Plans \ Adding /\ s # <<>> /\ Head(s) = "list"
  /\ LET s == <<"unlist">>
     IN  s \in Plans \ Adding /\ s # <<>> /\ Head(s) = "unlist"
  /\ LET s == <<"relocate", "list", "unlist">>
     IN  s \in Plans \ Adding /\ s # <<>> /\ Head(s) = "relocate"
  /\ LET s == <<"putServer">>
     IN  s \in Plans \ Adding /\ s # <<>> /\ Head(s) = "putServer"
  /\ LET s == <<"appendGroup", "appendSub", "place", "fetch", "putSub", "regroup", "putGroup">>
     IN  s \in Plans /\ s # <<>> /\ Head(s) = "appendGroup"
  /\ LET s == <<"fetch", "putSub", "regroup", "putGroup">>
     IN  s \in Plans /\ s # <<>> /\ Head(s) = "fetch"
  /\ LET s == <<"putSub">>
     IN  s \in Plans /\ s # <<>> /\ Head(s) = "putSub"
  /\ LET s == <<"putGroup">>
     IN  s \in Plans /\ s # <<>> /\ Head(s) = "putGroup"
  /\ LET s == <<"dropGroups", "dropSub">>
     IN  s \in Plans \ Adding /\ s # <<>> /\ Head(s) = "dropGroups"
  /\ LET s == <<"dropSub", "dropGroups">>
     IN  s \in Plans \ Adding /\ s # <<>> /\ Head(s) = "dropSub"
  /\ LET s == <<"dropNodes", "dropGroups">>
     IN  s \in Plans \ Adding /\ s # <<>> /\ Head(s) = "dropNodes"
  /\ LET s == <<"orphans", "dropGroups">>
     IN  s \in Plans \ Adding /\ s # <<>> /\ Head(s) = "orphans"
  BY DEF Plans, Adding, Listing, Dropping

-----------------------------------------------------------------------------
(* An idle worker knows nothing that could be wrong.                       *)
LEMMA IdleTask == Idle \in Tasks /\ Idle.todo = <<>> /\ <<>> \notin Adding
  BY DEF Idle, Tasks, Plans, GroupIds, Adding

(* A worker that begins a task knows what it needs of it.                  *)
LEMMA Begins ==
  ASSUME Single, IInv, NEW w \in Workers, NEW t \in Tasks, Known(t), Begin(w, t), UNCHANGED lists
  PROVE  IInv'
<1>1. job' \in [Workers -> Tasks] /\ job'[w] = t /\ Workers = {w}
  BY DEF IInv, Typed, Begin, Single
<1>2. Known(t)'
  BY DEF Known, KnowsNodes, KnowsMove, KnowsSub, KnowsOrphans, Agree, Place, lists
<1> QED BY <1>1, <1>2 DEF IInv, Typed, lists

(* What a worker goes on with after a transaction: nothing, or the next    *)
(* one of its row with what it knows.                                      *)
GoesOn(w, t) ==
  /\ job' \in [Workers -> Tasks]
  /\ \/ job'[w].todo = <<>>
     \/ /\ job'[w].todo # <<>> /\ Len(t.todo) # 1
        /\ Follows(Head(t.todo), Head(job'[w].todo))
        /\ ~Ahead(job'[w], "putGroup") => (job'[w].todo \in Adding <=> t.todo \in Adding)
        /\ job'[w].todo # <<"list", "unlist">>
        /\ job'[w].todo # <<"dropGroups", "dropSub">>
        /\ job'[w].nodes = t.nodes /\ job'[w].place = t.place /\ job'[w].refs = t.refs
        /\ job'[w].to = t.to /\ job'[w].from = t.from /\ job'[w].sub = t.sub
        /\ job'[w].group = t.group /\ job'[w].ids = t.ids /\ job'[w].drop = t.drop

(* Every transaction but the one that looks the groups of a move up again  *)
(* is taken off the row.                                                   *)
LEMMA Proceeds ==
  ASSUME Typed, NEW w \in Workers, NEW t \in Tasks, t.todo # <<>>, Head(t.todo) # "relocate",
         Done(w, t)
  PROVE  GoesOn(w, t)
<1>1. CASE Len(t.todo) = 1
  <2>1. job' = [job EXCEPT ![w] = Idle]
    BY <1>1 DEF Done
  <2> QED BY <2>1, IdleTask DEF Typed, GoesOn
<1>2. CASE Len(t.todo) # 1
  <2> DEFINE next == [t EXCEPT !.todo = Tail(t.todo)]
  <2>1. job' = [job EXCEPT ![w] = next]
    BY <1>2 DEF Done
  <2>2. t.todo \in Plans
    BY DEF Tasks
  <2>3. /\ Tail(t.todo) \in Plans /\ Tail(t.todo) # <<>>
        /\ Follows(Head(t.todo), Head(Tail(t.todo)))
        /\ Head(Tail(t.todo)) # "putGroup" => (Tail(t.todo) \in Adding <=> t.todo \in Adding)
        /\ Tail(t.todo) # <<"list", "unlist">> /\ Tail(t.todo) # <<"dropGroups", "dropSub">>
    <3> DEFINE s == t.todo
    <3>1. s \in Plans /\ s # <<>> /\ Len(s) # 1 /\ Head(s) # "relocate"
      BY <1>2, <2>2
    <3> HIDE DEF s
    <3>2. /\ Tail(s) \in Plans /\ Tail(s) # <<>> /\ Follows(Head(s), Head(Tail(s)))
          /\ Head(Tail(s)) # "putGroup" => (Tail(s) \in Adding <=> s \in Adding)
          /\ Tail(s) # <<"list", "unlist">> /\ Tail(s) # <<"dropGroups", "dropSub">>
      BY <3>1, RowSteps
    <3> QED BY <3>2 DEF s
  <2> DEFINE rest == Tail(t.todo)
  <2> HIDE DEF rest
  <2>4. next = [t EXCEPT !.todo = rest]
    BY DEF rest
  <2>5. rest \in Plans
    BY <2>3 DEF rest
  <2> HIDE DEF next
  <2>6. /\ next \in Tasks /\ next.todo = rest
        /\ next.nodes = t.nodes /\ next.place = t.place /\ next.refs = t.refs
        /\ next.to = t.to /\ next.from = t.from /\ next.sub = t.sub
        /\ next.group = t.group /\ next.ids = t.ids /\ next.drop = t.drop
    BY <2>4, <2>5 DEF Tasks
  <2>7. job'[w] = next /\ job' \in [Workers -> Tasks]
    BY <2>1, <2>6 DEF Typed
  <2> HIDE DEF Follows
  <2> QED BY <1>2, <2>3, <2>6, <2>7 DEF GoesOn, Ahead, rest
<1> QED BY <1>1, <1>2

(* The worker that runs a transaction has a task.                          *)
LEMMA Working ==
  ASSUME Single, IInv, NEW w \in Workers, NEW label, At(w, label)
  PROVE  /\ Workers = {w} /\ job[w] \in Tasks /\ Known(job[w])
         /\ job[w].todo # <<>> /\ Head(job[w].todo) = label /\ Ahead(job[w], label)
         /\ Len(servers) \in Nat /\ Len(subs) \in Nat /\ Len(groups) \in Nat
  BY DEF Single, IInv, Typed, At, IsIdle, Ahead

(* The end of a step: the lists are lists, and a worker that goes on knows *)
(* its task.                                                               *)
LEMMA Ends ==
  ASSUME Single, NEW w \in Workers, NEW t, GoesOn(w, t), job'[w].todo # <<>> => Known(job[w])',
         servers' \in Seq(Nodes), subs' \in Seq(SubRecords), groups' \in Seq(GroupRecords)
  PROVE  IInv'
<1>1. ASSUME job'[w].todo = <<>> PROVE Known(job[w])'
  <2>1. job'[w].todo \notin Adding /\ job'[w].todo # <<"list", "unlist">>
        /\ job'[w].todo # <<"dropGroups", "dropSub">>
    BY <1>1 DEF Adding
  <2> QED BY <1>1, <2>1 DEF Known, KnowsNodes, KnowsMove, KnowsSub, KnowsOrphans, Ahead
<1> QED BY <1>1 DEF Single, IInv, Typed, GoesOn

(* What a worker that goes on keeps of what it knows, and what is next.    *)
LEMMA GoingOn ==
  ASSUME Single, IInv, NEW w \in Workers, NEW t \in Tasks, t.todo = job[w].todo,
         t.sub = job[w].sub \/ t.sub \in SubRecords, GoesOn(w, t), job'[w].todo # <<>>
  PROVE  /\ Follows(Head(job[w].todo), Head(job'[w].todo))
         /\ job'[w].todo # <<"list", "unlist">> /\ job'[w].todo # <<"dropGroups", "dropSub">>
         /\ job'[w].todo \in Adding /\ Head(job'[w].todo) # "putGroup" => job'[w].sub \in SubRecords
         /\ job'[w].nodes = t.nodes /\ job'[w].place = t.place /\ job'[w].refs = t.refs
         /\ job'[w].to = t.to /\ job'[w].from = t.from /\ job'[w].sub = t.sub
         /\ job'[w].group = t.group /\ job'[w].ids = t.ids /\ job'[w].drop = t.drop
<1>1. Head(t.todo) # "putGroup"
  BY DEF GoesOn, Follows
<1>2. t.todo \in Adding => t.todo # <<>>
  BY IdleTask
<1>3. t.todo \in Adding => job[w].sub \in SubRecords
  BY <1>1, <1>2 DEF IInv, Known, KnowsSub, Ahead
<1> QED BY <1>3 DEF GoesOn, Ahead

(* A worker that stops early, or is done, has no task.                     *)
LEMMA LeaveKeeps ==
  ASSUME Single, IInv, NEW w \in Workers, Leave(w), UNCHANGED lists
  PROVE  IInv'
<1>1. job' = [job EXCEPT ![w] = Idle]
  BY DEF Leave
<1>2. GoesOn(w, Idle) /\ job'[w].todo = <<>>
  BY <1>1, IdleTask DEF GoesOn, IInv, Typed
<1> QED BY <1>2, Ends DEF IInv, Typed, lists

(* The places of the new nodes are those after the last.                   *)
LEMMA CountKeeps ==
  ASSUME Single, IInv, NEW w \in Workers, CountServers(w)
  PROVE  IInv'
<1> DEFINE here == {<<0, Len(servers) + k>> : k \in DOMAIN job[w].nodes}
           t == [job[w] EXCEPT !.place = Len(servers), !.refs = here]
<1>1. At(w, "count") /\ Done(w, t) /\ UNCHANGED lists
  BY DEF CountServers
<1>2. /\ Workers = {w} /\ job[w] \in Tasks /\ Len(servers) \in Nat
      /\ job[w].todo # <<>> /\ Head(job[w].todo) = "count"
  BY <1>1, Working
<1>3. here \in SUBSET Pairs
  <2>1. \A k \in DOMAIN job[w].nodes : k \in Nat \ {0}
    BY <1>2 DEF Tasks
  <2> QED BY <1>2, <2>1 DEF Pairs
<1> HIDE DEF here
<1>4. /\ t \in Tasks /\ t.todo = job[w].todo /\ t.place = Len(servers) /\ t.refs = here
      /\ t.nodes = job[w].nodes /\ t.sub = job[w].sub
  BY <1>2, <1>3 DEF Tasks
<1> HIDE DEF t
<1>5. GoesOn(w, t)
  BY <1>1, <1>2, <1>4, Proceeds DEF IInv
<1>6. ASSUME job'[w].todo # <<>> PROVE Known(job[w])'
  <2>1. /\ Head(job'[w].todo) = "append"
        /\ job'[w].todo # <<"list", "unlist">> /\ job'[w].todo # <<"dropGroups", "dropSub">>
        /\ job'[w].todo \in Adding => job'[w].sub \in SubRecords
        /\ job'[w].nodes = t.nodes /\ job'[w].place = t.place /\ job'[w].refs = t.refs
    BY <1>2, <1>4, <1>5, <1>6, GoingOn DEF Follows
  <2>2. UNCHANGED servers
    BY <1>1 DEF lists
  <2>3. KnowsNodes(job[w])'
    BY <1>4, <2>1, <2>2 DEF KnowsNodes, Ahead, here
  <2>4. KnowsMove(job[w])' /\ KnowsSub(job[w])' /\ KnowsOrphans(job[w])'
    BY <2>1 DEF KnowsMove, KnowsSub, KnowsOrphans, Ahead
  <2> QED BY <2>3, <2>4 DEF Known
<1> QED BY <1>1, <1>5, <1>6, Ends DEF IInv, Typed, lists

(* The nodes are appended where they were expected.                        *)
LEMMA AppendKeeps ==
  ASSUME Single, IInv, NEW w \in Workers, AppendServers(w)
  PROVE  IInv'
<1> DEFINE t == job[w]
<1>1. /\ At(w, "append") /\ Done(w, t) /\ servers' = servers \o t.nodes /\ UNCHANGED <<subs, groups>>
  BY DEF AppendServers
<1>2. /\ Workers = {w} /\ t \in Tasks /\ Len(servers) \in Nat
      /\ t.todo # <<>> /\ Head(t.todo) = "append" /\ Ahead(t, "append") /\ Known(t)
  BY <1>1, Working
<1>3. t.nodes \in Seq(Nodes) /\ servers \in Seq(Nodes)
  BY <1>2 DEF Tasks, IInv, Typed
<1>4. GoesOn(w, t)
  BY <1>1, <1>2, Proceeds DEF IInv
<1> HIDE DEF t
<1>5. /\ servers' \in Seq(Nodes) /\ Len(servers') = Len(servers) + Len(t.nodes)
      /\ \A k \in 1 .. Len(t.nodes) : servers'[Len(servers) + k] = t.nodes[k]
  <2>1. /\ servers' \in Seq(Nodes) /\ Len(servers') = Len(servers) + Len(t.nodes)
        /\ \A i \in 1 .. Len(servers) + Len(t.nodes) :
             servers'[i] = IF i <= Len(servers) THEN servers[i] ELSE t.nodes[i - Len(servers)]
    BY <1>1, <1>3, ConcatProperties
  <2>2. Len(servers) \in Nat /\ Len(t.nodes) \in Nat
    BY <1>3
  <2> QED BY <2>1, <2>2
<1>6. t.place = Len(servers) /\ t.refs = {<<0, t.place + k>> : k \in DOMAIN t.nodes}
  BY <1>2 DEF Known, KnowsNodes
<1>7. DOMAIN servers' = 1 .. Len(servers') /\ DOMAIN t.nodes = 1 .. Len(t.nodes) /\ Len(t.nodes) \in Nat
  BY <1>3, <1>5
<1>8. \A k \in DOMAIN t.nodes :
        /\ t.place + k \in DOMAIN servers'
        /\ servers'[t.place + k] = t.nodes[k] /\ <<0, t.place + k>> \in t.refs
  BY <1>2, <1>5, <1>6, <1>7
<1>9. ASSUME job'[w].todo # <<>> PROVE Known(job[w])'
  <2>1. /\ Head(job'[w].todo) \in {"find", "list"}
        /\ job'[w].todo # <<"list", "unlist">> /\ job'[w].todo # <<"dropGroups", "dropSub">>
        /\ job'[w].todo \in Adding => job'[w].sub \in SubRecords
        /\ job'[w].nodes = t.nodes /\ job'[w].place = t.place /\ job'[w].refs = t.refs
    BY <1>2, <1>4, <1>9, GoingOn DEF Follows, t
  <2>2. KnowsNodes(job[w])'
    BY <1>8, <2>1 DEF KnowsNodes, Ahead
  <2>3. KnowsMove(job[w])' /\ KnowsSub(job[w])' /\ KnowsOrphans(job[w])'
    BY <2>1 DEF KnowsMove, KnowsSub, KnowsOrphans, Ahead
  <2> QED BY <2>2, <2>3 DEF Known
<1> QED BY <1>1, <1>4, <1>5, <1>9, Ends DEF IInv, Typed

(* The nodes stay where they are while their group is looked up.           *)
LEMMA FindKeeps ==
  ASSUME Single, IInv, NEW w \in Workers, FindGroup(w)
  PROVE  IInv'
<1> DEFINE i == Place(groups, job[w].goal)
<1>1. At(w, "find") /\ UNCHANGED lists
  BY DEF FindGroup
<1>2. /\ Workers = {w} /\ job[w] \in Tasks /\ Ahead(job[w], "find") /\ Known(job[w])
      /\ job[w].todo # <<>> /\ Head(job[w].todo) = "find"
  BY <1>1, Working
<1>3. \A k \in DOMAIN job[w].nodes :
        /\ job[w].place + k \in DOMAIN servers
        /\ servers[job[w].place + k] = job[w].nodes[k] /\ <<0, job[w].place + k>> \in job[w].refs
  BY <1>2 DEF Known, KnowsNodes
<1>4. i \in Nat
  BY Found DEF IInv, Typed
<1> HIDE DEF i
<1>5. CASE i # 0
  <2> DEFINE t == [job[w] EXCEPT !.to = i]
  <2>1. Done(w, t)
    BY <1>5 DEF FindGroup, i
  <2>2. /\ t \in Tasks /\ t.todo = job[w].todo /\ t.sub = job[w].sub
        /\ t.nodes = job[w].nodes /\ t.place = job[w].place /\ t.refs = job[w].refs
    BY <1>2, <1>4 DEF Tasks
  <2> HIDE DEF t
  <2>3. GoesOn(w, t)
    BY <1>2, <2>1, <2>2, Proceeds DEF IInv
  <2>4. ASSUME job'[w].todo # <<>> PROVE Known(job[w])'
    <3>1. /\ Head(job'[w].todo) = "list"
          /\ job'[w].todo # <<"list", "unlist">> /\ job'[w].todo # <<"dropGroups", "dropSub">>
          /\ job'[w].todo \in Adding => job'[w].sub \in SubRecords
          /\ job'[w].nodes = t.nodes /\ job'[w].place = t.place /\ job'[w].refs = t.refs
      BY <1>2, <2>2, <2>3, <2>4, GoingOn DEF Follows
    <3>2. KnowsNodes(job[w])'
      BY <1>1, <1>3, <2>2, <3>1 DEF KnowsNodes, Ahead, lists
    <3>3. KnowsMove(job[w])' /\ KnowsSub(job[w])' /\ KnowsOrphans(job[w])'
      BY <3>1 DEF KnowsMove, KnowsSub, KnowsOrphans, Ahead
    <3> QED BY <3>2, <3>3 DEF Known
  <2> QED BY <1>1, <2>3, <2>4, Ends DEF IInv, Typed, lists
<1>6. CASE Leave(w)
  BY <1>1, <1>6, LeaveKeeps
<1>7. CASE job' = [job EXCEPT ![w].todo = <<"create", "find", "list">>]
  <2> DEFINE t == [job[w] EXCEPT !.todo = <<"create", "find", "list">>]
  <2>1. /\ t \in Tasks /\ t.todo = <<"create", "find", "list">>
        /\ t.nodes = job[w].nodes /\ t.place = job[w].place /\ t.refs = job[w].refs
    BY <1>2, RowHeads DEF Tasks
  <2>2. Begin(w, t)
    BY <1>2, <1>7 DEF Begin, IInv, Typed
  <2> HIDE DEF t
  <2>3. /\ Head(t.todo) = "create" /\ t.todo \notin Adding
        /\ t.todo # <<"list", "unlist">> /\ t.todo # <<"dropGroups", "dropSub">>
    BY <2>1, RowHeads
  <2>4. KnowsNodes(t)
    BY <1>3, <2>1, <2>3 DEF KnowsNodes, Ahead
  <2>5. KnowsMove(t) /\ KnowsSub(t) /\ KnowsOrphans(t)
    BY <2>3 DEF KnowsMove, KnowsSub, KnowsOrphans, Ahead
  <2> QED BY <1>1, <2>1, <2>2, <2>4, <2>5, Begins DEF Known
<1> QED BY <1>5, <1>6, <1>7 DEF FindGroup, i

(* References are added to one group, and no group moves.                  *)
LEMMA Added ==
  ASSUME groups \in Seq(GroupRecords), NEW i, NEW refs \in SUBSET Pairs
  PROVE  LET new == AddToGroup(i, refs)
         IN  /\ new \in Seq(GroupRecords) /\ Len(new) = Len(groups)
             /\ \A k \in DOMAIN groups :
                  /\ new[k].id = groups[k].id /\ groups[k].refs \subseteq new[k].refs
                  /\ k = i => refs \subseteq new[k].refs
<1> DEFINE g == [groups[i] EXCEPT !.refs = groups[i].refs \union refs]
<1>1. CASE i \in DOMAIN groups
  <2>1. i \in 1 .. Len(groups) /\ groups[i] \in GroupRecords
    BY <1>1
  <2>2. /\ g \in GroupRecords /\ g.id = groups[i].id
        /\ groups[i].refs \subseteq g.refs /\ refs \subseteq g.refs
    BY <2>1 DEF GroupRecords
  <2>3. AddToGroup(i, refs) = [groups EXCEPT ![i] = g]
    BY <1>1 DEF AddToGroup
  <2> HIDE DEF g
  <2>4. /\ AddToGroup(i, refs) \in Seq(GroupRecords) /\ Len(AddToGroup(i, refs)) = Len(groups)
        /\ \A k \in 1 .. Len(groups) : AddToGroup(i, refs)[k] = IF k = i THEN g ELSE groups[k]
    BY <2>1, <2>2, <2>3, ExceptSeq
  <2> QED BY <2>2, <2>4
<1>2. CASE i \notin DOMAIN groups
  BY <1>2 DEF AddToGroup
<1> QED BY <1>1, <1>2

(* References are taken out of one group, and no group moves.              *)
LEMMA TakenOut ==
  ASSUME groups \in Seq(GroupRecords), NEW i, NEW refs
  PROVE  LET new == RemoveFromGroup(i, refs)
         IN  /\ new \in Seq(GroupRecords) /\ Len(new) = Len(groups)
             /\ \A k \in DOMAIN groups :
                  /\ new[k].id = groups[k].id
                  /\ k # i => new[k] = groups[k]
                  /\ groups[k].refs \subseteq new[k].refs \union refs
<1> DEFINE g == [groups[i] EXCEPT !.refs = groups[i].refs \ refs]
<1>1. CASE i \in DOMAIN groups
  <2>1. i \in 1 .. Len(groups) /\ groups[i] \in GroupRecords
    BY <1>1
  <2>2. g \in GroupRecords /\ g.id = groups[i].id /\ groups[i].refs \subseteq g.refs \union refs
    BY <2>1 DEF GroupRecords
  <2>3. RemoveFromGroup(i, refs) = [groups EXCEPT ![i] = g]
    BY <1>1 DEF RemoveFromGroup
  <2> HIDE DEF g
  <2>4. /\ RemoveFromGroup(i, refs) \in Seq(GroupRecords) /\ Len(RemoveFromGroup(i, refs)) = Len(groups)
        /\ \A k \in 1 .. Len(groups) : RemoveFromGroup(i, refs)[k] = IF k = i THEN g ELSE groups[k]
    BY <2>1, <2>2, <2>3, ExceptSeq
  <2> QED BY <2>2, <2>4
<1>2. CASE i \notin DOMAIN groups
  BY <1>2 DEF RemoveFromGroup
<1> QED BY <1>1, <1>2

(* One element of a list is replaced, or none.                             *)
LEMMA Replaced ==
  ASSUME NEW T, NEW list \in Seq(T), NEW i, NEW value \in T
  PROVE  LET new == ListSet(list, i, value)
         IN  /\ new \in Seq(T) /\ Len(new) = Len(list) /\ DOMAIN new = DOMAIN list
             /\ \A k \in DOMAIN list : new[k] = IF k = i THEN value ELSE list[k]
<1>1. CASE i \in DOMAIN list
  <2>1. i \in 1 .. Len(list) /\ ListSet(list, i, value) = [list EXCEPT ![i] = value]
    BY <1>1 DEF ListSet
  <2> QED BY <2>1, ExceptSeq
<1>2. CASE i \notin DOMAIN list
  BY <1>2 DEF ListSet
<1> QED BY <1>1, <1>2

(* The built-in group is made at the end of the list.                      *)
LEMMA CreateKeeps ==
  ASSUME Single, IInv, NEW w \in Workers, CreateServerGroup(w)
  PROVE  IInv'
<1> DEFINE t == job[w]
           g == [id |-> "SERVER", refs |-> {}]
<1>1. At(w, "create") /\ Done(w, t) /\ groups' = Append(groups, g) /\ UNCHANGED <<servers, subs>>
  BY DEF CreateServerGroup
<1>2. /\ Workers = {w} /\ t \in Tasks /\ Ahead(t, "create") /\ Known(t)
      /\ t.todo # <<>> /\ Head(t.todo) = "create"
  BY <1>1, Working
<1>3. g \in GroupRecords
  BY DEF GroupRecords, GroupIds
<1>4. groups' \in Seq(GroupRecords)
  BY <1>1, <1>3 DEF IInv, Typed
<1>5. GoesOn(w, t)
  BY <1>1, <1>2, Proceeds DEF IInv
<1>6. \A k \in DOMAIN t.nodes :
        /\ t.place + k \in DOMAIN servers
        /\ servers[t.place + k] = t.nodes[k] /\ <<0, t.place + k>> \in t.refs
  BY <1>2 DEF Known, KnowsNodes
<1> HIDE DEF t
<1>7. ASSUME job'[w].todo # <<>> PROVE Known(job[w])'
  <2>1. /\ Head(job'[w].todo) = "find"
        /\ job'[w].todo # <<"list", "unlist">> /\ job'[w].todo # <<"dropGroups", "dropSub">>
        /\ job'[w].todo \in Adding => job'[w].sub \in SubRecords
        /\ job'[w].nodes = t.nodes /\ job'[w].place = t.place /\ job'[w].refs = t.refs
    BY <1>2, <1>5, <1>7, GoingOn DEF Follows, t
  <2>2. KnowsNodes(job[w])'
    BY <1>1, <1>6, <2>1 DEF KnowsNodes, Ahead
  <2>3. KnowsMove(job[w])' /\ KnowsSub(job[w])' /\ KnowsOrphans(job[w])'
    BY <2>1 DEF KnowsMove, KnowsSub, KnowsOrphans, Ahead
  <2> QED BY <2>2, <2>3 DEF Known
<1> QED BY <1>1, <1>4, <1>5, <1>7, Ends DEF IInv, Typed

(* What a move has listed is in its target when the source is taken up.    *)
LEMMA ListKeeps ==
  ASSUME Single, IInv, NEW w \in Workers, ListRefs(w)
  PROVE  IInv'
<1> DEFINE t == job[w]
<1>1. /\ At(w, "list") /\ groups' = AddToGroup(t.to, t.refs) /\ UNCHANGED <<servers, subs>>
      /\ IF t.to \in DOMAIN groups THEN Done(w, t) ELSE Leave(w)
  BY DEF ListRefs
<1>2. /\ Workers = {w} /\ t \in Tasks /\ Ahead(t, "list") /\ Known(t)
      /\ t.todo # <<>> /\ Head(t.todo) = "list"
  BY <1>1, Working
<1>3. t.refs \in SUBSET Pairs /\ groups \in Seq(GroupRecords) /\ t.todo \in Plans
  BY <1>2 DEF Tasks, IInv, Typed
<1>4. /\ groups' \in Seq(GroupRecords) /\ Len(groups') = Len(groups)
      /\ t.to \in DOMAIN groups => t.refs \subseteq groups'[t.to].refs
  BY <1>1, <1>3, Added
<1>5. CASE t.to \notin DOMAIN groups
  <2>1. UNCHANGED lists
    BY <1>1, <1>5 DEF AddToGroup, lists
  <2> QED BY <1>1, <1>5, <2>1, LeaveKeeps
<1>6. CASE t.to \in DOMAIN groups
  <2>1. GoesOn(w, t)
    BY <1>1, <1>2, <1>6, Proceeds DEF IInv
  <2>2. Len(t.todo) # 1 => t.from # t.to
    BY <1>2, <1>3, RowSteps DEF Known, KnowsMove
  <2> HIDE DEF t
  <2>3. ASSUME job'[w].todo # <<>> PROVE Known(job[w])'
    <3>1. /\ Head(job'[w].todo) = "unlist"
          /\ job'[w].todo # <<"list", "unlist">> /\ job'[w].todo # <<"dropGroups", "dropSub">>
          /\ job'[w].todo \in Adding => job'[w].sub \in SubRecords
          /\ job'[w].to = t.to /\ job'[w].from = t.from /\ job'[w].refs = t.refs
      BY <1>2, <2>1, <2>3, GoingOn DEF Follows, t
    <3>2. t.from # t.to
      BY <2>1, <2>2, <2>3 DEF GoesOn
    <3>3. t.to \in DOMAIN groups'
      BY <1>3, <1>4, <1>6
    <3>4. KnowsMove(job[w])'
      BY <1>4, <1>6, <3>1, <3>2, <3>3 DEF KnowsMove, Ahead
    <3>5. KnowsNodes(job[w])' /\ KnowsSub(job[w])' /\ KnowsOrphans(job[w])'
      BY <3>1 DEF KnowsNodes, KnowsSub, KnowsOrphans, Ahead
    <3> QED BY <3>4, <3>5 DEF Known
  <2> QED BY <1>1, <1>4, <2>1, <2>3, Ends DEF IInv, Typed
<1> QED BY <1>5, <1>6

(* A move, or an import, ends with its last transaction.                   *)
LEMMA UnlistKeeps ==
  ASSUME Single, IInv, NEW w \in Workers, UnlistRefs(w)
  PROVE  IInv'
<1> DEFINE t == job[w]
<1>1. /\ At(w, "unlist") /\ Done(w, t) /\ groups' = RemoveFromGroup(t.from, t.refs)
      /\ UNCHANGED <<servers, subs>>
  BY DEF UnlistRefs
<1>2. t \in Tasks /\ t.todo # <<>> /\ Head(t.todo) = "unlist"
  BY <1>1, Working
<1>3. GoesOn(w, t)
  BY <1>1, <1>2, Proceeds DEF IInv
<1>4. job'[w].todo = <<>>
  BY <1>2, <1>3 DEF GoesOn, Follows
<1>5. groups' \in Seq(GroupRecords)
  BY <1>1, TakenOut DEF IInv, Typed
<1> QED BY <1>1, <1>3, <1>4, <1>5, Ends DEF IInv, Typed

(* The groups of a cleanup's move are two, or there is no target.          *)
LEMMA RelocateKeeps ==
  ASSUME Single, IInv, NEW w \in Workers, Relocate(w)
  PROVE  IInv'
<1> DEFINE source == Place(groups, job[w].ids[1])
           target == Place(groups, job[w].goal)
           row == IF target = 0 THEN <<"unlist">> ELSE <<"list", "unlist">>
           t == [job[w] EXCEPT !.from = source, !.to = target, !.ids = <<>>, !.todo = row]
<1>1. At(w, "relocate") /\ UNCHANGED lists
  BY DEF Relocate
<1>2. job[w] \in Tasks /\ Ahead(job[w], "relocate") /\ Known(job[w])
  BY <1>1, Working
<1>3. job[w].ids[1] # job[w].goal /\ job[w].nodes = <<>>
  BY <1>2 DEF Known, KnowsMove, KnowsNodes
<1>4. /\ source \in Nat /\ target \in Nat
      /\ source # 0 => groups[source].id = job[w].ids[1]
      /\ target # 0 => groups[target].id = job[w].goal
  BY Found DEF IInv, Typed
<1>5. CASE source = 0
  BY <1>1, <1>5, LeaveKeeps DEF Relocate
<1>6. CASE source # 0
  <2>1. source # target
    <3> HIDE DEF source, target
    <3>1. CASE target = 0
      BY <1>6, <3>1
    <3>2. CASE target # 0
      BY <1>3, <1>4, <1>6, <3>2
    <3> QED BY <3>1, <3>2
  <2>2. Begin(w, t)
    BY <1>6 DEF Relocate, Begin
  <2> HIDE DEF source, target
  <2>3. /\ row \in Plans \ Adding /\ row # <<>> /\ row # <<"dropGroups", "dropSub">>
        /\ target = 0 => Head(row) = "unlist" /\ row # <<"list", "unlist">>
        /\ target # 0 => Head(row) = "list"
    BY RowHeads
  <2> HIDE DEF row
  <2>4. /\ t \in Tasks /\ t.todo = row /\ t.from = source /\ t.to = target /\ t.ids = <<>>
        /\ t.nodes = <<>>
    <3>1. job[w] \in Tasks /\ row \in Plans /\ source \in Nat /\ target \in Nat
      BY <1>2, <1>4, <2>3
    <3>2. <<>> \in Seq(GroupIds)
      OBVIOUS
    <3>3. t.nodes = job[w].nodes /\ t.todo = row /\ t.from = source /\ t.to = target /\ t.ids = <<>>
      BY <3>1 DEF Tasks
    <3>4. t \in Tasks
      BY <3>1, <3>2 DEF Tasks
    <3> QED BY <1>3, <3>3, <3>4
  <2> HIDE DEF t
  <2>5. KnowsNodes(t)
    BY <2>3, <2>4 DEF KnowsNodes, Ahead
  <2>6. KnowsMove(t)
    BY <2>1, <2>3, <2>4 DEF KnowsMove, Ahead
  <2>7. KnowsSub(t) /\ KnowsOrphans(t)
    BY <2>3, <2>4 DEF KnowsSub, KnowsOrphans, Ahead
  <2> QED BY <1>1, <2>2, <2>4, <2>5, <2>6, <2>7, Begins DEF Known
<1> QED BY <1>5, <1>6

(* A node is stored at the place it was read from, or not at all.          *)
LEMMA PutServerKeeps ==
  ASSUME Single, IInv, NEW w \in Workers, PutServer(w)
  PROVE  IInv'
<1> DEFINE t == job[w]
<1>1. /\ At(w, "putServer") /\ Done(w, t) /\ servers' = ListSet(servers, t.place, t.nodes[1])
      /\ UNCHANGED <<subs, groups>>
  BY DEF PutServer
<1>2. t \in Tasks /\ Known(t) /\ t.todo # <<>> /\ Head(t.todo) = "putServer" /\ Ahead(t, "putServer")
  BY <1>1, Working
<1>3. GoesOn(w, t)
  BY <1>1, <1>2, Proceeds DEF IInv
<1>4. job'[w].todo = <<>>
  BY <1>2, <1>3 DEF GoesOn, Follows
<1>5. t.nodes[1] \in Nodes
  BY <1>2 DEF Known, KnowsNodes, Tasks
<1>6. servers' \in Seq(Nodes)
  BY <1>1, <1>5, Replaced DEF IInv, Typed
<1> QED BY <1>1, <1>3, <1>4, <1>6, Ends DEF IInv, Typed

(* The group of a new subscription has the id of the subscription.         *)
LEMMA AppendGroupKeeps ==
  ASSUME Single, IInv, NEW w \in Workers, AppendGroup(w)
  PROVE  IInv'
<1> DEFINE t == job[w]
           g == [id |-> t.sub.id, refs |-> {}]
<1>1. At(w, "appendGroup") /\ Done(w, t) /\ groups' = Append(groups, g) /\ UNCHANGED <<servers, subs>>
  BY DEF AppendGroup
<1>2. t \in Tasks /\ Known(t) /\ t.todo # <<>> /\ Head(t.todo) = "appendGroup" /\ Ahead(t, "appendGroup")
  BY <1>1, Working
<1>3. t.sub \in SubRecords
  <2>1. t.todo \in Adding
    BY <1>2, RowSteps DEF Tasks
  <2> QED BY <1>2, <2>1 DEF Known, KnowsSub, Ahead
<1>4. g \in GroupRecords
  BY <1>3 DEF GroupRecords, GroupIds, SubRecords
<1>5. groups' \in Seq(GroupRecords)
  BY <1>1, <1>4 DEF IInv, Typed
<1>6. GoesOn(w, t)
  BY <1>1, <1>2, Proceeds DEF IInv
<1> HIDE DEF t
<1>7. ASSUME job'[w].todo # <<>> PROVE Known(job[w])'
  <2>1. /\ Head(job'[w].todo) = "appendSub"
        /\ job'[w].todo # <<"list", "unlist">> /\ job'[w].todo # <<"dropGroups", "dropSub">>
        /\ job'[w].sub = t.sub
    BY <1>2, <1>6, <1>7, GoingOn DEF Follows, t
  <2> QED BY <1>3, <2>1 DEF Known, KnowsNodes, KnowsMove, KnowsSub, KnowsOrphans, Ahead
<1> QED BY <1>1, <1>5, <1>6, <1>7, Ends DEF IInv, Typed

(* The new subscription is the last of its list.                           *)
LEMMA AppendSubscriptionKeeps ==
  ASSUME Single, IInv, NEW w \in Workers, AppendSubscription(w)
  PROVE  IInv'
<1> DEFINE t == job[w]
<1>1. At(w, "appendSub") /\ Done(w, t) /\ subs' = Append(subs, t.sub) /\ UNCHANGED <<servers, groups>>
  BY DEF AppendSubscription
<1>2. t \in Tasks /\ Known(t) /\ t.todo # <<>> /\ Head(t.todo) = "appendSub" /\ Ahead(t, "appendSub")
  BY <1>1, Working
<1>3. t.sub \in SubRecords
  <2>1. t.todo \in Adding
    BY <1>2, RowSteps DEF Tasks
  <2> QED BY <1>2, <2>1 DEF Known, KnowsSub, Ahead
<1>4. GoesOn(w, t)
  BY <1>1, <1>2, Proceeds DEF IInv
<1> HIDE DEF t
<1>5. subs' \in Seq(SubRecords) /\ subs' # <<>> /\ subs'[Len(subs')] = t.sub
  BY <1>1, <1>3 DEF IInv, Typed
<1>6. ASSUME job'[w].todo # <<>> PROVE Known(job[w])'
  <2>1. /\ Head(job'[w].todo) = "place"
        /\ job'[w].todo # <<"list", "unlist">> /\ job'[w].todo # <<"dropGroups", "dropSub">>
        /\ job'[w].sub = t.sub
    BY <1>2, <1>4, <1>6, GoingOn DEF Follows, t
  <2>2. KnowsSub(job[w])'
    BY <1>3, <1>5, <2>1 DEF KnowsSub, Ahead
  <2> QED BY <2>1, <2>2 DEF Known, KnowsNodes, KnowsMove, KnowsOrphans, Ahead
<1> QED BY <1>1, <1>4, <1>5, <1>6, Ends DEF IInv, Typed

(* The place taken is that of the subscription just added.                 *)
LEMMA TakePlaceKeeps ==
  ASSUME Single, IInv, NEW w \in Workers, TakePlace(w)
  PROVE  IInv'
<1> DEFINE t == [job[w] EXCEPT !.place = Len(subs)]
<1>1. At(w, "place") /\ Done(w, t) /\ UNCHANGED lists
  BY DEF TakePlace
<1>2. /\ job[w] \in Tasks /\ Known(job[w]) /\ Len(subs) \in Nat
      /\ job[w].todo # <<>> /\ Head(job[w].todo) = "place" /\ Ahead(job[w], "place")
  BY <1>1, Working
<1>3. /\ t \in Tasks /\ t.todo = job[w].todo /\ t.place = Len(subs) /\ t.sub = job[w].sub
  BY <1>2 DEF Tasks
<1>4. job[w].sub \in SubRecords
  <2>1. job[w].todo \in Adding
    BY <1>2, RowSteps DEF Tasks
  <2> QED BY <1>2, <2>1 DEF Known, KnowsSub, Ahead
<1>5. Len(subs) \in DOMAIN subs /\ subs[Len(subs)].id = job[w].sub.id
  BY <1>2 DEF Known, KnowsSub, IInv, Typed
<1> HIDE DEF t
<1>6. GoesOn(w, t)
  BY <1>1, <1>2, <1>3, Proceeds DEF IInv
<1>7. ASSUME job'[w].todo # <<>> PROVE Known(job[w])'
  <2>1. /\ Head(job'[w].todo) = "fetch"
        /\ job'[w].todo # <<"list", "unlist">> /\ job'[w].todo # <<"dropGroups", "dropSub">>
        /\ job'[w].sub = t.sub /\ job'[w].place = t.place
    BY <1>2, <1>3, <1>6, <1>7, GoingOn DEF Follows
  <2>2. UNCHANGED subs
    BY <1>1 DEF lists
  <2>3. KnowsSub(job[w])'
    BY <1>3, <1>4, <1>5, <2>1, <2>2 DEF KnowsSub, Ahead
  <2> QED BY <2>1, <2>3 DEF Known, KnowsNodes, KnowsMove, KnowsOrphans, Ahead
<1> QED BY <1>1, <1>6, <1>7, Ends DEF IInv, Typed, lists

(* A download changes the nodes of the subscription, not its id or place.  *)
LEMMA FetchKeeps ==
  ASSUME Single, IInv, NEW w \in Workers, Fetch(w)
  PROVE  IInv'
<1>1. At(w, "fetch") /\ UNCHANGED lists
  BY DEF Fetch
<1>2. /\ job[w] \in Tasks /\ Known(job[w])
      /\ job[w].todo # <<>> /\ Head(job[w].todo) = "fetch" /\ Ahead(job[w], "fetch")
  BY <1>1, Working
<1>3. job[w].sub \in SubRecords /\ job[w].place \in DOMAIN subs /\ subs[job[w].place].id = job[w].sub.id
  <2>1. job[w].todo \in Adding
    BY <1>2, RowSteps DEF Tasks
  <2> QED BY <1>2, <2>1 DEF Known, KnowsSub, Ahead
<1>4. CASE Leave(w)
  BY <1>1, <1>4, LeaveKeeps
<1>5. ASSUME NEW new \in Downloads, Done(w, [job[w] EXCEPT !.sub.nodes = new])
      PROVE  IInv'
  <2> DEFINE sub == [job[w].sub EXCEPT !.nodes = new]
             t == [job[w] EXCEPT !.sub = sub]
  <2>1. Done(w, t)
    BY <1>5
  <2>2. sub \in SubRecords /\ sub.id = job[w].sub.id
    BY <1>3 DEF SubRecords
  <2> HIDE DEF sub
  <2>3. t \in Tasks /\ t.todo = job[w].todo /\ t.sub = sub /\ t.place = job[w].place
    BY <1>2, <2>2 DEF Tasks
  <2> HIDE DEF t
  <2>4. GoesOn(w, t)
    BY <1>2, <2>1, <2>3, Proceeds DEF IInv
  <2>5. ASSUME job'[w].todo # <<>> PROVE Known(job[w])'
    <3>1. /\ Head(job'[w].todo) = "putSub"
          /\ job'[w].todo # <<"list", "unlist">> /\ job'[w].todo # <<"dropGroups", "dropSub">>
          /\ job'[w].sub = sub /\ job'[w].place = job[w].place
      BY <1>2, <2>2, <2>3, <2>4, <2>5, GoingOn DEF Follows
    <3>2. UNCHANGED subs
      BY <1>1 DEF lists
    <3>3. KnowsSub(job[w])'
      BY <1>3, <2>2, <3>1, <3>2 DEF KnowsSub, Ahead
    <3> QED BY <3>1, <3>3 DEF Known, KnowsNodes, KnowsMove, KnowsOrphans, Ahead
  <2> QED BY <1>1, <2>4, <2>5, Ends DEF IInv, Typed, lists
<1> QED BY <1>4, <1>5 DEF Fetch

(* A subscription is stored at its place.                                  *)
LEMMA PutSubscriptionKeeps ==
  ASSUME Single, IInv, NEW w \in Workers, PutSubscription(w)
  PROVE  IInv'
<1> DEFINE t == job[w]
<1>1. /\ At(w, "putSub") /\ Done(w, t) /\ subs' = ListSet(subs, t.place, t.sub)
      /\ UNCHANGED <<servers, groups>>
  BY DEF PutSubscription
<1>2. t \in Tasks /\ Known(t) /\ t.todo # <<>> /\ Head(t.todo) = "putSub" /\ Ahead(t, "putSub")
  BY <1>1, Working
<1>3. t.sub \in SubRecords
  <2>1. t.todo \in Adding
    BY <1>2, RowSteps DEF Tasks
  <2> QED BY <1>2, <2>1 DEF Known, KnowsSub, Ahead
<1>4. GoesOn(w, t)
  BY <1>1, <1>2, Proceeds DEF IInv
<1>5. subs' \in Seq(SubRecords)
  BY <1>1, <1>3, Replaced DEF IInv, Typed
<1> HIDE DEF t
<1>6. ASSUME job'[w].todo # <<>> PROVE Known(job[w])'
  <2>1. /\ Head(job'[w].todo) = "regroup"
        /\ job'[w].todo # <<"list", "unlist">> /\ job'[w].todo # <<"dropGroups", "dropSub">>
        /\ job'[w].sub = t.sub
    BY <1>2, <1>4, <1>6, GoingOn DEF Follows, t
  <2> QED BY <1>3, <2>1 DEF Known, KnowsNodes, KnowsMove, KnowsSub, KnowsOrphans, Ahead
<1> QED BY <1>1, <1>4, <1>5, <1>6, Ends DEF IInv, Typed

(* A group is rebuilt from the nodes its subscription has at its place.    *)
LEMMA RegroupKeeps ==
  ASSUME Single, IInv, NEW w \in Workers, Regroup(w)
  PROVE  IInv'
<1> DEFINE i == Place(groups, job[w].sub.id)
           refs == {<<job[w].place, j>> : j \in DOMAIN job[w].sub.nodes}
           g == [id |-> groups[i].id, refs |-> refs]
           t == [job[w] EXCEPT !.to = i, !.group = g]
<1>1. At(w, "regroup") /\ UNCHANGED lists /\ IF i = 0 THEN Leave(w) ELSE Done(w, t)
  BY DEF Regroup
<1>2. /\ job[w] \in Tasks /\ Known(job[w])
      /\ job[w].todo # <<>> /\ Head(job[w].todo) = "regroup" /\ Ahead(job[w], "regroup")
  BY <1>1, Working
<1>3. job[w].sub \in SubRecords
  <2>1. job[w].todo \in Adding
    BY <1>2, RowSteps DEF Tasks
  <2> QED BY <1>2, <2>1 DEF Known, KnowsSub, Ahead
<1>4. refs \in SUBSET Pairs
  <2>1. job[w].sub.nodes = <<>> \/ \E n \in Nodes : job[w].sub.nodes = <<n>>
    BY <1>3 DEF SubRecords, Downloads
  <2>2. DOMAIN job[w].sub.nodes \subseteq Nat \ {0}
    BY <2>1
  <2> QED BY <1>2, <2>2 DEF Pairs, Tasks
<1>5. i \in Nat /\ (i # 0 => i \in DOMAIN groups)
  BY Found DEF IInv, Typed
<1> HIDE DEF i, refs
<1>6. CASE i = 0
  BY <1>1, <1>6, LeaveKeeps
<1>7. CASE i # 0
  <2>1. groups[i] \in GroupRecords
    BY <1>5, <1>7 DEF IInv, Typed
  <2>2. g \in GroupRecords
    BY <1>4, <2>1 DEF GroupRecords
  <2> HIDE DEF g
  <2>3. t \in Tasks /\ t.todo = job[w].todo /\ t.sub = job[w].sub /\ t.group = g
    BY <1>2, <1>5, <2>2 DEF Tasks
  <2>4. Done(w, t)
    BY <1>1, <1>7
  <2> HIDE DEF t
  <2>5. GoesOn(w, t)
    BY <1>2, <2>3, <2>4, Proceeds DEF IInv
  <2>6. ASSUME job'[w].todo # <<>> PROVE Known(job[w])'
    <3>1. /\ Head(job'[w].todo) = "putGroup"
          /\ job'[w].todo # <<"list", "unlist">> /\ job'[w].todo # <<"dropGroups", "dropSub">>
          /\ job'[w].group = g
      BY <1>2, <2>3, <2>5, <2>6, GoingOn DEF Follows
    <3> QED BY <2>2, <2>6, <3>1 DEF Known, KnowsNodes, KnowsMove, KnowsSub, KnowsOrphans, Ahead
  <2> QED BY <1>1, <2>5, <2>6, Ends DEF IInv, Typed, lists
<1> QED BY <1>6, <1>7

(* A group is stored, and the request is done.                             *)
LEMMA PutGroupKeeps ==
  ASSUME Single, IInv, NEW w \in Workers, PutGroup(w)
  PROVE  IInv'
<1> DEFINE t == job[w]
<1>1. /\ At(w, "putGroup") /\ Done(w, t) /\ groups' = ListSet(groups, t.to, t.group)
      /\ UNCHANGED <<servers, subs>>
  BY DEF PutGroup
<1>2. t \in Tasks /\ Known(t) /\ t.todo # <<>> /\ Head(t.todo) = "putGroup" /\ Ahead(t, "putGroup")
  BY <1>1, Working
<1>3. GoesOn(w, t)
  BY <1>1, <1>2, Proceeds DEF IInv
<1>4. job'[w].todo = <<>>
  BY <1>2, <1>3 DEF GoesOn, Follows
<1>5. t.group \in GroupRecords
  BY <1>2 DEF Known, KnowsSub
<1>6. groups' \in Seq(GroupRecords)
  BY <1>1, <1>5, Replaced DEF IInv, Typed
<1> QED BY <1>1, <1>3, <1>4, <1>6, Ends DEF IInv, Typed

(* A deletion goes on to the groups, and was told which.                   *)
LEMMA DropSubscriptionKeeps ==
  ASSUME Single, IInv, NEW w \in Workers, DropSubscription(w)
  PROVE  IInv'
<1> DEFINE t == job[w]
<1>1. /\ At(w, "dropSub") /\ Done(w, t) /\ subs' = ListRemove(subs, {t.place})
      /\ UNCHANGED <<servers, groups>>
  BY DEF DropSubscription
<1>2. t \in Tasks /\ Known(t) /\ t.todo # <<>> /\ Head(t.todo) = "dropSub" /\ Ahead(t, "dropSub")
  BY <1>1, Working
<1>3. GoesOn(w, t)
  BY <1>1, <1>2, Proceeds DEF IInv
<1>4. t.ids = <<>>
  BY <1>2 DEF Known, KnowsOrphans
<1>5. subs' \in Seq(SubRecords)
  BY <1>1, Removed DEF IInv, Typed
<1> HIDE DEF t
<1>6. ASSUME job'[w].todo # <<>> PROVE Known(job[w])'
  <2>1. /\ Head(job'[w].todo) = "dropGroups"
        /\ job'[w].todo # <<"list", "unlist">> /\ job'[w].todo # <<"dropGroups", "dropSub">>
        /\ job'[w].todo \in Adding => job'[w].sub \in SubRecords
        /\ job'[w].ids = <<>>
    BY <1>2, <1>3, <1>4, <1>6, GoingOn DEF Follows, t
  <2> QED BY <2>1 DEF Known, KnowsNodes, KnowsMove, KnowsSub, KnowsOrphans, Ahead
<1> QED BY <1>1, <1>3, <1>5, <1>6, Ends DEF IInv, Typed

(* The nodes of a deleted group go before the group.                       *)
LEMMA DropNodesKeeps ==
  ASSUME Single, IInv, NEW w \in Workers, DropNodes(w)
  PROVE  IInv'
<1> DEFINE t == job[w]
<1>1. /\ At(w, "dropNodes") /\ Done(w, t) /\ UNCHANGED <<subs, groups>>
      /\ servers' = ListRemove(servers, {ref[2] : ref \in {r \in t.refs : r[1] = 0}})
  BY DEF DropNodes
<1>2. t \in Tasks /\ Known(t) /\ t.todo # <<>> /\ Head(t.todo) = "dropNodes" /\ Ahead(t, "dropNodes")
  BY <1>1, Working
<1>3. GoesOn(w, t)
  BY <1>1, <1>2, Proceeds DEF IInv
<1>4. t.ids = <<>>
  BY <1>2 DEF Known, KnowsOrphans
<1>5. servers' \in Seq(Nodes)
  BY <1>1, Removed DEF IInv, Typed
<1> HIDE DEF t
<1>6. ASSUME job'[w].todo # <<>> PROVE Known(job[w])'
  <2>1. /\ Head(job'[w].todo) = "dropGroups"
        /\ job'[w].todo # <<"list", "unlist">> /\ job'[w].todo # <<"dropGroups", "dropSub">>
        /\ job'[w].todo \in Adding => job'[w].sub \in SubRecords
        /\ job'[w].ids = <<>>
    BY <1>2, <1>3, <1>4, <1>6, GoingOn DEF Follows, t
  <2> QED BY <2>1 DEF Known, KnowsNodes, KnowsMove, KnowsSub, KnowsOrphans, Ahead
<1> QED BY <1>1, <1>3, <1>5, <1>6, Ends DEF IInv, Typed

(* Only the deletion of a subscription goes on after its group.            *)
LEMMA DropGroupsKeeps ==
  ASSUME Single, IInv, NEW w \in Workers, DropGroups(w)
  PROVE  IInv'
<1> DEFINE t == job[w]
<1>1. /\ At(w, "dropGroups") /\ Done(w, t) /\ groups' = ListRemove(groups, t.drop)
      /\ UNCHANGED <<servers, subs>>
  BY DEF DropGroups
<1>2. t \in Tasks /\ Known(t) /\ t.todo # <<>> /\ Head(t.todo) = "dropGroups" /\ Ahead(t, "dropGroups")
  BY <1>1, Working
<1>3. GoesOn(w, t)
  BY <1>1, <1>2, Proceeds DEF IInv
<1>4. Len(t.todo) # 1 => t.ids = <<>>
  <2>1. Len(t.todo) # 1 => t.todo = <<"dropGroups", "dropSub">>
    BY <1>2, RowSteps DEF Tasks
  <2> QED BY <1>2, <2>1 DEF Known, KnowsOrphans
<1>5. groups' \in Seq(GroupRecords)
  BY <1>1, Removed DEF IInv, Typed
<1> HIDE DEF t
<1>6. ASSUME job'[w].todo # <<>> PROVE Known(job[w])'
  <2>1. /\ Head(job'[w].todo) = "dropSub"
        /\ job'[w].todo # <<"list", "unlist">> /\ job'[w].todo # <<"dropGroups", "dropSub">>
        /\ job'[w].todo \in Adding => job'[w].sub \in SubRecords
        /\ job'[w].ids = t.ids
    BY <1>2, <1>3, <1>6, GoingOn DEF Follows, t
  <2>2. t.ids = <<>>
    BY <1>3, <1>4, <1>6 DEF GoesOn
  <2> QED BY <2>1, <2>2 DEF Known, KnowsNodes, KnowsMove, KnowsSub, KnowsOrphans, Ahead
<1> QED BY <1>1, <1>3, <1>5, <1>6, Ends DEF IInv, Typed

(* The places of the orphans are those of the groups read.                 *)
LEMMA FindOrphansKeeps ==
  ASSUME Single, IInv, NEW w \in Workers, FindOrphans(w)
  PROVE  IInv'
<1> DEFINE orphan == {k \in DOMAIN job[w].ids :
                        job[w].ids[k] \in Subs /\ Place(subs, job[w].ids[k]) = 0}
           t == [job[w] EXCEPT !.drop = orphan]
<1>1. At(w, "orphans") /\ UNCHANGED lists /\ IF orphan = {} THEN Leave(w) ELSE Done(w, t)
  BY DEF FindOrphans
<1>2. /\ job[w] \in Tasks /\ Known(job[w])
      /\ job[w].todo # <<>> /\ Head(job[w].todo) = "orphans" /\ Ahead(job[w], "orphans")
  BY <1>1, Working
<1>3. Agree(job[w].ids)
  BY <1>2 DEF Known, KnowsOrphans
<1>4. orphan \in SUBSET Nat
  BY <1>2 DEF Tasks
<1>5. CASE orphan = {}
  BY <1>1, <1>5, LeaveKeeps
<1>6. CASE orphan # {}
  <2>1. Done(w, t)
    BY <1>1, <1>6
  <2>2. orphan = {k \in DOMAIN job[w].ids :
                    job[w].ids[k] \in Subs /\ Place(subs, job[w].ids[k]) = 0}
    OBVIOUS
  <2> HIDE DEF orphan
  <2>3. /\ t \in Tasks /\ t.todo = job[w].todo /\ t.sub = job[w].sub
        /\ t.drop = orphan /\ t.ids = job[w].ids
    BY <1>2, <1>4 DEF Tasks
  <2> HIDE DEF t
  <2>4. GoesOn(w, t)
    BY <1>2, <2>1, <2>3, Proceeds DEF IInv
  <2>5. ASSUME job'[w].todo # <<>> PROVE Known(job[w])'
    <3>1. /\ Head(job'[w].todo) = "dropGroups"
          /\ job'[w].todo # <<"list", "unlist">> /\ job'[w].todo # <<"dropGroups", "dropSub">>
          /\ job'[w].todo \in Adding => job'[w].sub \in SubRecords
          /\ job'[w].ids = job[w].ids /\ job'[w].drop = orphan
      BY <1>2, <2>3, <2>4, <2>5, GoingOn DEF Follows
    <3>2. Agree(job[w].ids)'
      BY <1>1, <1>3, <3>1 DEF Agree, lists
    <3>3. UNCHANGED subs
      BY <1>1 DEF lists
    <3>4. job'[w].drop = {k \in DOMAIN job'[w].ids :
                            job'[w].ids[k] \in Subs /\ Place(subs', job'[w].ids[k]) = 0}
      BY <2>2, <3>1, <3>3
    <3>5. KnowsOrphans(job[w])'
      BY <3>1, <3>2, <3>4 DEF KnowsOrphans, Ahead
    <3> QED BY <3>1, <3>5 DEF Known, KnowsNodes, KnowsMove, KnowsSub, Ahead
  <2> QED BY <1>1, <2>4, <2>5, Ends DEF IInv, Typed, lists
<1> QED BY <1>5, <1>6

-----------------------------------------------------------------------------
(* What is listed stands for nodes, and in a place that can be written     *)
(* down.                                                                   *)
LEMMA RefsArePairs ==
  ASSUME Typed
  PROVE  /\ Refs \subseteq Pairs
         /\ \A i \in DOMAIN groups : groups[i].refs \subseteq Pairs
         /\ \A ref : Snapshot(ref) \subseteq Nodes /\ IsFiniteSet(Snapshot(ref))
<1>1. \A k \in DOMAIN subs : k \in Nat /\ subs[k].nodes \in Seq(Nodes) /\ DOMAIN subs[k].nodes \subseteq Nat \ {0}
  <2> SUFFICES ASSUME NEW k \in DOMAIN subs
               PROVE  /\ k \in Nat /\ subs[k].nodes \in Seq(Nodes)
                      /\ DOMAIN subs[k].nodes \subseteq Nat \ {0}
    OBVIOUS
  <2>1. k \in Nat /\ subs[k] \in SubRecords
    BY DEF Typed
  <2>2. subs[k].nodes = <<>> \/ \E n \in Nodes : subs[k].nodes = <<n>>
    BY <2>1 DEF SubRecords, Downloads
  <2>3. <<>> \in Seq(Nodes) /\ DOMAIN <<>> = {}
    OBVIOUS
  <2>4. \A n \in Nodes : <<n>> \in Seq(Nodes) /\ DOMAIN <<n>> = {1}
    OBVIOUS
  <2>5. {} \subseteq Nat \ {0} /\ {1} \subseteq Nat \ {0}
    OBVIOUS
  <2>6. CASE subs[k].nodes = <<>>
    BY <2>1, <2>3, <2>5, <2>6
  <2>7. CASE \E n \in Nodes : subs[k].nodes = <<n>>
    <3>1. PICK n \in Nodes : subs[k].nodes = <<n>>
      BY <2>7
    <3> QED BY <2>1, <2>4, <2>5, <3>1, Zenon
  <2> QED BY <2>2, <2>6, <2>7
<1>2. Refs \subseteq Pairs
  <2>1. DOMAIN servers \subseteq Nat \ {0}
    BY DEF Typed
  <2> QED BY <1>1, <2>1 DEF Refs, Pairs
<1>3. \A i \in DOMAIN groups : groups[i].refs \subseteq Pairs
  <2>1. \A i \in DOMAIN groups : groups[i] \in GroupRecords
    BY DEF Typed
  <2> QED BY <2>1 DEF GroupRecords
<1>4. ASSUME NEW ref PROVE Snapshot(ref) \subseteq Nodes /\ IsFiniteSet(Snapshot(ref))
  <2>1. \A i \in DOMAIN servers : servers[i] \in Nodes
    BY DEF Typed
  <2>2. \A k \in DOMAIN subs : \A i \in DOMAIN subs[k].nodes : subs[k].nodes[i] \in Nodes
    BY <1>1
  <2>3. Snapshot(ref) = {} \/ \E n \in Nodes : Snapshot(ref) = {n}
    BY <2>1, <2>2 DEF Snapshot
  <2> QED BY <2>3, FS_EmptySet, FS_Singleton
<1> QED BY <1>2, <1>3, <1>4

(* The nodes of a finite set, in a row.                                    *)
LEMMA InARow ==
  ASSUME NEW S \in SUBSET Nodes, IsFiniteSet(S)
  PROVE  SetToSeq(S) \in Seq(Nodes)
<1>1. Cardinality(S) \in Nat /\ ExistsBijection(1 .. Cardinality(S), S)
  BY FS_CardinalityType
<1>2. PICK f : f \in Bijection(1 .. Cardinality(S), S)
  BY <1>1 DEF ExistsBijection
<1>3. f \in [1 .. Cardinality(S) -> S] /\ IsInjective(f)
  BY <1>2 DEF Bijection, Injection
<1>4. SetToSeq(S) \in [1 .. Cardinality(S) -> S]
  BY <1>3 DEF SetToSeq
<1> QED BY <1>1, <1>4

(* A request of one transaction leaves the worker idle.                    *)
LEMMA StaysIdle ==
  ASSUME Single, IInv, NEW w \in Workers, IsIdle(w), UNCHANGED job,
         servers' \in Seq(Nodes), subs' \in Seq(SubRecords), groups' \in Seq(GroupRecords)
  PROVE  IInv'
<1>1. GoesOn(w, Idle) /\ job'[w].todo = <<>>
  BY DEF IsIdle, GoesOn, IInv, Typed
<1> QED BY <1>1, Ends

(* A task that has counted nothing yet knows nothing.                      *)
LEMMA ImportStarts ==
  ASSUME Single, IInv, NEW w \in Workers, NEW new \in Seq(Nodes), NEW goal \in GroupIds,
         ImportAuto(w, new, goal)
  PROVE  IInv'
<1> DEFINE row == <<"count", "append", "find", "list">>
           t == [Idle EXCEPT !.todo = row, !.nodes = new, !.goal = goal]
<1>1. Begin(w, t) /\ UNCHANGED lists
  BY DEF ImportAuto
<1>2. row \in Plans \ Adding /\ row # <<>> /\ Head(row) = "count"
  BY RowHeads
<1>3. row # <<"list", "unlist">> /\ row # <<"dropGroups", "dropSub">>
  OBVIOUS
<1> HIDE DEF row
<1>4. t \in Tasks /\ t.todo = row
  BY <1>2, IdleTask DEF Tasks
<1> HIDE DEF t
<1>5. Known(t)
  BY <1>2, <1>3, <1>4 DEF Known, KnowsNodes, KnowsMove, KnowsSub, KnowsOrphans, Ahead
<1> QED BY <1>1, <1>4, <1>5, Begins

(* A copy appends the nodes the group has not, or lists what is there.     *)
LEMMA CopyStarts ==
  ASSUME Single, IInv, NEW w \in Workers, NEW goal \in GroupIds, NEW clone \in BOOLEAN,
         NEW r \in Refs, NEW q \in Refs, CopyServersToGroup(w, {r, q}, goal, clone)
  PROVE  IInv'
<1> DEFINE from == {r, q}
           i == Place(groups, goal)
           new == {n \in UNION {Snapshot(ref) : ref \in from} : ~GroupHas(i, n)}
           nodes == SetToSeq(new)
           long == <<"count", "append", "list">>
           t == [Idle EXCEPT !.todo = long, !.nodes = nodes, !.to = i]
           u == [Idle EXCEPT !.todo = <<"list">>, !.refs = from, !.to = i]
<1>1. (Begin(w, t) \/ Begin(w, u)) /\ UNCHANGED lists
  BY DEF CopyServersToGroup
<1>2. i \in Nat
  BY Found DEF IInv, Typed
<1>3. nodes \in Seq(Nodes)
  <2>1. /\ Snapshot(r) \subseteq Nodes /\ IsFiniteSet(Snapshot(r))
        /\ Snapshot(q) \subseteq Nodes /\ IsFiniteSet(Snapshot(q))
    BY RefsArePairs DEF IInv
  <2>2. IsFiniteSet(Snapshot(r) \union Snapshot(q))
    BY <2>1, FS_Union
  <2>3. new \in SUBSET (Snapshot(r) \union Snapshot(q))
    OBVIOUS
  <2>4. IsFiniteSet(new) /\ new \in SUBSET Nodes
    BY <2>1, <2>2, <2>3, FS_Subset
  <2> QED BY <2>4, InARow
<1>4. from \in SUBSET Pairs
  BY RefsArePairs DEF IInv
<1> HIDE DEF i, nodes, from
<1>5. CASE Begin(w, t)
  <2>1. long \in Plans \ Adding /\ long # <<>> /\ Head(long) = "count"
    BY RowHeads
  <2>2. long # <<"list", "unlist">> /\ long # <<"dropGroups", "dropSub">>
    OBVIOUS
  <2> HIDE DEF long
  <2>3. t \in Tasks /\ t.todo = long
    BY <1>2, <1>3, <2>1, IdleTask DEF Tasks
  <2> HIDE DEF t
  <2>4. Known(t)
    BY <2>1, <2>2, <2>3 DEF Known, KnowsNodes, KnowsMove, KnowsSub, KnowsOrphans, Ahead
  <2> QED BY <1>1, <1>5, <2>3, <2>4, Begins
<1>6. CASE Begin(w, u)
  <2> DEFINE row == <<"list">>
  <2>1. /\ row \in Plans \ Adding /\ row # <<>> /\ Head(row) = "list"
        /\ row # <<"list", "unlist">> /\ row # <<"dropGroups", "dropSub">>
    BY RowHeads
  <2> HIDE DEF row
  <2>2. u = [Idle EXCEPT !.todo = row, !.refs = from, !.to = i]
    BY DEF row
  <2> HIDE DEF u
  <2>3. u \in Tasks /\ u.todo = row /\ u.nodes = <<>>
    BY <1>2, <1>4, <2>1, <2>2, IdleTask DEF Tasks, Idle
  <2>4. KnowsNodes(u)
    BY <2>1, <2>3 DEF KnowsNodes, Ahead
  <2>5. KnowsMove(u) /\ KnowsSub(u) /\ KnowsOrphans(u)
    BY <2>1, <2>3 DEF KnowsMove, KnowsSub, KnowsOrphans, Ahead
  <2> QED BY <1>1, <1>6, <2>3, <2>4, <2>5, Begins DEF Known
<1> QED BY <1>1, <1>5, <1>6

(* A move goes from one group to another, and names no new nodes.          *)
LEMMA MoveStarts ==
  ASSUME Single, IInv, NEW w \in Workers, NEW refs \in SUBSET Pairs, NEW source, NEW target,
         MoveServersToGroup(w, refs, source, target)
  PROVE  IInv'
<1> DEFINE from == Place(groups, source)
           to == Place(groups, target)
           row == <<"list", "unlist">>
           t == [Idle EXCEPT !.todo = row, !.refs = refs, !.from = from, !.to = to]
<1>1. Begin(w, t) /\ UNCHANGED lists /\ source # target /\ from # 0 /\ to # 0
  BY DEF MoveServersToGroup
<1>2. /\ from \in Nat /\ groups[from].id = source
      /\ to \in Nat /\ groups[to].id = target
  BY <1>1, Found DEF IInv, Typed
<1>3. from # to
  BY <1>1, <1>2
<1> HIDE DEF from, to
<1>4. row \in Plans \ Adding /\ row # <<>> /\ Head(row) = "list" /\ row # <<"dropGroups", "dropSub">>
  BY RowHeads
<1> HIDE DEF row
<1>5. t \in Tasks /\ t.todo = row /\ t.from = from /\ t.to = to /\ t.nodes = <<>>
  BY <1>2, <1>4, IdleTask DEF Tasks, Idle
<1> HIDE DEF t
<1>6. KnowsNodes(t)
  BY <1>4, <1>5 DEF KnowsNodes, Ahead
<1>7. KnowsMove(t) /\ KnowsSub(t) /\ KnowsOrphans(t)
  BY <1>3, <1>4, <1>5 DEF KnowsMove, KnowsSub, KnowsOrphans, Ahead
<1> QED BY <1>1, <1>5, <1>6, <1>7, Begins DEF Known

(* A cleanup of failed nodes moves them to another group than theirs.      *)
LEMMA CleanupStarts ==
  ASSUME Single, IInv, NEW w \in Workers, NEW i \in DOMAIN groups, NEW refs \in SUBSET Pairs,
         NEW recycle \in GroupIds, CleanupInvalidNodes(w, i, refs, recycle)
  PROVE  IInv'
<1> DEFINE row == <<"relocate", "list", "unlist">>
           ids == <<groups[i].id>>
           t == [Idle EXCEPT !.todo = row, !.refs = refs, !.ids = ids, !.goal = recycle]
<1>1. Begin(w, t) /\ UNCHANGED lists /\ groups[i].id # recycle
  BY DEF CleanupInvalidNodes
<1>2. groups[i].id \in GroupIds
  <2>1. groups[i] \in GroupRecords
    BY DEF IInv, Typed
  <2> QED BY <2>1 DEF GroupRecords
<1>3. ids \in Seq(GroupIds) /\ ids # <<>> /\ ids[1] # recycle
  BY <1>1, <1>2
<1> HIDE DEF ids
<1>4. row \in Plans \ Adding /\ row # <<>> /\ Head(row) = "relocate"
  BY RowHeads
<1>5. row # <<"list", "unlist">> /\ row # <<"dropGroups", "dropSub">>
  OBVIOUS
<1> HIDE DEF row
<1>6. t \in Tasks /\ t.todo = row /\ t.ids = ids /\ t.goal = recycle /\ t.nodes = <<>>
  BY <1>3, <1>4, IdleTask DEF Tasks, Idle
<1> HIDE DEF t
<1>7. KnowsNodes(t)
  BY <1>4, <1>5, <1>6 DEF KnowsNodes, Ahead
<1>8. KnowsMove(t) /\ KnowsSub(t) /\ KnowsOrphans(t)
  BY <1>3, <1>4, <1>5, <1>6 DEF KnowsMove, KnowsSub, KnowsOrphans, Ahead
<1> QED BY <1>1, <1>6, <1>7, <1>8, Begins DEF Known

(* An edit has the node it will store.                                     *)
LEMMA EditStarts ==
  ASSUME Single, IInv, NEW w \in Workers, NEW i, NEW node \in Nodes, EditServer(w, i, node)
  PROVE  IInv'
<1> DEFINE row == <<"putServer">>
           t == [Idle EXCEPT !.todo = row, !.place = i, !.nodes = <<node>>]
<1>1. Begin(w, t) /\ UNCHANGED lists /\ i \in DOMAIN servers
  BY DEF EditServer
<1>2. i \in Nat
  BY <1>1 DEF IInv, Typed
<1>3. <<node>> \in Seq(Nodes) /\ <<node>> # <<>>
  OBVIOUS
<1>4. row \in Plans \ Adding /\ row # <<>> /\ Head(row) = "putServer"
  BY RowHeads
<1>5. row # <<"list", "unlist">> /\ row # <<"dropGroups", "dropSub">>
  OBVIOUS
<1> HIDE DEF row
<1>6. t \in Tasks /\ t.todo = row /\ t.nodes # <<>>
  BY <1>2, <1>3, <1>4, IdleTask DEF Tasks
<1> HIDE DEF t
<1>7. Known(t)
  BY <1>4, <1>5, <1>6 DEF Known, KnowsNodes, KnowsMove, KnowsSub, KnowsOrphans, Ahead
<1> QED BY <1>1, <1>6, <1>7, Begins

(* A new subscription has its record before it has a place.                *)
LEMMA AddStarts ==
  ASSUME Single, IInv, NEW w \in Workers, NEW s \in Subs, AddSubscription(w, s)
  PROVE  IInv'
<1> DEFINE row == <<"appendGroup", "appendSub", "place", "fetch", "putSub", "regroup", "putGroup">>
           sub == [id |-> s, nodes |-> <<>>]
           t == [Idle EXCEPT !.todo = row, !.sub = sub]
<1>1. Begin(w, t) /\ UNCHANGED lists
  BY DEF AddSubscription
<1>2. sub \in SubRecords
  BY DEF SubRecords, Downloads
<1> HIDE DEF sub
<1>3. row \in Plans /\ row # <<>> /\ Head(row) = "appendGroup"
  BY RowHeads
<1>4. row # <<"list", "unlist">> /\ row # <<"dropGroups", "dropSub">>
  OBVIOUS
<1> HIDE DEF row
<1>5. t \in Tasks /\ t.todo = row /\ t.sub = sub
  BY <1>2, <1>3, IdleTask DEF Tasks
<1> HIDE DEF t
<1>6. Known(t)
  BY <1>2, <1>3, <1>4, <1>5 DEF Known, KnowsNodes, KnowsMove, KnowsSub, KnowsOrphans, Ahead
<1> QED BY <1>1, <1>5, <1>6, Begins

(* A refresh knows the place and the id of what it refreshes.              *)
LEMMA RefreshStarts ==
  ASSUME Single, IInv, NEW w \in Workers, NEW k, UpdateSubscriptionNodes(w, k)
  PROVE  IInv'
<1> DEFINE row == <<"fetch", "putSub", "regroup", "putGroup">>
           t == [Idle EXCEPT !.todo = row, !.place = k, !.sub = subs[k]]
<1>1. Begin(w, t) /\ UNCHANGED lists /\ k \in DOMAIN subs
  BY DEF UpdateSubscriptionNodes
<1>2. k \in Nat /\ subs[k] \in SubRecords
  BY <1>1 DEF IInv, Typed
<1>3. row \in Plans /\ row # <<>> /\ Head(row) = "fetch"
  BY RowHeads
<1>4. row # <<"list", "unlist">> /\ row # <<"dropGroups", "dropSub">>
  OBVIOUS
<1> HIDE DEF row
<1>5. t \in Tasks /\ t.todo = row /\ t.sub = subs[k] /\ t.place = k
  BY <1>2, <1>3, IdleTask DEF Tasks
<1> HIDE DEF t
<1>6. KnowsSub(t)
  BY <1>1, <1>2, <1>3, <1>5 DEF KnowsSub, Ahead
<1>7. KnowsNodes(t) /\ KnowsMove(t) /\ KnowsOrphans(t)
  BY <1>3, <1>4, <1>5 DEF KnowsNodes, KnowsMove, KnowsOrphans, Ahead
<1> QED BY <1>1, <1>5, <1>6, <1>7, Begins DEF Known

(* So does an edit of a subscription.                                      *)
LEMMA EditSubscriptionStarts ==
  ASSUME Single, IInv, NEW w \in Workers, NEW k, NEW nodes \in Downloads,
         EditSubscription(w, k, nodes)
  PROVE  IInv'
<1> DEFINE row == <<"putSub">>
           sub == [id |-> subs[k].id, nodes |-> nodes]
           t == [Idle EXCEPT !.todo = row, !.place = k, !.sub = sub]
<1>1. Begin(w, t) /\ UNCHANGED lists /\ k \in DOMAIN subs
  BY DEF EditSubscription
<1>2. k \in Nat /\ sub \in SubRecords /\ sub.id = subs[k].id
  <2>1. k \in Nat /\ subs[k] \in SubRecords
    BY <1>1 DEF IInv, Typed
  <2> QED BY <2>1 DEF SubRecords
<1> HIDE DEF sub
<1>3. row \in Plans /\ row # <<>> /\ Head(row) = "putSub"
  BY RowHeads
<1>4. row # <<"list", "unlist">> /\ row # <<"dropGroups", "dropSub">>
  OBVIOUS
<1> HIDE DEF row
<1>5. t \in Tasks /\ t.todo = row /\ t.sub = sub /\ t.place = k
  BY <1>2, <1>3, IdleTask DEF Tasks
<1> HIDE DEF t
<1>6. KnowsSub(t)
  BY <1>1, <1>2, <1>3, <1>5 DEF KnowsSub, Ahead
<1>7. KnowsNodes(t) /\ KnowsMove(t) /\ KnowsOrphans(t)
  BY <1>3, <1>4, <1>5 DEF KnowsNodes, KnowsMove, KnowsOrphans, Ahead
<1> QED BY <1>1, <1>5, <1>6, <1>7, Begins DEF Known

(* A deletion has read no ids.                                             *)
LEMMA DeleteSubscriptionStarts ==
  ASSUME Single, IInv, NEW w \in Workers, NEW k, DeleteSubscription(w, k)
  PROVE  IInv'
<1> DEFINE row == <<"dropGroups", "dropSub">>
           i == Place(groups, subs[k].id)
           t == [Idle EXCEPT !.todo = row, !.place = k, !.drop = {i} \ {0}]
<1>1. Begin(w, t) /\ UNCHANGED lists /\ k \in DOMAIN subs
  BY DEF DeleteSubscription
<1>2. k \in Nat /\ i \in Nat
  BY <1>1, Found DEF IInv, Typed
<1> HIDE DEF i
<1>3. row \in Plans \ Adding /\ row # <<>> /\ Head(row) = "dropGroups" /\ row # <<"list", "unlist">>
  BY RowHeads
<1> HIDE DEF row
<1>4. t \in Tasks /\ t.todo = row /\ t.ids = <<>>
  BY <1>2, <1>3, IdleTask DEF Tasks, Idle
<1> HIDE DEF t
<1>5. Known(t)
  BY <1>3, <1>4 DEF Known, KnowsNodes, KnowsMove, KnowsSub, KnowsOrphans, Ahead
<1> QED BY <1>1, <1>4, <1>5, Begins

(* A group is renamed with the references it has.                          *)
LEMMA UpdateGroupStarts ==
  ASSUME Single, IInv, NEW w \in Workers, NEW i, UpdateGroup(w, i)
  PROVE  IInv'
<1> DEFINE row == <<"putGroup">>
           t == [Idle EXCEPT !.todo = row, !.to = i, !.group = groups[i]]
<1>1. Begin(w, t) /\ UNCHANGED lists /\ i \in DOMAIN groups
  BY DEF UpdateGroup
<1>2. i \in Nat /\ groups[i] \in GroupRecords
  BY <1>1 DEF IInv, Typed
<1>3. row \in Plans /\ row # <<>> /\ Head(row) = "putGroup"
  BY RowHeads
<1>4. row # <<"list", "unlist">> /\ row # <<"dropGroups", "dropSub">>
  OBVIOUS
<1> HIDE DEF row
<1>5. t \in Tasks /\ t.todo = row /\ t.group = groups[i]
  BY <1>2, <1>3, IdleTask DEF Tasks
<1> HIDE DEF t
<1>6. KnowsSub(t)
  BY <1>2, <1>3, <1>5 DEF KnowsSub, Ahead
<1>7. KnowsNodes(t) /\ KnowsMove(t) /\ KnowsOrphans(t)
  BY <1>3, <1>4, <1>5 DEF KnowsNodes, KnowsMove, KnowsOrphans, Ahead
<1> QED BY <1>1, <1>5, <1>6, <1>7, Begins DEF Known

(* The deletion of a group has read no ids either.                         *)
LEMMA DeleteGroupStarts ==
  ASSUME Single, IInv, NEW w \in Workers, NEW i, DeleteGroup(w, i)
  PROVE  IInv'
<1> DEFINE place == Place(subs, groups[i].id)
           sub == <<"dropSub", "dropGroups">>
           own == <<"dropNodes", "dropGroups">>
           t == [Idle EXCEPT !.todo = sub, !.drop = {i}, !.place = place]
           u == [Idle EXCEPT !.todo = own, !.drop = {i}, !.refs = groups[i].refs]
<1>1. (Begin(w, t) \/ Begin(w, u)) /\ UNCHANGED lists /\ i \in DOMAIN groups
  BY DEF DeleteGroup
<1>2. i \in Nat /\ groups[i] \in GroupRecords /\ place \in Nat
  BY <1>1, Found DEF IInv, Typed
<1>3. {i} \in SUBSET Nat /\ groups[i].refs \in SUBSET Pairs
  BY <1>2 DEF GroupRecords
<1> HIDE DEF place
<1>4. CASE Begin(w, t)
  <2>1. sub \in Plans \ Adding /\ sub # <<>> /\ Head(sub) = "dropSub"
    BY RowHeads
  <2>2. sub # <<"list", "unlist">>
    OBVIOUS
  <2> HIDE DEF sub
  <2>3. t \in Tasks /\ t.todo = sub /\ t.ids = <<>>
    BY <1>2, <1>3, <2>1, IdleTask DEF Tasks, Idle
  <2> HIDE DEF t
  <2>4. Known(t)
    BY <2>1, <2>2, <2>3 DEF Known, KnowsNodes, KnowsMove, KnowsSub, KnowsOrphans, Ahead
  <2> QED BY <1>1, <1>4, <2>3, <2>4, Begins
<1>5. CASE Begin(w, u)
  <2>1. own \in Plans \ Adding /\ own # <<>> /\ Head(own) = "dropNodes"
    BY RowHeads
  <2>2. own # <<"list", "unlist">>
    OBVIOUS
  <2> HIDE DEF own
  <2>3. u \in Tasks /\ u.todo = own /\ u.ids = <<>>
    BY <1>2, <1>3, <2>1, IdleTask DEF Tasks, Idle
  <2> HIDE DEF u
  <2>4. Known(u)
    BY <2>1, <2>2, <2>3 DEF Known, KnowsNodes, KnowsMove, KnowsSub, KnowsOrphans, Ahead
  <2> QED BY <1>1, <1>5, <2>3, <2>4, Begins
<1> QED BY <1>1, <1>4, <1>5

(* A cleanup starts from the groups as they are.                           *)
LEMMA OrphanCleanupStarts ==
  ASSUME Single, IInv, NEW w \in Workers, CleanupOrphanGroups(w)
  PROVE  IInv'
<1> DEFINE row == <<"orphans", "dropGroups">>
           ids == [k \in DOMAIN groups |-> groups[k].id]
           t == [Idle EXCEPT !.todo = row, !.ids = ids]
<1>1. Begin(w, t) /\ UNCHANGED lists
  BY DEF CleanupOrphanGroups
<1>2. /\ ids \in Seq(GroupIds) /\ Len(ids) = Len(groups)
      /\ \A k \in DOMAIN groups : groups[k].id = ids[k]
  <2>1. groups \in Seq(GroupRecords) /\ \A k \in DOMAIN groups : groups[k].id \in GroupIds
    <3>1. groups \in Seq(GroupRecords) /\ \A k \in DOMAIN groups : groups[k] \in GroupRecords
      BY DEF IInv, Typed
    <3> QED BY <3>1 DEF GroupRecords
  <2> QED BY <2>1
<1> HIDE DEF ids
<1>3. Agree(ids)
  <2>1. groups \in Seq(GroupRecords)
    BY DEF IInv, Typed
  <2> QED BY <1>2, <2>1 DEF Agree
<1>4. row \in Plans \ Adding /\ row # <<>> /\ Head(row) = "orphans"
  BY RowHeads
<1>5. row # <<"list", "unlist">> /\ row # <<"dropGroups", "dropSub">>
  OBVIOUS
<1> HIDE DEF row
<1>6. t \in Tasks /\ t.todo = row /\ t.ids = ids
  BY <1>2, <1>4, IdleTask DEF Tasks
<1> HIDE DEF t
<1>7. KnowsOrphans(t)
  BY <1>3, <1>4, <1>5, <1>6 DEF KnowsOrphans, Ahead
<1>8. KnowsNodes(t) /\ KnowsMove(t) /\ KnowsSub(t)
  BY <1>4, <1>5, <1>6 DEF KnowsNodes, KnowsMove, KnowsSub, Ahead
<1> QED BY <1>1, <1>6, <1>7, <1>8, Begins DEF Known

(* Requests of one transaction.                                            *)
LEMMA OneStepKeeps ==
  ASSUME Single, IInv, NEW w \in Workers,
         \/ \E places : DeleteServers(w, places)
         \/ \E i, refs : RemoveServersFromGroup(w, i, refs)
  PROVE  IInv'
<1>1. ASSUME NEW places, DeleteServers(w, places) PROVE IInv'
  <2>1. servers' \in Seq(Nodes)
    BY <1>1, Removed DEF DeleteServers, IInv, Typed
  <2> QED BY <1>1, <2>1, StaysIdle DEF DeleteServers, IInv, Typed
<1>2. ASSUME NEW i, NEW refs, RemoveServersFromGroup(w, i, refs) PROVE IInv'
  <2>1. groups' \in Seq(GroupRecords)
    BY <1>2, TakenOut DEF RemoveServersFromGroup, IInv, Typed
  <2> QED BY <1>2, <2>1, StaysIdle DEF RemoveServersFromGroup, IInv, Typed
<1> QED BY <1>1, <1>2

(* Groups that are created or extended while a request runs are those it   *)
(* has not read, and no group moves.                                       *)
LEMMA Extended ==
  ASSUME IInv, UNCHANGED <<servers, subs, job>>,
         groups' \in Seq(GroupRecords), Len(groups) <= Len(groups'),
         \A i \in DOMAIN groups :
           groups'[i].id = groups[i].id /\ groups[i].refs \subseteq groups'[i].refs,
         \A i \in DOMAIN groups' \ DOMAIN groups : groups'[i].id \notin Subs
  PROVE  IInv'
<1>1. /\ groups \in Seq(GroupRecords) /\ Len(groups) \in Nat /\ Len(groups') \in Nat
      /\ DOMAIN groups = 1 .. Len(groups) /\ DOMAIN groups' = 1 .. Len(groups')
  BY DEF IInv, Typed
<1>2. ASSUME NEW ids \in Seq(GroupIds), Agree(ids)
      PROVE  /\ Len(ids) <= Len(groups')
             /\ \A i \in DOMAIN groups' :
                  IF i <= Len(ids) THEN groups'[i].id = ids[i] ELSE groups'[i].id \notin Subs
  <2>1. Len(ids) \in Nat
    OBVIOUS
  <2>2. Len(ids) <= Len(groups')
    BY <1>1, <1>2, <2>1 DEF Agree
  <2>3. ASSUME NEW i \in DOMAIN groups'
        PROVE  IF i <= Len(ids) THEN groups'[i].id = ids[i] ELSE groups'[i].id \notin Subs
    <3>1. CASE i \in DOMAIN groups
      BY <1>2, <3>1 DEF Agree
    <3>2. CASE i \notin DOMAIN groups
      BY <1>1, <1>2, <2>1, <3>2 DEF Agree
    <3> QED BY <3>1, <3>2
  <2> QED BY <2>2, <2>3
<1>3. ASSUME NEW w \in Workers PROVE Known(job[w])'
  <2>1. Known(job[w]) /\ job[w] \in Tasks /\ job'[w] = job[w]
    BY DEF IInv, Typed
  <2>2. job[w].ids \in Seq(GroupIds)
    BY <2>1 DEF Tasks
  <2>3. Agree(job[w].ids) => Agree(job[w].ids)'
    BY <1>2, <2>1, <2>2 DEF Agree
  <2>4. KnowsOrphans(job[w])'
    <3>1. UNCHANGED subs /\ KnowsOrphans(job[w])
      BY <2>1 DEF Known
    <3> QED BY <2>1, <2>3, <3>1 DEF KnowsOrphans, Ahead, Place
  <2>5. KnowsMove(job[w])'
    BY <1>1, <2>1 DEF Known, KnowsMove, Ahead
  <2>6. KnowsNodes(job[w])' /\ KnowsSub(job[w])'
    BY <2>1 DEF Known, KnowsNodes, KnowsSub, Ahead
  <2> QED BY <2>4, <2>5, <2>6 DEF Known
<1> QED BY <1>3 DEF IInv, Typed

(* A group of users is not that of a subscription.                         *)
LEMMA EnvironmentKeeps ==
  ASSUME StoreAssumption, Single, IInv,
         \/ \E g \in Manual : CreateGroup(g)
         \/ \E i \in DOMAIN groups, ref \in Refs : AddServerToGroup(i, ref)
         \/ Crash
  PROVE  IInv'
<1>1. groups \in Seq(GroupRecords) /\ Len(groups) \in Nat
  BY DEF IInv, Typed
<1>2. ASSUME NEW g \in Manual, CreateGroup(g) PROVE IInv'
  <2> DEFINE new == [id |-> g, refs |-> {}]
  <2>1. groups' = Append(groups, new) /\ UNCHANGED <<servers, subs, job>>
    BY <1>2 DEF CreateGroup
  <2>2. new \in GroupRecords /\ new.id \notin Subs
    BY <1>2 DEF GroupRecords, GroupIds, StoreAssumption
  <2> HIDE DEF new
  <2>3. /\ groups' \in Seq(GroupRecords) /\ Len(groups') = Len(groups) + 1
        /\ \A i \in DOMAIN groups : groups'[i] = groups[i]
        /\ groups'[Len(groups) + 1] = new
    BY <1>1, <2>1, <2>2
  <2>4. DOMAIN groups' = 1 .. Len(groups) + 1 /\ DOMAIN groups = 1 .. Len(groups)
    BY <1>1, <2>3
  <2>5. \A i \in DOMAIN groups' \ DOMAIN groups : groups'[i].id \notin Subs
    BY <1>1, <2>2, <2>3, <2>4
  <2>6. Len(groups) <= Len(groups')
    BY <1>1, <2>3
  <2> QED BY <2>1, <2>3, <2>5, <2>6, Extended
<1>3. ASSUME NEW i \in DOMAIN groups, NEW ref \in Refs, AddServerToGroup(i, ref) PROVE IInv'
  <2>1. groups' = AddToGroup(i, {ref}) /\ UNCHANGED <<servers, subs, job>>
    BY <1>3 DEF AddServerToGroup
  <2>2. {ref} \in SUBSET Pairs
    BY RefsArePairs DEF IInv
  <2>3. /\ groups' \in Seq(GroupRecords) /\ Len(groups') = Len(groups)
        /\ \A k \in DOMAIN groups : groups'[k].id = groups[k].id /\ groups[k].refs \subseteq groups'[k].refs
    BY <1>1, <2>1, <2>2, Added
  <2>4. DOMAIN groups' = DOMAIN groups /\ Len(groups) <= Len(groups')
    BY <1>1, <2>3
  <2> QED BY <2>1, <2>3, <2>4, Extended
<1>4. CASE Crash
  <2>1. PICK w \in Workers : Workers = {w}
    BY DEF Single
  <2>2. job' = [v \in Workers |-> Idle] /\ UNCHANGED lists
    BY <1>4 DEF Crash
  <2>3. job' \in [Workers -> Tasks] /\ job'[w].todo = <<>>
    BY <2>2, IdleTask
  <2>4. GoesOn(w, Idle)
    BY <2>3 DEF GoesOn
  <2> QED BY <2>2, <2>3, <2>4, Ends DEF IInv, Typed, lists
<1> QED BY <1>2, <1>3, <1>4

(* Each request begins as it goes on.                                      *)
LEMMA StartKeeps ==
  ASSUME Single, IInv, NEW w \in Workers, Start(w)
  PROVE  IInv'
<1>1. ASSUME NEW n \in Nodes, NEW g \in GroupIds \ Subs, ImportAuto(w, <<n>>, g) PROVE IInv'
  <2>1. <<n>> \in Seq(Nodes)
    OBVIOUS
  <2> QED BY <1>1, <2>1, ImportStarts
<1>2. ASSUME NEW n \in Nodes, NEW m \in Nodes, ImportAuto(w, <<n, m>>, "SERVER") PROVE IInv'
  <2>1. <<n, m>> \in Seq(Nodes) /\ "SERVER" \in GroupIds
    BY DEF GroupIds
  <2> QED BY <1>2, <2>1, ImportStarts
<1>3. ASSUME NEW g \in GroupIds, NEW clone \in BOOLEAN, NEW r \in Refs, NEW q \in Refs,
             CopyServersToGroup(w, {r, q}, g, clone)
      PROVE  IInv'
  BY <1>3, CopyStarts
<1>4. ASSUME NEW i \in DOMAIN groups, NEW target \in GroupIds, NEW r \in Refs, NEW q \in Refs,
             MoveServersToGroup(w, {r, q}, groups[i].id, target)
      PROVE  IInv'
  <2>1. {r, q} \in SUBSET Pairs
    BY RefsArePairs DEF IInv
  <2> QED BY <1>4, <2>1, MoveStarts
<1>5. ASSUME NEW i \in DOMAIN groups, NEW recycle \in GroupIds, NEW r \in Refs, NEW q \in Refs,
             CleanupInvalidNodes(w, i, {r, q}, recycle)
      PROVE  IInv'
  <2>1. {r, q} \in SUBSET Pairs
    BY RefsArePairs DEF IInv
  <2> QED BY <1>5, <2>1, CleanupStarts
<1>6. ASSUME NEW i \in DOMAIN servers, NEW j \in DOMAIN servers, DeleteServers(w, {i, j}) PROVE IInv'
  BY <1>6, OneStepKeeps
<1>7. ASSUME NEW i \in DOMAIN servers, NEW n \in Nodes, EditServer(w, i, n) PROVE IInv'
  BY <1>7, EditStarts
<1>8. ASSUME NEW s \in Subs, AddSubscription(w, s) PROVE IInv'
  BY <1>8, AddStarts
<1>9. ASSUME NEW k \in DOMAIN subs,
             \/ UpdateSubscriptionNodes(w, k)
             \/ \E new \in Downloads : EditSubscription(w, k, new)
             \/ DeleteSubscription(w, k)
      PROVE  IInv'
  BY <1>9, RefreshStarts, EditSubscriptionStarts, DeleteSubscriptionStarts
<1>10. ASSUME NEW i \in DOMAIN groups,
              \/ \E ref \in groups[i].refs : RemoveServersFromGroup(w, i, {ref})
              \/ UpdateGroup(w, i) \/ DeleteGroup(w, i)
       PROVE  IInv'
  BY <1>10, OneStepKeeps, UpdateGroupStarts, DeleteGroupStarts
<1>11. CASE CleanupOrphanGroups(w)
  BY <1>11, OrphanCleanupStarts
<1> QED BY <1>1, <1>2, <1>3, <1>4, <1>5, <1>6, <1>7, <1>8, <1>9, <1>10, <1>11 DEF Start

(* The invariant holds at the start, and every step keeps it.              *)
LEMMA IInvInit == Init => IInv
<1> SUFFICES ASSUME Init PROVE IInv
  OBVIOUS
<1>1. servers \in Seq(Nodes)
  BY DEF Init
<1>2. subs \in Seq(SubRecords)
  <2>1. CASE subs = <<>>
    BY <2>1
  <2>2. ASSUME NEW s \in Subs, NEW n \in Nodes, subs = <<[id |-> s, nodes |-> <<n>>]>>
        PROVE  subs \in Seq(SubRecords)
    <3>1. [id |-> s, nodes |-> <<n>>] \in SubRecords
      BY DEF SubRecords, Downloads
    <3> QED BY <2>2, <3>1
  <2> QED BY <2>1, <2>2 DEF Init
<1>3. groups \in Seq(GroupRecords)
  <2> DEFINE built == [id |-> "SERVER", refs |-> {<<0, 1>>}]
             rest == [k \in DOMAIN subs |-> [id |-> subs[k].id, refs |-> {<<k, 1>>}]]
  <2>1. built \in GroupRecords
    BY DEF GroupRecords, GroupIds, Pairs
  <2>2. <<built>> \in Seq(GroupRecords)
    <3> HIDE DEF built
    <3> QED BY <2>1
  <2>3. rest \in Seq(GroupRecords)
    <3>1. ASSUME NEW k \in DOMAIN subs
          PROVE  [id |-> subs[k].id, refs |-> {<<k, 1>>}] \in GroupRecords
      <4>1. k \in Nat /\ subs[k] \in SubRecords
        BY <1>2
      <4> QED BY <4>1 DEF GroupRecords, SubRecords, GroupIds, Pairs
    <3> QED BY <1>2, <3>1
  <2>4. groups = <<built>> \o rest
    BY DEF Init
  <2> HIDE DEF built, rest
  <2> QED BY <2>2, <2>3, <2>4, ConcatProperties
<1>4. job = [w \in Workers |-> Idle]
  BY DEF Init
<1>5. job \in [Workers -> Tasks]
  BY <1>4, IdleTask
<1>6. ASSUME NEW w \in Workers PROVE Known(job[w])
  <2>1. /\ job[w].todo = <<>> /\ job[w].todo \notin Adding
        /\ job[w].todo # <<"list", "unlist">> /\ job[w].todo # <<"dropGroups", "dropSub">>
    BY <1>4, IdleTask
  <2> QED BY <2>1 DEF Known, KnowsNodes, KnowsMove, KnowsSub, KnowsOrphans, Ahead
<1> QED BY <1>1, <1>2, <1>3, <1>5, <1>6 DEF IInv, Typed

(* One action each.                                                        *)
LEMMA IInvNext ==
  ASSUME StoreAssumption, Single, IInv, [Next]_vars
  PROVE  IInv'
<1>1. ASSUME NEW w \in Workers, Continue(w) PROVE IInv'
  BY <1>1, CountKeeps, AppendKeeps, FindKeeps, CreateKeeps, ListKeeps, UnlistKeeps, RelocateKeeps,
     PutServerKeeps, AppendGroupKeeps, AppendSubscriptionKeeps, TakePlaceKeeps, FetchKeeps,
     PutSubscriptionKeeps, RegroupKeeps, PutGroupKeeps, DropSubscriptionKeeps, DropNodesKeeps,
     DropGroupsKeeps, FindOrphansKeeps DEF Continue
<1>2. CASE UNCHANGED vars
  <2>1. PICK w \in Workers : Workers = {w}
    BY DEF Single
  <2>2. IInv' = IInv
    BY <1>2 DEF IInv, Typed, Known, KnowsNodes, KnowsMove, KnowsSub, KnowsOrphans, Agree, Place, Ahead, vars
  <2> QED BY <2>2
<1>3. CASE Next
  BY <1>1, <1>3, StartKeeps, EnvironmentKeeps DEF Next
<1> QED BY <1>2, <1>3

(* The lists stay lists of what they hold, and the task of a worker knows  *)
(* what it relies on.                                                      *)
THEOREM StoreInvariant ==
  ASSUME StoreAssumption, Single
  PROVE  Spec => []IInv
<1>1. Init => IInv
  BY IInvInit
<1>2. IInv /\ [Next]_vars => IInv'
  BY IInvNext
<1> QED BY <1>1, <1>2, PTL DEF Spec

-----------------------------------------------------------------------------
(* What the nodes of an import or a copy are listed as is what they are.   *)
LEMMA NewRefsShown ==
  ASSUME Single, IInv
  PROVE  NewRefsAreTheNewNodes
<1> SUFFICES ASSUME NEW w \in Workers, ListRefs(w), NEW k \in DOMAIN job[w].nodes
             PROVE  \E i \in DOMAIN servers :
                      /\ i = job[w].place + k
                      /\ servers[i] = job[w].nodes[k] /\ <<0, i>> \in job[w].refs
  BY DEF NewRefsAreTheNewNodes
<1>1. Ahead(job[w], "list") /\ Known(job[w])
  BY Working DEF ListRefs
<1> QED BY <1>1 DEF Known, KnowsNodes

(* What a move takes out of its source is in the target.                   *)
LEMMA MoveShown ==
  ASSUME Single, IInv
  PROVE  MoveLosesNothing
<1> SUFFICES ASSUME NEW w \in Workers, UnlistRefs(w), job[w].to # 0, NEW ref \in Listed
             PROVE  ref \in Listed'
  BY DEF MoveLosesNothing
<1> DEFINE t == job[w]
<1>1. groups' = RemoveFromGroup(t.from, t.refs) /\ At(w, "unlist")
  BY DEF UnlistRefs
<1>2. t.from # t.to /\ t.to \in DOMAIN groups /\ t.refs \subseteq groups[t.to].refs
  <2>1. Ahead(t, "unlist") /\ Known(t)
    BY <1>1, Working
  <2> QED BY <2>1 DEF Known, KnowsMove
<1> HIDE DEF t
<1>3. groups \in Seq(GroupRecords)
  BY DEF IInv, Typed
<1>4. /\ groups' \in Seq(GroupRecords) /\ Len(groups') = Len(groups)
      /\ \A k \in DOMAIN groups :
           /\ k # t.from => groups'[k] = groups[k]
           /\ groups[k].refs \subseteq groups'[k].refs \union t.refs
  BY <1>1, <1>3, TakenOut
<1>5. DOMAIN groups' = DOMAIN groups
  BY <1>3, <1>4
<1>6. PICK i \in DOMAIN groups : ref \in groups[i].refs
  BY DEF Listed
<1>7. CASE ref \in t.refs
  <2>1. ref \in groups'[t.to].refs
    BY <1>2, <1>4, <1>7
  <2> QED BY <1>2, <1>5, <2>1 DEF Listed
<1>8. CASE ref \notin t.refs
  <2>1. ref \in groups'[i].refs
    BY <1>4, <1>6, <1>8
  <2> QED BY <1>5, <1>6, <2>1 DEF Listed
<1> QED BY <1>7, <1>8

(* What a cleanup drops are the orphans it has found, which are where they *)
(* were and are orphans still.                                             *)
LEMMA CleanupShown ==
  ASSUME Single, IInv
  PROVE  CleanupIsExact
<1> SUFFICES ASSUME NEW w \in Workers, DropGroups(w), job[w].ids # <<>>, NEW id \in GroupIds
             PROVE  Place(groups', id) # 0 <=>
                      Place(groups, id) # 0 /\ ~(id \in Subs /\ Place(subs, id) = 0)
  BY DEF CleanupIsExact
<1> DEFINE t == job[w]
           orphan(g) == g \in Subs /\ Place(subs, g) = 0
<1>1. groups' = ListRemove(groups, t.drop) /\ At(w, "dropGroups")
  BY DEF DropGroups
<1>2. /\ Agree(t.ids) /\ t.ids \in Seq(GroupIds)
      /\ t.drop = {k \in DOMAIN t.ids : orphan(t.ids[k])}
  <2>1. Ahead(t, "dropGroups") /\ Known(t) /\ t \in Tasks
    BY <1>1, Working
  <2> QED BY <2>1 DEF Known, KnowsOrphans, Tasks
<1> HIDE DEF t
<1>3. groups \in Seq(GroupRecords)
  BY DEF IInv, Typed
<1>4. /\ groups' \in Seq(GroupRecords)
      /\ \A k \in DOMAIN groups' : \E i \in DOMAIN groups \ t.drop : groups'[k] = groups[i]
      /\ \A i \in DOMAIN groups \ t.drop : \E k \in DOMAIN groups' : groups'[k] = groups[i]
  BY <1>1, <1>3, Removed
<1>5. ASSUME NEW i \in DOMAIN groups
      PROVE  i \in t.drop <=> orphan(groups[i].id)
  <2>1. i \in Nat \ {0} /\ Len(t.ids) \in Nat /\ DOMAIN t.ids = 1 .. Len(t.ids)
    BY <1>2, <1>3
  <2>2. CASE i <= Len(t.ids)
    <3>1. i \in DOMAIN t.ids /\ groups[i].id = t.ids[i]
      BY <1>2, <2>1, <2>2 DEF Agree
    <3> QED BY <1>2, <3>1
  <2>3. CASE ~(i <= Len(t.ids))
    <3>1. i \notin DOMAIN t.ids /\ groups[i].id \notin Subs
      BY <1>2, <2>1, <2>3 DEF Agree
    <3> QED BY <1>2, <3>1
  <2> QED BY <2>2, <2>3
<1> HIDE DEF orphan
<1>6. (\E k \in DOMAIN groups' : groups'[k].id = id) <=>
        (\E i \in DOMAIN groups : groups[i].id = id) /\ ~orphan(id)
  BY <1>4, <1>5
<1>7. Place(groups, id) # 0 <=> \E i \in DOMAIN groups : groups[i].id = id
  BY <1>3, Found
<1>8. Place(groups', id) # 0 <=> \E i \in DOMAIN groups' : groups'[i].id = id
  BY <1>4, Found
<1> QED BY <1>6, <1>7, <1>8 DEF orphan

(* Three transactions write the subscriptions.                             *)
LEMMA SubWriters ==
  ASSUME Next
  PROVE  \/ UNCHANGED subs
         \/ \E w \in Workers :
              AppendSubscription(w) \/ PutSubscription(w) \/ DropSubscription(w)
<1>1. ASSUME NEW w \in Workers, Start(w) PROVE UNCHANGED subs
  BY <1>1, Zenon DEF Start, ImportAuto, CopyServersToGroup, MoveServersToGroup,
     CleanupInvalidNodes, DeleteServers, EditServer, AddSubscription, UpdateSubscriptionNodes,
     EditSubscription, DeleteSubscription, RemoveServersFromGroup, UpdateGroup, DeleteGroup,
     CleanupOrphanGroups, lists
<1>2. ASSUME NEW w \in Workers, Continue(w)
      PROVE  UNCHANGED subs \/ AppendSubscription(w) \/ PutSubscription(w) \/ DropSubscription(w)
  BY <1>2, Zenon DEF Continue, CountServers, AppendServers, FindGroup, CreateServerGroup,
     ListRefs, UnlistRefs, Relocate, PutServer, AppendGroup, TakePlace, Fetch, Regroup, PutGroup,
     DropNodes, DropGroups, FindOrphans, lists
<1>3. ASSUME (\E g \in Manual : CreateGroup(g)) \/ Crash
             \/ (\E i \in DOMAIN groups, ref \in Refs : AddServerToGroup(i, ref))
      PROVE  UNCHANGED subs
  BY <1>3, Zenon DEF CreateGroup, AddServerToGroup, Crash, lists
<1> QED BY <1>1, <1>2, <1>3 DEF Next

(* A subscription that is written is written over itself.                  *)
LEMMA SubscriptionsShown ==
  ASSUME Single, IInv, [Next]_vars
  PROVE  SubscriptionsKept
<1> SUFFICES ASSUME NEW k \in DOMAIN subs, Place(subs', subs[k].id) = 0
             PROVE  \E w \in Workers : DropSubscription(w) /\ job[w].place = k
  BY DEF SubscriptionsKept
<1>1. subs \in Seq(SubRecords) /\ k \in Nat
  BY DEF IInv, Typed
<1>2. ASSUME subs' \in Seq(SubRecords) PROVE \A i \in DOMAIN subs' : subs'[i].id # subs[k].id
  BY <1>2, Found
<1>3. CASE UNCHANGED subs
  BY <1>1, <1>2, <1>3
<1>4. ASSUME NEW w \in Workers, AppendSubscription(w) PROVE FALSE
  <2> DEFINE sub == job[w].sub
  <2>1. At(w, "appendSub") /\ subs' = Append(subs, sub)
    BY <1>4 DEF AppendSubscription
  <2>2. sub \in SubRecords
    <3>1. /\ job[w] \in Tasks /\ Known(job[w]) /\ job[w].todo # <<>>
          /\ Head(job[w].todo) = "appendSub"
      BY <2>1, Working
    <3>2. job[w].todo \in Adding
      BY <3>1, RowSteps DEF Tasks
    <3> QED BY <3>1, <3>2 DEF Known, KnowsSub, Ahead
  <2> HIDE DEF sub
  <2>3. subs' \in Seq(SubRecords) /\ k \in DOMAIN subs' /\ subs'[k] = subs[k]
    BY <1>1, <2>1, <2>2
  <2> QED BY <1>2, <2>3
<1>5. ASSUME NEW w \in Workers, PutSubscription(w) PROVE FALSE
  <2> DEFINE t == job[w]
  <2>1. At(w, "putSub") /\ subs' = ListSet(subs, t.place, t.sub)
    BY <1>5 DEF PutSubscription
  <2>2. t.sub \in SubRecords /\ subs[t.place].id = t.sub.id
    <3>1. t \in Tasks /\ Known(t) /\ t.todo # <<>> /\ Head(t.todo) = "putSub" /\ Ahead(t, "putSub")
      BY <2>1, Working
    <3>2. t.todo \in Adding
      BY <3>1, RowSteps DEF Tasks
    <3> QED BY <3>1, <3>2 DEF Known, KnowsSub, Ahead
  <2> HIDE DEF t
  <2>3. /\ subs' \in Seq(SubRecords) /\ DOMAIN subs' = DOMAIN subs
        /\ subs'[k] = IF k = t.place THEN t.sub ELSE subs[k]
    BY <1>1, <2>1, <2>2, Replaced
  <2> QED BY <1>2, <2>2, <2>3
<1>6. ASSUME NEW w \in Workers, DropSubscription(w) PROVE job[w].place = k
  <2> DEFINE places == {job[w].place}
  <2>1. subs' = ListRemove(subs, places)
    BY <1>6 DEF DropSubscription
  <2> HIDE DEF places
  <2>2. /\ subs' \in Seq(SubRecords)
        /\ \A i \in DOMAIN subs \ places : \E j \in DOMAIN subs' : subs'[j] = subs[i]
    BY <1>1, <2>1, Removed
  <2> QED BY <1>2, <2>2 DEF places
<1>7. CASE UNCHANGED vars
  BY <1>3, <1>7 DEF vars
<1> QED BY <1>3, <1>4, <1>5, <1>6, <1>7, SubWriters

(* Each value is of its kind.                                              *)
LEMMA TypesShown == IInv => TypeOK
<1> SUFFICES ASSUME IInv PROVE TypeOK
  OBVIOUS
<1>1. \A k \in DOMAIN subs : subs[k].id \in Subs /\ subs[k].nodes \in Downloads
  <2>1. \A k \in DOMAIN subs : subs[k] \in SubRecords
    BY DEF IInv, Typed
  <2> QED BY <2>1 DEF SubRecords
<1>2. \A i \in DOMAIN groups : groups[i].id \in GroupIds /\ groups[i].refs \subseteq Pairs
  <2>1. \A i \in DOMAIN groups : groups[i] \in GroupRecords
    BY DEF IInv, Typed
  <2> QED BY <2>1 DEF GroupRecords
<1>3. \A w \in Workers : job[w].place \in Nat /\ job[w].nodes \in Seq(Nodes)
  BY DEF IInv, Typed, Tasks
<1> QED BY <1>1, <1>2, <1>3 DEF IInv, Typed, TypeOK, Pairs

(* The types, as an invariant of the store with one worker.                *)
THEOREM StoreTypes ==
  ASSUME StoreAssumption, Single
  PROVE  Spec => []TypeOK
BY StoreInvariant, TypesShown, PTL

(* An import or a copy lists the nodes it has appended; a move leaves each *)
(* node listed; a cleanup takes the orphans and all of them; and no        *)
(* subscription leaves the list but the one that is deleted.               *)
THEOREM StoreStepsKeep ==
  ASSUME StoreAssumption, Single
  PROVE  Spec => [][/\ NewRefsAreTheNewNodes /\ MoveLosesNothing
                    /\ CleanupIsExact /\ SubscriptionsKept]_vars
<1>1. IInv /\ [Next]_vars =>
        [NewRefsAreTheNewNodes /\ MoveLosesNothing /\ CleanupIsExact /\ SubscriptionsKept]_vars
  BY NewRefsShown, MoveShown, CleanupShown, SubscriptionsShown
<1> QED BY <1>1, StoreInvariant, PTL DEF Spec
=============================================================================
