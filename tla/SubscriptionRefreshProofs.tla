----------------------- MODULE SubscriptionRefreshProofs -----------------------
(***************************************************************************)
(* Proofs about SubscriptionRefresh, for any number of nodes, outbounds    *)
(* and probers.  That every outbound keeps its node needs one refresh of a *)
(* subscription at a time: two of them break it (MCRefreshTwice.cfg).      *)
(***************************************************************************)
EXTENDS SubscriptionRefresh, SequenceTheorems, WellFoundedInduction, TLAPS

-----------------------------------------------------------------------------
(* The helpers.                                                            *)

(* A set of places that is not empty has a first one.                      *)
LEMMA MinMember ==
  ASSUME NEW S, S \subseteq Nat, S # {}
  PROVE  Min(S) \in S /\ \A i \in S : Min(S) <= i
<1>1. PICK x \in S : \A y \in S : ~ (<<y, x>> \in OpToRel(<, Nat))
  BY NatLessThanWellFounded, WFMin
<1>2. ASSUME NEW y \in S PROVE x <= y
  <2>1. <<y, x>> \in Nat \X Nat /\ x \in Nat /\ y \in Nat
    OBVIOUS
  <2>2. ~ (y < x)
    BY <1>1, <2>1 DEF OpToRel
  <2> QED BY <2>1, <2>2
<1> QED BY <1>2 DEF Min

(* A match is a node of the list that is the same.                         *)
LEMMA MatchIsSame ==
  ASSUME NEW S, NEW list \in Seq(S), NEW s, Match(s, list) # 0
  PROVE  Match(s, list) \in DOMAIN list /\ SameNode(list[Match(s, list)], s)
<1> DEFINE byLink == {i \in DOMAIN list : list[i].link = s.link}
           byEndpoint == {i \in DOMAIN list : list[i].endpoint = s.endpoint}
<1>1. byLink \subseteq Nat /\ byEndpoint \subseteq Nat
  OBVIOUS
<1>2. CASE byLink # {}
  <2>1. Match(s, list) = Min(byLink)
    BY <1>2 DEF Match
  <2>2. Min(byLink) \in byLink
    BY <1>1, <1>2, MinMember
  <2> QED BY <2>1, <2>2 DEF SameNode
<1>3. CASE byLink = {} /\ byEndpoint # {}
  <2>1. Match(s, list) = Min(byEndpoint)
    BY <1>3 DEF Match
  <2>2. Min(byEndpoint) \in byEndpoint
    BY <1>1, <1>3, MinMember
  <2> QED BY <2>1, <2>2 DEF SameNode
<1>4. CASE byLink = {} /\ byEndpoint = {}
  BY <1>4 DEF Match
<1> QED BY <1>2, <1>3, <1>4

(* The first node of a list with the link of s is its match.               *)
LEMMA MatchFirstLink ==
  ASSUME NEW S, NEW list \in Seq(S), NEW s, NEW i \in DOMAIN list, list[i].link = s.link,
         \A k \in 1 .. i - 1 : list[k].link # s.link
  PROVE  Match(s, list) = i
<1> DEFINE byLink == {k \in DOMAIN list : list[k].link = s.link}
<1>1. i \in byLink /\ byLink \subseteq Nat
  OBVIOUS
<1>2. Match(s, list) = Min(byLink)
  BY <1>1 DEF Match
<1>3. Min(byLink) \in byLink /\ Min(byLink) <= i
  BY <1>1, MinMember
<1>4. \A k \in byLink : k >= i
  OBVIOUS
<1> HIDE DEF byLink
<1> QED BY <1>1, <1>2, <1>3, <1>4

(* Preserve moves results: a list keeps its nodes.                         *)
LEMMA PreserveKeeps ==
  ASSUME NEW from \in Seq(Servers), NEW to \in Seq(Servers)
  PROVE  /\ Preserve(from, to) \in Seq(Servers)
         /\ Len(Preserve(from, to)) = Len(to)
         /\ DOMAIN Preserve(from, to) = DOMAIN to
         /\ \A i \in DOMAIN to : /\ Preserve(from, to)[i].link = to[i].link
                                 /\ Preserve(from, to)[i].endpoint = to[i].endpoint
<1> DEFINE P == Preserve(from, to)
<1>1. P = [i \in 1 .. Len(to) |-> P[i]] /\ DOMAIN P = 1 .. Len(to) /\ DOMAIN to = 1 .. Len(to)
  BY DEF Preserve
<1>2. ASSUME NEW i \in 1 .. Len(to)
      PROVE  P[i] \in Servers /\ P[i].link = to[i].link /\ P[i].endpoint = to[i].endpoint
  <2>1. to[i] \in Servers
    OBVIOUS
  <2>2. CASE Match(to[i], from) = 0
    BY <2>1, <2>2, <1>1 DEF Preserve
  <2>3. CASE Match(to[i], from) # 0
    <3>1. from[Match(to[i], from)] \in Servers
      BY <2>3, MatchIsSame
    <3>2. P[i] = [to[i] EXCEPT !.latency = from[Match(to[i], from)].latency]
      BY <2>3, <1>1 DEF Preserve
    <3> QED BY <2>1, <3>1, <3>2 DEF Servers
  <2> QED BY <2>2, <2>3
<1> HIDE DEF P
<1>3. P \in Seq(Servers) /\ Len(P) = Len(to)
  BY <1>1, <1>2
<1> QED BY <1>1, <1>2, <1>3 DEF P

(* The list that will be stored, and what ReadOutbound makes of it: the    *)
(* places it keeps for the node at place a, and the new place of that node.*)
Listed(new, keep, from) == new \o [k \in DOMAIN keep |-> from[keep[k]]]
More(new, keep, from, a) ==
  IF Match(from[a], new) = 0 /\ a \notin Range(keep) THEN Append(keep, a) ELSE keep
Place(new, keep, from, a) ==
  IF Match(from[a], new) # 0 THEN Match(from[a], new)
  ELSE Len(new) + CHOOSE k \in DOMAIN More(new, keep, from, a) : More(new, keep, from, a)[k] = a

(* A list with kept nodes at its end.                                      *)
LEMMA ListedType ==
  ASSUME NEW new \in Seq(Servers), NEW from \in Seq(Servers), NEW keep \in Seq(Nat),
         Range(keep) \subseteq DOMAIN from
  PROVE  /\ Listed(new, keep, from) \in Seq(Servers)
         /\ Len(Listed(new, keep, from)) = Len(new) + Len(keep)
         /\ \A i \in 1 .. Len(new) : Listed(new, keep, from)[i] = new[i]
         /\ \A k \in 1 .. Len(keep) : Listed(new, keep, from)[Len(new) + k] = from[keep[k]]
<1> DEFINE tail == [k \in DOMAIN keep |-> from[keep[k]]]
<1>1. \A k \in 1 .. Len(keep) : from[keep[k]] \in Servers
  BY DEF Range
<1>2. tail \in Seq(Servers) /\ Len(tail) = Len(keep)
  <2>1. DOMAIN keep = 1 .. Len(keep)
    OBVIOUS
  <2> QED BY <1>1, <2>1
<1>3. \A k \in 1 .. Len(keep) : tail[k] = from[keep[k]]
  OBVIOUS
<1> HIDE DEF tail
<1>4. Listed(new, keep, from) = new \o tail
  BY DEF Listed, tail
<1>5. /\ new \o tail \in Seq(Servers)
      /\ Len(new \o tail) = Len(new) + Len(tail)
      /\ \A i \in 1 .. Len(new) + Len(tail) :
           (new \o tail)[i] = IF i <= Len(new) THEN new[i] ELSE tail[i - Len(new)]
  BY <1>2, ConcatProperties
<1>6. Len(new) \in Nat /\ Len(keep) \in Nat
  OBVIOUS
<1>7. ASSUME NEW k \in 1 .. Len(keep) PROVE (new \o tail)[Len(new) + k] = from[keep[k]]
  <2>1. Len(new) + k \in 1 .. Len(new) + Len(tail) /\ ~ (Len(new) + k <= Len(new))
        /\ (Len(new) + k) - Len(new) = k
    BY <1>2, <1>6
  <2> QED BY <1>3, <1>5, <2>1
<1>8. ASSUME NEW i \in 1 .. Len(new) PROVE (new \o tail)[i] = new[i]
  <2>1. i \in 1 .. Len(new) + Len(tail) /\ i <= Len(new)
    BY <1>2, <1>6
  <2> QED BY <1>5, <2>1
<1> QED BY <1>2, <1>4, <1>5, <1>7, <1>8

(* Keeping one node more moves none of the others.                         *)
LEMMA MoreKeeps ==
  ASSUME NEW new \in Seq(Servers), NEW from \in Seq(Servers), NEW keep \in Seq(Nat),
         Range(keep) \subseteq DOMAIN from, NEW a \in DOMAIN from
  PROVE  /\ More(new, keep, from, a) \in Seq(Nat)
         /\ Range(More(new, keep, from, a)) \subseteq DOMAIN from
         /\ Match(from[a], new) = 0 => a \in Range(More(new, keep, from, a))
         /\ \A i \in 1 .. Len(Listed(new, keep, from)) :
              /\ i \in 1 .. Len(Listed(new, More(new, keep, from, a), from))
              /\ Listed(new, More(new, keep, from, a), from)[i] = Listed(new, keep, from)[i]
<1>1. CASE ~ (Match(from[a], new) = 0 /\ a \notin Range(keep))
  <2>1. More(new, keep, from, a) = keep
    BY <1>1 DEF More
  <2> QED BY <1>1, <2>1, ListedType
<1>2. CASE Match(from[a], new) = 0 /\ a \notin Range(keep)
  <2> DEFINE more == Append(keep, a)
  <2>1. More(new, keep, from, a) = more
    BY <1>2 DEF More
  <2>2. a \in Nat
    OBVIOUS
  <2>3. /\ more \in Seq(Nat) /\ Len(more) = Len(keep) + 1
        /\ \A k \in 1 .. Len(keep) : more[k] = keep[k]
        /\ more[Len(keep) + 1] = a
    BY <2>2, AppendProperties
  <2> HIDE DEF more
  <2>4. DOMAIN more = 1 .. Len(keep) + 1 /\ Len(keep) \in Nat /\ DOMAIN keep = 1 .. Len(keep)
    BY <2>3
  <2>5. Range(more) = Range(keep) \union {a}
    <3>1. \A k \in DOMAIN more : k \in 1 .. Len(keep) \/ k = Len(keep) + 1
      BY <2>4
    <3>2. Range(more) \subseteq Range(keep) \union {a}
      BY <2>3, <2>4, <3>1 DEF Range
    <3>3. \A k \in DOMAIN keep : k \in DOMAIN more /\ more[k] = keep[k]
      BY <2>3, <2>4
    <3>4. Len(keep) + 1 \in DOMAIN more
      BY <2>4
    <3> QED BY <2>3, <3>2, <3>3, <3>4 DEF Range
  <2>6. Range(more) \subseteq DOMAIN from
    BY <2>5
  <2> DEFINE before == Listed(new, keep, from)
             after == Listed(new, more, from)
  <2>7. /\ Len(before) = Len(new) + Len(keep)
        /\ \A i \in 1 .. Len(new) : before[i] = new[i]
        /\ \A k \in 1 .. Len(keep) : before[Len(new) + k] = from[keep[k]]
    BY ListedType
  <2>8. /\ Len(after) = Len(new) + Len(keep) + 1
        /\ \A i \in 1 .. Len(new) : after[i] = new[i]
        /\ \A k \in 1 .. Len(keep) + 1 : after[Len(new) + k] = from[more[k]]
    <3>1. /\ Len(after) = Len(new) + Len(more)
          /\ \A i \in 1 .. Len(new) : after[i] = new[i]
          /\ \A k \in 1 .. Len(more) : after[Len(new) + k] = from[more[k]]
      BY <2>3, <2>6, ListedType, ZenonT(60)
    <3>2. Len(new) \in Nat
      OBVIOUS
    <3> HIDE DEF after
    <3> QED BY <2>3, <2>4, <3>1, <3>2
  <2>9. ASSUME NEW i \in 1 .. Len(before)
        PROVE  i \in 1 .. Len(after) /\ after[i] = before[i]
    <3> HIDE DEF before, after
    <3>0. Len(new) \in Nat
      OBVIOUS
    <3>1. CASE i \in 1 .. Len(new)
      BY <2>4, <2>7, <2>8, <3>0, <3>1
    <3>2. CASE i \notin 1 .. Len(new)
      <4>1. PICK k \in 1 .. Len(keep) : i = Len(new) + k
        <5>1. i - Len(new) \in 1 .. Len(keep) /\ i = Len(new) + (i - Len(new))
          BY <2>4, <2>7, <3>0, <3>2
        <5> QED BY <5>1
      <4>2. k \in 1 .. Len(keep) + 1 /\ more[k] = keep[k] /\ i \in 1 .. Len(after)
        BY <2>3, <2>4, <2>8, <3>0, <4>1
      <4> QED BY <2>7, <2>8, <4>1, <4>2
    <3> QED BY <3>1, <3>2
  <2> QED BY <2>1, <2>3, <2>5, <2>6, <2>9
<1> QED BY <1>1, <1>2

(* The new place of a node is a place of the new list where it is.         *)
LEMMA PlaceHolds ==
  ASSUME NEW new \in Seq(Servers), NEW from \in Seq(Servers), NEW keep \in Seq(Nat),
         Range(keep) \subseteq DOMAIN from, NEW a \in DOMAIN from
  PROVE  LET list == Listed(new, More(new, keep, from, a), from)
             place == Place(new, keep, from, a)
         IN place \in 1 .. Len(list) /\ SameNode(list[place], from[a])
<1> DEFINE more == More(new, keep, from, a)
           list == Listed(new, more, from)
           place == Place(new, keep, from, a)
<1>1. more \in Seq(Nat) /\ Range(more) \subseteq DOMAIN from
  BY MoreKeeps
<1>2. /\ Len(list) = Len(new) + Len(more)
      /\ \A i \in 1 .. Len(new) : list[i] = new[i]
      /\ \A k \in 1 .. Len(more) : list[Len(new) + k] = from[more[k]]
  BY <1>1, ListedType
<1>3. CASE Match(from[a], new) # 0
  <2>1. place = Match(from[a], new)
    BY <1>3 DEF Place
  <2>2. Match(from[a], new) \in DOMAIN new /\ SameNode(new[Match(from[a], new)], from[a])
    BY <1>3, MatchIsSame
  <2> HIDE DEF place, list, more
  <2>3. place \in 1 .. Len(new) /\ Len(new) \in Nat /\ Len(more) \in Nat
    BY <1>1, <2>1, <2>2
  <2>4. place \in 1 .. Len(list)
    BY <1>2, <2>3
  <2> QED BY <1>2, <2>1, <2>2, <2>3, <2>4 DEF place, list, more
<1>4. CASE Match(from[a], new) = 0
  <2> DEFINE at == CHOOSE k \in DOMAIN more : more[k] = a
  <2>1. place = Len(new) + at
    BY <1>4 DEF Place
  <2>2. a \in Range(more)
    BY <1>4, MoreKeeps
  <2>3. \E k \in DOMAIN more : more[k] = a
    <3> HIDE DEF more
    <3> QED BY <2>2 DEF Range
  <2>4. at \in DOMAIN more /\ more[at] = a
    <3> HIDE DEF more
    <3> QED BY <2>3
  <2>5. SameNode(from[a], from[a])
    BY DEF SameNode
  <2> HIDE DEF place, list, more, at
  <2>6. at \in 1 .. Len(more) /\ Len(new) \in Nat /\ Len(more) \in Nat
    BY <1>1, <2>4
  <2>7. Len(new) + at \in 1 .. Len(list)
    BY <1>2, <2>6
  <2> QED BY <1>2, <2>1, <2>4, <2>5, <2>6, <2>7 DEF place, list, more
<1> QED BY <1>3, <1>4

-----------------------------------------------------------------------------
(* An empty list, of nodes or of places.                                   *)
LEMMA NothingYet == <<>> \in Seq(Servers) /\ <<>> \in Seq(Nat) /\ Range(<<>>) = {}
<1>1. <<>> \in Seq(Servers) /\ <<>> \in Seq(Nat)
  OBVIOUS
<1>2. DOMAIN <<>> = {}
  OBVIOUS
<1> QED BY <1>1, <1>2, Zenon DEF Range

(* What a refresh is about to store.                                       *)
LEMMA NewListType ==
  ASSUME TypeOK, NEW r \in Refreshers
  PROVE  NewList(r) \in Seq(Servers)
<1>1. NewList(r) = Listed(fetched[r], kept[r], old[r])
  BY DEF NewList, Listed
<1> QED BY <1>1, ListedType DEF TypeOK

(* What a subscription may send is a list of nodes.                        *)
LEMMA DownloadsType == RefreshAssumption => Downloads \subseteq Seq(Servers)
<1> SUFFICES ASSUME RefreshAssumption, NEW list \in Downloads PROVE list \in Seq(Servers)
  OBVIOUS
<1>1. PICK n \in 0 .. MaxServers : list \in [1 .. n -> Parsed]
  BY DEF Downloads
<1>2. n \in Nat /\ Parsed \subseteq Servers
  BY DEF RefreshAssumption, Parsed
<1> QED BY <1>1, <1>2

(* NowUses looks only at what outbounds use.                               *)
LEMMA NowUsesType ==
  ASSUME TypeOK, NEW list \in Seq(Servers)
  PROVE  DOMAIN NowUses(list) = DOMAIN uses /\ NowUses(list) \in [DOMAIN uses -> Servers]
<1>1. \A o \in DOMAIN uses : active[o] \in DOMAIN list => list[active[o]] \in Servers
  OBVIOUS
<1> QED BY <1>1 DEF NowUses, TypeOK

(* The stored list, its group and the active nodes at first.               *)
LEMMA TypeInit == RefreshAssumption /\ Init => TypeOK
<1> SUFFICES ASSUME RefreshAssumption, Init PROVE TypeOK
  OBVIOUS
<1>1. servers \in Seq(Servers)
  BY DownloadsType DEF Init
<1>2. Len(servers) \in Nat /\ DOMAIN servers = 1 .. Len(servers)
  BY <1>1
<1>3. listed \in Nat /\ active \in [Outbounds -> Nat]
  BY <1>2 DEF Init
<1>4. \A o \in Outbounds : active[o] # 0 => servers[active[o]] \in Servers
  BY <1>1, <1>2 DEF Init
<1>5. DOMAIN uses \subseteq Outbounds /\ uses \in [DOMAIN uses -> Servers]
  BY <1>4 DEF Init
<1>6. /\ old \in [Refreshers -> Seq(Servers)] /\ fetched \in [Refreshers -> Seq(Servers)]
      /\ kept \in [Refreshers -> Seq(Nat)]
      /\ \A r \in Refreshers : Range(kept[r]) \subseteq DOMAIN old[r]
  <2>1. <<>> \in Seq(Servers) /\ <<>> \in Seq(Nat) /\ Range(<<>>) = {}
    BY NothingYet
  <2> QED BY <2>1 DEF Init
<1> QED BY <1>1, <1>3, <1>5, <1>6 DEF Init, TypeOK

(* The step that reads an outbound, in the words of the lemmas above.      *)
LEMMA ReadMeaning ==
  ASSUME TypeOK, NEW r \in Refreshers, NEW o \in Outbounds, ReadOutbound(r, o),
         active[o] \in DOMAIN old[r]
  PROVE  LET more == More(fetched[r], kept[r], old[r], active[o])
             place == Place(fetched[r], kept[r], old[r], active[o])
         IN /\ kept' = [kept EXCEPT ![r] = more]
            /\ \/ place = active[o] /\ UNCHANGED <<pc, ref>>
               \/ Goto(r, "write") /\ ref' = [ref EXCEPT ![r] = <<o, place>>]
            /\ NewList(r)' = Listed(fetched[r], more, old[r])
<1> DEFINE more == More(fetched[r], kept[r], old[r], active[o])
           place == Place(fetched[r], kept[r], old[r], active[o])
<1>1. /\ kept' = [kept EXCEPT ![r] = more]
      /\ IF place = active[o] THEN UNCHANGED <<pc, ref>>
         ELSE Goto(r, "write") /\ ref' = [ref EXCEPT ![r] = <<o, place>>]
  BY DEF ReadOutbound, More, Place
<1> HIDE DEF more, place
<1>2. kept'[r] = more /\ old' = old /\ fetched' = fetched
  BY <1>1 DEF TypeOK, ReadOutbound
<1>3. NewList(r)' = Listed(fetched'[r], kept'[r], old'[r])
  BY Zenon DEF NewList, Listed
<1>4. NewList(r)' = Listed(fetched[r], more, old[r])
  BY <1>2, <1>3, Zenon
<1> QED BY <1>1, <1>4, Zenon DEF more, place

(* A refresh starts with nothing to keep.                                  *)
FreshInv == \A r \in Refreshers : pc[r] \in {"idle", "fetch"} => kept[r] = <<>>

(* What TypeOK says of one refresh.                                        *)
RefreshOK(r) ==
  /\ Range(kept[r]) \subseteq DOMAIN old[r]
  /\ pc[r] = "write" => ref[r] \in Outbounds \X (1 .. Len(NewList(r)))

(* A step of one refresh does not disturb the others.                      *)
LEMMA OthersOK ==
  ASSUME TypeOK, NEW q \in Refreshers, pc'[q] = pc[q], old'[q] = old[q],
         fetched'[q] = fetched[q], kept'[q] = kept[q], ref'[q] = ref[q]
  PROVE  RefreshOK(q)'
  BY DEF TypeOK, RefreshOK, NewList

(* Every step keeps the types; a refresh keeps no node before it has       *)
(* downloaded.                                                             *)
LEMMA TypeNext ==
  RefreshAssumption /\ TypeOK /\ FreshInv /\ [Next]_vars => TypeOK' /\ FreshInv'
<1> SUFFICES ASSUME RefreshAssumption, TypeOK, FreshInv, [Next]_vars
             PROVE  TypeOK' /\ FreshInv'
  OBVIOUS
<1> USE DEF store, local, Goto
<1>0. <<>> \in Seq(Servers) /\ <<>> \in Seq(Nat) /\ Range(<<>>) = {}
  BY NothingYet
<1>1. ASSUME NEW r \in Refreshers, Begin(r) PROVE TypeOK' /\ FreshInv'
  <2>1. RefreshOK(r)' /\ FreshInv'
    BY <1>0, <1>1 DEF Begin, TypeOK, FreshInv, RefreshOK
  <2>2. \A q \in Refreshers \ {r} : RefreshOK(q)'
    BY <1>1, OthersOK DEF Begin, TypeOK
  <2> QED BY <1>1, <2>1, <2>2 DEF Begin, TypeOK, RefreshOK
<1>2. ASSUME NEW r \in Refreshers, FetchFails(r) PROVE TypeOK' /\ FreshInv'
  <2>1. RefreshOK(r)' /\ FreshInv'
    BY <1>0, <1>2 DEF FetchFails, Finish, TypeOK, FreshInv, RefreshOK
  <2>2. \A q \in Refreshers \ {r} : RefreshOK(q)'
    BY <1>2, OthersOK DEF FetchFails, Finish, TypeOK
  <2> QED BY <1>0, <1>2, <2>1, <2>2 DEF FetchFails, Finish, TypeOK, RefreshOK
<1>3. ASSUME NEW r \in Refreshers, Fetch(r) PROVE TypeOK' /\ FreshInv'
  <2>1. RefreshOK(r)' /\ FreshInv'
    BY <1>3 DEF Fetch, TypeOK, FreshInv, RefreshOK
  <2>2. \A q \in Refreshers \ {r} : RefreshOK(q)'
    BY <1>3, OthersOK DEF Fetch, TypeOK
  <2>3. fetched' \in [Refreshers -> Seq(Servers)]
    <3>1. PICK list \in Downloads : fetched' = [fetched EXCEPT ![r] = Preserve(old[r], list)]
      BY <1>3 DEF Fetch
    <3>2. Preserve(old[r], list) \in Seq(Servers)
      BY DownloadsType, PreserveKeeps DEF TypeOK
    <3> QED BY <3>1, <3>2 DEF TypeOK
  <2> QED BY <1>3, <2>1, <2>2, <2>3 DEF Fetch, TypeOK, RefreshOK
<1>4. ASSUME NEW r \in Refreshers, NEW o \in Outbounds, ReadOutbound(r, o)
      PROVE  TypeOK' /\ FreshInv'
  <2>1. \A q \in Refreshers \ {r} : RefreshOK(q)'
    BY <1>4, OthersOK DEF ReadOutbound, TypeOK
  <2>2. CASE active[o] \notin DOMAIN old[r]
    <3>1. RefreshOK(r)' /\ FreshInv'
      BY <1>4, <2>2 DEF ReadOutbound, TypeOK, FreshInv, RefreshOK
    <3> QED BY <1>4, <2>1, <2>2, <3>1 DEF ReadOutbound, TypeOK, RefreshOK
  <2>3. CASE active[o] \in DOMAIN old[r]
    <3> DEFINE more == More(fetched[r], kept[r], old[r], active[o])
               place == Place(fetched[r], kept[r], old[r], active[o])
    <3>1. more \in Seq(Nat) /\ Range(more) \subseteq DOMAIN old[r]
      BY <2>3, MoreKeeps DEF TypeOK
    <3>2. place \in 1 .. Len(Listed(fetched[r], more, old[r]))
      BY <2>3, PlaceHolds DEF TypeOK
    <3>3. Len(Listed(fetched[r], more, old[r])) \in Nat
      <4> HIDE DEF more
      <4> QED BY <3>1, ListedType DEF TypeOK
    <3>4. /\ kept' = [kept EXCEPT ![r] = more]
          /\ \/ UNCHANGED <<pc, ref>>
             \/ Goto(r, "write") /\ ref' = [ref EXCEPT ![r] = <<o, place>>]
          /\ NewList(r)' = Listed(fetched[r], more, old[r])
      BY <1>4, <2>3, ReadMeaning
    <3> HIDE DEF more, place
    <3>5. /\ UNCHANGED <<store, old, fetched, target>> /\ pc[r] = "remap"
          /\ todo' = [todo EXCEPT ![r] = @ \ {o}]
      BY <1>4 DEF ReadOutbound
    <3>6. kept'[r] = more /\ old'[r] = old[r] /\ \A q \in Refreshers \ {r} : kept'[q] = kept[q]
      BY <3>4, <3>5 DEF TypeOK
    <3>7. <<o, place>> \in Outbounds \X Nat
      BY <3>2, <3>3
    <3>8. CASE UNCHANGED <<pc, ref>>
      <4>1. RefreshOK(r)' /\ FreshInv'
        BY <3>1, <3>5, <3>6, <3>8 DEF TypeOK, FreshInv, RefreshOK
      <4> QED BY <2>1, <3>1, <3>4, <3>5, <3>8, <4>1 DEF TypeOK, RefreshOK
    <3>9. CASE Goto(r, "write") /\ ref' = [ref EXCEPT ![r] = <<o, place>>]
      <4>1. /\ pc' \in [Refreshers -> {"idle", "fetch", "remap", "write", "group"}]
            /\ pc'[r] = "write" /\ \A q \in Refreshers \ {r} : pc'[q] = pc[q]
        BY <3>9 DEF TypeOK
      <4>2. ref' \in [Refreshers -> {<<>>} \union (Outbounds \X Nat)] /\ ref'[r] = <<o, place>>
        BY <3>7, <3>9 DEF TypeOK
      <4>3. NewList(r)' = Listed(fetched[r], more, old[r])
        BY <3>4
      <4>4. RefreshOK(r)'
        BY <3>1, <3>2, <3>6, <4>2, <4>3 DEF RefreshOK
      <4>5. FreshInv'
        BY <3>6, <4>1 DEF FreshInv
      <4> QED BY <2>1, <3>1, <3>4, <3>5, <4>1, <4>2, <4>4, <4>5 DEF TypeOK, RefreshOK
    <3> QED BY <3>4, <3>8, <3>9
  <2> QED BY <2>2, <2>3
<1>5. ASSUME NEW r \in Refreshers, WriteOutbound(r) PROVE TypeOK' /\ FreshInv'
  <2>1. RefreshOK(r)' /\ FreshInv'
    BY <1>5 DEF WriteOutbound, TypeOK, FreshInv, RefreshOK
  <2>2. \A q \in Refreshers \ {r} : RefreshOK(q)'
    BY <1>5, OthersOK DEF WriteOutbound, TypeOK
  <2>3. active' \in [Outbounds -> Nat]
    <3>1. ref[r] \in Outbounds \X (1 .. Len(NewList(r)))
      BY <1>5 DEF WriteOutbound, TypeOK
    <3> QED BY <1>5, <3>1 DEF WriteOutbound, TypeOK
  <2> QED BY <1>5, <2>1, <2>2, <2>3 DEF WriteOutbound, TypeOK, RefreshOK
<1>6. ASSUME NEW r \in Refreshers, Store(r) PROVE TypeOK' /\ FreshInv'
  <2>1. RefreshOK(r)' /\ FreshInv'
    BY <1>6 DEF Store, TypeOK, FreshInv, RefreshOK
  <2>2. \A q \in Refreshers \ {r} : RefreshOK(q)'
    BY <1>6, OthersOK DEF Store, TypeOK
  <2>3. servers' \in Seq(Servers)
    BY <1>6, NewListType, PreserveKeeps DEF Store, TypeOK
  <2>4. DOMAIN uses' \subseteq Outbounds /\ uses' \in [DOMAIN uses' -> Servers]
    BY <1>6, <2>3, NowUsesType DEF Store, TypeOK
  <2> QED BY <1>6, <2>1, <2>2, <2>3, <2>4 DEF Store, TypeOK, RefreshOK
<1>7. ASSUME NEW r \in Refreshers, UpdateGroup(r) PROVE TypeOK' /\ FreshInv'
  <2>1. RefreshOK(r)' /\ FreshInv'
    BY <1>0, <1>7 DEF UpdateGroup, Finish, TypeOK, FreshInv, RefreshOK
  <2>2. \A q \in Refreshers \ {r} : RefreshOK(q)'
    BY <1>7, OthersOK DEF UpdateGroup, Finish, TypeOK
  <2>3. listed' \in Nat
    BY <1>7, NewListType DEF UpdateGroup
  <2> QED BY <1>0, <1>7, <2>1, <2>2, <2>3 DEF UpdateGroup, Finish, TypeOK, RefreshOK
<1>8. ASSUME NEW p \in Probers, BeginProbe(p) PROVE TypeOK' /\ FreshInv'
  <2>1. target' \in [Probers -> Nat]
    BY <1>8 DEF BeginProbe, TypeOK
  <2> QED BY <1>8, <2>1 DEF BeginProbe, TypeOK, FreshInv, NewList
<1>9. ASSUME NEW p \in Probers, SaveLatency(p) PROVE TypeOK' /\ FreshInv'
  <2>1. servers' \in Seq(Servers)
    <3>1. CASE target[p] \in DOMAIN servers
      <4>1. PICK l \in Latencies : servers' = [servers EXCEPT ![target[p]].latency = l]
        BY <1>9, <3>1 DEF SaveLatency
      <4> DEFINE s == [servers[target[p]] EXCEPT !.latency = l]
      <4>2. servers' = [servers EXCEPT ![target[p]] = s]
        BY <3>1, <4>1 DEF TypeOK
      <4>3. s \in Servers
        <5>1. servers[target[p]] \in Servers
          BY <3>1 DEF TypeOK
        <5> QED BY <5>1 DEF Servers
      <4> HIDE DEF s
      <4> QED BY <3>1, <4>2, <4>3 DEF TypeOK
    <3> QED BY <1>9, <3>1 DEF SaveLatency, TypeOK
  <2> QED BY <1>9, <2>1 DEF SaveLatency, TypeOK, FreshInv, NewList
<1>10. CASE UNCHANGED vars
  BY <1>10 DEF vars, TypeOK, FreshInv, NewList
<1> QED BY <1>1, <1>2, <1>3, <1>4, <1>5, <1>6, <1>7, <1>8, <1>9, <1>10
        DEF Next, RefreshStep

-----------------------------------------------------------------------------
(* With one refresh at a time.  Between two refreshes, until the first     *)
(* reference moves and from the moment the new list is stored, every       *)
(* outbound refers to its node in the list (Settled); in between, to its   *)
(* node in the old list until it is looked at (Pending), and in the new    *)
(* one afterwards (Placed).                                                *)
Single == \E r : Refreshers = {r}

SameKeys(s, t) == s.link = t.link /\ s.endpoint = t.endpoint

Settled ==
  \A o \in DOMAIN uses : active[o] \in DOMAIN servers /\ SameKeys(servers[active[o]], uses[o])
Pending(r, o) == active[o] \in DOMAIN old[r] /\ SameKeys(old[r][active[o]], uses[o])
Placed(r, o, place) ==
  place \in 1 .. Len(NewList(r)) /\ SameNode(NewList(r)[place], uses[o])
PlaceOf(r, o) == IF pc[r] = "write" /\ o = ref[r][1] THEN ref[r][2] ELSE active[o]

KeepInv ==
  /\ \A o \in Outbounds \ DOMAIN uses : active[o] = 0
  /\ \A r \in Refreshers :
       /\ pc[r] \in {"idle", "fetch", "group"} => Settled
       /\ pc[r] = "fetch" => \A o \in DOMAIN uses : Pending(r, o)
       /\ pc[r] \in {"remap", "write"} =>
            \A o \in DOMAIN uses :
              IF o \in todo[r] THEN Pending(r, o) ELSE Placed(r, o, PlaceOf(r, o))
       /\ pc[r] = "write" => ref[r][1] \in DOMAIN uses \ todo[r]
       /\ pc[r] = "group" => Len(servers) = Len(NewList(r))
       /\ pc[r] # "group" => listed = Len(servers)

IInv == TypeOK /\ FreshInv
KeptInv == IInv /\ KeepInv

(* No refresh runs at first.                                               *)
LEMMA KeepInit == RefreshAssumption /\ Init => KeepInv
<1> SUFFICES ASSUME RefreshAssumption, Init PROVE KeepInv
  OBVIOUS
<1>1. servers \in Seq(Servers)
  BY DownloadsType DEF Init
<1>2. DOMAIN servers = 1 .. Len(servers) /\ Len(servers) \in Nat
  BY <1>1
<1>3. Settled
  BY <1>2 DEF Init, Settled, SameKeys
<1> QED BY <1>3 DEF Init, KeepInv

(* A step that leaves the refreshes and the nodes in use alone.            *)
LEMMA ProbesKeep ==
  ASSUME KeepInv, UNCHANGED <<listed, active, uses, pc, old, fetched, kept, todo, ref>>,
         Len(servers') = Len(servers), Settled => Settled'
  PROVE  KeepInv'
<1>1. \A r : NewList(r)' = NewList(r)
  BY DEF NewList
<1>2. \A r, x : PlaceOf(r, x)' = PlaceOf(r, x)
  BY DEF PlaceOf
<1>3. \A r, x : Pending(r, x)' <=> Pending(r, x)
  BY DEF Pending
<1>4. \A r, x : Placed(r, x, PlaceOf(r, x))' <=> Placed(r, x, PlaceOf(r, x))
  BY <1>1, <1>2 DEF Placed
<1>5. \A o \in Outbounds \ DOMAIN uses' : active'[o] = 0
  BY DEF KeepInv
<1>6. ASSUME NEW r \in Refreshers
      PROVE  /\ pc'[r] \in {"idle", "fetch", "group"} => Settled'
             /\ pc'[r] = "fetch" => \A o \in DOMAIN uses' : Pending(r, o)'
  BY <1>3 DEF KeepInv
<1>7. ASSUME NEW r \in Refreshers, pc'[r] \in {"remap", "write"}, NEW o \in DOMAIN uses'
      PROVE  IF o \in todo'[r] THEN Pending(r, o)' ELSE Placed(r, o, PlaceOf(r, o))'
  <2>1. IF o \in todo[r] THEN Pending(r, o) ELSE Placed(r, o, PlaceOf(r, o))
    BY <1>7 DEF KeepInv
  <2> QED BY <2>1, <1>3, <1>4
<1>8. ASSUME NEW r \in Refreshers
      PROVE  /\ pc'[r] = "write" => ref'[r][1] \in DOMAIN uses' \ todo'[r]
             /\ pc'[r] = "group" => Len(servers') = Len(NewList(r)')
             /\ pc'[r] # "group" => listed' = Len(servers')
  BY <1>1 DEF KeepInv
<1> QED BY <1>5, <1>6, <1>7, <1>8 DEF KeepInv

(* Every step of the only refresh keeps the references with their nodes.   *)
LEMMA KeepNext ==
  RefreshAssumption /\ Single /\ IInv /\ KeepInv /\ [Next]_vars => KeepInv'
<1> SUFFICES ASSUME RefreshAssumption, Single, IInv, KeepInv, [Next]_vars PROVE KeepInv'
  OBVIOUS
<1> USE DEF store, local, Goto
<1>0. \A q, r \in Refreshers : q = r
  BY DEF Single
<1>1. ASSUME NEW r \in Refreshers, Begin(r) PROVE KeepInv'
  <2>1. pc' = [pc EXCEPT ![r] = "fetch"] /\ old'[r] = servers
        /\ UNCHANGED <<servers, uses, active, listed>>
    BY <1>1 DEF Begin, IInv, TypeOK
  <2>2. Settled' /\ \A o \in DOMAIN uses' : Pending(r, o)'
    BY <1>1, <2>1 DEF KeepInv, Settled, Pending, Begin
  <2> QED BY <1>0, <1>1, <2>1, <2>2 DEF KeepInv, IInv, TypeOK, Begin
<1>2. ASSUME NEW r \in Refreshers, FetchFails(r) PROVE KeepInv'
  <2>1. pc' = [pc EXCEPT ![r] = "idle"] /\ UNCHANGED <<servers, uses, active, listed>>
    BY <1>2 DEF FetchFails, Finish
  <2>2. Settled'
    BY <1>2, <2>1 DEF KeepInv, Settled, FetchFails
  <2> QED BY <1>0, <1>2, <2>1, <2>2 DEF KeepInv, IInv, TypeOK, FetchFails
<1>3. ASSUME NEW r \in Refreshers, Fetch(r) PROVE KeepInv'
  <2>1. /\ pc' = [pc EXCEPT ![r] = "remap"] /\ todo'[r] = Outbounds /\ pc[r] = "fetch"
        /\ UNCHANGED <<servers, uses, active, listed, old>>
    BY <1>3 DEF Fetch, IInv, TypeOK
  <2>2. \A o \in DOMAIN uses' : o \in todo'[r] /\ Pending(r, o)'
    BY <2>1 DEF KeepInv, Pending, IInv, TypeOK
  <2> QED BY <1>0, <2>1, <2>2 DEF KeepInv, IInv, TypeOK
<1>4. ASSUME NEW r \in Refreshers, NEW o \in Outbounds, ReadOutbound(r, o) PROVE KeepInv'
  <2>1. /\ pc[r] = "remap" /\ o \in todo[r] /\ todo'[r] = todo[r] \ {o}
        /\ UNCHANGED <<servers, uses, active, listed, old, fetched>>
    BY <1>4 DEF ReadOutbound, IInv, TypeOK
  <2>2. CASE active[o] \notin DOMAIN old[r]
    <3>1. UNCHANGED <<pc, kept, ref>> /\ o \notin DOMAIN uses
      BY <1>4, <2>1, <2>2 DEF ReadOutbound, KeepInv, Pending
    <3>2. NewList(r)' = NewList(r)
      BY <2>1, <3>1 DEF NewList
    <3>3. \A x \in DOMAIN uses' :
            IF x \in todo'[r] THEN Pending(r, x)' ELSE Placed(r, x, PlaceOf(r, x))'
      BY <2>1, <3>1, <3>2 DEF KeepInv, Pending, Placed, PlaceOf
    <3> QED BY <1>0, <2>1, <3>1, <3>3 DEF KeepInv
  <2>3. CASE active[o] \in DOMAIN old[r]
    <3> DEFINE more == More(fetched[r], kept[r], old[r], active[o])
               place == Place(fetched[r], kept[r], old[r], active[o])
               list == Listed(fetched[r], more, old[r])
    <3>1. /\ \/ place = active[o] /\ UNCHANGED <<pc, ref>>
             \/ Goto(r, "write") /\ ref' = [ref EXCEPT ![r] = <<o, place>>]
          /\ NewList(r)' = list
      BY <1>4, <2>3, ReadMeaning DEF IInv
    <3>2. place \in 1 .. Len(list) /\ SameNode(list[place], old[r][active[o]])
      BY <2>3, PlaceHolds DEF IInv, TypeOK
    <3>3. \A i \in 1 .. Len(NewList(r)) : i \in 1 .. Len(list) /\ list[i] = NewList(r)[i]
      <4>1. NewList(r) = Listed(fetched[r], kept[r], old[r])
        BY DEF NewList, Listed
      <4>2. /\ fetched[r] \in Seq(Servers) /\ old[r] \in Seq(Servers) /\ kept[r] \in Seq(Nat)
            /\ Range(kept[r]) \subseteq DOMAIN old[r]
        BY DEF IInv, TypeOK
      <4>3. \A i \in 1 .. Len(Listed(fetched[r], kept[r], old[r])) :
              i \in 1 .. Len(list) /\ list[i] = Listed(fetched[r], kept[r], old[r])[i]
        BY <2>3, <4>2, MoreKeeps
      <4> QED BY <4>1, <4>3
    <3> HIDE DEF more, place, list
    <3>4. o \in DOMAIN uses
      BY <2>3 DEF KeepInv, IInv, TypeOK
    <3>5. SameNode(list[place], uses[o])
      BY <2>1, <3>2, <3>4 DEF KeepInv, Pending, SameKeys, SameNode
    <3>6. PlaceOf(r, o)' = place /\ pc'[r] \in {"remap", "write"}
          /\ (pc'[r] = "write" => ref'[r][1] = o)
      BY <2>1, <3>1 DEF PlaceOf, IInv, TypeOK
    <3>7. \A x \in DOMAIN uses \ {o} : PlaceOf(r, x)' = PlaceOf(r, x)
      BY <2>1, <3>6 DEF PlaceOf
    <3>8. ASSUME NEW x \in DOMAIN uses'
          PROVE  IF x \in todo'[r] THEN Pending(r, x)' ELSE Placed(r, x, PlaceOf(r, x))'
      <4>1. CASE x = o
        BY <2>1, <3>1, <3>2, <3>5, <3>6, <4>1 DEF Placed
      <4>2. CASE x # o
        BY <2>1, <3>1, <3>3, <3>7, <4>2 DEF KeepInv, Pending, Placed
      <4> QED BY <4>1, <4>2
    <3> QED BY <1>0, <2>1, <3>4, <3>6, <3>8 DEF KeepInv
  <2> QED BY <2>2, <2>3
<1>5. ASSUME NEW r \in Refreshers, WriteOutbound(r) PROVE KeepInv'
  <2>1. /\ pc[r] = "write" /\ pc' = [pc EXCEPT ![r] = "remap"]
        /\ active' = [active EXCEPT ![ref[r][1]] = ref[r][2]]
        /\ UNCHANGED <<servers, uses, listed, old, fetched, kept, todo>>
    BY <1>5 DEF WriteOutbound
  <2>2. NewList(r)' = NewList(r) /\ pc'[r] = "remap"
    BY <2>1 DEF NewList, IInv, TypeOK
  <2>3. ref[r][1] \in DOMAIN uses \ todo[r] /\ DOMAIN uses \subseteq Outbounds
    BY <2>1 DEF KeepInv, IInv, TypeOK
  <2>4. \A x \in Outbounds :
          active'[x] = IF x = ref[r][1] THEN ref[r][2] ELSE active[x]
    BY <2>1 DEF IInv, TypeOK
  <2>5. \A x \in DOMAIN uses' :
          IF x \in todo'[r] THEN Pending(r, x)' ELSE Placed(r, x, PlaceOf(r, x))'
    BY <2>1, <2>2, <2>3, <2>4 DEF KeepInv, Pending, Placed, PlaceOf
  <2> QED BY <1>0, <2>1, <2>2, <2>3, <2>4, <2>5 DEF KeepInv
<1>6. ASSUME NEW r \in Refreshers, Store(r) PROVE KeepInv'
  <2>1. /\ pc[r] = "remap" /\ todo[r] = {} /\ pc' = [pc EXCEPT ![r] = "group"]
        /\ servers' = Preserve(servers, NewList(r)) /\ uses' = NowUses(servers')
        /\ UNCHANGED <<listed, active, old, fetched, kept>>
    BY <1>6 DEF Store
  <2>2. NewList(r) \in Seq(Servers) /\ NewList(r)' = NewList(r) /\ pc'[r] = "group"
    BY <2>1, NewListType DEF NewList, IInv, TypeOK
  <2>3. /\ servers' \in Seq(Servers) /\ Len(servers') = Len(NewList(r))
        /\ DOMAIN servers' = DOMAIN NewList(r)
        /\ \A i \in DOMAIN NewList(r) : SameKeys(servers'[i], NewList(r)[i])
    BY <2>1, <2>2, PreserveKeeps DEF SameKeys, IInv, TypeOK
  <2>4. \A o \in DOMAIN uses : active[o] \in DOMAIN servers' /\ SameNode(servers'[active[o]], uses[o])
    <3>1. \A o \in DOMAIN uses : Placed(r, o, active[o]) /\ o \in Outbounds
      BY <2>1 DEF KeepInv, PlaceOf, IInv, TypeOK
    <3>2. DOMAIN NewList(r) = 1 .. Len(NewList(r))
      BY <2>2
    <3>3. \A o \in DOMAIN uses :
            active[o] \in DOMAIN NewList(r) /\ SameNode(NewList(r)[active[o]], uses[o])
      BY <3>1, <3>2, Zenon DEF Placed
    <3> QED BY <2>3, <3>3 DEF SameNode, SameKeys
  <2>5. DOMAIN uses' = DOMAIN uses /\ Settled'
    BY <2>1, <2>4 DEF NowUses, Settled, SameKeys
  <2> QED BY <1>0, <2>1, <2>2, <2>3, <2>5 DEF KeepInv
<1>7. ASSUME NEW r \in Refreshers, UpdateGroup(r) PROVE KeepInv'
  <2>1. /\ pc[r] = "group" /\ pc' = [pc EXCEPT ![r] = "idle"] /\ listed' = Len(NewList(r))
        /\ UNCHANGED <<servers, active, uses>>
    BY <1>7 DEF UpdateGroup, Finish
  <2>2. Settled'
    BY <2>1 DEF KeepInv, Settled
  <2> QED BY <1>0, <2>1, <2>2 DEF KeepInv, IInv, TypeOK
<1>8. ASSUME NEW p \in Probers, BeginProbe(p) PROVE KeepInv'
  <2>1. UNCHANGED <<servers, listed, active, uses, pc, old, fetched, kept, todo, ref>>
    BY <1>8 DEF BeginProbe, store, local
  <2>2. Settled => Settled'
    BY <2>1 DEF Settled
  <2> QED BY <2>1, <2>2, ProbesKeep
<1>9. ASSUME NEW p \in Probers, SaveLatency(p) PROVE KeepInv'
  <2>1. /\ DOMAIN servers' = DOMAIN servers /\ Len(servers') = Len(servers)
        /\ \A i \in DOMAIN servers : SameKeys(servers'[i], servers[i])
    <3>1. CASE target[p] \in DOMAIN servers
      <4>1. PICK l \in Latencies : servers' = [servers EXCEPT ![target[p]].latency = l]
        BY <1>9, <3>1 DEF SaveLatency
      <4> DEFINE s == [servers[target[p]] EXCEPT !.latency = l]
      <4>2. servers' = [servers EXCEPT ![target[p]] = s]
        BY <3>1, <4>1 DEF IInv, TypeOK
      <4>3. s \in Servers /\ SameKeys(s, servers[target[p]])
        <5>1. servers[target[p]] \in Servers
          BY <3>1 DEF IInv, TypeOK
        <5> QED BY <5>1 DEF Servers, SameKeys
      <4> HIDE DEF s
      <4>4. servers' \in Seq(Servers) /\ Len(servers') = Len(servers)
        BY <3>1, <4>2, <4>3, ExceptSeq DEF IInv, TypeOK
      <4> QED BY <3>1, <4>2, <4>3, <4>4 DEF IInv, TypeOK, SameKeys
    <3>2. CASE target[p] \notin DOMAIN servers
      BY <1>9, <3>2 DEF SaveLatency, SameKeys
    <3> QED BY <3>1, <3>2
  <2>2. UNCHANGED <<listed, active, uses, pc, old, fetched, kept, todo, ref>>
    BY <1>9 DEF SaveLatency
  <2>3. Settled => Settled'
    BY <2>1, <2>2 DEF Settled, SameKeys
  <2> QED BY <2>1, <2>2, <2>3, ProbesKeep
<1>10. CASE UNCHANGED vars
  <2>1. UNCHANGED <<servers, listed, active, uses, pc, old, fetched, kept, todo, ref>>
    BY <1>10 DEF vars
  <2>2. Settled => Settled'
    BY <2>1 DEF Settled
  <2> QED BY <2>1, <2>2, ProbesKeep
<1> QED BY <1>1, <1>2, <1>3, <1>4, <1>5, <1>6, <1>7, <1>8, <1>9, <1>10
        DEF Next, RefreshStep

-----------------------------------------------------------------------------
(* Both parts of the invariant hold at first.                              *)
LEMMA IInvInit == RefreshAssumption /\ Init => KeptInv
  BY TypeInit, KeepInit DEF KeptInv, IInv, FreshInv, Init

(* Every step keeps the types, with any number of refreshes.               *)
LEMMA IInvNext == RefreshAssumption /\ IInv /\ [Next]_vars => IInv'
  BY TypeNext DEF IInv

(* Every step keeps the references, with one refresh.                      *)
LEMMA KeptInvNext == RefreshAssumption /\ Single /\ KeptInv /\ [Next]_vars => KeptInv'
  BY IInvNext, KeepNext DEF KeptInv

(* What the invariant says when no refresh runs.                           *)
LEMMA KeptWhenIdle ==
  ASSUME Single, KeptInv
  PROVE  ActiveKept /\ GroupCoversActive
<1>1. PICK r : Refreshers = {r}
  BY DEF Single
<1>2. SUFFICES ASSUME Idle PROVE ActiveKept /\ GroupCoversActive
  BY DEF ActiveKept, GroupCoversActive
<1>3. Settled /\ listed = Len(servers)
  BY <1>1, <1>2 DEF Idle, KeptInv, KeepInv
<1>4. ActiveKept
  BY <1>3 DEF ActiveKept, Settled, SameKeys, SameNode
<1>5. \A o \in Outbounds : active[o] <= listed
  BY <1>3 DEF KeptInv, KeepInv, IInv, TypeOK, Settled
<1> QED BY <1>3, <1>4, <1>5 DEF GroupCoversActive

(* The list that is stored takes every result over from the first stored   *)
(* node with the link.                                                     *)
LEMMA StoreKeepsResults ==
  ASSUME IInv
  PROVE  ResultsSurvive
<1> SUFFICES ASSUME NEW r \in Refreshers, Store(r),
                    NEW i \in DOMAIN servers, NEW j \in DOMAIN servers',
                    servers'[j].link = servers[i].link,
                    \A k \in 1 .. i - 1 : servers[k].link # servers[i].link
             PROVE  servers'[j].latency = servers[i].latency
  BY DEF ResultsSurvive
<1> DEFINE list == NewList(r)
<1>1. list \in Seq(Servers) /\ servers \in Seq(Servers) /\ servers' = Preserve(servers, list)
  BY NewListType DEF IInv, TypeOK, Store
<1> HIDE DEF list
<1>2. j \in DOMAIN list /\ servers'[j].link = list[j].link
  BY <1>1, PreserveKeeps
<1>3. Match(list[j], servers) = i
  BY <1>1, <1>2, MatchFirstLink
<1>4. i # 0 /\ list[j] \in Servers
  BY <1>1, <1>2
<1>5. servers'[j] = [list[j] EXCEPT !.latency = servers[i].latency]
  BY <1>1, <1>2, <1>3, <1>4 DEF Preserve
<1> QED BY <1>4, <1>5 DEF Servers

-----------------------------------------------------------------------------
(* The lists, the references and the locals of every refresh are well      *)
(* typed, with any number of refreshes at a time.                          *)
THEOREM TypeCorrect ==
  ASSUME RefreshAssumption PROVE Spec => []TypeOK
<1>1. (Init => IInv) /\ (IInv /\ [Next]_vars => IInv')
  BY IInvInit, IInvNext DEF KeptInv
<1>2. IInv => TypeOK
  BY DEF IInv
<1> QED BY <1>1, <1>2, PTL DEF Spec

(* With any number of refreshes at a time, none of them stores a list that *)
(* lacks a result which a probe stored before it.                          *)
THEOREM NoResultLost ==
  ASSUME RefreshAssumption PROVE Spec => [][ResultsSurvive]_vars
<1>1. (Init => IInv) /\ (IInv /\ [Next]_vars => IInv')
  BY IInvInit, IInvNext DEF KeptInv
<1> QED BY <1>1, StoreKeepsResults, PTL DEF Spec

(* One refresh at a time leaves every outbound with the node it was given, *)
(* however the nodes of the new list are ordered, duplicated or gone, and  *)
(* that node in the group.                                                 *)
THEOREM OutboundsKeepNodes ==
  ASSUME RefreshAssumption, Single
  PROVE  Spec => [](ActiveKept /\ GroupCoversActive)
<1>1. (Init => KeptInv) /\ (KeptInv /\ [Next]_vars => KeptInv')
  BY IInvInit, KeptInvNext
<1> QED BY <1>1, KeptWhenIdle, PTL DEF Spec
=============================================================================
