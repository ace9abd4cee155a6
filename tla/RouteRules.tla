------------------------------ MODULE RouteRules ------------------------------
(***************************************************************************)
(* The routing part of the kernel's configuration: what                    *)
(* BuildSingboxConfig and BuildXrayConfig make of the user's routing       *)
(* rules, the bound outbounds and the settings, and where a connection     *)
(* then goes.                                                              *)
(*                                                                         *)
(* A condition of a rule (an entry of its domains or IPs) has a kind; a    *)
(* geosite or geoip entry stands for the rule set SetOf gives it.  A       *)
(* connection is told apart by its inbound, its port and the conditions    *)
(* and rule sets it satisfies.  How the kernels read a rule list is        *)
(* external: the first rule that matches decides, a sniff rule only makes  *)
(* the domain known.                                                       *)
(***************************************************************************)
EXTENDS Naturals, SequencesExt, FiniteSetsExt

CONSTANTS
  Names,      \* GetOutboundNames: the outbounds in their order, "proxy" first
  Inbounds,   \* tags of the built-in and custom inbounds
  Builtin,    \* those of them that are built in, in their order
  Conds,      \* the conditions a rule may have
  Kind,       \* the kind of each condition: its prefix
  SetOf,      \* the rule set of a geosite or geoip condition, NoSet if its
  NoSet,      \*   name is refused (resolveGeoName), as "geosite:private" is
  SiteCn, IpCn,   \* the rule sets that are always declared
  RuleLists,  \* bound: the rule lists the user may store
  Probe       \* tag of the main probe inbound

RouteAssumption ==
  /\ Probe \notin Inbounds
  /\ Head(Names) = "proxy" /\ {"direct", "block"} \intersect ToSet(Names) = {}
  /\ Kind \in [Conds -> {"geosite", "geoip", "suffix", "keyword", "regexp", "cidr", "private"}]
  /\ \A c \in Conds : Kind[c] = "private" <=> c = "private"

NoUser == "no user"
NoConfig == <<>>
GeoKinds == {"geosite", "geoip"}
DomainKinds == {"geosite", "suffix", "keyword", "regexp"}

VARIABLES
  rules,    \* the routing rules stored
  node,     \* per outbound: "none" if it is not bound, else whether the
            \*   kernel supports the protocol of its node: "good" or "bad"
  sniffs,   \* the inbounds that sniff
  hijack,   \* EnableHijackDNS
  config    \* the configuration built for the chosen kernel, or NoConfig

store == <<rules, node, sniffs, hijack>>
vars == <<store, config>>

Init ==
  /\ rules \in RuleLists
  /\ node \in [ToSet(Names) -> {"none", "good", "bad"}]
  /\ sniffs \in SUBSET Inbounds
  /\ hijack \in BOOLEAN
  /\ config = NoConfig

-----------------------------------------------------------------------------
(* collectValidOutboundTags, and the outbounds written, in their order.    *)
Bound == {o \in ToSet(Names) : node[o] # "none"}
Tags == Bound \union {"direct", "block"}
BoundNames == SelectSeq(Names, LAMBDA o : o \in Bound)

(* Variant: the first outbound, bound or not.                              *)
FinalAny == Head(Names)

(* firstBoundOutboundTag, and the final outbound of sing-box.              *)
Final == IF BoundNames = <<>> THEN "direct" ELSE Head(BoundNames)

Outbounds == Reverse(BoundNames) \o <<"direct", "block">>

(* A rule of the configuration: no inbounds, ports or conditions is any.   *)
Rule(action, inbounds, user, ports, conds, out) ==
  [action |-> action, inbounds |-> inbounds, user |-> user, ports |-> ports,
   conds |-> conds, out |-> out]
Route(inbounds, ports, conds, out) == Rule("route", inbounds, NoUser, ports, conds, out)

(* The credential of an outbound selects it on the probe inbound.          *)
ProbeRules ==
  [i \in DOMAIN BoundNames |-> Rule("route", {Probe}, BoundNames[i], {}, {}, BoundNames[i])]

TargetOf(r) == IF r.action = "outbound" THEN r.outbound ELSE r.action

(* Variant: every enabled rule is written.                                 *)
WrittenUnchecked == SelectSeq(rules, LAMBDA r : r.enabled)

(* Disabled rules and rules to an outbound without a node are left out.    *)
Written == SelectSeq(rules, LAMBDA r : r.enabled /\ TargetOf(r) \in Tags)

(* strToInt and uint16: an entry that is no number (0 here) is dropped, a  *)
(* number that is too large wraps.                                         *)
PortsOf(r) == {p % 65536 : p \in r.ports \ {0}}

(* The conditions of a rule, one part for each kind it has; rule sets of   *)
(* both prefixes share one, and geoip:private joins them.                  *)
Parts(r) ==
  LET of(kinds) == {c \in r.conds : Kind[c] \in kinds}
      sets == {SetOf[c] : c \in of(GeoKinds)} \ {NoSet}
  IN SelectSeq(<<IF sets = {} THEN {} ELSE sets \union of({"private"}),
                 of({"suffix"}), of({"keyword"}), of({"regexp"}), of({"cidr"}),
                 IF sets = {} THEN of({"private"}) ELSE {}>>,
               LAMBDA part : part # {})

(* Variant: a rule with conditions loses its ports.                        *)
SplitRuleUnported(r) ==
  IF Parts(r) = <<>> THEN <<Route(r.inbounds, PortsOf(r), {}, TargetOf(r))>>
  ELSE [i \in DOMAIN Parts(r) |-> Route(r.inbounds, {}, Parts(r)[i], TargetOf(r))]

(* One rule for each part; a rule without usable conditions has none.      *)
SplitRule(r) ==
  IF Parts(r) = <<>> THEN <<Route(r.inbounds, PortsOf(r), {}, TargetOf(r))>>
  ELSE [i \in DOMAIN Parts(r) |-> Route(r.inbounds, PortsOf(r), Parts(r)[i], TargetOf(r))]

PrivateDirect == Route({}, {}, {"private"}, "direct")

(* buildSingboxDefaults: the rules before and after those of the user.     *)
Sniffs(tags) == [i \in DOMAIN tags |-> Rule("sniff", {tags[i]}, NoUser, {}, {}, "")]
HeadRules ==
  Sniffs(SelectSeq(Builtin, LAMBDA b : b \in sniffs))
    \o (IF hijack THEN <<Rule("hijack-dns", {}, NoUser, {}, {}, "")>> ELSE <<>>)
    \o <<PrivateDirect>>
TailRules == <<Route({}, {}, {SiteCn}, "direct"), Route({}, {}, {IpCn}, "direct")>>

CustomSniffs == Sniffs(SetToSeq(sniffs \ ToSet(Builtin)))

(* dedupSingboxRules, dedupXrayRules: of equal rules the first one stays.  *)
Dedup(list) ==
  FoldLeft(LAMBDA out, r : IF Contains(out, r) THEN out ELSE Append(out, r), <<>>, list)

(* appendRuleSetIfAbsent for the rules that are written.                   *)
DeclaredSets ==
  {SiteCn, IpCn}
    \union ({SetOf[c] : c \in UNION {{c \in r.conds : Kind[c] \in GeoKinds}
                                       : r \in ToSet(Written)}} \ {NoSet})

SingboxRules ==
  Dedup(ProbeRules \o CustomSniffs \o HeadRules
          \o FlattenSeq([i \in DOMAIN Written |-> SplitRule(Written[i])]) \o TailRules)

(* A bound node that the kernel does not support fails the configuration.  *)
Unsupported == "bad" \in {node[o] : o \in ToSet(Names)}

(* BuildSingboxConfig, at each start of the kernel.                        *)
BuildSingbox ==
  /\ config' = IF Unsupported THEN NoConfig
               ELSE [kernel |-> "singbox", rules |-> SingboxRules, sets |-> DeclaredSets,
                     outbounds |-> Outbounds, final |-> Final]
  /\ UNCHANGED store

(* xray: one rule for a rule of the user, with all its conditions; the     *)
(* rule for the rest exists if the outbound "proxy" is bound.              *)
XrayRule(r) == Route(r.inbounds, r.ports, r.conds, TargetOf(r))

XrayRules ==
  Dedup(ProbeRules \o <<PrivateDirect>> \o [i \in DOMAIN Written |-> XrayRule(Written[i])]
          \o (IF "proxy" \in Bound THEN <<Route({}, {}, {}, "proxy")>> ELSE <<>>))

(* BuildXrayConfig.                                                        *)
BuildXray ==
  /\ config' = IF Unsupported THEN NoConfig
               ELSE [kernel |-> "xray", rules |-> XrayRules, sets |-> {},
                     outbounds |-> Outbounds, final |-> Head(Outbounds)]
  /\ UNCHANGED store

Next == BuildSingbox \/ BuildXray

Spec == Init /\ [][Next]_vars

BuiltFor(kernel) == config # NoConfig /\ config.kernel = kernel

-----------------------------------------------------------------------------
(* collectUserRuleSetRefs: the rule sets downloaded ahead of the kernel's  *)
(* start, besides the ones that every configuration declares.              *)
PrefetchedSets ==
  {SetOf[c] : c \in {c \in UNION {r.conds : r \in {r \in ToSet(rules) : r.enabled}} :
                      Kind[c] \in GeoKinds}} \ {NoSet}

-----------------------------------------------------------------------------
(* How the kernels read their rules.                                       *)
AtomOf(c) == IF Kind[c] \in GeoKinds THEN SetOf[c] ELSE c
Atoms == ({AtomOf(c) : c \in Conds} \ {NoSet}) \union {SiteCn, IpCn, "private"}
DomainAtoms ==
  {SiteCn} \union ({AtomOf(c) : c \in {c \in Conds : Kind[c] \in DomainKinds}} \ {NoSet})

(* known: the client names a domain, so nothing has to be sniffed.         *)
Connection(inbound, user, port, known, dns, hits) ==
  [inbound |-> inbound, user |-> user, port |-> port, known |-> known, dns |-> dns,
   hits |-> hits]
Connections ==
  {Connection(i, NoUser, p, k, FALSE, h) :
     i \in Inbounds, p \in {80, 443}, k \in BOOLEAN,
     h \in kSubset(2, Atoms) \union kSubset(1, Atoms) \union {{}}}
    \union {Connection(i, NoUser, 53, FALSE, TRUE, {}) : i \in Inbounds}
ProbeConnections == {[c EXCEPT !.inbound = Probe, !.user = o] : c \in Connections, o \in Bound}

(* What a kernel has of a connection: its domain, its address, or both.    *)
Sees(named, addressed) == [named |-> named, addressed |-> addressed]
Satisfies(conn, a, view) ==
  a \in conn.hits /\ IF a \in DomainAtoms THEN view.named ELSE view.addressed

Fits(r, conn) ==
  /\ r.inbounds = {} \/ conn.inbound \in r.inbounds
  /\ r.user \in {NoUser, conn.user}
  /\ r.ports = {} \/ conn.port \in r.ports

(* sing-box: any condition of a rule will do; "dns" is a sniffed protocol; *)
(* a domain is not resolved for the rules.                                 *)
SingboxDecides(conn) ==
  LET list == config.rules
      sniffed(i) == \E j \in 1 .. i - 1 : list[j].action = "sniff" /\ Fits(list[j], conn)
      takes(i) ==
        /\ Fits(list[i], conn)
        /\ CASE list[i].action = "sniff" -> FALSE
             [] list[i].action = "hijack-dns" -> conn.dns /\ sniffed(i)
             [] OTHER -> \/ list[i].conds = {}
                         \/ \E a \in list[i].conds :
                              Satisfies(conn, a, Sees(conn.known \/ sniffed(i), ~ conn.known))
      taking == {i \in DOMAIN list : takes(i)}
  IN IF taking = {} THEN config.final
     ELSE IF list[Min(taking)].action = "hijack-dns" THEN "hijack-dns" ELSE list[Min(taking)].out

(* xray: the domains and the IPs of a rule must both match.                *)
EveryPart(conds, conn, view) ==
  LET fits(part) == part = {} \/ \E c \in part : Satisfies(conn, AtomOf(c), view)
  IN /\ fits({c \in conds : Kind[c] \in DomainKinds})
     /\ fits({c \in conds : Kind[c] \notin DomainKinds})

(* DomainStrategy IPIfNonMatch: a domain, also one that an inbound with    *)
(* sniffing has put in the place of the address, is resolved only when no  *)
(* rule has matched; the rules are then read once more.                    *)
XrayNamed(conn) == conn.known \/ conn.inbound \in sniffs
XrayFirst(conn) == Sees(XrayNamed(conn), ~ XrayNamed(conn))
XraySecond(conn) == Sees(XrayNamed(conn), TRUE)
XrayDecides(conn) ==
  LET taking(view) ==
        {i \in DOMAIN config.rules :
           Fits(config.rules[i], conn) /\ EveryPart(config.rules[i].conds, conn, view)}
  IN IF taking(XrayFirst(conn)) # {} THEN config.rules[Min(taking(XrayFirst(conn)))].out
     ELSE IF taking(XraySecond(conn)) # {} THEN config.rules[Min(taking(XraySecond(conn)))].out
     ELSE config.final

-----------------------------------------------------------------------------
(* What the user asks for: the first enabled rule that the connection      *)
(* meets, of those to an outbound that is bound.                           *)
AnyCondition(r, conn, view) ==
  LET usable == {c \in r.conds : AtomOf(c) # NoSet}
  IN /\ PortsOf(r) = {} \/ conn.port \in PortsOf(r)
     /\ usable = {} \/ \E c \in usable : Satisfies(conn, AtomOf(c), view)
AllConditions(r, conn, view) ==
  (r.ports = {} \/ conn.port \in r.ports) /\ EveryPart(r.conds, conn, view)

Asked(conn, view, Meets(_, _, _), otherwise) ==
  LET met == {i \in DOMAIN rules :
                /\ rules[i].enabled /\ TargetOf(rules[i]) \in Tags
                /\ rules[i].inbounds = {} \/ conn.inbound \in rules[i].inbounds
                /\ Meets(rules[i], conn, view)}
  IN IF Satisfies(conn, "private", view) THEN "direct"
     ELSE IF met # {} THEN TargetOf(rules[Min(met)])
     ELSE otherwise

SingboxSees(conn) == Sees(conn.known \/ conn.inbound \in sniffs, ~ conn.known)
SingboxDefault(conn) ==
  IF \E a \in {SiteCn, IpCn} : Satisfies(conn, a, SingboxSees(conn)) THEN "direct" ELSE Final

-----------------------------------------------------------------------------
(* A configuration names an outbound that exists as its last resort.       *)
TypeOK ==
  /\ rules \in RuleLists
  /\ node \in [ToSet(Names) -> {"none", "good", "bad"}]
  /\ sniffs \subseteq Inbounds /\ hijack \in BOOLEAN
  /\ config # NoConfig => config.kernel \in {"singbox", "xray"} /\ config.final \in Tags

(* sing-box sends every connection where the user's list says, from the    *)
(* top (route_order_test.go:9), although one rule of the user becomes      *)
(* several, private addresses and hijacked DNS come before them and the    *)
(* default rules after (singbox_builder.go:1105, :1119).                   *)
SingboxFollowsRules ==
  BuiltFor("singbox") =>
    \A conn \in Connections :
      SingboxDecides(conn) =
        IF hijack /\ conn.dns /\ conn.inbound \in sniffs THEN "hijack-dns"
        ELSE Asked(conn, SingboxSees(conn), AnyCondition, SingboxDefault(conn))

(* xray too, by what it sees at first, with the rest to "proxy"            *)
(* (xray_builder.go:183); that rule takes every connection, so a domain is *)
(* resolved for the rules on addresses only while "proxy" is not bound.    *)
(* What no rule takes then goes to the first outbound of the list.         *)
XrayFollowsRules ==
  BuiltFor("xray") =>
    \A conn \in Connections :
      XrayDecides(conn) =
        Asked(conn, XrayFirst(conn), AllConditions,
              IF "proxy" \in Bound THEN "proxy"
              ELSE Asked(conn, XraySecond(conn), AllConditions,
                         IF Bound = {} THEN "direct" ELSE Last(BoundNames)))

(* A probe measures the outbound whose credential it uses: no rule of the  *)
(* user, no private address and no default takes it elsewhere.             *)
ProbeKeepsOutbound ==
  \A conn \in ProbeConnections :
    /\ BuiltFor("singbox") => SingboxDecides(conn) = conn.user
    /\ BuiltFor("xray") => XrayDecides(conn) = conn.user

(* Each tag a configuration uses is declared in it, or the kernel would    *)
(* refuse to start: an outbound that is not bound is not in it, and the    *)
(* rules to it are left out (singbox_builder.go:355).                      *)
TagsDeclared ==
  config # NoConfig =>
    /\ {r.out : r \in {r \in ToSet(config.rules) : r.action = "route"}}
         \subseteq ToSet(config.outbounds)
    /\ BuiltFor("singbox") =>
         \A r \in ToSet(config.rules) : r.conds \ (Conds \union {"private"}) \subseteq config.sets

(* The rule sets of a configuration are among those that are downloaded    *)
(* ahead (singbox_builder.go:996, "与 BuildSingboxConfig 的取值范围保持一致").       *)
SetsPrefetched ==
  BuiltFor("singbox") => config.sets \ {SiteCn, IpCn} \subseteq PrefetchedSets

(* singbox_builder.go:949, "用 ip_is_private 替代": the refused name         *)
(* geosite:private stands for the private addresses, so a rule with that   *)
(* condition alone takes nothing but those.                                *)
PrivateNameReplaced ==
  LET meets(r, conn, view) ==
        /\ PortsOf(r) = {} \/ conn.port \in PortsOf(r)
        /\ r.conds = {} \/ \E c \in r.conds :
             Satisfies(conn, IF c = "geosite:private" THEN "private" ELSE AtomOf(c), view)
  IN BuiltFor("singbox") =>
       \A conn \in Connections :
         ~ conn.dns =>
           SingboxDecides(conn) = Asked(conn, SingboxSees(conn), meets, SingboxDefault(conn))
=============================================================================
