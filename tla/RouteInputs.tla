------------------------------ MODULE RouteInputs ------------------------------
(***************************************************************************)
(* Values for the constants of RouteRules: conditions of every kind but    *)
(* regexp, which is treated like keyword, an alias and a refused name      *)
(* among them, and all lists of at most two of the rules below.            *)
(***************************************************************************)
EXTENDS Naturals

Refused == "no set"
AllConds == {"geosite:cn", "geosite:china", "geosite:gfw", "geosite:private", "geoip:jp",
          "domain:x", "keyword:y", "1.2.3.0/24", "private"}

KindOf ==
  [c \in AllConds |->
     CASE c \in {"geosite:cn", "geosite:china", "geosite:gfw", "geosite:private"} -> "geosite"
       [] c = "geoip:jp" -> "geoip"
       [] c = "domain:x" -> "suffix"
       [] c = "keyword:y" -> "keyword"
       [] c = "1.2.3.0/24" -> "cidr"
       [] OTHER -> "private"]
GeoSet ==
  [c \in {c \in AllConds : KindOf[c] \in {"geosite", "geoip"}} |->
     CASE c \in {"geosite:cn", "geosite:china"} -> "geosite-cn"
       [] c = "geosite:gfw" -> "geosite-gfw"
       [] c = "geoip:jp" -> "geoip-jp"
       [] OTHER -> Refused]

ARule(inbounds, conds, ports, target) ==
  [enabled |-> TRUE, action |-> IF target \in {"direct", "block"} THEN target ELSE "outbound",
   outbound |-> target, inbounds |-> inbounds, conds |-> conds, ports |-> ports]

Rules ==
  {[ARule({}, {}, {}, "block") EXCEPT !.enabled = FALSE],
   ARule({"socks-in"}, {}, {}, "hk"),
   ARule({"in-1"}, {"geosite:gfw"}, {}, "proxy"),
   ARule({}, {"geosite:cn", "geosite:china"}, {}, "direct"),
   ARule({}, {"geosite:private"}, {}, "hk"),
   ARule({}, {"geosite:cn", "private"}, {}, "proxy"),
   ARule({}, {"domain:x", "keyword:y", "1.2.3.0/24"}, {80}, "hk"),
   ARule({}, {"geosite:gfw", "geoip:jp", "private"}, {65616}, "block"),
   ARule({}, {"private"}, {0, 443}, "block"),
   ARule({}, {}, {0}, "proxy")}
ShortLists == UNION {[1 .. n -> Rules] : n \in 0 .. 2}

(* The rule with the refused name alone.                                   *)
PrivateName == {<<ARule({}, {"geosite:private"}, {}, "hk")>>}
=============================================================================
