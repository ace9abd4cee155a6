----------------------------- MODULE MCRouteRules -----------------------------
(* The rule with a refused name, alone, for PrivateNameReplaced.           *)
EXTENDS RouteRules

In == INSTANCE RouteInputs

MCNames == <<"proxy", "hk">>
MCBuiltin == <<"socks-in">>
MCConds == In!AllConds
MCKind == In!KindOf
MCSetOf == In!GeoSet
MCRuleLists == In!PrivateName
=============================================================================
