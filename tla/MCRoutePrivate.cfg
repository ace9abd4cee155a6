SPECIFICATION Spec
CONSTANTS
  Names <- MCNames
  Inbounds = {"socks-in", "in-1"}
  Builtin <- MCBuiltin
  Conds <- MCConds
  Kind <- MCKind
  SetOf <- MCSetOf
  NoSet = "no set"
  SiteCn = "geosite-cn"
  IpCn = "geoip-cn"
  RuleLists <- MCRuleLists
  Probe = "probe-in"
INVARIANT PrivateNameReplaced
