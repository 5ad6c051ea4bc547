CONSTANTS
  Ports = {p, q}
  DefaultPort = p
  NoPort = NoPort
  Bypass = Bypass
  TproxySupport = TRUE
  MaxEvents = 2
SPECIFICATION FairSpec
INVARIANT
  RouterFollowsFirewall
PROPERTY
  RulesComeBack
CHECK_DEADLOCK FALSE
