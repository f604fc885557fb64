SPECIFICATION GatewaySpec
CONSTANTS
  l1 = l1
  c1 = c1
  c2 = c2
  c3 = c3
  ip1 = ip1
  ip2 = ip2
  Unset = Unset
  Garbage = Garbage
  NoToken = NoToken
  Logins = {l1}
  Calls = {c1, c2, c3}
  Clients = {ip1, ip2}
  Sender <- MCSender
  Traffic <- MCTraffic
  Environments <- MCEnvironments
  Second = 2
  Hour = 2
  MaxClock = 3
SYMMETRY CallSymmetry
INVARIANTS
  GatewayTypeOK
  AdmissionBounded
  CountersAddUp
PROPERTIES
  RefusalsAreEarned
  TokensLastAsConfigured
