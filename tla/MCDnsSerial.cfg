CONSTANTS
  d1 = d1
  p1 = p1
  p2 = p2
  s1 = s1
  s2 = s2
  Procs = {p1, p2}
  Domains = {d1}
  Servers = {s1, s2}
  Pinned <- MCPinned
  PerDay = 1
  MaxFailures = 0
  MaxDay = 2
  MaxSerial = 4
SPECIFICATION Spec
SYMMETRY Symmetric
INVARIANT RegistryRemembers
PROPERTIES SerialsIncrease ServersFollow
CHECK_DEADLOCK FALSE
