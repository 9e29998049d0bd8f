SPECIFICATION Spec
CONSTANTS
  s1 = s1
  s2 = s2
  g1 = g1
  g2 = g2
  u1 = u1
  u2 = u2
  ou1 = ou1
  ou2 = ou2
  c1 = c1
  c2 = c2
  n1 = n1
  n2 = n2
  edu = edu
  srv = srv
  School = {s1, s2}
  Group = {g1}
  User = {u1, u2}
  SchoolName = {ou1, ou2}
  GroupName = {c1, c2}
  UserName = {n1, n2}
  HostKind = {edu}
  Host = {srv}
  NoRow = NoRow
  InitialDirectory <- MCOneOnly
  Operations = {"rename"}
  MaxDeliveries = 1
  MaxCrashes = 0
  MaxEvents = 8
  MaxChanges = 2
  MaxFaults = 1
  MaxResubscriptions = 1
INVARIANT
  RePrefillRepairs
CHECK_DEADLOCK FALSE
