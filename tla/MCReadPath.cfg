SPECIFICATION FairReadSpec
CONSTANTS
  s1 = s1
  s2 = s2
  g1 = g1
  g2 = g2
  u1 = u1
  u2 = u2
  ou1 = ou1
  ou2 = ou2
  c1 = c1
  c2 = c2
  n1 = n1
  n2 = n2
  edu = edu
  srv = srv
  School = {s1, s2}
  Group = {g1, g2}
  User = {u1, u2}
  SchoolName = {ou1, ou2}
  GroupName = {c1, c2}
  UserName = {n1, n2}
  HostKind = {edu}
  Host = {srv}
  NoRow = NoRow
  InitialDirectory <- MCInitial
  Operations = {"school", "user", "group", "rename", "move"}
  RequestKinds = {"get", "search", "class"}
  MaxDeliveries = 3
  MaxCrashes = 0
  MaxEvents = 9
  MaxChanges = 2
  MaxFaults = 0
  MaxResubscriptions = 0
INVARIANTS
  UsersShown
  FailsOnlyWhenDisturbed
  ClassesWithinSchools
PROPERTIES
  AnswersConverge
CHECK_DEADLOCK FALSE
