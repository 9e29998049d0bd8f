SPECIFICATION PatchSpec
CONSTANTS
  s1 = s1
  s2 = s2
  s3 = s3
  g1 = g1
  g2 = g2
  ou1 = ou1
  ou2 = ou2
  ou3 = ou3
  c1 = c1
  c2 = c2
  School = {s1, s2, s3}
  Group = {g1, g2}
  User = {u1}
  SchoolName = {ou1, ou2, ou3}
  GroupName = {c1, c2}
  UserName = {n1}
  HostKind = {}
  Host = {}
  NoRow = NoRow
  Nothing = Nothing
  InitialDatabase <- MCInitial
INVARIANTS
  NeverRefused
PROPERTIES
  WritesUsers
