------------------------------ MODULE DropProofs ------------------------------
(***************************************************************************)
(* DropsStayLocal, for every directory, all its changes, and any number of *)
(* crashes, faults, exhausted events and prefills: a dropped event harms   *)
(* only its own object.                                                    *)
(*                                                                         *)
(* An event's own columns are right in the directory when it is published  *)
(* and stay right until the object's next event (LatestCarries).  They are *)
(* written as they are if the schools they name are stored, and those were *)
(* published earlier (SchoolsFirst) and, unless one was dropped, committed *)
(* earlier.  No event of another object writes them, except the removal of *)
(* a school, which is no longer anybody's.  WInv says all this of the      *)
(* events committed so far.                                                *)
(***************************************************************************)
EXTENDS HandlerProofs

\* Everybody is in a school of the directory, and no two schools share a name.
SchoolsFound(d) ==
  /\ \A s, t \in DirSchools(d) : d.school[s] = d.school[t] => s = t
  /\ \A g \in DirGroups(d) : d.group[g].school \in DirSchoolNames(d)
  /\ \A u \in DirUsers(d) : /\ d.user[u].ou \in d.user[u].schools
                            /\ d.user[u].schools \subseteq DirSchoolNames(d)

\* The event tells what its object is in d, apart from its references.
Carries(d, e) ==
  /\ Removes(e) => e.id \notin DirObjects(d)
  /\ e.kind = "school" /\ e.op # "delete" => e.id \in DirSchools(d) /\ d.school[e.id] = e.name
  /\ e.kind = "group" /\ e.op # "delete"
       => /\ e.id \in DirGroups(d)
          /\ d.group[e.id].name = e.name
          /\ d.group[e.id].school = e.school
          /\ d.group[e.id].scope = e.scope
  /\ e.kind = "user" /\ e.op # "delete"
       => /\ e.id \in DirUsers(d)
          /\ d.user[e.id].name = e.name
          /\ d.user[e.id].ou = e.ou
          /\ d.user[e.id].schools = e.schools

Carried(d) == {e \in SyncEvent : Carries(d, e)}

----------------------------------------------------------------------------
(* What a change tells of the objects it changes *)

\* Apart from its references, x is the same in d and n.
SameData(d, n, x) ==
  /\ x \in School => n.school[x] = d.school[x]
  /\ x \in Group => /\ x \in DirGroups(n) <=> x \in DirGroups(d)
                    /\ x \in DirGroups(d) => /\ n.group[x].name = d.group[x].name
                                             /\ n.group[x].school = d.group[x].school
                                             /\ n.group[x].scope = d.group[x].scope
  /\ x \in User => n.user[x] = d.user[x]

\* A school that appears or goes has a name no other school has.
SchoolsStep(d, n) ==
  /\ \A s \in DirSchools(n) :
       \/ s \in DirSchools(d) /\ n.school[s] = d.school[s]
       \/ s \notin DirSchools(d) /\ n.school[s] \notin DirSchoolNames(d)
  /\ \A s \in DirSchools(d) :
       \/ s \in DirSchools(n) /\ n.school[s] = d.school[s]
       \/ d.school[s] \notin DirSchoolNames(n)

\* A change whose events tell all it does.
DataKept(d, c) ==
  /\ c.events \in Seq(Carried(c.dir))
  /\ \A x \in Object : SameData(d, c.dir, x) \/ \E j \in DOMAIN c.events : About(c.events[j], x)
  /\ SchoolsFound(c.dir)
  /\ SchoolsStep(d, c.dir)
  /\ c.dir.school = d.school \/ \A j \in DOMAIN c.events : c.events[j].kind = "school"

\* Snapshots tell what they are taken of (UDM).
LEMMA SnapshotsCarry ==
  ASSUME NEW d, DirKept(d), NEW op \in {"create", "modify"}
  PROVE  /\ \A s \in DirSchools(d) : SchoolSnapshot(d, op, s) \in Carried(d)
         /\ \A g \in DirGroups(d) : GroupSnapshot(d, op, g) \in Carried(d)
         /\ \A u \in DirUsers(d) : UserSnapshot(d, op, u) \in Carried(d)
         /\ \A h \in DirHostGroups(d) : HostSnapshot(d, op, h) \in Carried(d)
<1>1. ASSUME NEW s \in DirSchools(d) PROVE SchoolSnapshot(d, op, s) \in Carried(d)
  <2>1. SchoolSnapshot(d, op, s) \in SyncEvent
    BY SchoolSnapshotTyped
  <2>2. LET e == SchoolSnapshot(d, op, s)
        IN e.kind = "school" /\ e.op # "delete" /\ e.id = s /\ e.name = d.school[s]
    BY DEF SchoolSnapshot
  <2> QED
    BY <2>1, <2>2 DEF Carried, Carries, Removes
<1>2. ASSUME NEW g \in DirGroups(d) PROVE GroupSnapshot(d, op, g) \in Carried(d)
  <2>1. GroupSnapshot(d, op, g) \in SyncEvent
    BY GroupSnapshotTyped
  <2>2. LET e == GroupSnapshot(d, op, g)
        IN /\ e.kind = "group" /\ e.op # "delete" /\ e.id = g /\ e.name = d.group[g].name
           /\ e.school = d.group[g].school /\ e.scope = d.group[g].scope
    BY DEF GroupSnapshot
  <2> QED
    BY <2>1, <2>2 DEF Carried, Carries, Removes
<1>3. ASSUME NEW u \in DirUsers(d) PROVE UserSnapshot(d, op, u) \in Carried(d)
  <2>1. UserSnapshot(d, op, u) \in SyncEvent
    BY UserSnapshotTyped
  <2>2. LET e == UserSnapshot(d, op, u)
        IN /\ e.kind = "user" /\ e.op # "delete" /\ e.id = u /\ e.name = d.user[u].name
           /\ e.ou = d.user[u].ou /\ e.schools = d.user[u].schools
    BY DEF UserSnapshot
  <2> QED
    BY <2>1, <2>2 DEF Carried, Carries, Removes
<1>4. ASSUME NEW h \in DirHostGroups(d) PROVE HostSnapshot(d, op, h) \in Carried(d)
  <2>1. HostSnapshot(d, op, h) \in SyncEvent
    BY HostSnapshotTyped DEF DirHostGroups
  <2>2. HostSnapshot(d, op, h).kind = "host"
    BY DEF HostSnapshot
  <2> QED
    BY <2>1, <2>2 DEF Carried, Carries, Removes
<1> QED
  BY <1>1, <1>2, <1>3, <1>4

\* The events of the groups that a change of a user rewrites (refint).
LEMMA RewritesCarry ==
  ASSUME NEW d, DirKept(d), NEW gs \in SUBSET DirGroups(d)
  PROVE  /\ GroupSnapshots(d, gs) \in Seq(Carried(d))
         /\ \A j \in DOMAIN GroupSnapshots(d, gs) : GroupSnapshots(d, gs)[j].kind = "group"
<1>1. IsFiniteSet(gs)
  BY DirFinite, FS_Subset
<1> DEFINE n == Cardinality(gs)
<1>2. n \in Nat /\ \A i \in 1..n : SetToSeq(gs)[i] \in gs
  BY <1>1, SetToSeqTyped
<1>3. \A i \in 1..n : /\ GroupSnapshot(d, "modify", SetToSeq(gs)[i]) \in Carried(d)
                      /\ GroupSnapshot(d, "modify", SetToSeq(gs)[i]).kind = "group"
  <2>1. \A g \in DirGroups(d) : /\ GroupSnapshot(d, "modify", g) \in Carried(d)
                                /\ GroupSnapshot(d, "modify", g).kind = "group"
    BY SnapshotsCarry DEF GroupSnapshot
  <2> QED
    BY <1>2, <2>1
<1>4. GroupSnapshots(d, gs) = [i \in 1..n |-> GroupSnapshot(d, "modify", SetToSeq(gs)[i])]
  BY DEF GroupSnapshots
<1> HIDE DEF n
<1> QED
  BY <1>2, <1>3, <1>4

\* A change of one object, with the groups it rewrites (EditUser, RemoveUser).
LEMMA OneObjectChanged ==
  ASSUME NEW d, NEW n, DirKept(n), NEW e \in Carried(n), e.kind # "host",
         \A x \in Object : x = e.id \/ SameData(d, n, x),
         SchoolsFound(n), SchoolsStep(d, n), n.school = d.school \/ e.kind = "school",
         NEW gs \in SUBSET DirGroups(n)
  PROVE  /\ DataKept(d, Change(n, <<e>>))
         /\ n.school = d.school => DataKept(d, Change(n, <<e>> \o GroupSnapshots(n, gs)))
<1> DEFINE T == Carried(n)
           es == GroupSnapshots(n, gs)
<1>1. e \in T /\ es \in Seq(T)
  BY RewritesCarry
<1>2. <<e>> \in Seq(T) /\ <<e>> \o es \in Seq(T)
      /\ 1 \in DOMAIN <<e>> /\ 1 \in DOMAIN (<<e>> \o es) /\ (<<e>> \o es)[1] = e
      /\ <<e>>[1] = e /\ \A j \in DOMAIN <<e>> : <<e>>[j] = e
  <2> HIDE DEF T, es
  <2> QED
    BY <1>1
<1> HIDE DEF es
<1>3. DataKept(d, Change(n, <<e>>))
  BY <1>2 DEF DataKept, Change, About
<1>4. ASSUME n.school = d.school PROVE DataKept(d, Change(n, <<e>> \o es))
  BY <1>2, <1>4 DEF DataKept, Change, About
<1> QED
  BY <1>3, <1>4 DEF es

\* While no school changes, everybody is in a school that is there.
LEMMA SchoolsStay ==
  ASSUME NEW d, SchoolsFound(d), NEW n, n.school = d.school,
         \A g \in DirGroups(n) : n.group[g].school \in DirSchoolNames(d),
         \A u \in DirUsers(n) : /\ n.user[u].ou \in n.user[u].schools
                                /\ n.user[u].schools \subseteq DirSchoolNames(d)
  PROVE  SchoolsFound(n) /\ SchoolsStep(d, n)
<1>1. DirSchools(n) = DirSchools(d)
  BY DEF DirSchools
<1>2. DirSchoolNames(n) = DirSchoolNames(d)
  BY <1>1 DEF DirSchoolNames
<1> QED
  BY <1>1, <1>2 DEF SchoolsFound, SchoolsStep

\* Adding, changing and removing a school (UDM container/ou).
LEMMA SchoolAddedCarried ==
  ASSUME NEW d, DirKept(d), SchoolsFound(d), NEW s \in School, s \notin DirSchools(d),
         NEW name \in SchoolName, name \notin DirSchoolNames(d)
  PROVE  DataKept(d, AddSchool(d, s, name))
<1> USE StoreAssumption DEF StoreAssumption
<1> DEFINE n == [d EXCEPT !.school[s] = name]
           e == SchoolSnapshot(n, "create", s)
<1>1. /\ n.group = d.group /\ n.user = d.user /\ n.school = [d.school EXCEPT ![s] = name]
      /\ d.school \in [School -> SchoolName \cup {NoRow}]
  BY DEF DirKept, DirectoryType
<1>2. AddSchool(d, s, name) = Change(n, <<e>>)
  BY DEF AddSchool, Change
<1>3. DirKept(n)
  <2>1. ChangeKept(d, AddSchool(d, s, name), {s})
    BY SchoolChanges
  <2> QED
    BY <1>2, <2>1 DEF ChangeKept, Change
<1> HIDE DEF n
<1>4. /\ DirSchools(n) = DirSchools(d) \cup {s}
      /\ DirGroups(n) = DirGroups(d) /\ DirUsers(n) = DirUsers(d)
  BY <1>1 DEF DirSchools, DirGroups, DirUsers
<1>5. \A t \in DirSchools(d) : n.school[t] = d.school[t] /\ t # s
  BY <1>1 DEF DirSchools
<1>6. n.school[s] = name
  BY <1>1
<1>7. DirSchoolNames(d) \subseteq DirSchoolNames(n)
  BY <1>4, <1>5 DEF DirSchoolNames
<1>8. \A t \in DirSchools(d) : d.school[t] # name
  BY DEF DirSchoolNames
<1>9. SchoolsFound(n)
  BY <1>1, <1>4, <1>5, <1>6, <1>7, <1>8 DEF SchoolsFound
<1>10. SchoolsStep(d, n)
  BY <1>4, <1>5, <1>6 DEF SchoolsStep
<1>11. e \in Carried(n)
  BY <1>3, <1>4, SnapshotsCarry
<1>12. e.kind = "school" /\ e.id = s
  BY DEF SchoolSnapshot
<1> HIDE DEF e
<1>13. \A x \in Object : x = s \/ SameData(d, n, x)
  BY <1>1, <1>4 DEF SameData
<1> QED
  BY <1>2, <1>3, <1>9, <1>10, <1>11, <1>12, <1>13, OneObjectChanged

\* The events of the schools (AddSchool above, EditSchool, RemoveSchool).
LEMMA SchoolEditedCarried ==
  ASSUME NEW d, DirKept(d), SchoolsFound(d), NEW s \in DirSchools(d)
  PROVE  DataKept(d, EditSchool(d, s))
<1> DEFINE e == SchoolSnapshot(d, "modify", s)
<1>1. EditSchool(d, s) = Change(d, <<e>>)
  BY DEF EditSchool
<1>2. e \in Carried(d)
  BY SnapshotsCarry
<1>3. e.kind = "school" /\ e.id = s
  BY DEF SchoolSnapshot
<1> HIDE DEF e
<1>4. \A x \in Object : SameData(d, d, x)
  BY DEF SameData
<1>5. SchoolsStep(d, d)
  BY DEF SchoolsStep
<1> QED
  BY <1>1, <1>2, <1>3, <1>4, <1>5, OneObjectChanged

\* An OU is removed after everything that belongs to it (RemoveSchool).
LEMMA SchoolRemovedCarried ==
  ASSUME NEW d, DirKept(d), SchoolsFound(d), NEW s \in DirSchools(d),
         \A u \in DirUsers(d) : d.school[s] \notin d.user[u].schools,
         \A g \in DirGroups(d) : d.group[g].school # d.school[s]
  PROVE  DataKept(d, RemoveSchool(d, s))
<1> USE StoreAssumption DEF StoreAssumption
<1> DEFINE n == [d EXCEPT !.school[s] = NoRow]
           e == Removal("school", s, TRUE)
<1>1. /\ n.group = d.group /\ n.user = d.user /\ n.school = [d.school EXCEPT ![s] = NoRow]
      /\ d.school \in [School -> SchoolName \cup {NoRow}] /\ s \in School
  BY DEF DirKept, DirectoryType, DirSchools
<1>2. RemoveSchool(d, s) = Change(n, <<e>>)
  BY DEF RemoveSchool, Change
<1>3. DirKept(n)
  <2>1. ChangeKept(d, RemoveSchool(d, s), {s})
    BY <1>1, SchoolChanges
  <2> QED
    BY <1>2, <2>1 DEF ChangeKept, Change
<1> HIDE DEF n
<1>4. /\ DirSchools(n) = DirSchools(d) \ {s}
      /\ DirGroups(n) = DirGroups(d) /\ DirUsers(n) = DirUsers(d)
  BY <1>1 DEF DirSchools, DirGroups, DirUsers
<1>5. \A t \in DirSchools(n) : n.school[t] = d.school[t] /\ t \in DirSchools(d)
  BY <1>1, <1>4
<1>6. \A p \in DirSchoolNames(d) : p = d.school[s] \/ p \in DirSchoolNames(n)
  BY <1>4, <1>5 DEF DirSchoolNames
<1>7. d.school[s] \notin DirSchoolNames(n)
  BY <1>4, <1>5 DEF DirSchoolNames, SchoolsFound
<1>8. SchoolsFound(n)
  BY <1>1, <1>4, <1>5, <1>6 DEF SchoolsFound
<1>9. SchoolsStep(d, n)
  BY <1>4, <1>5, <1>7 DEF SchoolsStep
<1>10. e.kind = "school" /\ e.id = s /\ e.op = "delete" /\ e \in SyncEvent
  BY <1>1, RemovalTyped DEF Removal
<1> HIDE DEF e
<1>11. s \notin DirObjects(n)
  BY <1>1, <1>4 DEF DirObjects, DirGroups, DirUsers
<1>12. e \in Carried(n)
  BY <1>10, <1>11 DEF Carried, Carries
<1>13. \A x \in Object : x = s \/ SameData(d, n, x)
  BY <1>1, <1>4 DEF SameData
<1> QED
  BY <1>2, <1>3, <1>8, <1>9, <1>10, <1>12, <1>13, OneObjectChanged

\* A group is written into a school that is there (UDM groups/group).
LEMMA GroupRowCarried ==
  ASSUME NEW d, DirKept(d), SchoolsFound(d), NEW g \in Group, NEW row \in GroupRow,
         row.members \subseteq DirUsers(d),
         row.senders \subseteq DirUsers(d) \cup DirGroups(d),
         row.school \in DirSchoolNames(d), NEW op \in {"create", "modify"}
  PROVE  LET n == [d EXCEPT !.group[g] = row]
         IN DataKept(d, Change(n, <<GroupSnapshot(n, op, g)>>))
<1> USE DirectoryAssumption, StoreAssumption DEF DirectoryAssumption, StoreAssumption, GroupRow
<1> DEFINE n == [d EXCEPT !.group[g] = row]
           e == GroupSnapshot(n, op, g)
<1>1. n.group = [d.group EXCEPT ![g] = row] /\ n.school = d.school /\ n.user = d.user
  BY DEF DirKept, DirectoryType
<1>2. DirKept(n)
  <2>1. ChangeKept(d, Change(n, <<e>>), {g})
    BY GroupWritten
  <2> QED
    BY <2>1 DEF ChangeKept, Change
<1> HIDE DEF n
<1>3. \A h \in Group : n.group[h] = IF h = g THEN row ELSE d.group[h]
  BY <1>1 DEF DirKept, DirectoryType
<1>4. g \in DirGroups(n) /\ DirUsers(n) = DirUsers(d)
  BY <1>1, <1>3 DEF DirGroups, DirUsers
<1>5. \A h \in DirGroups(n) : h \in Group /\ (h = g \/ h \in DirGroups(d))
  BY <1>3 DEF DirGroups
<1>6. SchoolsFound(n) /\ SchoolsStep(d, n)
  BY <1>1, <1>3, <1>4, <1>5, SchoolsStay DEF SchoolsFound
<1>7. e \in Carried(n)
  BY <1>2, <1>4, SnapshotsCarry
<1>8. e.kind = "group" /\ e.id = g
  BY DEF GroupSnapshot
<1>9. \A x \in Object : x = g \/ SameData(d, n, x)
  BY <1>1, <1>3 DEF SameData, DirGroups
<1> HIDE DEF e
<1>10. DataKept(d, Change(n, <<e>>))
  BY <1>1, <1>2, <1>6, <1>7, <1>8, <1>9, OneObjectChanged
<1> QED
  BY <1>10 DEF e, n

\* The groups of n are groups of d, with other members and senders at most.
GroupsAsBefore(d, n) ==
  \A g \in DirGroups(n) : /\ g \in DirGroups(d)
                          /\ n.group[g].name = d.group[g].name
                          /\ n.group[g].school = d.group[g].school
                          /\ n.group[g].scope = d.group[g].scope

\* Removing a group (refint on the allowed senders).
LEMMA GroupRemovedCarried ==
  ASSUME NEW d, DirKept(d), SchoolsFound(d), NEW g \in DirGroups(d)
  PROVE  DataKept(d, RemoveGroup(d, g))
<1> USE StoreAssumption, DirectoryAssumption DEF StoreAssumption, DirectoryAssumption
<1> DEFINE n == RemoveGroup(d, g).dir
           e == Removal("group", g, d.group[g].scope)
<1>1. /\ n.school = d.school /\ n.user = d.user
      /\ n.group = [h \in Group |-> IF h = g \/ d.group[h] = NoRow THEN NoRow
                                    ELSE [d.group[h] EXCEPT !.senders = @ \ {g}]]
      /\ RemoveGroup(d, g) = Change(n, <<e>>)
  BY DEF RemoveGroup, Change, DirKept, DirectoryType
<1>2. DirKept(n)
  BY GroupRemovedKeeps DEF ChangeKept
<1> HIDE DEF n
<1>3. g \in Group /\ \A h \in DirGroups(d) : d.group[h] \in GroupRow
  BY DEF DirKept, DirectoryType, DirGroups, GroupRow
<1> DEFINE Without(h) == [d.group[h] EXCEPT !.senders = @ \ {g}]
<1>4. \A h \in DirGroups(d) : /\ Without(h) \in GroupRow
                              /\ Without(h).name = d.group[h].name
                              /\ Without(h).school = d.group[h].school
                              /\ Without(h).scope = d.group[h].scope
  BY <1>3 DEF GroupRow
<1>5. \A h \in Group : n.group[h] = IF h = g \/ d.group[h] = NoRow THEN NoRow ELSE Without(h)
  BY <1>1
<1> HIDE DEF Without
<1>6. NoRow \notin GroupRow
  BY DEF GroupRow
<1>7. DirGroups(n) = DirGroups(d) \ {g} /\ DirUsers(n) = DirUsers(d)
  BY <1>1, <1>4, <1>5, <1>6 DEF DirGroups, DirUsers
<1>8. GroupsAsBefore(d, n)
  BY <1>3, <1>4, <1>5, <1>7 DEF GroupsAsBefore, DirGroups
<1>9. SchoolsFound(n) /\ SchoolsStep(d, n)
  BY <1>1, <1>7, <1>8, SchoolsStay DEF SchoolsFound, GroupsAsBefore
<1>10. e \in SyncEvent /\ e.kind = "group" /\ e.id = g /\ e.op = "delete"
  <2>1. d.group[g].scope \in BOOLEAN
    BY <1>3 DEF GroupRow
  <2> QED
    BY <1>3, <2>1, RemovalTyped DEF Removal
<1> HIDE DEF e
<1>11. e \in Carried(n)
  BY <1>3, <1>7, <1>10 DEF Carried, Carries, DirObjects, DirSchools, DirUsers
<1>12. \A x \in Object : x = g \/ SameData(d, n, x)
  BY <1>1, <1>7, <1>8 DEF SameData, GroupsAsBefore
<1> QED
  BY <1>1, <1>2, <1>9, <1>10, <1>11, <1>12, OneObjectChanged

\* A new user of schools that are there (UDM users/user).
LEMMA UserAddedCarried ==
  ASSUME NEW d, DirKept(d), SchoolsFound(d), NEW u \in User, NEW name \in UserName,
         NEW schools \in SUBSET DirSchoolNames(d), NEW ou \in schools
  PROVE  DataKept(d, AddUser(d, u, name, ou, schools))
<1> USE StoreAssumption, DirectoryAssumption DEF StoreAssumption, DirectoryAssumption
<1> DEFINE c == AddUser(d, u, name, ou, schools)
           n == c.dir
           e == UserSnapshot(n, "create", u)
           row == [name |-> name, ou |-> ou, schools |-> schools]
<1>0. ou \in SchoolName /\ schools \in SUBSET SchoolName
  BY DEF DirKept, DirectoryType, DirSchoolNames, DirSchools
<1>1. /\ n.user = [d.user EXCEPT ![u] = row] /\ n.group = d.group /\ n.school = d.school
      /\ c = Change(n, <<e>>) /\ row # NoRow /\ row.ou = ou /\ row.schools = schools
  BY <1>0 DEF AddUser, Change, DirKept, DirectoryType
<1>2. DirKept(n)
  BY <1>0, UserAddedKeeps DEF ChangeKept
<1> HIDE DEF c, row
<1>3. \A v \in User : n.user[v] = IF v = u THEN row ELSE d.user[v]
  BY <1>1 DEF DirKept, DirectoryType
<1>4. u \in DirUsers(n) /\ DirGroups(n) = DirGroups(d)
  BY <1>1, <1>3 DEF DirUsers, DirGroups
<1>5. \A v \in DirUsers(n) : v \in User /\ (v = u \/ v \in DirUsers(d))
  BY <1>3 DEF DirUsers
<1>6. SchoolsFound(n) /\ SchoolsStep(d, n)
  BY <1>1, <1>3, <1>4, <1>5, SchoolsStay DEF SchoolsFound
<1>7. e \in Carried(n)
  BY <1>2, <1>4, SnapshotsCarry
<1>8. e.kind = "user" /\ e.id = u
  BY DEF UserSnapshot
<1> HIDE DEF e
<1>9. \A x \in Object : x = u \/ SameData(d, n, x)
  BY <1>1, <1>3, <1>4 DEF SameData
<1>10. DataKept(d, Change(n, <<e>>))
  BY <1>1, <1>2, <1>6, <1>7, <1>8, <1>9, OneObjectChanged
<1> QED
  BY <1>1, <1>10 DEF c

\* Changing a user (refint on the members of the groups it leaves).
LEMMA UserEditedCarried ==
  ASSUME NEW d, DirKept(d), SchoolsFound(d), NEW u \in DirUsers(d), NEW row \in UserRow,
         row.ou \in row.schools, row.schools \subseteq DirSchoolNames(d)
  PROVE  DataKept(d, EditUser(d, u, row))
<1> USE StoreAssumption, DirectoryAssumption DEF StoreAssumption, DirectoryAssumption
<1> DEFINE n == EditUser(d, u, row).dir
           e == UserSnapshot(n, "modify", u)
           left == {g \in GroupsOf(d, u) : d.group[g].school \notin row.schools}
           gs == IF row.name # d.user[u].name \/ row.ou # d.user[u].ou THEN GroupsOf(d, u) ELSE left
           Without(g) == [d.group[g] EXCEPT !.members = @ \ {u}]
<1>1. /\ n.school = d.school /\ n.user = [d.user EXCEPT ![u] = row]
      /\ n.group = [g \in Group |-> IF g \in left THEN Without(g) ELSE d.group[g]]
      /\ EditUser(d, u, row) = Change(n, <<e>> \o GroupSnapshots(n, gs))
  BY DEF EditUser, Change, DirKept, DirectoryType
<1>2. DirKept(n)
  BY UserEditedKeeps DEF ChangeKept
<1> HIDE DEF n
<1>3. /\ \A g \in DirGroups(d) : d.group[g] \in GroupRow
      /\ left \subseteq DirGroups(d) /\ gs \subseteq DirGroups(d) /\ u \in User
  BY DEF DirKept, DirectoryType, DirGroups, DirUsers, GroupRow, GroupsOf
<1> HIDE DEF gs, left
<1>4. \A g \in DirGroups(d) : /\ Without(g) \in GroupRow
                              /\ Without(g).name = d.group[g].name
                              /\ Without(g).school = d.group[g].school
                              /\ Without(g).scope = d.group[g].scope
  BY <1>3 DEF GroupRow
<1> HIDE DEF Without
<1>5. \A g \in Group : n.group[g] = IF g \in left THEN Without(g) ELSE d.group[g]
  BY <1>1
<1>6. NoRow \notin GroupRow /\ NoRow \notin UserRow
  BY DEF GroupRow, UserRow
<1>7. DirGroups(n) = DirGroups(d)
  BY <1>3, <1>4, <1>5, <1>6 DEF DirGroups
<1>8. GroupsAsBefore(d, n)
  BY <1>4, <1>5, <1>7 DEF GroupsAsBefore, DirGroups
<1>9. \A v \in User : n.user[v] = IF v = u THEN row ELSE d.user[v]
  BY <1>1 DEF DirKept, DirectoryType
<1>10. DirUsers(n) = DirUsers(d)
  BY <1>6, <1>9 DEF DirUsers
<1>11. SchoolsFound(n) /\ SchoolsStep(d, n)
  <2>1. \A v \in DirUsers(n) : /\ n.user[v].ou \in n.user[v].schools
                               /\ n.user[v].schools \subseteq DirSchoolNames(d)
    BY <1>9, <1>10 DEF SchoolsFound, DirUsers
  <2> QED
    BY <1>1, <1>8, <2>1, SchoolsStay DEF SchoolsFound, GroupsAsBefore
<1>12. e \in Carried(n)
  BY <1>2, <1>10, SnapshotsCarry
<1>13. e.kind = "user" /\ e.id = u
  BY DEF UserSnapshot
<1> HIDE DEF e
<1>14. \A x \in Object : x = u \/ SameData(d, n, x)
  BY <1>1, <1>7, <1>8, <1>9 DEF SameData, GroupsAsBefore
<1> QED
  BY <1>1, <1>2, <1>3, <1>7, <1>11, <1>12, <1>13, <1>14, OneObjectChanged

\* Removing a user (refint on the groups that name it).
LEMMA UserRemovedCarried ==
  ASSUME NEW d, DirKept(d), SchoolsFound(d), NEW u \in DirUsers(d)
  PROVE  DataKept(d, RemoveUser(d, u))
<1> USE StoreAssumption, DirectoryAssumption DEF StoreAssumption, DirectoryAssumption
<1> DEFINE n == RemoveUser(d, u).dir
           e == Removal("user", u, TRUE)
           gs == GroupsOf(d, u)
           Without(g) == [d.group[g] EXCEPT !.members = @ \ {u}, !.senders = @ \ {u}]
<1>1. /\ n.school = d.school /\ n.user = [d.user EXCEPT ![u] = NoRow]
      /\ n.group = [g \in Group |-> IF d.group[g] = NoRow THEN NoRow ELSE Without(g)]
      /\ RemoveUser(d, u) = Change(n, <<e>> \o GroupSnapshots(n, gs))
  BY DEF RemoveUser, Change, DirKept, DirectoryType
<1>2. DirKept(n)
  BY UserRemovedKeeps DEF ChangeKept
<1> HIDE DEF n
<1>3. gs \subseteq DirGroups(d) /\ u \in User /\ \A g \in DirGroups(d) : d.group[g] \in GroupRow
  BY DEF DirKept, DirectoryType, DirGroups, DirUsers, GroupRow, GroupsOf
<1>4. \A g \in DirGroups(d) : /\ Without(g) \in GroupRow
                              /\ Without(g).name = d.group[g].name
                              /\ Without(g).school = d.group[g].school
                              /\ Without(g).scope = d.group[g].scope
  BY <1>3 DEF GroupRow
<1> HIDE DEF gs, Without
<1>5. \A g \in Group : n.group[g] = IF d.group[g] = NoRow THEN NoRow ELSE Without(g)
  BY <1>1
<1>6. NoRow \notin GroupRow
  BY DEF GroupRow
<1>7. DirGroups(n) = DirGroups(d)
  BY <1>4, <1>5, <1>6 DEF DirGroups
<1>8. GroupsAsBefore(d, n)
  BY <1>4, <1>5, <1>7 DEF GroupsAsBefore, DirGroups
<1>9. \A v \in User : n.user[v] = IF v = u THEN NoRow ELSE d.user[v]
  BY <1>1 DEF DirKept, DirectoryType
<1>10. DirUsers(n) = DirUsers(d) \ {u}
  BY <1>9 DEF DirUsers
<1>11. SchoolsFound(n) /\ SchoolsStep(d, n)
  <2>1. \A v \in DirUsers(n) : /\ n.user[v].ou \in n.user[v].schools
                               /\ n.user[v].schools \subseteq DirSchoolNames(d)
    BY <1>9, <1>10 DEF SchoolsFound, DirUsers
  <2> QED
    BY <1>1, <1>8, <2>1, SchoolsStay DEF SchoolsFound, GroupsAsBefore
<1>12. e \in SyncEvent /\ e.kind = "user" /\ e.id = u /\ e.op = "delete"
  BY <1>3, RemovalTyped DEF Removal
<1> HIDE DEF e
<1>13. e \in Carried(n)
  BY <1>3, <1>10, <1>12 DEF Carried, Carries, DirObjects, DirSchools, DirGroups
<1>14. \A x \in Object : x = u \/ SameData(d, n, x)
  BY <1>1, <1>7, <1>8, <1>9 DEF SameData, GroupsAsBefore
<1> QED
  BY <1>1, <1>2, <1>3, <1>7, <1>11, <1>12, <1>13, <1>14, OneObjectChanged

\* A change of a DC host group.
LEMMA HostsChangedCarried ==
  ASSUME NEW d, DirKept(d), SchoolsFound(d), NEW h \in SchoolName \X HostKind,
         NEW hosts \in (SUBSET Host) \cup {NoRow}
  PROVE  DataKept(d, SetHosts(d, h, hosts))
<1> DEFINE c == SetHosts(d, h, hosts)
           n == c.dir
           op == IF d.hosts[h] = NoRow THEN "create" ELSE IF hosts = NoRow THEN "delete" ELSE "modify"
           e == HostSnapshot(n, op, h)
<1>1. n.group = d.group /\ n.school = d.school /\ n.user = d.user /\ c = Change(n, <<e>>)
  BY DEF SetHosts, Change, DirKept, DirectoryType
<1>2. DirKept(n)
  BY HostsChangedKeeps DEF ChangeKept
<1>3. op \in {"create", "modify", "delete"}
  OBVIOUS
<1> HIDE DEF c, op
<1>4. e \in SyncEvent /\ e.kind = "host"
  BY <1>2, <1>3, HostSnapshotTyped DEF HostSnapshot
<1> HIDE DEF e
<1>5. DirGroups(n) = DirGroups(d) /\ DirUsers(n) = DirUsers(d)
  BY <1>1 DEF DirGroups, DirUsers
<1>6. SchoolsFound(n) /\ SchoolsStep(d, n)
  BY <1>1, <1>5, SchoolsStay DEF SchoolsFound
<1>7. \A x \in Object : SameData(d, n, x)
  BY <1>1, <1>5 DEF SameData
<1>8. e \in Carried(n)
  BY <1>4 DEF Carried, Carries, Removes
<1>9. <<e>> \in Seq(Carried(n))
  BY <1>8
<1>10. DataKept(d, Change(n, <<e>>))
  BY <1>1, <1>6, <1>7, <1>9 DEF DataKept, Change
<1> QED
  BY <1>1, <1>10 DEF c

----------------------------------------------------------------------------
(* The changes keep everybody in a school *)

\* A change whose events tell all it does; the schools it adds never had an event.
DataSubmitted ==
  \E operation, c :
    /\ DataKept(dir, c)
    /\ Submit(operation, c)
    /\ \A s \in DirSchools(c.dir) \ DirSchools(dir) : EventsOf(s) = {}

\* The witnesses of DataSubmitted, when no school is added (Submit).
LEMMA SubmitsData ==
  ASSUME NEW operation, NEW c, DataKept(dir, c), Submit(operation, c),
         DirSchools(c.dir) \subseteq DirSchools(dir)
  PROVE  DataSubmitted
BY DEF DataSubmitted

\* Changes of schools and of DC host groups.
LEMMA SchoolChangeSubmitsData ==
  ASSUME DirKept(dir), SchoolsFound(dir), SchoolChange
  PROVE  DataSubmitted
<1>1. ASSUME NEW s \in School, NEW name \in SchoolName, SchoolAdded(s, name) PROVE DataSubmitted
  <2> DEFINE c == AddSchool(dir, s, name)
  <2>1. /\ Unused(s) /\ s \notin DirSchools(dir) /\ name \notin DirSchoolNames(dir)
        /\ Submit("school", c)
    BY <1>1 DEF SchoolAdded
  <2>2. DataKept(dir, c)
    BY <2>1, SchoolAddedCarried
  <2>3. \A t \in DirSchools(c.dir) : t = s \/ t \in DirSchools(dir)
    BY DEF AddSchool, Change, DirSchools, DirKept, DirectoryType
  <2> HIDE DEF c
  <2>4. \A t \in DirSchools(c.dir) \ DirSchools(dir) : EventsOf(t) = {}
    BY <2>1, <2>3 DEF Unused
  <2> QED
    BY <2>1, <2>2, <2>4 DEF DataSubmitted
<1>2. ASSUME NEW s \in DirSchools(dir), SchoolRemoved(s) PROVE DataSubmitted
  <2> DEFINE c == RemoveSchool(dir, s)
  <2>1. /\ \A u \in DirUsers(dir) : dir.school[s] \notin dir.user[u].schools
        /\ \A g \in DirGroups(dir) : dir.group[g].school # dir.school[s]
        /\ Submit("school", c)
    BY <1>2 DEF SchoolRemoved, UsersOfSchool
  <2>2. DataKept(dir, c)
    BY <2>1, SchoolRemovedCarried
  <2>3. DirSchools(c.dir) \subseteq DirSchools(dir)
    BY DEF RemoveSchool, Change, DirSchools, DirKept, DirectoryType
  <2> HIDE DEF c
  <2> QED
    BY <2>1, <2>2, <2>3, SubmitsData
<1>3. ASSUME NEW s \in DirSchools(dir), SchoolEdited(s) PROVE DataSubmitted
  <2> DEFINE c == EditSchool(dir, s)
  <2>1. DataKept(dir, c) /\ Submit("edit", c) /\ c.dir = dir
    BY <1>3, SchoolEditedCarried DEF SchoolEdited, EditSchool, Change
  <2> HIDE DEF c
  <2> QED
    BY <2>1, SubmitsData
<1>4. ASSUME NEW h \in SchoolName \X HostKind, NEW hosts \in (SUBSET Host) \cup {NoRow},
             HostsChanged(h, hosts)
      PROVE  DataSubmitted
  <2> DEFINE c == SetHosts(dir, h, hosts)
  <2>1. DataKept(dir, c) /\ Submit("hosts", c)
    BY <1>4, HostsChangedCarried DEF HostsChanged
  <2>2. DirSchools(c.dir) \subseteq DirSchools(dir)
    BY DEF SetHosts, Change, DirSchools, DirKept, DirectoryType
  <2> HIDE DEF c
  <2> QED
    BY <2>1, <2>2, SubmitsData
<1> QED
  BY <1>1, <1>2, <1>3, <1>4 DEF SchoolChange

\* A group is written, or moves within the schools there are.
LEMMA GroupRowSubmitsData ==
  ASSUME DirKept(dir), SchoolsFound(dir), NEW g \in Group, NEW row \in GroupRow,
         row.members \subseteq DirUsers(dir),
         row.senders \subseteq DirUsers(dir) \cup DirGroups(dir),
         row.school \in DirSchoolNames(dir), NEW op \in {"create", "modify"}, NEW operation,
         LET n == [dir EXCEPT !.group[g] = row]
         IN Submit(operation, Change(n, <<GroupSnapshot(n, op, g)>>))
  PROVE  DataSubmitted
<1> DEFINE n == [dir EXCEPT !.group[g] = row]
           c == Change(n, <<GroupSnapshot(n, op, g)>>)
<1>1. DataKept(dir, c)
  BY GroupRowCarried
<1>2. DirSchools(c.dir) = DirSchools(dir)
  BY DEF Change, DirSchools, DirKept, DirectoryType
<1>3. Submit(operation, c)
  OBVIOUS
<1> HIDE DEF c
<1> QED
  BY <1>1, <1>2, <1>3, SubmitsData

\* Changes of groups, a move to another school included.
LEMMA GroupChangeSubmitsData ==
  ASSUME DirKept(dir), SchoolsFound(dir), GroupChange
  PROVE  DataSubmitted
<1>1. ASSUME NEW g \in DirGroups(dir)
      PROVE  /\ g \in Group /\ dir.group[g] \in GroupRow
             /\ dir.group[g].members \subseteq DirUsers(dir)
             /\ dir.group[g].senders \subseteq DirUsers(dir) \cup DirGroups(dir)
             /\ dir.group[g].school \in DirSchoolNames(dir)
  BY DEF DirKept, DirectoryType, ReferencesIntact, DirGroups, GroupRow, SchoolsFound
<1>2. ASSUME NEW g \in DirGroups(dir), NEW row \in GroupRow,
             row.members \subseteq DirUsers(dir),
             row.senders \subseteq DirUsers(dir) \cup DirGroups(dir),
             row.school \in DirSchoolNames(dir), NEW operation,
             Submit(operation, EditGroup(dir, g, row))
      PROVE  DataSubmitted
  BY <1>1, <1>2, GroupRowSubmitsData DEF EditGroup
<1>3. ASSUME NEW g \in Group, NEW name \in GroupName, NEW sn \in DirSchoolNames(dir),
             NEW members \in SUBSET User, GroupAdded(g, name, sn, members)
      PROVE  DataSubmitted
  <2> DEFINE row == [name |-> name, school |-> sn, members |-> members, senders |-> {},
                     scope |-> TRUE]
             n == [dir EXCEPT !.group[g] = row]
  <2>1. sn \in SchoolName
    BY DEF DirKept, DirectoryType, DirSchoolNames, DirSchools
  <2>2. /\ row \in GroupRow /\ row.members \subseteq DirUsers(dir)
        /\ row.senders \subseteq DirUsers(dir) \cup DirGroups(dir)
        /\ row.school = sn
    BY <1>3, <2>1 DEF GroupRow, GroupAdded, UsersOfSchool
  <2>3. Submit("group", Change(n, <<GroupSnapshot(n, "create", g)>>))
    BY <1>3 DEF GroupAdded, AddGroup
  <2> HIDE DEF row
  <2> QED
    BY <2>2, <2>3, GroupRowSubmitsData
<1>4. ASSUME NEW g \in DirGroups(dir), NEW members \in SUBSET User, MembersChanged(g, members)
      PROVE  DataSubmitted
  <2> DEFINE row == [dir.group[g] EXCEPT !.members = members]
  <2>1. /\ row \in GroupRow /\ row.members = members /\ row.senders = dir.group[g].senders
        /\ row.school = dir.group[g].school /\ members \subseteq DirUsers(dir)
    BY <1>1, <1>4 DEF GroupRow, MembersChanged, UsersOfSchool
  <2>2. Submit("members", EditGroup(dir, g, row))
    BY <1>4 DEF MembersChanged
  <2> HIDE DEF row
  <2> QED
    BY <1>1, <1>2, <2>1, <2>2
<1>5. ASSUME NEW g \in DirGroups(dir), NEW name \in GroupName, GroupRenamed(g, name)
      PROVE  DataSubmitted
  <2> DEFINE row == [dir.group[g] EXCEPT !.name = name]
  <2>1. /\ row \in GroupRow /\ row.members = dir.group[g].members
        /\ row.senders = dir.group[g].senders /\ row.school = dir.group[g].school
    BY <1>1 DEF GroupRow
  <2>2. Submit("rename", EditGroup(dir, g, row))
    BY <1>5 DEF GroupRenamed
  <2> HIDE DEF row
  <2> QED
    BY <1>1, <1>2, <2>1, <2>2
<1>6. ASSUME NEW g \in DirGroups(dir), NEW sn \in DirSchoolNames(dir), GroupMoved(g, sn)
      PROVE  DataSubmitted
  <2> DEFINE members == dir.group[g].members \cap UsersOfSchool(sn)
             placed == [dir.group[g] EXCEPT !.school = sn]
             row == [placed EXCEPT !.members = members]
  <2>1. sn \in SchoolName
    BY DEF DirKept, DirectoryType, DirSchoolNames, DirSchools
  <2>2. members \in SUBSET User /\ members \subseteq dir.group[g].members
    BY <1>1 DEF GroupRow
  <2>3. Submit("regroup", EditGroup(dir, g, row))
    BY <1>6 DEF GroupMoved
  <2> HIDE DEF members
  <2>4. placed \in GroupRow /\ placed.senders = dir.group[g].senders /\ placed.school = sn
    BY <1>1, <2>1 DEF GroupRow
  <2> HIDE DEF placed
  <2>5. /\ row \in GroupRow /\ row.senders = placed.senders /\ row.members = members
        /\ row.school = placed.school
    BY <2>2, <2>4 DEF GroupRow
  <2> HIDE DEF row
  <2> QED
    BY <1>1, <1>2, <2>2, <2>3, <2>4, <2>5
<1>7. ASSUME NEW g \in DirGroups(dir), NEW senders \in SUBSET (User \cup Group),
             SendersChanged(g, senders)
      PROVE  DataSubmitted
  <2> DEFINE row == [dir.group[g] EXCEPT !.senders = senders]
  <2>1. /\ row \in GroupRow /\ row.members = dir.group[g].members /\ row.senders = senders
        /\ row.school = dir.group[g].school
        /\ senders \subseteq DirUsers(dir) \cup DirGroups(dir)
    BY <1>1, <1>7 DEF GroupRow, SendersChanged
  <2>2. Submit("senders", EditGroup(dir, g, row))
    BY <1>7 DEF SendersChanged
  <2> HIDE DEF row
  <2> QED
    BY <1>1, <1>2, <2>1, <2>2
<1>8. ASSUME NEW g \in DirGroups(dir), RoleLost(g) PROVE DataSubmitted
  <2> DEFINE row == [dir.group[g] EXCEPT !.scope = FALSE]
  <2>0. dir.group[g] \in GroupRow
    BY <1>1
  <2>1. /\ row \in GroupRow /\ row.members = dir.group[g].members
        /\ row.senders = dir.group[g].senders /\ row.school = dir.group[g].school
    BY <2>0 DEF GroupRow
  <2>2. Submit("role", EditGroup(dir, g, row))
    BY <1>8 DEF RoleLost
  <2> HIDE DEF row
  <2> QED
    BY <1>1, <1>2, <2>1, <2>2
<1>9. ASSUME NEW g \in DirGroups(dir), GroupRemoved(g) PROVE DataSubmitted
  <2> DEFINE c == RemoveGroup(dir, g)
  <2>1. DataKept(dir, c) /\ Submit("group", c)
    BY <1>9, GroupRemovedCarried DEF GroupRemoved
  <2>2. DirSchools(c.dir) = DirSchools(dir)
    BY DEF RemoveGroup, Change, DirSchools, DirKept, DirectoryType
  <2> HIDE DEF c
  <2> QED
    BY <2>1, <2>2, SubmitsData
<1> QED
  BY <1>3, <1>4, <1>5, <1>6, <1>7, <1>8, <1>9 DEF GroupChange

\* Changes of users.
LEMMA UserChangeSubmitsData ==
  ASSUME DirKept(dir), SchoolsFound(dir), UserChange
  PROVE  DataSubmitted
<1>0. DirSchoolNames(dir) \subseteq SchoolName
  BY DEF DirKept, DirectoryType, DirSchoolNames, DirSchools
<1>1. ASSUME NEW u \in DirUsers(dir), NEW row \in UserRow,
             row.ou \in row.schools, row.schools \subseteq DirSchoolNames(dir),
             NEW operation, Submit(operation, EditUser(dir, u, row))
      PROVE  DataSubmitted
  <2> DEFINE c == EditUser(dir, u, row)
  <2>1. DataKept(dir, c)
    BY <1>1, UserEditedCarried
  <2>2. DirSchools(c.dir) = DirSchools(dir)
    BY DEF EditUser, Change, DirSchools, DirKept, DirectoryType
  <2>3. Submit(operation, c)
    BY <1>1
  <2> HIDE DEF c
  <2> QED
    BY <2>1, <2>2, <2>3, SubmitsData
<1>2. ASSUME NEW u \in DirUsers(dir)
      PROVE  /\ dir.user[u] \in UserRow
             /\ dir.user[u].ou \in dir.user[u].schools
             /\ dir.user[u].schools \subseteq DirSchoolNames(dir)
  BY DEF DirKept, DirectoryType, DirUsers, UserRow, SchoolsFound
<1>3. ASSUME NEW schools \in SUBSET DirSchoolNames(dir), NEW ou \in schools,
             NEW name \in UserName, NEW u \in User, UserAdded(u, name, ou, schools)
      PROVE  DataSubmitted
  <2> DEFINE c == AddUser(dir, u, name, ou, schools)
  <2>1. DataKept(dir, c)
    BY UserAddedCarried
  <2>2. Submit("user", c)
    BY <1>3 DEF UserAdded
  <2>3. DirSchools(c.dir) = DirSchools(dir)
    BY DEF AddUser, Change, DirSchools, DirKept, DirectoryType
  <2> HIDE DEF c
  <2> QED
    BY <2>1, <2>2, <2>3, SubmitsData
<1>4. ASSUME NEW u \in DirUsers(dir), NEW name \in UserName, UserRenamed(u, name)
      PROVE  DataSubmitted
  <2> DEFINE row == [dir.user[u] EXCEPT !.name = name]
  <2>1. /\ row \in UserRow /\ row.ou = dir.user[u].ou /\ row.schools = dir.user[u].schools
    BY <1>2 DEF UserRow
  <2>2. Submit("rename", EditUser(dir, u, row))
    BY <1>4 DEF UserRenamed
  <2> HIDE DEF row
  <2> QED
    BY <1>1, <1>2, <2>1, <2>2
<1>5. ASSUME NEW u \in DirUsers(dir), NEW schools \in SUBSET DirSchoolNames(dir),
             NEW ou \in schools, UserMoved(u, ou, schools)
      PROVE  DataSubmitted
  <2> DEFINE placed == [dir.user[u] EXCEPT !.ou = ou]
             row == [placed EXCEPT !.schools = schools]
  <2>1. placed \in UserRow /\ placed.ou = ou
    BY <1>0, <1>2 DEF UserRow
  <2>2. Submit("move", EditUser(dir, u, row))
    BY <1>5 DEF UserMoved
  <2> HIDE DEF placed
  <2>3. row \in UserRow /\ row.ou = placed.ou /\ row.schools = schools
    BY <1>0, <2>1 DEF UserRow
  <2> HIDE DEF row
  <2> QED
    BY <1>1, <2>1, <2>2, <2>3
<1>6. ASSUME NEW u \in DirUsers(dir), UserRemoved(u) PROVE DataSubmitted
  <2> DEFINE c == RemoveUser(dir, u)
  <2>1. DataKept(dir, c) /\ Submit("user", c)
    BY <1>6, UserRemovedCarried DEF UserRemoved
  <2>2. DirSchools(c.dir) = DirSchools(dir)
    BY DEF RemoveUser, Change, DirSchools, DirKept, DirectoryType
  <2> HIDE DEF c
  <2> QED
    BY <2>1, <2>2, SubmitsData
<1> QED
  BY <1>3, <1>4, <1>5, <1>6 DEF UserChange

----------------------------------------------------------------------------
(* What the events tell of the directory *)

\* The i-th event is the last one of its object.
Latest(es, i) ==
  /\ es[i].kind # "host"
  /\ \A k \in DOMAIN es : About(es[k], es[i].id) => k <= i

\* The schools an object is in, by its event.
SchoolsOf(e) ==
  IF e.kind = "user" /\ e.op # "delete" THEN e.schools
  ELSE IF e.kind = "group" /\ e.op # "delete" THEN {e.school}
  ELSE {}

LatestCarries(d, es) == \A i \in DOMAIN es : Latest(es, i) => Carries(d, es[i])

\* A school comes before the objects that are in it.
SchoolsFirst(d, es) ==
  \A i \in DOMAIN es, s \in DirSchools(d) :
    Latest(es, i) /\ d.school[s] \in SchoolsOf(es[i]) => \E k \in 1..(i - 1) : About(es[k], s)

\* A school that is there has been published, under its name only.
SchoolsTold(d, es) ==
  \A s \in DirSchools(d) :
    /\ \E k \in DOMAIN es : About(es[k], s)
    /\ \A k \in DOMAIN es : About(es[k], s) => es[k].op # "delete" /\ es[k].name = d.school[s]

\* What the events published so far tell of the directory.
DirTold(d, es) ==
  /\ SchoolsFound(d)
  /\ LatestCarries(d, es)
  /\ SchoolsFirst(d, es)
  /\ SchoolsTold(d, es)

\* Where the events of a concatenation are.
LEMMA Concatenated ==
  ASSUME NEW S, NEW q \in Seq(S), NEW r \in Seq(S)
  PROVE  /\ DOMAIN q = 1..Len(q) /\ Len(q) \in Nat /\ DOMAIN r \subseteq Nat \ {0}
         /\ \A i \in DOMAIN q : i \in DOMAIN (q \o r) /\ (q \o r)[i] = q[i]
         /\ \A j \in DOMAIN r : Len(q) + j \in DOMAIN (q \o r) /\ (q \o r)[Len(q) + j] = r[j]
         /\ \A m \in DOMAIN (q \o r) : m \in DOMAIN q \/ \E j \in DOMAIN r : m = Len(q) + j
<1>1. ASSUME NEW m \in DOMAIN (q \o r), m \notin DOMAIN q PROVE \E j \in DOMAIN r : m = Len(q) + j
  <2>1. m - Len(q) \in DOMAIN r /\ m = Len(q) + (m - Len(q))
    BY <1>1
  <2> QED
    BY <2>1
<1> QED
  BY <1>1

\* An event keeps telling of an object nothing happens to.
LEMMA CarriesOn ==
  ASSUME NEW d, NEW n, NEW e \in SyncEvent, e.kind # "host", Carries(d, e), SameData(d, n, e.id)
  PROVE  Carries(n, e)
<1> USE StoreAssumption DEF StoreAssumption
<1>1. /\ e.kind = "school" => e.id \in School
      /\ e.kind = "group" => e.id \in Group
      /\ e.kind = "user" => e.id \in User
      /\ e.kind \in {"school", "group", "user"}
  BY DEF SyncEvent, SchoolEvent, GroupEvent, UserEvent, HostEvent, DeleteEvent
<1>2. /\ e.id \in DirSchools(n) <=> e.id \in DirSchools(d)
      /\ e.id \in DirUsers(n) <=> e.id \in DirUsers(d)
      /\ e.id \in DirGroups(n) <=> e.id \in DirGroups(d)
  BY DEF SameData, DirSchools, DirUsers, DirGroups
<1>3. Removes(e) => e.id \notin DirObjects(n)
  BY <1>2 DEF Carries, DirObjects
<1>4. e.kind = "school" /\ e.op # "delete" => e.id \in DirSchools(n) /\ n.school[e.id] = e.name
  BY <1>1, <1>2 DEF Carries, SameData
<1>5. e.kind = "group" /\ e.op # "delete"
        => /\ e.id \in DirGroups(n) /\ n.group[e.id].name = e.name
           /\ n.group[e.id].school = e.school /\ n.group[e.id].scope = e.scope
  BY <1>1, <1>2 DEF Carries, SameData
<1>6. e.kind = "user" /\ e.op # "delete"
        => /\ e.id \in DirUsers(n) /\ n.user[e.id].name = e.name
           /\ n.user[e.id].ou = e.ou /\ n.user[e.id].schools = e.schools
  BY <1>1, <1>2 DEF Carries, SameData
<1> QED
  BY <1>3, <1>4, <1>5, <1>6 DEF Carries

\* The schools an event names are schools of the directory.
LEMMA SchoolsOfFound ==
  ASSUME NEW d, SchoolsFound(d), NEW e, Carries(d, e)
  PROVE  SchoolsOf(e) \subseteq DirSchoolNames(d)
BY DEF SchoolsFound, Carries, SchoolsOf

\* A change of the directory adds what it does to what is told (Submit).
LEMMA DirToldGrows ==
  ASSUME NEW d, NEW es \in Seq(SyncEvent), DirTold(d, es), NEW c, DataKept(d, c),
         \A s \in DirSchools(c.dir) \ DirSchools(d), k \in DOMAIN es : ~About(es[k], s)
  PROVE  DirTold(c.dir, es \o c.events)
<1> DEFINE n == c.dir
           r == c.events
           all == es \o r
           m == Len(es)
<1>1. r \in Seq(Carried(n)) /\ \A j \in DOMAIN r : r[j] \in Carried(n)
  BY DEF DataKept
<1>2. r \in Seq(SyncEvent)
  BY <1>1 DEF Carried
<1>3. \A s \in DirSchools(n) :
        \/ s \in DirSchools(d) /\ n.school[s] = d.school[s]
        \/ s \notin DirSchools(d) /\ n.school[s] \notin DirSchoolNames(d)
  BY DEF DataKept, SchoolsStep
<1>4. n.school = d.school \/ \A j \in DOMAIN r : r[j].kind = "school"
  BY DEF DataKept
<1>5. SchoolsFound(n) /\ SchoolsFound(d)
  BY DEF DataKept, DirTold
<1>6. \A x \in Object : SameData(d, n, x) \/ \E j \in DOMAIN r : About(r[j], x)
  BY DEF DataKept
<1>0. \A s \in DirSchools(n) \ DirSchools(d), k \in DOMAIN es : ~About(es[k], s)
  OBVIOUS
<1> HIDE DEF n, r
<1>7. /\ DOMAIN es = 1..m /\ m \in Nat /\ DOMAIN r \subseteq Nat \ {0}
      /\ \A i \in DOMAIN es : i \in DOMAIN all /\ all[i] = es[i]
      /\ \A j \in DOMAIN r : m + j \in DOMAIN all /\ all[m + j] = r[j]
      /\ \A i \in DOMAIN all : i \in DOMAIN es \/ \E j \in DOMAIN r : i = m + j
  BY <1>2, Concatenated
<1> HIDE DEF all, m
<1>8. ASSUME NEW i \in DOMAIN es, Latest(all, i)
      PROVE  /\ Latest(es, i) /\ Carries(d, es[i]) /\ es[i] \in SyncEvent
             /\ SameData(d, n, es[i].id)
  <2>1. Latest(es, i)
    BY <1>7, <1>8 DEF Latest
  <2>2. \A j \in DOMAIN r : ~About(r[j], es[i].id)
    <3>1. ASSUME NEW j \in DOMAIN r, About(r[j], es[i].id) PROVE FALSE
      <4>1. m + j <= i
        BY <1>7, <1>8, <3>1 DEF Latest
      <4> QED
        BY <1>7, <4>1
    <3> QED
      BY <3>1
  <2>3. es[i] \in SyncEvent /\ es[i].kind # "host"
    BY <2>1 DEF Latest
  <2>4. es[i].id \in Object
    BY <2>3 DEF SyncEvent, SchoolEvent, GroupEvent, UserEvent, HostEvent, DeleteEvent, Object
  <2> QED
    BY <1>6, <2>1, <2>2, <2>3, <2>4 DEF DirTold, LatestCarries
<1>9. LatestCarries(n, all)
  <2>1. ASSUME NEW i \in DOMAIN all, Latest(all, i) PROVE Carries(n, all[i])
    <3>1. CASE i \in DOMAIN es
      <4>1. es[i].kind # "host"
        BY <1>8, <2>1, <3>1 DEF Latest
      <4> QED
        BY <1>7, <1>8, <2>1, <3>1, <4>1, CarriesOn
    <3>2. CASE i \notin DOMAIN es
      BY <1>1, <1>7, <3>2 DEF Carried
    <3> QED
      BY <3>1, <3>2
  <2> QED
    BY <2>1 DEF LatestCarries
<1>10. SchoolsFirst(n, all)
  <2>1. ASSUME NEW i \in DOMAIN all, NEW s \in DirSchools(n), Latest(all, i),
               n.school[s] \in SchoolsOf(all[i])
        PROVE  \E k \in 1..(i - 1) : About(all[k], s)
    <3>1. CASE i \in DOMAIN es
      <4>1. all[i] = es[i] /\ Latest(es, i) /\ Carries(d, es[i])
        BY <1>7, <1>8, <2>1, <3>1
      <4>2. s \in DirSchools(d) /\ n.school[s] = d.school[s]
        BY <1>3, <1>5, <2>1, <4>1, SchoolsOfFound
      <4>3. PICK k \in 1..(i - 1) : About(es[k], s)
        BY <2>1, <3>1, <4>1, <4>2 DEF DirTold, SchoolsFirst
      <4>4. k \in DOMAIN es
        BY <1>7, <3>1
      <4> QED
        BY <1>7, <4>3, <4>4
    <3>2. CASE i \notin DOMAIN es
      <4>1. PICK j \in DOMAIN r : i = m + j
        BY <1>7, <3>2
      <4>2. r[j].kind # "school"
        BY <1>7, <2>1, <4>1 DEF SchoolsOf
      <4>3. n.school = d.school /\ s \in DirSchools(d)
        BY <1>4, <4>2 DEF DirSchools
      <4>4. PICK k \in DOMAIN es : About(es[k], s)
        BY <4>3 DEF DirTold, SchoolsTold
      <4>5. k \in 1..(i - 1) /\ About(all[k], s)
        BY <1>7, <4>1, <4>4
      <4> QED
        BY <4>5
    <3> QED
      BY <3>1, <3>2
  <2> QED
    BY <2>1 DEF SchoolsFirst
<1>11. SchoolsTold(n, all)
  <2>1. ASSUME NEW s \in DirSchools(n) PROVE \E k \in DOMAIN all : About(all[k], s)
    <3>1. CASE s \in DirSchools(d)
      BY <1>7, <3>1 DEF DirTold, SchoolsTold
    <3>2. CASE s \notin DirSchools(d)
      <4>1. s \in School /\ s \in Object /\ n.school[s] # d.school[s]
        BY <3>2 DEF DirSchools, Object
      <4>2. PICK j \in DOMAIN r : About(r[j], s)
        BY <1>6, <4>1 DEF SameData
      <4> QED
        BY <1>7, <4>2
    <3> QED
      BY <3>1, <3>2
  <2>2. ASSUME NEW s \in DirSchools(n), NEW k \in DOMAIN all, About(all[k], s)
        PROVE  all[k].op # "delete" /\ all[k].name = n.school[s]
    <3>1. CASE k \in DOMAIN es
      <4>1. all[k] = es[k] /\ s \in DirSchools(d) /\ n.school[s] = d.school[s]
        BY <1>3, <1>7, <1>0, <2>2, <3>1
      <4> QED
        BY <2>2, <3>1, <4>1 DEF DirTold, SchoolsTold
    <3>2. CASE k \notin DOMAIN es
      <4>1. all[k] \in SyncEvent /\ Carries(n, all[k])
        BY <1>1, <1>7, <3>2 DEF Carried
      <4>2. all[k].kind # "host" /\ all[k].id = s /\ s \in School
        BY <2>2 DEF About, DirSchools
      <4>3. all[k].op # "delete"
        BY <2>2, <4>1, <4>2 DEF Carries, Removes, DirObjects
      <4>4. all[k].kind = "school"
        BY <4>1, <4>2, StoreAssumption
           DEF StoreAssumption, SyncEvent, SchoolEvent, GroupEvent, UserEvent, HostEvent, DeleteEvent
      <4> QED
        BY <4>1, <4>2, <4>3, <4>4 DEF Carries
    <3> QED
      BY <3>1, <3>2
  <2> QED
    BY <2>1, <2>2 DEF SchoolsTold
<1> QED
  BY <1>5, <1>9, <1>10, <1>11 DEF DirTold, all, n, r

----------------------------------------------------------------------------
(* A prefill tells everything *)

\* SetToSeq leaves no element out.
LEMMA SetToSeqOnto ==
  ASSUME NEW S, IsFiniteSet(S), NEW x \in S
  PROVE  \E i \in 1..Cardinality(S) : SetToSeq(S)[i] = x
<1> DEFINE n == Cardinality(S)
           f == SetToSeq(S)
<1>1. n \in Nat /\ ExistsBijection(1..n, S) /\ f \in [1..n -> S]
  BY FS_CardinalityType, SetToSeqTyped
<1>2. \E g : g \in [1..n -> S] /\ IsInjective(g)
  BY <1>1 DEF ExistsBijection, Bijection, Injection, IsInjective
<1>3. IsInjective(f)
  BY <1>2 DEF SetToSeq
<1>4. f \in Injection(1..n, S)
  BY <1>1, <1>3 DEF Injection, IsInjective
<1>5. Cardinality(1..n) = n
  BY <1>1, FS_Interval
<1> HIDE DEF f
<1>6. f \in Surjection(1..n, S)
  BY <1>4, <1>5, FS_Injection
<1> QED
  BY <1>6 DEF Surjection, f

Unschooled == {e \in SyncEvent : e.kind # "school"}

\* The first n events, and no others, are about schools.
SchoolsLead(q, n) ==
  /\ q \in Seq(SyncEvent)
  /\ \A i \in 1..n : i \in DOMAIN q /\ q[i].kind = "school"
  /\ \A i \in DOMAIN q : i > n => q[i].kind # "school"

\* Events appended behind leave the schools in front.
LEMMA SchoolsLeadOn ==
  ASSUME NEW n \in Nat, NEW q, SchoolsLead(q, n), NEW r \in Seq(Unschooled)
  PROVE  SchoolsLead(q \o r, n) /\ \A i \in 1..n : (q \o r)[i] = q[i]
<1>1. q \in Seq(SyncEvent) /\ r \in Seq(SyncEvent) /\ \A j \in DOMAIN r : r[j].kind # "school"
  BY DEF SchoolsLead, Unschooled
<1>2. /\ \A i \in DOMAIN q : i \in DOMAIN (q \o r) /\ (q \o r)[i] = q[i]
      /\ \A j \in DOMAIN r : (q \o r)[Len(q) + j] = r[j]
      /\ \A m \in DOMAIN (q \o r) : m \in DOMAIN q \/ \E j \in DOMAIN r : m = Len(q) + j
  BY <1>1, Concatenated
<1>3. q \o r \in Seq(SyncEvent)
  BY <1>1
<1> QED
  BY <1>1, <1>2, <1>3 DEF SchoolsLead

\* A prefill publishes every school before anything else (Prefill).
LEMMA PrefilledSchools ==
  ASSUME NEW d, DirKept(d)
  PROVE  \E n \in Nat :
           /\ \A i \in DOMAIN PrefillEvents(d) : i > n <=> PrefillEvents(d)[i].kind # "school"
           /\ \A s \in DirSchools(d) :
                \E k \in 1..n : k \in DOMAIN PrefillEvents(d) /\ About(PrefillEvents(d)[k], s)
<1> DEFINE schools == SetToSeq(DirSchools(d))
           groups == SetToSeq(DirGroups(d))
           hosts == SetToSeq(DirHostGroups(d))
           users == SetToSeq(DirUsers(d))
           a == [i \in DOMAIN schools |-> SchoolSnapshot(d, "create", schools[i])]
           b == [i \in DOMAIN groups |-> GroupSnapshot(d, "create", groups[i])]
           h == [i \in DOMAIN hosts |-> HostSnapshot(d, "create", hosts[i])]
           u == [i \in DOMAIN users |-> UserSnapshot(d, "create", users[i])]
           n == Cardinality(DirSchools(d))
<1>1. n \in Nat /\ schools \in [1..n -> DirSchools(d)]
  BY DirFinite, SetToSeqTyped
<1>2. \A s \in DirSchools(d) : \E k \in 1..n : schools[k] = s
  BY DirFinite, SetToSeqOnto
<1> HIDE DEF n, schools
<1>3. SchoolsLead(a, n) /\ \A s \in DirSchools(d) : \E k \in 1..n : About(a[k], s)
  <2>1. \A s \in DirSchools(d) : /\ SchoolSnapshot(d, "create", s) \in SyncEvent
                                 /\ About(SchoolSnapshot(d, "create", s), s)
                                 /\ SchoolSnapshot(d, "create", s).kind = "school"
    BY SchoolSnapshotTyped DEF SchoolSnapshot, About
  <2>2. /\ a \in [1..n -> SyncEvent]
        /\ \A k \in 1..n : About(a[k], schools[k]) /\ a[k].kind = "school"
    BY <1>1, <2>1
  <2> HIDE DEF a
  <2> QED
    BY <1>1, <1>2, <2>2 DEF SchoolsLead
<1>4. b \in Seq(Unschooled)
  <2>1. \A x \in DirGroups(d) : GroupSnapshot(d, "create", x) \in Unschooled
    BY GroupSnapshotTyped DEF GroupSnapshot, Unschooled
  <2>2. PICK m \in Nat : groups \in [1..m -> DirGroups(d)]
    BY DirFinite, SetToSeqTyped
  <2> QED
    BY <2>1, <2>2
<1>5. h \in Seq(Unschooled)
  <2>1. \A x \in DirHostGroups(d) : HostSnapshot(d, "create", x) \in Unschooled
    BY HostSnapshotTyped DEF HostSnapshot, DirHostGroups, Unschooled
  <2>2. PICK m \in Nat : hosts \in [1..m -> DirHostGroups(d)]
    BY DirFinite, SetToSeqTyped
  <2> QED
    BY <2>1, <2>2
<1>6. u \in Seq(Unschooled)
  <2>1. \A x \in DirUsers(d) : UserSnapshot(d, "create", x) \in Unschooled
    BY UserSnapshotTyped DEF UserSnapshot, Unschooled
  <2>2. PICK m \in Nat : users \in [1..m -> DirUsers(d)]
    BY DirFinite, SetToSeqTyped
  <2> QED
    BY <2>1, <2>2
<1>7. PrefillEvents(d) = a \o b \o h \o u
  BY DEF PrefillEvents, schools
<1> HIDE DEF a, b, h, u
<1>8. SchoolsLead(a \o b, n) /\ \A i \in 1..n : (a \o b)[i] = a[i]
  BY <1>1, <1>3, <1>4, SchoolsLeadOn
<1>9. SchoolsLead(a \o b \o h, n) /\ \A i \in 1..n : (a \o b \o h)[i] = a[i]
  BY <1>1, <1>5, <1>8, SchoolsLeadOn
<1>10. SchoolsLead(a \o b \o h \o u, n) /\ \A i \in 1..n : (a \o b \o h \o u)[i] = a[i]
  BY <1>1, <1>6, <1>9, SchoolsLeadOn
<1> DEFINE pe == a \o b \o h \o u
<1> HIDE DEF pe
<1>11. /\ pe \in Seq(SyncEvent)
       /\ \A i \in 1..n : i \in DOMAIN pe /\ pe[i].kind = "school" /\ pe[i] = a[i]
       /\ \A i \in DOMAIN pe : i > n => pe[i].kind # "school"
  BY <1>10 DEF SchoolsLead, pe
<1>12. \A i \in DOMAIN pe : i > n <=> pe[i].kind # "school"
  BY <1>1, <1>11
<1>13. \A s \in DirSchools(d) : \E k \in 1..n : k \in DOMAIN pe /\ About(pe[k], s)
  BY <1>3, <1>11
<1> QED
  BY <1>1, <1>7, <1>12, <1>13 DEF pe

\* A prefill tells all of the directory.
LEMMA PrefillDirTold ==
  ASSUME NEW d, DirKept(d), SchoolsFound(d)
  PROVE  DirTold(d, PrefillEvents(d))
<1> DEFINE pe == PrefillEvents(d)
           T == {e \in Carried(d) : e.op = "create"}
<1>1. pe \in Seq(T)
  <2>1. /\ \A s \in DirSchools(d) : SchoolSnapshot(d, "create", s) \in T
        /\ \A g \in DirGroups(d) : GroupSnapshot(d, "create", g) \in T
        /\ \A h \in DirHostGroups(d) : HostSnapshot(d, "create", h) \in T
        /\ \A u \in DirUsers(d) : UserSnapshot(d, "create", u) \in T
    BY SnapshotsCarry DEF SchoolSnapshot, GroupSnapshot, HostSnapshot, UserSnapshot
  <2> HIDE DEF T
  <2> QED
    BY <2>1, PrefillOf
<1>2. \A i \in DOMAIN pe : /\ i \in Nat /\ pe[i] \in SyncEvent
                           /\ Carries(d, pe[i]) /\ pe[i].op = "create"
  BY <1>1 DEF Carried
<1>3. PICK n \in Nat :
        /\ \A i \in DOMAIN pe : i > n <=> pe[i].kind # "school"
        /\ \A s \in DirSchools(d) : \E k \in 1..n : k \in DOMAIN pe /\ About(pe[k], s)
  BY PrefilledSchools
<1> HIDE DEF pe
<1>4. SchoolsTold(d, pe)
  <2>1. ASSUME NEW s \in DirSchools(d), NEW k \in DOMAIN pe, About(pe[k], s)
        PROVE  pe[k].op # "delete" /\ pe[k].name = d.school[s]
    <3>1. pe[k].kind = "school"
      BY <1>2, <2>1, StoreAssumption
         DEF StoreAssumption, About, DirSchools, SyncEvent, SchoolEvent, GroupEvent, UserEvent,
             HostEvent, DeleteEvent
    <3> QED
      BY <1>2, <2>1, <3>1 DEF Carries, About
  <2> QED
    BY <1>3, <2>1 DEF SchoolsTold
<1>5. SchoolsFirst(d, pe)
  <2>1. ASSUME NEW i \in DOMAIN pe, NEW s \in DirSchools(d), d.school[s] \in SchoolsOf(pe[i])
        PROVE  \E k \in 1..(i - 1) : About(pe[k], s)
    <3>1. PICK k \in 1..n : k \in DOMAIN pe /\ About(pe[k], s)
      BY <1>3
    <3>2. i > n
      BY <1>3, <2>1 DEF SchoolsOf
    <3> QED
      BY <1>2, <3>1, <3>2
  <2> QED
    BY <2>1 DEF SchoolsFirst
<1> QED
  BY <1>2, <1>4, <1>5 DEF DirTold, LatestCarries, pe

----------------------------------------------------------------------------
(* The rows the handlers write *)

\* The events of schools write their own row (_handle_school_create, _handle_school_modify).
LEMMA SchoolEventRows ==
  ASSUME NEW d, Kept(d), NEW e \in SchoolEvent
  PROVE  LET n == HandleEvent(d, e)
         IN /\ n.school = [d.school EXCEPT ![e.id] = e.name]
            /\ n.group = d.group /\ n.user = d.user
            /\ n.member = d.member /\ n.primary = d.primary
<1> DEFINE n == HandleEvent(d, e)
           w == PutSchool(d, e.id, e.name)
           m == SetMapping(d, e.id, EventDn(e))
<1>1. e.id \in School /\ e.id \in Object /\ e.name \in SchoolName
  BY DEF SchoolEvent, Object
<1>2. \A b \in Database : LET v == PutSchool(b, e.id, e.name)
                          IN /\ v.school = [b.school EXCEPT ![e.id] = e.name]
                             /\ v.group = b.group /\ v.user = b.user
                             /\ v.member = b.member /\ v.primary = b.primary
  BY DEF Database, PutSchool
<1>3. w \in Database /\ d \in Database
  BY <1>1, PutSchoolKeeps DEF Kept
<1>4. SameRows(d, m) /\ SameRows(w, SetMapping(w, e.id, EventDn(e)))
  BY <1>1, <1>3, MappingOnly
<1>5. e.id \in Schools(d) => m \in Database
  BY <1>1, SetMappingKeeps, SchoolDnTyped DEF Kept, Stored
<1>6. \/ n = w \/ n = SetMapping(w, e.id, EventDn(e))
      \/ e.id \in Schools(d) /\ n = PutSchool(m, e.id, e.name)
  BY DEF SchoolEvent, HandleEvent, HandleSchoolCreate, HandleSchoolModify
<1> HIDE DEF n, m
<1>7. CASE n = w \/ n = SetMapping(w, e.id, EventDn(e))
  <2>1. /\ w.school = [d.school EXCEPT ![e.id] = e.name] /\ w.group = d.group
        /\ w.user = d.user /\ w.member = d.member /\ w.primary = d.primary
    BY <1>2, <1>3
  <2> HIDE DEF w
  <2> QED
    BY <1>4, <1>7, <2>1 DEF SameRows, n
<1>8. CASE e.id \in Schools(d) /\ n = PutSchool(m, e.id, e.name)
  BY <1>2, <1>4, <1>5, <1>8 DEF SameRows, n
<1> QED
  BY <1>6, <1>7, <1>8

\* The tables that only the events of their own objects write, except group.
SameOthers(d, n) ==
  /\ n.school = d.school /\ n.user = d.user
  /\ n.member = d.member /\ n.primary = d.primary

GroupRowPut(d, n, e) ==
  n.group = [d.group EXCEPT ![e.id] = [name |-> e.name, school |-> TargetSchool(d, e)]]

\* The events of groups write the group's row if its school is stored.
LEMMA GroupEventRows ==
  ASSUME NEW d, Kept(d), NEW e \in GroupEvent
  PROVE  LET n == HandleEvent(d, e)
         IN /\ SameOthers(d, n)
            /\ \/ GroupRowPut(d, n, e)
               \/ n.group = d.group /\ SchoolsNamed(d, {e.school}) = {}
<1> DEFINE n == HandleEvent(d, e)
           dn == EventDn(e)
           b == NewGroup(d, e)
           m == Unmap(d, e.id, dn)
           a == ApplyGroup(m, e)
           Put(x) == SameOthers(d, x) /\ GroupRowPut(d, x, e)
<1>1. e.id \in Group /\ e.id \in Object /\ dn \in Dn
  BY GroupDnTyped DEF GroupEvent, Object
<1> HIDE DEF dn
<1>2. \A y \in Database :
        /\ SameOthers(y, ApplyGroup(y, e)) /\ GroupRowPut(y, ApplyGroup(y, e), e)
        /\ SameOthers(y, NewGroup(y, e)) /\ GroupRowPut(y, NewGroup(y, e), e)
  BY DEF Database, ApplyGroup, NewGroup, ModifyGroup, CreateGroup, SameOthers, GroupRowPut
<1>3. d \in Database
  BY DEF Kept
<1>4. ASSUME SchoolsNamed(d, {e.school}) # {} PROVE Put(SetMapping(b, e.id, dn))
  <2>1. Put(b) /\ b \in Database
    BY <1>2, <1>3, <1>4, NewGroupKeeps DEF Kept
  <2> HIDE DEF b
  <2>2. SameRows(b, SetMapping(b, e.id, dn))
    BY <1>1, <2>1, MappingOnly
  <2> QED
    BY <2>1, <2>2 DEF SameRows, SameOthers, GroupRowPut
<1>5. ASSUME e.id \in Groups(d) PROVE Put(SetMapping(a, e.id, dn))
  <2>1. Kept(m) /\ SameRows(d, m)
    BY <1>1, <1>3, UnmapKeeps, MappingOnly
  <2>2. Groups(m) = Groups(d) /\ TargetSchool(m, e) = TargetSchool(d, e)
    BY <2>1 DEF SameRows, Groups, TargetSchool, SchoolsNamed
  <2> HIDE DEF m
  <2>3. a \in Database /\ SameOthers(m, a) /\ GroupRowPut(m, a, e)
    BY <1>2, <1>5, <2>1, <2>2, ApplyGroupKeeps DEF Kept
  <2> HIDE DEF a
  <2>4. SameRows(a, SetMapping(a, e.id, dn))
    BY <1>1, <2>3, MappingOnly
  <2>5. Put(a)
    BY <2>1, <2>2, <2>3 DEF SameRows, SameOthers, GroupRowPut
  <2> QED
    BY <2>4, <2>5 DEF SameRows, SameOthers, GroupRowPut
<1>6. \/ n = d /\ SchoolsNamed(d, {e.school}) = {}
      \/ n = SetMapping(b, e.id, dn) /\ SchoolsNamed(d, {e.school}) # {}
      \/ n = ApplyGroup(d, e)
      \/ n = SetMapping(a, e.id, dn) /\ e.id \in Groups(d)
  BY DEF GroupEvent, HandleEvent, HandleGroupCreate, HandleGroupModify, dn
<1>7. Put(ApplyGroup(d, e))
  BY <1>2, <1>3
<1>8. SameOthers(d, d)
  BY DEF SameOthers
<1> HIDE DEF n, a, b, Put
<1>9. Put(n) \/ (n = d /\ SchoolsNamed(d, {e.school}) = {})
  BY <1>4, <1>5, <1>6, <1>7
<1> QED
  BY <1>8, <1>9 DEF Put, n

\* The row, the memberships and the primary school of a user as its event has them.
UserRowPut(d, n, e) ==
  /\ n.user = [d.user EXCEPT ![e.id] = e.name]
  /\ n.member = {m \in d.member : m[1] # e.id} \cup ({e.id} \X SchoolsNamed(d, e.schools))
  /\ n.primary = {m \in d.primary : m[1] # e.id} \cup ({e.id} \X PrimarySchools(d, e))

\* The events of users write their own rows, unless a new user has no stored school.
LEMMA UserEventRows ==
  ASSUME NEW d, Kept(d), SchoolsUnique(d), NEW e \in UserEvent
  PROVE  LET n == HandleEvent(d, e)
         IN /\ n.school = d.school /\ n.group = d.group
            /\ UserRowPut(d, n, e) \/ (n = d /\ SchoolsNamed(d, e.schools) = {})
<1> DEFINE n == HandleEvent(d, e)
           m == SetMapping(d, e.id, EventDn(e))
           w == ApplyUser(d, e)
           Put(x) == x.school = d.school /\ x.group = d.group /\ UserRowPut(d, x, e)
<1>1. e.id \in Object
  BY DEF UserEvent, Object
<1>2. \A y \in Database : LET a == ApplyUser(y, e)
                          IN a.school = y.school /\ a.group = y.group /\ UserRowPut(y, a, e)
  BY DEF Database, ApplyUser, PutUser, UserRowPut
<1>3. w \in Database /\ SameRows(d, m) /\ d \in Database
  BY <1>1, ApplyUserKeeps, MappingOnly DEF Kept
<1>4. SameRows(w, SetMapping(w, e.id, EventDn(e))) /\ Put(w)
  BY <1>1, <1>2, <1>3, MappingOnly
<1>5. e.id \in Users(d) => m \in Database
  BY <1>1, SetMappingKeeps, UserDnTyped DEF Kept, Stored
<1>6. \/ n = d /\ SchoolsNamed(d, e.schools) = {}
      \/ n = w \/ n = SetMapping(w, e.id, EventDn(e))
      \/ e.id \in Users(d) /\ n = ApplyUser(m, e)
  BY DEF UserEvent, HandleEvent, HandleUserCreate, HandleUserModify
<1> HIDE DEF n, m, w
<1>7. ASSUME e.id \in Users(d) PROVE Put(ApplyUser(m, e))
  <2> DEFINE v == ApplyUser(m, e)
  <2>1. v.school = m.school /\ v.group = m.group /\ UserRowPut(m, v, e)
    BY <1>2, <1>5, <1>7
  <2>2. SchoolsNamed(m, e.schools) = SchoolsNamed(d, e.schools)
    BY <1>3 DEF SameRows, SchoolsNamed
  <2>3. PrimarySchools(m, e) = PrimarySchools(d, e)
    BY <1>3, <2>2 DEF SameRows, PrimarySchools
  <2> HIDE DEF v
  <2> QED
    BY <1>3, <2>1, <2>2, <2>3 DEF SameRows, UserRowPut, v
<1>8. Put(SetMapping(w, e.id, EventDn(e)))
  BY <1>4 DEF SameRows, UserRowPut
<1> HIDE DEF Put
<1>9. Put(n) \/ (n = d /\ SchoolsNamed(d, e.schools) = {})
  BY <1>4, <1>6, <1>7, <1>8
<1> QED
  BY <1>9 DEF Put, n

\* What only its own events write of x, apart from the schools a user is in.
RowKept(d, n, x) ==
  /\ x \in School => n.school[x] = d.school[x]
  /\ x \in Group => n.group[x] = d.group[x]
  /\ x \in User => n.user[x] = d.user[x]

\* User u is in school s as before.
MembershipKept(d, n, u, s) ==
  /\ <<u, s>> \in n.member <=> <<u, s>> \in d.member
  /\ <<u, s>> \in n.primary <=> <<u, s>> \in d.primary

\* User u is not in school s, which e removes.
MembershipGone(n, e, u, s) ==
  Removes(e) /\ e.id = s /\ <<u, s>> \notin n.member /\ <<u, s>> \notin n.primary

\* Handling an event leaves the rows of other objects alone, and the memberships
\* of other users but in a school it removes (SynchronizationManager).
LEMMA OthersKept ==
  ASSUME NEW d, Kept(d), SchoolsUnique(d), NEW e \in SyncEvent, NEW x \in Object, ~About(e, x)
  PROVE  LET n == HandleEvent(d, e)
         IN /\ RowKept(d, n, x)
            /\ \A s \in School :
                 x \in User => MembershipKept(d, n, x, s) \/ MembershipGone(n, e, x, s)
<1> USE StoreAssumption DEF StoreAssumption
<1> DEFINE n == HandleEvent(d, e)
           Fine(v) == /\ RowKept(d, v, x)
                      /\ \A s \in School :
                           x \in User => MembershipKept(d, v, x, s) \/ MembershipGone(v, e, x, s)
<1>1. d \in Database
  BY DEF Kept
<1>2. Fine(d)
  BY DEF RowKept, MembershipKept
<1>3. CASE e \in SchoolEvent
  <2>1. /\ n.school = [d.school EXCEPT ![e.id] = e.name]
        /\ n.group = d.group /\ n.user = d.user /\ n.member = d.member /\ n.primary = d.primary
    BY <1>3, SchoolEventRows
  <2>2. e.kind # "host" /\ x # e.id
    BY <1>3 DEF SchoolEvent, About
  <2> HIDE DEF n
  <2> QED
    BY <1>1, <2>1, <2>2 DEF Database, RowKept, MembershipKept, n
<1>4. CASE e \in GroupEvent
  <2>1. SameOthers(d, n) /\ (GroupRowPut(d, n, e) \/ n.group = d.group)
    BY <1>4, GroupEventRows
  <2>2. e.kind # "host" /\ x # e.id
    BY <1>4 DEF GroupEvent, About
  <2> HIDE DEF n
  <2>3. x \in Group => n.group[x] = d.group[x]
    BY <1>1, <2>1, <2>2 DEF Database, GroupRowPut
  <2>4. RowKept(d, n, x)
    BY <2>1, <2>3 DEF RowKept, SameOthers
  <2>5. \A s \in School : MembershipKept(d, n, x, s)
    BY <2>1 DEF SameOthers, MembershipKept
  <2> QED
    BY <2>4, <2>5 DEF n
<1>5. CASE e \in UserEvent
  <2>1. n.school = d.school /\ n.group = d.group /\ (UserRowPut(d, n, e) \/ n = d)
    BY <1>5, UserEventRows
  <2>2. e.kind # "host" /\ x # e.id
    BY <1>5 DEF UserEvent, About
  <2> HIDE DEF n
  <2>3. CASE n = d
    BY <1>2, <2>3 DEF n
  <2>4. CASE UserRowPut(d, n, e)
    <3>1. RowKept(d, n, x)
      BY <1>1, <2>1, <2>2, <2>4 DEF RowKept, UserRowPut, Database
    <3>2. ASSUME NEW s \in School PROVE MembershipKept(d, n, x, s)
      BY <2>2, <2>4 DEF MembershipKept, UserRowPut
    <3> QED
      BY <3>1, <3>2 DEF n
  <2> QED
    BY <2>1, <2>3, <2>4
<1>6. CASE e \in HostEvent
  <2>1. /\ n.school = d.school /\ n.group = d.group /\ n.user = d.user
        /\ n.member = d.member /\ n.primary = d.primary
    BY <1>1, <1>6 DEF HostEvent, HandleEvent, HandleHostGroup, SetServers, Database
  <2> HIDE DEF n
  <2> QED
    BY <2>1 DEF RowKept, MembershipKept, n
<1>7. CASE e \in DeleteEvent
  <2>1. Removes(e) /\ x # e.id /\ e.kind \in {"school", "group", "user"} /\ e.op = "delete"
    BY <1>7 DEF DeleteEvent, Removes, About
  <2>2. CASE e.kind = "school"
    <3>1. n = DeleteSchool(d, e.id)
      BY <2>1, <2>2 DEF HandleEvent, HandleDelete
    <3>2. /\ n.school = [d.school EXCEPT ![e.id] = NoRow] /\ n.group = d.group /\ n.user = d.user
          /\ n.member = {m \in d.member : m[2] # e.id}
          /\ n.primary = {m \in d.primary : m[2] # e.id}
      BY <1>1, <3>1 DEF DeleteSchool, Database
    <3> HIDE DEF n
    <3>3. RowKept(d, n, x)
      BY <1>1, <2>1, <3>2 DEF RowKept, Database
    <3>4. \A s \in School : s # e.id => MembershipKept(d, n, x, s)
      BY <3>2 DEF MembershipKept
    <3>5. <<x, e.id>> \notin n.member /\ <<x, e.id>> \notin n.primary
      BY <3>2
    <3> QED
      BY <2>1, <3>3, <3>4, <3>5 DEF n, MembershipGone
  <2>3. CASE e.kind = "group"
    <3>1. n = DeleteGroup(d, e.id)
      BY <2>1, <2>3 DEF HandleEvent, HandleDelete
    <3>2. /\ n.group = [d.group EXCEPT ![e.id] = NoRow] /\ n.school = d.school
          /\ n.user = d.user /\ n.member = d.member /\ n.primary = d.primary
      BY <1>1, <3>1 DEF DeleteGroup, Database
    <3> HIDE DEF n
    <3>3. RowKept(d, n, x)
      BY <1>1, <2>1, <3>2 DEF RowKept, Database
    <3>4. \A s \in School : MembershipKept(d, n, x, s)
      BY <3>2 DEF MembershipKept
    <3> QED
      BY <3>3, <3>4 DEF n
  <2>4. CASE e.kind = "user"
    <3>1. n = DeleteUser(d, e.id)
      BY <2>1, <2>4 DEF HandleEvent, HandleDelete
    <3>2. /\ n.user = [d.user EXCEPT ![e.id] = NoRow] /\ n.school = d.school /\ n.group = d.group
          /\ n.member = {m \in d.member : m[1] # e.id}
          /\ n.primary = {m \in d.primary : m[1] # e.id}
      BY <1>1, <3>1 DEF DeleteUser, Database
    <3> HIDE DEF n
    <3>3. RowKept(d, n, x)
      BY <1>1, <2>1, <3>2 DEF RowKept, Database
    <3>4. \A s \in School : MembershipKept(d, n, x, s)
      BY <2>1, <3>2 DEF MembershipKept
    <3> QED
      BY <3>3, <3>4 DEF n
  <2> QED
    BY <2>1, <2>2, <2>3, <2>4
<1> QED
  BY <1>3, <1>4, <1>5, <1>6, <1>7 DEF SyncEvent

----------------------------------------------------------------------------
(* The records of the events *)

ClassesFit == \A i \in D!Events : queue[i].class = "relevant" => IsRelevant(log[i])

OnlyRelevantCommitted == \A i \in D!Events : queue[i].commits > 0 => IsRelevant(log[i])

\* An event is settled as applied only after its transaction was committed.
AppliedIsCommitted ==
  /\ \A i \in D!Events : queue[i].outcome = "applied" => queue[i].commits > 0
  /\ pc = "applied" => queue[cur].commits > 0

Books == ClassesFit /\ OnlyRelevantCommitted /\ AppliedIsCommitted

\* What the process may do to the records of the events it is given.
RecordsKept ==
  /\ DOMAIN queue' = D!Events
  /\ \A i \in D!Events :
       /\ queue'[i].class = queue[i].class
       /\ \/ queue'[i].outcome = queue[i].outcome
          \/ i = cur /\ pc \in D!Verdict /\ queue'[i].outcome = pc
       /\ \/ queue'[i].commits = queue[i].commits
          \/ i = cur /\ queue[i].class = "relevant" /\ queue'[i].commits > 0
  /\ pc' = "applied" => cur' \in D!Events /\ queue'[cur'].commits > 0

\* A step of the process (process_one_event).
LEMMA ProcessKeepsRecords ==
  ASSUME IInv, Process \/ Disturb \/ \E committed \in BOOLEAN : DatabaseFault(committed)
  PROVE  RecordsKept
<1>1. queue \in Seq(D!EventRecord)
  BY DEF IInv, TypeOK, D!TypeOK
<1>2. ASSUME NEW i \in D!Events PROVE queue[i] \in D!EventRecord /\ queue[i].commits \in Nat
  <2>1. queue[i] \in D!EventRecord
    BY <1>1 DEF D!Events
  <2> QED
    BY <2>1 DEF D!EventRecord
<1>3. pc \in {"fetched"} \cup D!Verdict => cur \in D!Events
  BY DEF IInv, CurrentExists
<1>4. ASSUME NEW i \in D!Events, NEW r, queue' = [queue EXCEPT ![i] = r]
      PROVE  DOMAIN queue' = D!Events /\ \A k \in D!Events : queue'[k] = IF k = i THEN r ELSE queue[k]
  BY <1>1, <1>4 DEF D!Events
<1>5. ASSUME queue' = queue, pc' # "applied" PROVE RecordsKept
  BY <1>5 DEF RecordsKept, D!Events
<1>6. CASE \E i \in D!Events : D!Fetch(i)
  <2>1. PICK i \in D!Events : D!Fetch(i)
    BY <1>6
  <2> DEFINE r == [queue[i] EXCEPT !.delivered = D!OneMore(@)]
  <2>2. queue' = [queue EXCEPT ![i] = r] /\ pc' = "fetched"
    BY <2>1 DEF D!Fetch
  <2>3. /\ r.commits = queue[i].commits /\ r.outcome = queue[i].outcome
        /\ r.class = queue[i].class
    BY <1>2 DEF D!EventRecord
  <2> HIDE DEF r
  <2>4. DOMAIN queue' = D!Events /\ \A k \in D!Events : queue'[k] = IF k = i THEN r ELSE queue[k]
    BY <1>4, <2>2
  <2> QED
    BY <2>2, <2>3, <2>4 DEF RecordsKept
<1>7. ASSUME pc \in D!Verdict, D!SettleCurrent, pc' # "applied" PROVE RecordsKept
  <2> DEFINE r == [queue[cur] EXCEPT !.outcome = pc]
  <2>1. cur \in D!Events /\ queue' = [queue EXCEPT ![cur] = r]
    BY <1>3, <1>7 DEF D!SettleCurrent
  <2>2. r.commits = queue[cur].commits /\ r.outcome = pc /\ r.class = queue[cur].class
    BY <1>2, <2>1 DEF D!EventRecord
  <2> HIDE DEF r
  <2>3. DOMAIN queue' = D!Events /\ \A k \in D!Events : queue'[k] = IF k = cur THEN r ELSE queue[k]
    BY <1>4, <2>1
  <2> QED
    BY <1>7, <2>1, <2>2, <2>3 DEF RecordsKept
<1>8. ASSUME pc = "fetched", queue[cur].class = "relevant",
             queue' = [queue EXCEPT ![cur].commits = @ + 1],
             pc' = "applied" => cur' = cur
      PROVE  RecordsKept
  <2> DEFINE r == [queue[cur] EXCEPT !.commits = @ + 1]
  <2>1. cur \in D!Events /\ queue' = [queue EXCEPT ![cur] = r]
    BY <1>3, <1>8
  <2>2. r.commits > 0 /\ r.outcome = queue[cur].outcome /\ r.class = queue[cur].class
    BY <1>2, <2>1 DEF D!EventRecord
  <2> HIDE DEF r
  <2>3. DOMAIN queue' = D!Events /\ \A k \in D!Events : queue'[k] = IF k = cur THEN r ELSE queue[k]
    BY <1>4, <2>1
  <2>4. queue'[cur].commits > 0
    BY <2>1, <2>2, <2>3
  <2> QED
    BY <1>8, <2>1, <2>2, <2>3, <2>4 DEF RecordsKept
<1>9. CASE HandleCurrent
  BY <1>8, <1>9 DEF HandleCurrent, D!Handle
<1>10. ASSUME NEW committed \in BOOLEAN, D!HandlerError(committed) PROVE RecordsKept
  <2>1. pc = "fetched" /\ queue[cur].class = "relevant" /\ pc' \in {"down", "exhausted"}
    BY <1>10 DEF D!HandlerError, D!Crash
  <2>2. \/ queue' = queue
        \/ queue' = [queue EXCEPT ![cur].commits = @ + 1]
    BY <1>10 DEF D!HandlerError
  <2> QED
    BY <1>5, <1>8, <2>1, <2>2
<1>11. CASE HandlerRaises \/ \E committed \in BOOLEAN : DatabaseFault(committed)
  BY <1>10, <1>11 DEF HandlerRaises, DatabaseFault
<1>12. CASE D!Acknowledge
  BY <1>7, <1>12 DEF D!Acknowledge
<1>13. CASE \E reached \in BOOLEAN : D!AcknowledgeFails(reached)
  BY <1>5, <1>7, <1>13 DEF D!AcknowledgeFails, D!Crash
<1>14. CASE D!SkipIrrelevant \/ D!Restart \/ D!Kill
  BY <1>5, <1>14 DEF D!SkipIrrelevant, D!Restart, D!Kill, D!Crash
<1> QED
  BY <1>6, <1>9, <1>11, <1>12, <1>13, <1>14 DEF Process, Deliver, Disturb

\* The books are kept.
LEMMA ProcessKeepsBooks ==
  ASSUME IInv, Books, Process \/ Disturb \/ \E committed \in BOOLEAN : DatabaseFault(committed)
  PROVE  Books'
<1>1. log' = log /\ D!Events' = DOMAIN queue'
  BY Outcomes DEF D!Events
<1>2. RecordsKept
  BY ProcessKeepsRecords
<1>3. ClassesFit' /\ OnlyRelevantCommitted'
  BY <1>1, <1>2 DEF Books, ClassesFit, OnlyRelevantCommitted, RecordsKept
<1>4. AppliedIsCommitted'
  <2>1. ASSUME NEW i \in D!Events, queue'[i].outcome = "applied" PROVE queue'[i].commits > 0
    <3>1. queue[i].commits > 0
      BY <1>2, <2>1 DEF Books, AppliedIsCommitted, RecordsKept
    <3> QED
      BY <1>2, <3>1 DEF RecordsKept
  <2>2. pc' = "applied" => queue'[cur'].commits > 0
    BY <1>2 DEF RecordsKept
  <2> QED
    BY <1>1, <1>2, <2>1, <2>2 DEF AppliedIsCommitted, RecordsKept
<1> QED
  BY <1>3, <1>4 DEF Books

\* No school event has been dropped so far.
NoSchoolDropped ==
  \A i \in D!Events : log[i].kind = "school" => queue[i].outcome \in {"pending", "applied"}

\* A school event that was dropped stays dropped.
LEMMA DroppedBefore ==
  ASSUME IInv, RInv, NoSchoolDropped',
         Process \/ Disturb \/ \E committed \in BOOLEAN : DatabaseFault(committed)
  PROVE  NoSchoolDropped
<1>1. log' = log /\ D!Events' = DOMAIN queue'
  BY Outcomes DEF D!Events
<1>2. RecordsKept
  BY ProcessKeepsRecords
<1>3. \A i \in D!Events : D!Acked(i) => queue'[i].outcome = queue[i].outcome
  <2>1. ASSUME NEW i \in D!Events, D!Acked(i), queue'[i].outcome # queue[i].outcome PROVE FALSE
    <3>1. i = cur /\ pc \in D!Verdict
      BY <1>2, <2>1 DEF RecordsKept
    <3> QED
      BY <2>1, <3>1 DEF RInv, CurrentIsOldest, D!OldestPending
  <2> QED
    BY <2>1
<1> QED
  BY <1>1, <1>2, <1>3 DEF NoSchoolDropped, RecordsKept, D!Acked

----------------------------------------------------------------------------
(* The rows the directory calls for *)

\* The row of a group, and of a user with its schools, as directory n has them.
GroupAsInDir(d, n, g) ==
  /\ d.group[g] # NoRow
  /\ d.group[g].name = n.group[g].name
  /\ d.group[g].school \in DirSchools(n)
  /\ n.school[d.group[g].school] = n.group[g].school

UserAsInDir(d, n, u) ==
  /\ d.user[u] = n.user[u].name
  /\ \A s \in School :
       /\ <<u, s>> \in d.member <=> s \in MemberSchools(n, u)
       /\ <<u, s>> \in d.primary <=> s \in DirSchools(n) /\ n.school[s] = n.user[u].ou

\* The row a group gets when its school is stored (_resolve_target_school).
LEMMA GroupGetsItsRow ==
  ASSUME NEW d, Kept(d), SchoolsUnique(d), NEW n, DirKept(n), SchoolsFound(n),
         NEW e \in GroupEvent, Carries(n, e),
         \A s \in DirSchools(n) : n.school[s] = e.school => d.school[s] = n.school[s]
  PROVE  GroupAsInDir(HandleEvent(d, e), n, e.id)
<1> USE StoreAssumption DEF StoreAssumption
<1> DEFINE v == HandleEvent(d, e)
           found == SchoolsNamed(d, {e.school})
           t == TargetSchool(d, e)
           row == [name |-> e.name, school |-> t]
<1>1. /\ e.id \in Group /\ e.school \in SchoolName /\ e.name \in GroupName
      /\ e.id \in DirGroups(n) /\ n.group[e.id].name = e.name /\ n.group[e.id].school = e.school
  BY DEF GroupEvent, Carries
<1>2. PICK s \in DirSchools(n) : n.school[s] = e.school
  BY <1>1 DEF SchoolsFound, DirSchoolNames
<1>3. s \in School /\ d.school[s] = e.school /\ s \in Schools(d)
  BY <1>1, <1>2 DEF DirSchools, Schools
<1>4. s \in found
  BY <1>3 DEF SchoolsNamed
<1>5. \A x \in found : x = s
  BY <1>1, <1>3 DEF SchoolsUnique, SchoolsNamed, Schools
<1>6. t \in found
  BY <1>4 DEF TargetSchool
<1>7. t = s
  BY <1>5, <1>6
<1>8. GroupRowPut(d, v, e)
  BY <1>4, GroupEventRows
<1> HIDE DEF v, found, t
<1>9. v.group[e.id] = row
  BY <1>1, <1>8 DEF GroupRowPut, Kept, Database, t
<1>10. row # NoRow
  BY <1>1, <1>3, <1>7
<1>11. row.name = e.name /\ row.school = s
  BY <1>7
<1> HIDE DEF row
<1> QED
  BY <1>1, <1>2, <1>9, <1>10, <1>11 DEF GroupAsInDir, v

\* The rows a user gets when its schools are stored (_build_school_memberships).
LEMMA UserGetsItsRows ==
  ASSUME NEW d, Kept(d), SchoolsUnique(d), NEW n, DirKept(n), SchoolsFound(n),
         NEW e \in UserEvent, Carries(n, e),
         \A s \in DirSchools(n) : n.school[s] \in e.schools => d.school[s] = n.school[s]
  PROVE  UserAsInDir(HandleEvent(d, e), n, e.id)
<1> USE StoreAssumption DEF StoreAssumption
<1> DEFINE v == HandleEvent(d, e)
           named == SchoolsNamed(d, e.schools)
           primary == PrimarySchools(d, e)
           own == {s \in named : d.school[s] = e.ou}
<1>1. /\ e.id \in User /\ e.schools \subseteq SchoolName
      /\ e.id \in DirUsers(n) /\ n.user[e.id].name = e.name
      /\ n.user[e.id].ou = e.ou /\ n.user[e.id].schools = e.schools
  BY DEF UserEvent, Carries
<1>2. e.ou \in e.schools /\ e.schools \subseteq DirSchoolNames(n)
  BY <1>1 DEF SchoolsFound
<1>3. ASSUME NEW s \in DirSchools(n), n.school[s] \in e.schools
      PROVE  s \in School /\ s \in named /\ d.school[s] = n.school[s] /\ s \in Schools(d)
  BY <1>1, <1>3 DEF DirSchools, Schools, SchoolsNamed
<1>4. ASSUME NEW t \in named PROVE t \in DirSchools(n) /\ n.school[t] = d.school[t]
  <2>1. t \in Schools(d) /\ d.school[t] \in e.schools
    BY <1>1, <1>4 DEF SchoolsNamed, Schools
  <2>2. PICK s \in DirSchools(n) : n.school[s] = d.school[t]
    BY <1>2, <2>1 DEF DirSchoolNames
  <2>3. s \in Schools(d) /\ d.school[s] = d.school[t]
    BY <1>3, <2>1, <2>2
  <2>4. s = t
    BY <2>1, <2>3 DEF SchoolsUnique
  <2> QED
    BY <2>2, <2>4
<1>5. \A s \in School : s \in named <=> s \in MemberSchools(n, e.id)
  BY <1>1, <1>3, <1>4 DEF MemberSchools, SchoolsNamed
<1>6. PICK o \in DirSchools(n) : n.school[o] = e.ou
  BY <1>2 DEF DirSchoolNames
<1>7. o \in named /\ o \in own
  BY <1>2, <1>3, <1>6
<1>8. primary = own
  BY <1>7 DEF PrimarySchools
<1>9. \A s \in School : s \in primary <=> s \in DirSchools(n) /\ n.school[s] = e.ou
  BY <1>2, <1>3, <1>4, <1>8
<1>10. UserRowPut(d, v, e)
  BY <1>7, UserEventRows
<1> HIDE DEF v, named, primary, own
<1>11. v.user[e.id] = e.name
  BY <1>1, <1>10 DEF UserRowPut, Kept, Database
<1>12. ASSUME NEW s \in School
       PROVE  /\ <<e.id, s>> \in v.member <=> s \in named
              /\ <<e.id, s>> \in v.primary <=> s \in primary
  BY <1>10 DEF UserRowPut, named, primary
<1> QED
  BY <1>1, <1>5, <1>9, <1>11, <1>12 DEF UserAsInDir, v

\* Rows stay as they are in the directory while the events of others are handled.
LEMMA RowsStay ==
  ASSUME NEW d, Kept(d), SchoolsUnique(d), NEW e \in SyncEvent, NEW n,
         Removes(e) => e.id \notin DirSchools(n), NEW x \in Object, ~About(e, x)
  PROVE  LET v == HandleEvent(d, e)
         IN /\ x \in Group /\ GroupAsInDir(d, n, x) => GroupAsInDir(v, n, x)
            /\ x \in User /\ UserAsInDir(d, n, x) => UserAsInDir(v, n, x)
<1> DEFINE v == HandleEvent(d, e)
<1>1. /\ RowKept(d, v, x)
      /\ \A s \in School :
           x \in User => MembershipKept(d, v, x, s) \/ MembershipGone(v, e, x, s)
  BY OthersKept
<1> HIDE DEF v
<1>2. ASSUME x \in Group, GroupAsInDir(d, n, x) PROVE GroupAsInDir(v, n, x)
  BY <1>1, <1>2 DEF RowKept, GroupAsInDir
<1>3. ASSUME x \in User, UserAsInDir(d, n, x) PROVE UserAsInDir(v, n, x)
  <2>1. v.user[x] = n.user[x].name
    BY <1>1, <1>3 DEF RowKept, UserAsInDir
  <2>2. ASSUME NEW s \in School
        PROVE  /\ <<x, s>> \in v.member <=> s \in MemberSchools(n, x)
               /\ <<x, s>> \in v.primary <=> s \in DirSchools(n) /\ n.school[s] = n.user[x].ou
    <3>1. CASE MembershipKept(d, v, x, s)
      BY <1>3, <3>1 DEF MembershipKept, UserAsInDir
    <3>2. CASE MembershipGone(v, e, x, s)
      BY <3>2 DEF MembershipGone, MemberSchools
    <3> QED
      BY <1>1, <1>3, <3>1, <3>2
  <2> QED
    BY <2>1, <2>2 DEF UserAsInDir
<1> QED
  BY <1>2, <1>3 DEF v

\* Rows stay as they are in the directory while others change there.
LEMMA RowsStillFit ==
  ASSUME NEW d, NEW m, NEW n, SchoolsFound(m), SchoolsFound(n), SchoolsStep(m, n),
         NEW x \in Object, SameData(m, n, x)
  PROVE  /\ x \in DirGroups(m) /\ GroupAsInDir(d, m, x) => GroupAsInDir(d, n, x)
         /\ x \in DirUsers(m) /\ UserAsInDir(d, m, x) => UserAsInDir(d, n, x)
<1>1. ASSUME NEW sn \in DirSchoolNames(m), sn \in DirSchoolNames(n), NEW s \in School
      PROVE  s \in DirSchools(n) /\ n.school[s] = sn <=> s \in DirSchools(m) /\ m.school[s] = sn
  BY <1>1 DEF SchoolsStep, DirSchoolNames
<1>2. ASSUME x \in DirGroups(m), GroupAsInDir(d, m, x) PROVE GroupAsInDir(d, n, x)
  <2>1. /\ x \in DirGroups(n) /\ n.group[x].name = m.group[x].name
        /\ n.group[x].school = m.group[x].school
    BY <1>2 DEF SameData, DirGroups
  <2>2. m.group[x].school \in DirSchoolNames(m) /\ m.group[x].school \in DirSchoolNames(n)
    BY <1>2, <2>1 DEF SchoolsFound
  <2> QED
    BY <1>1, <1>2, <2>1, <2>2 DEF GroupAsInDir, DirSchools
<1>3. ASSUME x \in DirUsers(m), UserAsInDir(d, m, x) PROVE UserAsInDir(d, n, x)
  <2>1. n.user[x] = m.user[x] /\ x \in DirUsers(n)
    BY <1>3 DEF SameData, DirUsers
  <2>2. /\ m.user[x].ou \in m.user[x].schools
        /\ m.user[x].schools \subseteq DirSchoolNames(m)
        /\ m.user[x].schools \subseteq DirSchoolNames(n)
    BY <1>3, <2>1 DEF SchoolsFound
  <2>3. ASSUME NEW s \in School
        PROVE  /\ s \in MemberSchools(n, x) <=> s \in MemberSchools(m, x)
               /\ s \in DirSchools(n) /\ n.school[s] = n.user[x].ou
                    <=> s \in DirSchools(m) /\ m.school[s] = m.user[x].ou
    BY <1>1, <2>1, <2>2 DEF MemberSchools
  <2> QED
    BY <1>3, <2>1, <2>3 DEF UserAsInDir
<1> QED
  BY <1>2, <1>3

----------------------------------------------------------------------------
(* What has been written *)

\* A stored school has its name as soon as one of its events is committed.
SchoolsWritten ==
  \A s \in DirSchools(dir), k \in DOMAIN log :
    About(log[k], s) /\ queue[k].commits > 0 => db.school[s] = dir.school[s]

\* An object has its row as soon as its last event is committed.
RowsWritten ==
  \A i \in DOMAIN log :
    Latest(log, i) /\ log[i].op # "delete" /\ queue[i].commits > 0
      => /\ log[i].kind = "group" => GroupAsInDir(db, dir, log[i].id)
         /\ log[i].kind = "user" => UserAsInDir(db, dir, log[i].id)

(***************************************************************************)
(* The inductive invariant, next to IInv and RInv.  The rows are as the    *)
(* directory has them only while no school event has been dropped.         *)
(***************************************************************************)
WInv ==
  /\ DirTold(dir, log)
  /\ Books
  /\ SchoolsWritten
  /\ NoSchoolDropped => RowsWritten

\* The kind of an event is the kind of its object.
LEMMA EventKinds ==
  ASSUME NEW e \in SyncEvent, NEW x \in Object, About(e, x)
  PROVE  /\ e.kind = "school" <=> x \in School
         /\ e.kind = "group" <=> x \in Group
         /\ e.kind = "user" <=> x \in User
         /\ e.op # "delete" => /\ e.kind = "school" => e \in SchoolEvent
                               /\ e.kind = "group" => e \in GroupEvent
                               /\ e.kind = "user" => e \in UserEvent
<1> USE StoreAssumption DEF StoreAssumption
<1>1. CASE e \in SchoolEvent \cup GroupEvent \cup UserEvent
  BY <1>1 DEF SchoolEvent, GroupEvent, UserEvent, About
<1>2. CASE e \in HostEvent
  BY <1>2 DEF HostEvent, About
<1>3. CASE e \in DeleteEvent
  BY <1>3 DEF DeleteEvent, About
<1> QED
  BY <1>1, <1>2, <1>3 DEF SyncEvent

\* The queue holds one record for each event, and the events are well-formed.
LEMMA LoggedTyped ==
  ASSUME IInv
  PROVE  /\ D!Events = DOMAIN log /\ DOMAIN log = 1..Len(log) /\ Len(log) \in Nat
         /\ \A i \in DOMAIN log : /\ log[i] \in SyncEvent
                                  /\ log[i].kind # "host" => log[i].id \in Object
<1>1. log \in Seq(SyncEvent) /\ D!Events = DOMAIN log
  BY DEF IInv, TypeOK, D!TypeOK, D!Events
<1>2. \A e \in SyncEvent : e.kind # "host" => e.id \in Object
  BY DEF SyncEvent, SchoolEvent, GroupEvent, UserEvent, HostEvent, DeleteEvent, Object
<1> QED
  BY <1>1, <1>2

\* The schools of the object whose event is being handled are stored.
LEMMA ItsSchoolsAreStored ==
  ASSUME IInv, WInv, NoSchoolDropped, cur \in DOMAIN log, D!OldestPending(cur), Latest(log, cur),
         NEW s \in DirSchools(dir), dir.school[s] \in SchoolsOf(log[cur])
  PROVE  db.school[s] = dir.school[s]
<1>1. PICK k \in 1..(cur - 1) : About(log[k], s)
  BY DEF WInv, DirTold, SchoolsFirst
<1>2. k \in DOMAIN log /\ log[k] \in SyncEvent /\ k \in D!Events
  BY LoggedTyped
<1>3. log[k].kind = "school"
  BY <1>1, <1>2, EventKinds DEF DirSchools, Object
<1>4. queue[k].outcome = "applied"
  BY <1>2, <1>3 DEF D!OldestPending, D!Acked, NoSchoolDropped
<1>5. queue[k].commits > 0
  BY <1>2, <1>4 DEF WInv, Books, AppliedIsCommitted
<1> QED
  BY <1>1, <1>2, <1>5 DEF WInv, SchoolsWritten

\* A committed handler leaves the rows as the directory has them.
LEMMA CommitWrites ==
  ASSUME IInv, RInv, WInv, Attempt, log' = log, dir' = dir, cur \in DOMAIN log,
         db' = HandleEvent(db, log[cur])
  PROVE  SchoolsWritten' /\ (NoSchoolDropped => RowsWritten')
<1> DEFINE e == log[cur]
<1>1. /\ D!Events = DOMAIN log /\ D!OldestPending(cur)
      /\ \A i \in DOMAIN log : i # cur => queue'[i].commits = queue[i].commits
      /\ DOMAIN log = 1..Len(log) /\ Len(log) \in Nat
  BY AttemptCommits, LoggedTyped DEF RInv
<1>2. \A i \in DOMAIN log : /\ log[i] \in SyncEvent
                            /\ log[i].kind # "host" => log[i].id \in Object
  BY LoggedTyped
<1>3. Kept(db) /\ SchoolsUnique(db)
  BY DEF IInv, TypeOK, StoreConsistent, ConstraintsHold, Kept, SchoolsUnique
<1>4. DirKept(dir) /\ SchoolsFound(dir)
  BY DEF IInv, TypeOK, DirKept, WInv, DirTold
<1>5. Removes(e) => e.id \notin DirSchools(dir)
  BY DEF RInv, RemovedIsGone, DirObjects
<1>6. ASSUME NEW s \in DirSchools(dir), NEW k \in DOMAIN log, About(log[k], s),
             queue'[k].commits > 0
      PROVE  db'.school[s] = dir.school[s]
  <2>0. s \in School /\ s \in Object
    BY DEF DirSchools, Object
  <2>1. CASE About(e, s)
    <3>1. e.op # "delete" /\ e.name = dir.school[s]
      BY <2>1 DEF WInv, DirTold, SchoolsTold
    <3>2. e \in SchoolEvent /\ e.id = s
      BY <1>2, <2>0, <2>1, <3>1, EventKinds DEF About
    <3>3. db'.school = [db.school EXCEPT ![e.id] = e.name]
      BY <1>3, <3>2, SchoolEventRows
    <3> QED
      BY <1>3, <2>0, <3>1, <3>2, <3>3 DEF Kept, Database
  <2>2. CASE ~About(e, s)
    <3>1. queue[k].commits > 0
      BY <1>1, <1>6, <2>2
    <3>2. db.school[s] = dir.school[s]
      BY <1>6, <3>1 DEF WInv, SchoolsWritten
    <3>3. db'.school[s] = db.school[s]
      BY <1>2, <1>3, <2>0, <2>2, OthersKept DEF RowKept
    <3> QED
      BY <3>2, <3>3
  <2> QED
    BY <2>1, <2>2
<1>7. ASSUME NoSchoolDropped, NEW i \in DOMAIN log, Latest(log, i), log[i].op # "delete",
             queue'[i].commits > 0
      PROVE  /\ log[i].kind = "group" => GroupAsInDir(db', dir, log[i].id)
             /\ log[i].kind = "user" => UserAsInDir(db', dir, log[i].id)
  <2> DEFINE x == log[i].id
  <2>0. log[i].kind # "host" /\ x \in Object /\ log[i] \in SyncEvent /\ About(log[i], x)
    BY <1>2, <1>7 DEF Latest, About
  <2>1. CASE i = cur
    <3>1. Carries(dir, e)
      BY <1>7, <2>1 DEF WInv, DirTold, LatestCarries
    <3>2. \A s \in DirSchools(dir) :
            dir.school[s] \in SchoolsOf(e) => db.school[s] = dir.school[s]
      BY <1>1, <1>7, <2>1, ItsSchoolsAreStored
    <3>3. ASSUME e.kind = "group" PROVE GroupAsInDir(db', dir, e.id)
      <4>1. e \in GroupEvent /\ SchoolsOf(e) = {e.school}
        BY <1>7, <2>0, <2>1, <3>3, EventKinds DEF SchoolsOf
      <4> QED
        BY <1>3, <1>4, <3>1, <3>2, <4>1, GroupGetsItsRow
    <3>4. ASSUME e.kind = "user" PROVE UserAsInDir(db', dir, e.id)
      <4>1. e \in UserEvent /\ SchoolsOf(e) = e.schools
        BY <1>7, <2>0, <2>1, <3>4, EventKinds DEF SchoolsOf
      <4> QED
        BY <1>3, <1>4, <3>1, <3>2, <4>1, UserGetsItsRows
    <3> QED
      BY <2>1, <3>3, <3>4
  <2>2. CASE i # cur
    <3>1. queue[i].commits > 0
      BY <1>1, <1>7, <2>2
    <3>2. i < cur
      BY <1>1, <2>2, <3>1 DEF RInv, CommitsInOrder, D!OldestPending
    <3>3. ~About(e, x)
      BY <1>1, <1>7, <3>2 DEF Latest
    <3>4. /\ log[i].kind = "group" => x \in Group /\ GroupAsInDir(db, dir, x)
          /\ log[i].kind = "user" => x \in User /\ UserAsInDir(db, dir, x)
      BY <1>7, <2>0, <3>1, EventKinds DEF WInv, RowsWritten
    <3> HIDE DEF x
    <3> QED
      BY <1>2, <1>3, <1>5, <2>0, <3>3, <3>4, RowsStay DEF x
  <2> QED
    BY <2>1, <2>2
<1> QED
  BY <1>6, <1>7 DEF SchoolsWritten, RowsWritten

----------------------------------------------------------------------------
(* The steps *)

\* The records of a new subscription's events.
LEMMA RecordsFresh ==
  ASSUME NEW events \in Seq(SyncEvent)
  PROVE  \A i \in DOMAIN events :
           /\ Prefilled(events)[i].commits = 0
           /\ Prefilled(events)[i].outcome = "pending"
           /\ Prefilled(events)[i].class = "relevant" => IsRelevant(events[i])
BY DEF Prefilled, Classes, D!FreshEvent

\* A change of the directory only adds events that are not committed yet (Submit).
LEMMA SubmitKeepsRows ==
  ASSUME IInv, WInv, DataSubmitted
  PROVE  WInv'
<1> PICK operation, c : /\ DataKept(dir, c)
                        /\ Submit(operation, c)
                        /\ \A s \in DirSchools(c.dir) \ DirSchools(dir) : EventsOf(s) = {}
  BY DEF DataSubmitted
<1> DEFINE es == c.events
           new == Prefilled(es)
           m == Len(log)
           all == log \o es
           told == queue \o new
<1>1. es \in Seq(SyncEvent)
  BY DEF DataKept, Carried
<1>2. /\ log' = all /\ dir' = c.dir /\ db' = db /\ pc' = pc /\ cur' = cur
      /\ queue' = told
  BY <1>1, Published DEF IInv, TypeOK, D!TypeOK, Submit, D!Publish
<1>3. new \in Seq(D!EventRecord) /\ DOMAIN new = DOMAIN es
  BY <1>1, PrefilledTyped, PrefilledFresh
<1>4. \A j \in DOMAIN es : /\ new[j].commits = 0 /\ new[j].outcome = "pending"
                           /\ new[j].class = "relevant" => IsRelevant(es[j])
  BY <1>1, RecordsFresh
<1>5. /\ queue \in Seq(D!EventRecord) /\ log \in Seq(SyncEvent) /\ Len(queue) = m
      /\ D!Events = DOMAIN log /\ D!Events' = DOMAIN queue'
  BY DEF IInv, TypeOK, D!TypeOK, D!Events
<1>6. \A s \in DirSchools(c.dir) \ DirSchools(dir), k \in DOMAIN log : ~About(log[k], s)
  BY DEF EventsOf, About
<1>7. DirTold(dir, log) /\ Books /\ SchoolsWritten /\ (NoSchoolDropped => RowsWritten)
  BY DEF WInv
<1>8. SchoolsFound(dir) /\ SchoolsFound(c.dir) /\ SchoolsStep(dir, c.dir)
      /\ \A x \in Object : SameData(dir, c.dir, x) \/ \E j \in DOMAIN es : About(es[j], x)
  BY <1>7 DEF DataKept, DirTold
<1>9. DirTold(c.dir, all)
  BY <1>5, <1>6, <1>7, DirToldGrows
<1>10. /\ DOMAIN log = 1..m /\ m \in Nat /\ DOMAIN es \subseteq Nat \ {0}
       /\ \A i \in DOMAIN log : i \in DOMAIN all /\ all[i] = log[i]
       /\ \A j \in DOMAIN es : m + j \in DOMAIN all /\ all[m + j] = es[j]
       /\ \A i \in DOMAIN all : i \in DOMAIN log \/ \E j \in DOMAIN es : i = m + j
  BY <1>1, <1>5, Concatenated
<1>11. /\ DOMAIN queue = 1..m
       /\ \A i \in DOMAIN queue : i \in DOMAIN told /\ told[i] = queue[i]
       /\ \A j \in DOMAIN new : m + j \in DOMAIN told /\ told[m + j] = new[j]
       /\ \A i \in DOMAIN told : i \in DOMAIN queue \/ \E j \in DOMAIN new : i = m + j
  <2> HIDE DEF new
  <2>1. new \in Seq(D!EventRecord) /\ queue \in Seq(D!EventRecord) /\ Len(queue) = m
    BY <1>3, <1>5
  <2>2. /\ DOMAIN queue = 1..Len(queue)
        /\ \A i \in DOMAIN queue : i \in DOMAIN told /\ told[i] = queue[i]
        /\ \A j \in DOMAIN new : Len(queue) + j \in DOMAIN told /\ told[Len(queue) + j] = new[j]
        /\ \A i \in DOMAIN told : i \in DOMAIN queue \/ \E j \in DOMAIN new : i = Len(queue) + j
    BY <2>1, Concatenated
  <2> QED
    BY <2>1, <2>2
<1> HIDE DEF new, m, es, all, told
<1>12. /\ DOMAIN log = 1..m /\ m \in Nat /\ DOMAIN es \subseteq Nat \ {0}
       /\ \A i \in DOMAIN log : i \in DOMAIN log' /\ log'[i] = log[i]
       /\ \A j \in DOMAIN es : m + j \in DOMAIN log' /\ log'[m + j] = es[j]
       /\ \A i \in DOMAIN log' : i \in DOMAIN log \/ \E j \in DOMAIN es : i = m + j
  BY <1>2, <1>10
<1>13. /\ \A i \in DOMAIN log : i \in DOMAIN queue' /\ queue'[i] = queue[i]
       /\ \A j \in DOMAIN es : m + j \in DOMAIN queue' /\ queue'[m + j] = new[j]
       /\ \A i \in DOMAIN queue' : i \in DOMAIN log \/ \E j \in DOMAIN es : i = m + j
  <2>1. queue' = told /\ DOMAIN new = DOMAIN es /\ DOMAIN queue = DOMAIN log
    BY <1>2, <1>3, <1>10, <1>11
  <2> QED
    BY <1>11, <2>1
<1>14. \A i \in DOMAIN log' : \/ i \in DOMAIN log
                              \/ /\ queue'[i].commits = 0 /\ queue'[i].outcome = "pending"
                                 /\ queue'[i].class = "relevant" => IsRelevant(log'[i])
  BY <1>4, <1>12, <1>13
<1>15. DOMAIN log' = DOMAIN queue'
  BY <1>12, <1>13
<1>16. Books'
  <2>1. ClassesFit' /\ OnlyRelevantCommitted'
    BY <1>5, <1>7, <1>12, <1>13, <1>14, <1>15 DEF Books, ClassesFit, OnlyRelevantCommitted
  <2>2. \A i \in D!Events' : queue'[i].outcome = "applied" => queue'[i].commits > 0
    BY <1>5, <1>7, <1>13, <1>14, <1>15 DEF Books, AppliedIsCommitted
  <2>3. pc = "applied" => cur \in DOMAIN log
    BY <1>5 DEF IInv, CurrentExists, D!Verdict
  <2>4. pc' = "applied" => queue'[cur'].commits > 0
    BY <1>2, <1>7, <1>13, <2>3 DEF Books, AppliedIsCommitted
  <2> QED
    BY <2>1, <2>2, <2>4 DEF Books, AppliedIsCommitted
<1>17. ASSUME NEW k \in DOMAIN log', queue'[k].commits > 0
       PROVE  k \in DOMAIN log /\ queue[k].commits > 0 /\ log'[k] = log[k]
  BY <1>12, <1>13, <1>14, <1>17
<1>18. SchoolsWritten'
  <2>1. ASSUME NEW s \in DirSchools(c.dir), NEW k \in DOMAIN log', About(log'[k], s),
               queue'[k].commits > 0
        PROVE  db.school[s] = c.dir.school[s]
    <3>1. k \in DOMAIN log /\ queue[k].commits > 0 /\ About(log[k], s)
      BY <1>17, <2>1
    <3>2. s \in DirSchools(dir) /\ c.dir.school[s] = dir.school[s]
      BY <1>6, <1>8, <3>1 DEF SchoolsStep
    <3> QED
      BY <1>7, <3>1, <3>2 DEF SchoolsWritten
  <2> QED
    BY <1>2, <2>1 DEF SchoolsWritten
<1>19. ASSUME NoSchoolDropped' PROVE NoSchoolDropped
  BY <1>5, <1>12, <1>13, <1>15, <1>19 DEF NoSchoolDropped
<1>20. ASSUME RowsWritten PROVE RowsWritten'
  <2>1. ASSUME NEW i \in DOMAIN log', Latest(log', i), log'[i].op # "delete",
               queue'[i].commits > 0
        PROVE  /\ log'[i].kind = "group" => GroupAsInDir(db, c.dir, log'[i].id)
               /\ log'[i].kind = "user" => UserAsInDir(db, c.dir, log'[i].id)
    <3>1. i \in DOMAIN log /\ queue[i].commits > 0 /\ log'[i] = log[i]
      BY <1>17, <2>1
    <3>2. Latest(log, i)
      BY <1>12, <2>1, <3>1 DEF Latest
    <3>3. Carries(dir, log[i])
      BY <1>7, <3>1, <3>2 DEF DirTold, LatestCarries
    <3>4. log[i].kind # "host" /\ log[i].id \in Object
      BY <3>1, <3>2, LoggedTyped DEF Latest
    <3>5. \A j \in DOMAIN es : ~About(es[j], log[i].id)
      <4>1. ASSUME NEW j \in DOMAIN es, About(es[j], log[i].id) PROVE FALSE
        <5>1. m + j <= i
          BY <1>12, <2>1, <3>1, <4>1 DEF Latest
        <5> QED
          BY <1>12, <3>1, <5>1
      <4> QED
        BY <4>1
    <3>6. SameData(dir, c.dir, log[i].id)
      BY <1>8, <3>4, <3>5
    <3>7. /\ log[i].kind = "group" => /\ log[i].id \in DirGroups(dir)
                                      /\ GroupAsInDir(db, dir, log[i].id)
          /\ log[i].kind = "user" => /\ log[i].id \in DirUsers(dir)
                                     /\ UserAsInDir(db, dir, log[i].id)
      BY <1>20, <2>1, <3>1, <3>2, <3>3 DEF RowsWritten, Carries
    <3> QED
      BY <1>8, <3>1, <3>4, <3>6, <3>7, RowsStillFit
  <2> QED
    BY <1>2, <2>1 DEF RowsWritten
<1> QED
  BY <1>2, <1>7, <1>9, <1>16, <1>18, <1>19, <1>20 DEF WInv, es

\* A subscription that was just set up, by init or by FORCE=true.
JustSetUp ==
  /\ SchoolsFound(dir)
  /\ log = PrefillEvents(dir)
  /\ queue = Prefilled(log)
  /\ pc # "applied"

\* A new subscription starts with a prefill, nothing of which is committed.
LEMMA PrefillWrites == IInv /\ JustSetUp => WInv
<1> SUFFICES ASSUME IInv, JustSetUp PROVE WInv
  OBVIOUS
<1> USE DEF JustSetUp
<1>1. DirKept(dir) /\ log \in Seq(SyncEvent) /\ D!Events = DOMAIN log
  BY DEF IInv, TypeOK, D!TypeOK, DirKept, D!Events
<1>2. DirTold(dir, log)
  BY <1>1, PrefillDirTold
<1>3. \A i \in DOMAIN log : /\ queue[i].commits = 0 /\ queue[i].outcome = "pending"
                            /\ queue[i].class = "relevant" => IsRelevant(log[i])
  BY <1>1, RecordsFresh
<1>4. Books
  BY <1>1, <1>3 DEF Books, ClassesFit, OnlyRelevantCommitted, AppliedIsCommitted
<1>5. SchoolsWritten /\ RowsWritten
  BY <1>3 DEF SchoolsWritten, RowsWritten
<1> QED
  BY <1>2, <1>4, <1>5 DEF WInv

\* A step of the process or of what disturbs it.
LEMMA ProcessKeepsRows ==
  ASSUME IInv, RInv, WInv, Process \/ Disturb \/ \E committed \in BOOLEAN : DatabaseFault(committed)
  PROVE  WInv'
<1>1. /\ log' = log /\ dir' = dir
      /\ \/ db' = db /\ QueueGrows /\ CommitsKept
         \/ /\ Attempt /\ ~HandlerFails(db, log[cur]) /\ cur \in DOMAIN log
            /\ db' = HandleEvent(db, log[cur]) /\ queue'[cur].commits > 0
  BY CommitsCounted
<1>2. Books' /\ DirTold(dir, log)'
  BY <1>1, ProcessKeepsBooks DEF WInv
<1>3. NoSchoolDropped' => NoSchoolDropped
  BY DroppedBefore
<1>4. D!Events = DOMAIN log
  BY LoggedTyped
<1>5. CASE db' = db /\ QueueGrows /\ CommitsKept
  <2>1. SchoolsWritten'
    BY <1>1, <1>4, <1>5 DEF WInv, SchoolsWritten, CommitsKept
  <2>2. RowsWritten => RowsWritten'
    BY <1>1, <1>4, <1>5 DEF RowsWritten, CommitsKept
  <2> QED
    BY <1>2, <1>3, <2>1, <2>2 DEF WInv
<1>6. CASE Attempt /\ cur \in DOMAIN log /\ db' = HandleEvent(db, log[cur])
  BY <1>1, <1>2, <1>3, <1>6, CommitWrites DEF WInv
<1> QED
  BY <1>1, <1>5, <1>6

\* The third invariant is inductive relative to the first two.
LEMMA NextKeepsRows == IInv /\ IInv' /\ RInv /\ WInv /\ [Next]_vars => WInv'
<1> SUFFICES ASSUME IInv, IInv', RInv, WInv, [Next]_vars PROVE WInv'
  OBVIOUS
<1>1. DirKept(dir) /\ SchoolsFound(dir)
  BY DEF IInv, TypeOK, DirKept, WInv, DirTold
<1>2. CASE SchoolChange \/ GroupChange \/ UserChange
  <2>1. DataSubmitted
    BY <1>1, <1>2, SchoolChangeSubmitsData, GroupChangeSubmitsData, UserChangeSubmitsData
  <2> QED
    BY <2>1, SubmitKeepsRows
<1>3. CASE Process \/ Disturb \/ \E committed \in BOOLEAN : DatabaseFault(committed)
  BY <1>3, ProcessKeepsRows
<1>4. CASE Resubscribe
  <2>1. JustSetUp'
    BY <1>1, <1>4 DEF Resubscribe, JustSetUp
  <2> QED
    BY <2>1, PrefillWrites, PTL
<1>5. CASE UNCHANGED vars
  BY <1>5 DEF vars, WInv, DirTold, Books, ClassesFit, OnlyRelevantCommitted, AppliedIsCommitted,
              SchoolsWritten, NoSchoolDropped, RowsWritten, D!Events
<1> QED
  BY <1>2, <1>3, <1>4, <1>5 DEF Next

----------------------------------------------------------------------------
(* The columns of an object *)

\* The rows that the projection of a directory has.
LEMMA ProjectedSchools ==
  ASSUME NEW d, NEW s \in School
  PROVE  /\ Projection(d).school[s] = d.school[s]
         /\ s \notin DirSchools(d) => Projection(d).school[s] = NoRow
BY DEF Projection, DirSchools

\* A group has a row if it is a school class or workgroup (Projection).
LEMMA ProjectedGroups ==
  ASSUME NEW d, SchoolsFound(d), NEW g \in Group
  PROVE  /\ g \notin DirGroups(d) => Projection(d).group[g] = NoRow
         /\ \A s \in DirSchools(d) :
              g \in DirGroups(d) /\ d.group[g].scope /\ d.school[s] = d.group[g].school
                => Projection(d).group[g] = [name |-> d.group[g].name, school |-> s]
<1> DEFINE row(h) == [name |-> d.group[h].name, school |-> SchoolOf(d, d.group[h].school)]
<1>1. Projection(d).group = [h \in Group |-> IF h \in StoredGroups(d) THEN row(h) ELSE NoRow]
  BY DEF Projection
<1>2. g \notin DirGroups(d) => g \notin StoredGroups(d)
  BY DEF StoredGroups
<1>3. ASSUME NEW s \in DirSchools(d), g \in DirGroups(d), d.group[g].scope,
             d.school[s] = d.group[g].school
      PROVE  g \in StoredGroups(d) /\ SchoolOf(d, d.group[g].school) = s
  <2>1. g \in StoredGroups(d)
    BY <1>3 DEF StoredGroups, DirSchoolNames
  <2> DEFINE t == SchoolOf(d, d.group[g].school)
  <2>2. t \in DirSchools(d) /\ d.school[t] = d.group[g].school
    BY <1>3 DEF SchoolOf
  <2> HIDE DEF t
  <2>3. t = s
    BY <1>3, <2>2 DEF SchoolsFound
  <2> QED
    BY <2>1, <2>3 DEF t
<1> QED
  BY <1>1, <1>2, <1>3

\* A user has rows if it is in a school of the directory (Projection).
LEMMA ProjectedUsers ==
  ASSUME NEW d, NEW u \in User
  PROVE  /\ u \notin DirUsers(d)
              => /\ Projection(d).user[u] = NoRow
                 /\ \A m \in Projection(d).member \cup Projection(d).primary : m[1] # u
         /\ u \in DirUsers(d) /\ MemberSchools(d, u) # {}
              => /\ Projection(d).user[u] = d.user[u].name
                 /\ \A s \in School :
                      /\ <<u, s>> \in Projection(d).member <=> s \in MemberSchools(d, u)
                      /\ <<u, s>> \in Projection(d).primary
                           <=> s \in MemberSchools(d, u) /\ d.school[s] = d.user[u].ou
         /\ Projection(d).member \subseteq User \X School
         /\ Projection(d).primary \subseteq User \X School
<1> DEFINE users == {v \in DirUsers(d) : MemberSchools(d, v) # {}}
           member == {m \in users \X DirSchools(d) : m[2] \in MemberSchools(d, m[1])}
<1>1. /\ Projection(d).member = member
      /\ Projection(d).primary = {m \in member : d.school[m[2]] = d.user[m[1]].ou}
      /\ Projection(d).user = [v \in User |-> IF v \in users THEN d.user[v].name ELSE NoRow]
  BY DEF Projection
<1>2. /\ users \subseteq DirUsers(d) /\ DirUsers(d) \subseteq User /\ DirSchools(d) \subseteq School
      /\ MemberSchools(d, u) \subseteq DirSchools(d)
  BY DEF DirUsers, DirSchools, MemberSchools
<1> QED
  BY <1>1, <1>2

\* Objects that are gone have nothing of their own in the database.
LEMMA NothingLeft ==
  ASSUME Kept(db), NEW x \in Object, ~Stored(db, x), x \notin DirObjects(dir), SchoolsFound(dir)
  PROVE  OwnColumns(db, x) = OwnColumns(Projection(dir), x)
<1> USE StoreAssumption DEF StoreAssumption
<1>1. CASE x \in School
  <2>1. db.school[x] = NoRow /\ Projection(dir).school[x] = NoRow
    BY <1>1, ProjectedSchools DEF Stored, Schools, DirObjects
  <2> QED
    BY <1>1, <2>1 DEF OwnColumns
<1>2. CASE x \in Group
  <2>1. db.group[x] = NoRow /\ Projection(dir).group[x] = NoRow
    BY <1>2, ProjectedGroups DEF Stored, Groups, DirObjects
  <2>2. x \notin School
    BY <1>2
  <2> QED
    BY <1>2, <2>1, <2>2 DEF OwnColumns
<1>3. CASE x \in User
  <2>1. db.user[x] = NoRow /\ Projection(dir).user[x] = NoRow
    BY <1>3, ProjectedUsers DEF Stored, Users, DirObjects
  <2>2. \A m \in db.member \cup db.primary : m[1] # x
    BY <1>3, <2>1 DEF Kept, ReferencesHold, MembershipsHold, Users
  <2>3. \A m \in Projection(dir).member \cup Projection(dir).primary : m[1] # x
    BY <1>3, ProjectedUsers DEF DirObjects
  <2>4. x \notin School /\ x \notin Group
    BY <1>3
  <2>5. /\ {m \in db.member : m[1] = x} = {} /\ {m \in db.primary : m[1] = x} = {}
        /\ {m \in Projection(dir).member : m[1] = x} = {}
        /\ {m \in Projection(dir).primary : m[1] = x} = {}
    BY <2>2, <2>3
  <2> QED
    BY <1>3, <2>1, <2>4, <2>5 DEF OwnColumns
<1> QED
  BY <1>1, <1>2, <1>3 DEF Object

\* A group whose row is the directory's.
LEMMA GroupIsRight ==
  ASSUME db \in Database, NEW g \in DirGroups(dir), dir.group[g].scope, SchoolsFound(dir),
         GroupAsInDir(db, dir, g)
  PROVE  OwnColumns(db, g) = OwnColumns(Projection(dir), g)
<1> USE StoreAssumption DEF StoreAssumption
<1> DEFINE row == db.group[g]
<1>1. g \in Group /\ g \notin School
  BY DEF DirGroups
<1>2. row \in [name : GroupName, school : School]
  BY <1>1 DEF Database, GroupAsInDir
<1>3. row.name = dir.group[g].name /\ row.school \in DirSchools(dir)
      /\ dir.school[row.school] = dir.group[g].school
  BY DEF GroupAsInDir
<1> HIDE DEF row
<1>4. row = [name |-> row.name, school |-> row.school]
  BY <1>2
<1>5. Projection(dir).group[g] = [name |-> dir.group[g].name, school |-> row.school]
  BY <1>1, <1>3, ProjectedGroups
<1>6. db.group[g] = Projection(dir).group[g]
  BY <1>3, <1>4, <1>5 DEF row
<1> QED
  BY <1>1, <1>6 DEF OwnColumns

\* A user whose rows are the directory's.
LEMMA UserIsRight ==
  ASSUME Kept(db), NEW u \in DirUsers(dir), SchoolsFound(dir), UserAsInDir(db, dir, u)
  PROVE  OwnColumns(db, u) = OwnColumns(Projection(dir), u)
<1> USE StoreAssumption DEF StoreAssumption
<1> DEFINE p == Projection(dir)
<1>1. u \in User /\ u \notin School /\ u \notin Group
  BY DEF DirUsers
<1>2. MemberSchools(dir, u) # {}
  BY DEF SchoolsFound, MemberSchools, DirSchoolNames
<1>3. /\ db.user[u] = p.user[u]
      /\ \A s \in School : /\ <<u, s>> \in db.member <=> <<u, s>> \in p.member
                           /\ <<u, s>> \in db.primary <=> <<u, s>> \in p.primary
  <2>1. /\ p.user[u] = dir.user[u].name
        /\ \A s \in School :
             /\ <<u, s>> \in p.member <=> s \in MemberSchools(dir, u)
             /\ <<u, s>> \in p.primary
                  <=> s \in MemberSchools(dir, u) /\ dir.school[s] = dir.user[u].ou
    BY <1>1, <1>2, ProjectedUsers
  <2>2. \A s \in School : s \in DirSchools(dir) /\ dir.school[s] = dir.user[u].ou
                            <=> s \in MemberSchools(dir, u) /\ dir.school[s] = dir.user[u].ou
    BY DEF MemberSchools, SchoolsFound
  <2> QED
    BY <2>1, <2>2 DEF UserAsInDir
<1>4. /\ p.member \subseteq User \X School /\ p.primary \subseteq User \X School
      /\ db.member \subseteq User \X School /\ db.primary \subseteq User \X School
  BY <1>1, ProjectedUsers DEF Kept, Database
<1> HIDE DEF p
<1>5. {m \in db.member : m[1] = u} = {m \in p.member : m[1] = u}
  BY <1>3, <1>4
<1>6. {m \in db.primary : m[1] = u} = {m \in p.primary : m[1] = u}
  BY <1>3, <1>4
<1> QED
  BY <1>1, <1>3, <1>5, <1>6 DEF OwnColumns, p

\* An object whose last event was applied is as the directory has it.
LEMMA LastAppliedIsRight ==
  ASSUME IInv, RInv, WInv, NoSchoolDropped, NEW i \in D!Events, Settled(i, "applied"), LastEvent(i)
  PROVE  OwnColumns(db, log[i].id) = OwnColumns(Projection(dir), log[i].id)
<1> DEFINE e == log[i]
           x == log[i].id
<1>1. /\ i \in DOMAIN log /\ e \in SyncEvent /\ SchoolsFound(dir) /\ D!Events = DOMAIN log
  BY LoggedTyped DEF WInv, DirTold
<1>2. Latest(log, i) /\ About(e, x) /\ x \in Object
  BY DEF LastEvent, EventsOf, Latest, About
<1>3. queue[i].commits > 0 /\ IsRelevant(e)
  BY DEF WInv, Books, AppliedIsCommitted, OnlyRelevantCommitted, Settled
<1>4. Carries(dir, e)
  BY <1>1, <1>2 DEF WInv, DirTold, LatestCarries
<1>5. Kept(db)
  BY DEF Kept, IInv, TypeOK, StoreConsistent
<1>6. CASE e.op = "delete"
  <2>1. ~Stored(db, x)
    BY <1>2, <1>3, <1>6 DEF RInv, RemovedStaysRemoved, About
  <2>2. x \notin DirObjects(dir)
    BY <1>2, <1>4, <1>6 DEF Carries, Removes, About
  <2> QED
    BY <1>1, <1>2, <1>5, <2>1, <2>2, NothingLeft
<1>7. ASSUME e.op # "delete", x \in School
      PROVE  OwnColumns(db, x) = OwnColumns(Projection(dir), x)
  <2>1. x \in DirSchools(dir)
    BY <1>1, <1>2, <1>4, <1>7, EventKinds DEF Carries
  <2>2. db.school[x] = dir.school[x]
    BY <1>1, <1>2, <1>3, <2>1 DEF WInv, SchoolsWritten
  <2> QED
    BY <1>7, <2>2, ProjectedSchools, StoreAssumption DEF OwnColumns, StoreAssumption
<1>8. ASSUME e.op # "delete", x \in Group
      PROVE  OwnColumns(db, x) = OwnColumns(Projection(dir), x)
  <2>1. e.kind = "group"
    BY <1>1, <1>2, <1>8, EventKinds
  <2>2. x \in DirGroups(dir) /\ dir.group[x].scope
    BY <1>3, <1>4, <1>8, <2>1 DEF Carries, IsRelevant
  <2>3. GroupAsInDir(db, dir, x)
    BY <1>1, <1>2, <1>3, <1>8, <2>1 DEF WInv, RowsWritten
  <2> QED
    BY <1>1, <1>5, <2>2, <2>3, GroupIsRight DEF Kept
<1>9. ASSUME e.op # "delete", x \in User
      PROVE  OwnColumns(db, x) = OwnColumns(Projection(dir), x)
  <2>1. e.kind = "user"
    BY <1>1, <1>2, <1>9, EventKinds
  <2>2. x \in DirUsers(dir)
    BY <1>4, <1>9, <2>1 DEF Carries
  <2>3. UserAsInDir(db, dir, x)
    BY <1>1, <1>2, <1>3, <1>9, <2>1 DEF WInv, RowsWritten
  <2> QED
    BY <1>1, <1>5, <2>2, <2>3, UserIsRight
<1> QED
  BY <1>2, <1>6, <1>7, <1>8, <1>9 DEF Object

(***************************************************************************)
(* A dropped event harms only its own object: once the queue is empty and  *)
(* no school event was dropped, every object whose last event was applied  *)
(* has the row, and a user the memberships, the directory calls for,       *)
(* whatever else was dropped, redelivered or crashed and whenever the      *)
(* subscription was set up again.  The directory the first prefill finds   *)
(* has the schools that its groups and users are in.                       *)
(***************************************************************************)
THEOREM DroppedEventsStayLocal ==
  ASSUME \A d \in InitialDirectory : SchoolsFound(d)
  PROVE  Spec => []DropsStayLocal
<1>1. Init => RInv /\ WInv
  <2> SUFFICES ASSUME Init PROVE RInv /\ WInv
    OBVIOUS
  <2>1. IInv
    BY InitInv
  <2>2. RInv
    BY <2>1, PrefillStarts DEF Init
  <2>3. JustSetUp
    BY DEF Init, JustSetUp
  <2> QED
    BY <2>1, <2>2, <2>3, PrefillWrites
<1>2. IInv /\ IInv' /\ RInv /\ WInv /\ [Next]_vars => RInv' /\ WInv'
  BY NextKeepsRemovals, NextKeepsRows
<1>3. IInv /\ RInv /\ WInv => DropsStayLocal
  <2> SUFFICES ASSUME IInv, RInv, WInv,
                      \A i \in D!Events : log[i].kind = "school" => Settled(i, "applied"),
                      NEW i \in D!Events, Settled(i, "applied"), LastEvent(i)
               PROVE  OwnColumns(db, log[i].id) = OwnColumns(Projection(dir), log[i].id)
    BY DEF DropsStayLocal
  <2>1. NoSchoolDropped
    BY DEF NoSchoolDropped, Settled
  <2> QED
    BY <2>1, LastAppliedIsRight
<1> QED
  BY <1>1, <1>2, <1>3, Invariance, PTL DEF Spec
=============================================================================
