----------------------------- MODULE Directory -----------------------------
(***************************************************************************)
(* The directory (LDAP, behind UDM) the connector projects: the school     *)
(* objects, the changes UCS@school makes to them, and the events the       *)
(* Provisioning service publishes for a change.  None of this is part of   *)
(* the connector; it is modelled from the payloads the connector reads.    *)
(*                                                                         *)
(* A change is a record [dir |-> the directory afterwards, events |-> the  *)
(* events it causes, in order].  A change of one object that makes UDM     *)
(* rewrite groups (refint on uniqueMember) causes the group events too.    *)
(***************************************************************************)
EXTENDS SyncManager, Sequences, SequencesExt

(***************************************************************************)
(* dir.school[s]  the OU's name                                            *)
(* dir.group[g]   name, school, members, allowed senders, and whether its  *)
(*                ucsschoolRole makes it a school class or workgroup       *)
(* dir.user[u]    name, the school of its DN, all its schools              *)
(* dir.hosts      DC host groups: hosts by <<school name, kind>>           *)
(***************************************************************************)
DirectoryType ==
  [school : [School -> SchoolName \cup {NoRow}],
   group  : [Group -> [name : GroupName, school : SchoolName, members : SUBSET User,
                       senders : SUBSET (Group \cup User), scope : BOOLEAN] \cup {NoRow}],
   user   : [User -> [name : UserName, ou : SchoolName, schools : SUBSET SchoolName]
                       \cup {NoRow}],
   hosts  : [SchoolName \X HostKind -> (SUBSET Host) \cup {NoRow}]]

\* Directories are finite; NoRow is no row.
ASSUME DirectoryAssumption ==
  /\ IsFiniteSet(School) /\ IsFiniteSet(Group) /\ IsFiniteSet(User)
  /\ IsFiniteSet(SchoolName \X HostKind)
  /\ NoRow \notin [name : GroupName, school : SchoolName, members : SUBSET User,
                   senders : SUBSET (Group \cup User), scope : BOOLEAN]
  /\ NoRow \notin [name : UserName, ou : SchoolName, schools : SUBSET SchoolName]

EmptyDirectory ==
  [school |-> [s \in School |-> NoRow],
   group  |-> [g \in Group |-> NoRow],
   user   |-> [u \in User |-> NoRow],
   hosts  |-> [h \in SchoolName \X HostKind |-> NoRow]]

DirSchools(dir) == {s \in School : dir.school[s] # NoRow}
DirGroups(dir) == {g \in Group : dir.group[g] # NoRow}
DirUsers(dir) == {u \in User : dir.user[u] # NoRow}
DirHostGroups(dir) == {h \in SchoolName \X HostKind : dir.hosts[h] # NoRow}
DirSchoolNames(dir) == {dir.school[s] : s \in DirSchools(dir)}
GroupsOf(dir, u) == {g \in DirGroups(dir) : u \in dir.group[g].members}

\* refint removes a deleted object from the groups that name it.
ReferencesIntact(dir) ==
  \A g \in DirGroups(dir) :
    /\ dir.group[g].members \subseteq DirUsers(dir)
    /\ dir.group[g].senders \subseteq DirUsers(dir) \cup DirGroups(dir)

DirDn(dir, x) ==
  CASE x \in DirGroups(dir) -> GroupDn(dir.group[x].name)
    [] x \in DirUsers(dir) -> UserDn(dir.user[x].name, dir.user[x].ou)

----------------------------------------------------------------------------
(* Events *)

SchoolSnapshot(dir, op, s) ==
  [kind |-> "school", op |-> op, id |-> s, scope |-> TRUE, name |-> dir.school[s]]

GroupSnapshot(dir, op, g) ==
  LET group == dir.group[g]
  IN [kind |-> "group", op |-> op, id |-> g, scope |-> group.scope,
      name |-> group.name, school |-> group.school,
      users |-> {DirDn(dir, u) : u \in group.members},
      senders |-> {DirDn(dir, x) : x \in group.senders}]

UserSnapshot(dir, op, u) ==
  LET user == dir.user[u]
  IN [kind |-> "user", op |-> op, id |-> u, scope |-> TRUE,
      name |-> user.name, ou |-> user.ou, schools |-> user.schools,
      groups |-> {DirDn(dir, g) : g \in GroupsOf(dir, u)}]

HostSnapshot(dir, op, h) ==
  [kind |-> "host", op |-> op, scope |-> TRUE, school |-> h[1], host_kind |-> h[2],
   hosts |-> IF dir.hosts[h] = NoRow THEN {} ELSE dir.hosts[h]]

Removal(kind, id, scope) == [kind |-> kind, op |-> "delete", id |-> id, scope |-> scope]

GroupSnapshots(dir, gs) ==
  [i \in 1..Cardinality(gs) |-> GroupSnapshot(dir, "modify", SetToSeq(gs)[i])]

\* Prefill: a create event for every object; containers/ou, groups, users.
PrefillEvents(dir) ==
  LET schools == SetToSeq(DirSchools(dir))
      groups == SetToSeq(DirGroups(dir))
      hosts == SetToSeq(DirHostGroups(dir))
      users == SetToSeq(DirUsers(dir))
  IN [i \in DOMAIN schools |-> SchoolSnapshot(dir, "create", schools[i])]
       \o [i \in DOMAIN groups |-> GroupSnapshot(dir, "create", groups[i])]
       \o [i \in DOMAIN hosts |-> HostSnapshot(dir, "create", hosts[i])]
       \o [i \in DOMAIN users |-> UserSnapshot(dir, "create", users[i])]

----------------------------------------------------------------------------
(* Changes *)

Change(dir, events) == [dir |-> dir, events |-> events]

AddSchool(dir, s, name) ==
  LET d == [dir EXCEPT !.school[s] = name]
  IN Change(d, <<SchoolSnapshot(d, "create", s)>>)

\* A change of columns that are only copied; OUs are not renamed.
EditSchool(dir, s) == Change(dir, <<SchoolSnapshot(dir, "modify", s)>>)

RemoveSchool(dir, s) ==
  Change([dir EXCEPT !.school[s] = NoRow], <<Removal("school", s, TRUE)>>)

AddGroup(dir, g, name, sn, members) ==
  LET d == [dir EXCEPT !.group[g] = [name |-> name, school |-> sn, members |-> members,
                                      senders |-> {}, scope |-> TRUE]]
  IN Change(d, <<GroupSnapshot(d, "create", g)>>)

\* A change of a group that is not a creation, a removal or a loss of role.
EditGroup(dir, g, group) ==
  LET d == [dir EXCEPT !.group[g] = group]
  IN Change(d, <<GroupSnapshot(d, "modify", g)>>)

RemoveGroup(dir, g) ==
  LET d == [dir EXCEPT !.group = [h \in Group |->
              IF h = g \/ dir.group[h] = NoRow THEN NoRow
              ELSE [dir.group[h] EXCEPT !.senders = @ \ {g}]]]
  IN Change(d, <<Removal("group", g, dir.group[g].scope)>>)

AddUser(dir, u, name, ou, schools) ==
  LET d == [dir EXCEPT !.user[u] = [name |-> name, ou |-> ou, schools |-> schools]]
  IN Change(d, <<UserSnapshot(d, "create", u)>>)

\* The user leaves the groups of the schools it leaves.
EditUser(dir, u, user) ==
  LET left == {g \in GroupsOf(dir, u) : dir.group[g].school \notin user.schools}
      d == [dir EXCEPT !.user[u] = user,
                       !.group = [g \in Group |->
                          IF g \in left THEN [dir.group[g] EXCEPT !.members = @ \ {u}]
                          ELSE dir.group[g]]]
      renamed == user.name # dir.user[u].name \/ user.ou # dir.user[u].ou
  IN Change(d, <<UserSnapshot(d, "modify", u)>>
                 \o GroupSnapshots(d, IF renamed THEN GroupsOf(dir, u) ELSE left))

RemoveUser(dir, u) ==
  LET d == [dir EXCEPT !.user[u] = NoRow,
                       !.group = [g \in Group |->
                          IF dir.group[g] = NoRow THEN NoRow
                          ELSE [dir.group[g] EXCEPT !.members = @ \ {u}, !.senders = @ \ {u}]]]
  IN Change(d, <<Removal("user", u, TRUE)>> \o GroupSnapshots(d, GroupsOf(dir, u)))

SetHosts(dir, h, hosts) ==
  LET d == [dir EXCEPT !.hosts[h] = hosts]
      op == IF dir.hosts[h] = NoRow THEN "create" ELSE IF hosts = NoRow THEN "delete" ELSE "modify"
  IN Change(d, <<HostSnapshot(d, op, h)>>)

----------------------------------------------------------------------------
(* What a caught-up database holds *)

MemberSchools(dir, u) == {s \in DirSchools(dir) : dir.school[s] \in dir.user[u].schools}

StoredGroups(dir) ==
  {g \in DirGroups(dir) : dir.group[g].scope /\ dir.group[g].school \in DirSchoolNames(dir)}

SchoolOf(dir, sn) == CHOOSE s \in DirSchools(dir) : dir.school[s] = sn

(***************************************************************************)
(* The projection of the directory: every school object with its own data, *)
(* the references between two stored objects, and the DN of each object.   *)
(***************************************************************************)
Projection(dir) ==
  LET groups == StoredGroups(dir)
      users == {u \in DirUsers(dir) : MemberSchools(dir, u) # {}}
      member == {m \in users \X DirSchools(dir) : m[2] \in MemberSchools(dir, m[1])}
  IN [school  |-> dir.school,
      group   |-> [g \in Group |->
                     IF g \in groups
                       THEN [name |-> dir.group[g].name, school |-> SchoolOf(dir, dir.group[g].school)]
                       ELSE NoRow],
      user    |-> [u \in User |-> IF u \in users THEN dir.user[u].name ELSE NoRow],
      member  |-> member,
      primary |-> {m \in member : dir.school[m[2]] = dir.user[m[1]].ou},
      link    |-> {l \in groups \X users \X DirSchools(dir) :
                     /\ l[2] \in dir.group[l[1]].members
                     /\ dir.group[l[1]].school = dir.school[l[3]]
                     /\ <<l[2], l[3]>> \in member},
      sender  |-> {x \in groups \X (groups \cup users) : x[2] \in dir.group[x[1]].senders},
      server  |-> {v \in DirSchools(dir) \X HostKind \X Host :
                     LET h == <<dir.school[v[1]], v[2]>>
                     IN h \in DirHostGroups(dir) /\ v[3] \in dir.hosts[h]},
      dn      |-> [x \in Object |->
                     IF x \in groups \cup users THEN DirDn(dir, x)
                     ELSE IF x \in DirSchools(dir) THEN SchoolDn(dir.school[x])
                     ELSE NoRow]]
=============================================================================
