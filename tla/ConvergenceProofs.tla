------------------------- MODULE ConvergenceProofs --------------------------
(***************************************************************************)
(* NothingDropped and StoreFollowsDirectory, for every directory, all its  *)
(* changes, and any number of crashes and faults: if no event is dropped,  *)
(* an empty queue leaves the database the projection of the directory; and *)
(* none is dropped if there are fewer faults and crashes than deliveries.  *)
(*                                                                         *)
(* The argument has four parts, for one subscription.                      *)
(*                                                                         *)
(* What the queue tells.  A change of the directory is told by its own     *)
(* event, together with the groups rewritten for it (ToldBy).  So the      *)
(* events in their order have a history: an object is created by its first *)
(* event, schools come before and go after what is in them, a name is free *)
(* before it is given again (History); and the last events of two objects  *)
(* tell together how they refer to each other (RefsTold, HostsTold).       *)
(*                                                                         *)
(* What the handlers write.  A stored object is stored as the last         *)
(* committed event about it tells (StoredAsTold), and, while nothing is    *)
(* dropped, where that event places it (PlacedBy).  CInv is the invariant. *)
(*                                                                         *)
(* No handler fails.  Hence a handler finds the schools it looks up and    *)
(* the names it needs free; only a fault or a crash can cost an event a    *)
(* delivery (BInv).                                                        *)
(*                                                                         *)
(* What references are written.  The later of two events writes the link,  *)
(* as its own object names the other, and a link goes only with one of its *)
(* objects (LinksWritten, ServersWritten; FInv).  At the end the last      *)
(* committed event of everything is its last event.                        *)
(***************************************************************************)
EXTENDS DropProofs, WellFoundedInduction

----------------------------------------------------------------------------
(* What a change tells *)

\* The users in a group of directory d.
MembersOf(d, g) == IF g \in DirGroups(d) THEN d.group[g].members ELSE {}

NamesUnique(d) ==
  /\ \A g, h \in DirGroups(d) : d.group[g].name = d.group[h].name => g = h
  /\ \A u, v \in DirUsers(d) : d.user[u].name = d.user[v].name => u = v

\* DC host groups belong to a school.
HostsFound(d) == \A h \in DirHostGroups(d) : h[1] \in DirSchoolNames(d)

NoSenders(d) == \A g \in DirGroups(d) : d.group[g].senders = {}

\* The groups that stay keep their role, and a new one is a class or workgroup.
ScopesKept(d, n) ==
  \A g \in DirGroups(n) : n.group[g].scope = (IF g \in DirGroups(d) THEN d.group[g].scope ELSE TRUE)

\* The events that tell all of what n holds of their object, or that it is gone.
Exact(n) ==
  {e \in SyncEvent :
     /\ Removes(e) => e.id \notin DirObjects(n)
     /\ e.kind = "school" /\ e.op # "delete"
          => e.id \in DirSchools(n) /\ e = SchoolSnapshot(n, e.op, e.id)
     /\ e.kind = "group" /\ e.op # "delete"
          => e.id \in DirGroups(n) /\ e = GroupSnapshot(n, e.op, e.id)
     /\ e.kind = "user" /\ e.op # "delete"
          => e.id \in DirUsers(n) /\ e = UserSnapshot(n, e.op, e.id)
     /\ e.kind = "host"
          => /\ e = HostSnapshot(n, e.op, <<e.school, e.host_kind>>)
             /\ e.op = "delete" <=> n.hosts[<<e.school, e.host_kind>>] = NoRow}

\* The groups of n, rewritten because of a change of one of their users.
Rewritten(n) == {e \in Exact(n) : e.kind = "group" /\ e.op = "modify"}

\* Between d and n nothing happens that e does not tell.
TellsAll(d, n, e) ==
  /\ \A x \in Object : SameData(d, n, x) \/ About(e, x)
  /\ \A g \in Group, u \in User :
       \/ u \in MembersOf(n, g) <=> u \in MembersOf(d, g)
       \/ About(e, g) \/ About(e, u)
  /\ \A h \in SchoolName \X HostKind :
       n.hosts[h] = d.hosts[h] \/ (e.kind = "host" /\ h = <<e.school, e.host_kind>>)

\* Creations are of new objects, everything else is of objects there are.
FollowsOn(d, e) ==
  /\ e.kind # "host" => (e.op = "create" <=> e.id \notin DirObjects(d))
  /\ e.kind = "group" /\ e.op = "delete" => e.scope = d.group[e.id].scope
  /\ e.kind # "group" => e.scope = TRUE
  /\ e.kind = "host" => e.school \in DirSchoolNames(d)

\* A directory in which every reference is found and every name is used once.
DirFits(d) == DirKept(d) /\ SchoolsFound(d) /\ NamesUnique(d) /\ HostsFound(d)

\* One object changes, groups are rewritten for it, and all of it is told.
ChangeTells(d, c) ==
  \E e \in Exact(c.dir), rest \in Seq(Rewritten(c.dir)) :
    /\ c.events = <<e>> \o rest
    /\ TellsAll(d, c.dir, e)
    /\ FollowsOn(d, e)
    /\ NamesUnique(c.dir) /\ HostsFound(c.dir)

----------------------------------------------------------------------------
(* Snapshots *)

\* Snapshots are exact (UDM).
LEMMA SnapshotsExact ==
  ASSUME NEW d, DirKept(d), NEW op \in {"create", "modify"}
  PROVE  /\ \A s \in DirSchools(d) : SchoolSnapshot(d, op, s) \in Exact(d)
         /\ \A g \in DirGroups(d) : GroupSnapshot(d, op, g) \in Exact(d)
         /\ \A u \in DirUsers(d) : UserSnapshot(d, op, u) \in Exact(d)
         /\ \A h \in DirHostGroups(d) : HostSnapshot(d, op, h) \in Exact(d)
<1>1. ASSUME NEW s \in DirSchools(d) PROVE SchoolSnapshot(d, op, s) \in Exact(d)
  <2> DEFINE e == SchoolSnapshot(d, op, s)
  <2>1. e \in SyncEvent
    BY SchoolSnapshotTyped
  <2>2. e.kind = "school" /\ e.op = op /\ e.id = s /\ e = SchoolSnapshot(d, e.op, e.id)
    BY DEF SchoolSnapshot
  <2> HIDE DEF e
  <2>3. e \in Exact(d)
    BY <2>1, <2>2 DEF Exact, Removes
  <2> QED
    BY <2>3 DEF e
<1>2. ASSUME NEW g \in DirGroups(d) PROVE GroupSnapshot(d, op, g) \in Exact(d)
  <2> DEFINE e == GroupSnapshot(d, op, g)
  <2>1. e \in SyncEvent
    BY GroupSnapshotTyped
  <2>2. e.kind = "group" /\ e.op = op /\ e.id = g
    BY DEF GroupSnapshot
  <2>3. e = GroupSnapshot(d, e.op, e.id)
    BY <2>2
  <2> HIDE DEF e
  <2>4. e \in Exact(d)
    BY <2>1, <2>2, <2>3 DEF Exact, Removes
  <2> QED
    BY <2>4 DEF e
<1>3. ASSUME NEW u \in DirUsers(d) PROVE UserSnapshot(d, op, u) \in Exact(d)
  <2> DEFINE e == UserSnapshot(d, op, u)
  <2>1. e \in SyncEvent
    BY UserSnapshotTyped
  <2>2. e.kind = "user" /\ e.op = op /\ e.id = u
    BY DEF UserSnapshot
  <2>3. e = UserSnapshot(d, e.op, e.id)
    BY <2>2
  <2> HIDE DEF e
  <2>4. e \in Exact(d)
    BY <2>1, <2>2, <2>3 DEF Exact, Removes
  <2> QED
    BY <2>4 DEF e
<1>4. ASSUME NEW h \in DirHostGroups(d) PROVE HostSnapshot(d, op, h) \in Exact(d)
  <2> DEFINE e == HostSnapshot(d, op, h)
  <2>1. e \in SyncEvent /\ h \in SchoolName \X HostKind /\ d.hosts[h] # NoRow
    BY HostSnapshotTyped DEF DirHostGroups
  <2>2. e.kind = "host" /\ e.op = op /\ <<e.school, e.host_kind>> = h
    BY <2>1 DEF HostSnapshot
  <2>3. e = HostSnapshot(d, e.op, <<e.school, e.host_kind>>)
    BY <2>2
  <2> HIDE DEF e
  <2>4. e \in Exact(d)
    BY <2>1, <2>2, <2>3 DEF Exact, Removes
  <2> QED
    BY <2>4 DEF e
<1> QED
  BY <1>1, <1>2, <1>3, <1>4

\* The removal of an object that is gone.
LEMMA RemovalExact ==
  ASSUME NEW n, NEW e \in SyncEvent, e.kind # "host", e.op = "delete", e.id \notin DirObjects(n)
  PROVE  e \in Exact(n)
BY DEF Exact, Removes

\* The groups that a change of a user rewrites (refint).
LEMMA RewritesExact ==
  ASSUME NEW d, DirKept(d), NEW gs \in SUBSET DirGroups(d)
  PROVE  GroupSnapshots(d, gs) \in Seq(Rewritten(d))
<1>1. IsFiniteSet(gs)
  BY DirFinite, FS_Subset
<1> DEFINE n == Cardinality(gs)
<1>2. n \in Nat /\ \A i \in 1..n : SetToSeq(gs)[i] \in gs
  BY <1>1, SetToSeqTyped
<1>3. \A i \in 1..n : GroupSnapshot(d, "modify", SetToSeq(gs)[i]) \in Rewritten(d)
  <2>1. \A g \in DirGroups(d) : GroupSnapshot(d, "modify", g) \in Rewritten(d)
    BY SnapshotsExact DEF GroupSnapshot, Rewritten
  <2> QED
    BY <1>2, <2>1
<1>4. GroupSnapshots(d, gs) = [i \in 1..n |-> GroupSnapshot(d, "modify", SetToSeq(gs)[i])]
  BY DEF GroupSnapshots
<1> HIDE DEF n
<1> QED
  BY <1>2, <1>3, <1>4

\* A change with one event, and one that rewrites groups as well.
LEMMA ToldChange ==
  ASSUME NEW d, NEW n, DirKept(n), NEW e \in Exact(n), TellsAll(d, n, e), FollowsOn(d, e),
         NamesUnique(n), HostsFound(n), NEW gs \in SUBSET DirGroups(n)
  PROVE  /\ ChangeTells(d, Change(n, <<e>>))
         /\ ChangeTells(d, Change(n, <<e>> \o GroupSnapshots(n, gs)))
<1>1. GroupSnapshots(n, gs) \in Seq(Rewritten(n))
  BY RewritesExact
<1>2. <<e>> = <<e>> \o << >> /\ << >> \in Seq(Rewritten(n))
  OBVIOUS
<1> QED
  BY <1>1, <1>2 DEF ChangeTells, Change


----------------------------------------------------------------------------
(* The changes *)

\* What a change keeps unless it is about roles or senders.
RowsKeep(d, n) == ScopesKept(d, n) /\ (NoSenders(d) => NoSenders(n))

\* A change of schools or hosts keeps the groups and users.
LEMMA OthersFit ==
  ASSUME NEW d, DirFits(d), NEW n, n.group = d.group, n.user = d.user
  PROVE  /\ DirGroups(n) = DirGroups(d) /\ DirUsers(n) = DirUsers(d)
         /\ NamesUnique(n) /\ RowsKeep(d, n)
         /\ \A g \in Group, u \in User : u \in MembersOf(n, g) <=> u \in MembersOf(d, g)
<1>1. DirGroups(n) = DirGroups(d) /\ DirUsers(n) = DirUsers(d)
  BY DEF DirGroups, DirUsers
<1>2. NamesUnique(n)
  BY <1>1 DEF DirFits, NamesUnique
<1>3. RowsKeep(d, n)
  BY <1>1 DEF RowsKeep, ScopesKept, NoSenders
<1>4. \A g \in Group, u \in User : u \in MembersOf(n, g) <=> u \in MembersOf(d, g)
  BY <1>1 DEF MembersOf
<1> QED
  BY <1>1, <1>2, <1>3, <1>4

\* Adding a school (UDM container/ou).
LEMMA SchoolAddedTells ==
  ASSUME NEW d, DirFits(d), NEW s \in School, s \notin DirSchools(d), NEW name \in SchoolName
  PROVE  LET c == AddSchool(d, s, name) IN ChangeTells(d, c) /\ RowsKeep(d, c.dir)
<1> USE StoreAssumption DEF StoreAssumption
<1> DEFINE n == [d EXCEPT !.school[s] = name]
           e == SchoolSnapshot(n, "create", s)
<1>0. DirKept(d) /\ HostsFound(d)
  BY DEF DirFits
<1>1. /\ n.group = d.group /\ n.user = d.user /\ n.hosts = d.hosts
      /\ n.school = [d.school EXCEPT ![s] = name]
      /\ d.school \in [School -> SchoolName \cup {NoRow}]
  BY <1>0 DEF DirKept, DirectoryType
<1>2. AddSchool(d, s, name) = Change(n, <<e>>)
  BY DEF AddSchool, Change
<1>3. DirKept(n)
  <2>1. ChangeKept(d, AddSchool(d, s, name), {s})
    BY <1>0, SchoolChanges
  <2> QED
    BY <1>2, <2>1 DEF ChangeKept, Change
<1> HIDE DEF n
<1>4. /\ DirSchools(n) = DirSchools(d) \cup {s}
      /\ DirGroups(n) = DirGroups(d) /\ DirUsers(n) = DirUsers(d)
      /\ NamesUnique(n) /\ RowsKeep(d, n)
      /\ \A g \in Group, u \in User : u \in MembersOf(n, g) <=> u \in MembersOf(d, g)
  BY <1>1, OthersFit DEF DirSchools
<1>5. \A t \in DirSchools(d) : n.school[t] = d.school[t]
  BY <1>1 DEF DirSchools
<1>6. DirSchoolNames(d) \subseteq DirSchoolNames(n)
  BY <1>4, <1>5 DEF DirSchoolNames
<1>7. HostsFound(n)
  BY <1>0, <1>1, <1>6 DEF HostsFound, DirHostGroups
<1>8. e \in Exact(n)
  BY <1>3, <1>4, SnapshotsExact
<1>9. e.kind = "school" /\ e.id = s /\ e.op = "create" /\ e.scope = TRUE
  BY DEF SchoolSnapshot
<1> HIDE DEF e
<1>10. \A x \in Object : x = s \/ SameData(d, n, x)
  BY <1>1, <1>4 DEF SameData
<1>11. TellsAll(d, n, e)
  BY <1>1, <1>4, <1>9, <1>10 DEF TellsAll, About
<1>12. s \notin DirObjects(d)
  BY DEF DirObjects, DirGroups, DirUsers
<1>13. FollowsOn(d, e)
  BY <1>9, <1>12 DEF FollowsOn
<1>14. ChangeTells(d, Change(n, <<e>>)) /\ Change(n, <<e>>).dir = n
  BY <1>3, <1>4, <1>7, <1>8, <1>11, <1>13, ToldChange DEF Change
<1> QED
  BY <1>2, <1>4, <1>14

\* Changing a school (UDM container/ou).
LEMMA SchoolEditedTells ==
  ASSUME NEW d, DirFits(d), NEW s \in DirSchools(d)
  PROVE  LET c == EditSchool(d, s) IN ChangeTells(d, c) /\ RowsKeep(d, c.dir)
<1> DEFINE e == SchoolSnapshot(d, "modify", s)
<1>0. DirKept(d) /\ HostsFound(d) /\ NamesUnique(d)
  BY DEF DirFits
<1>1. EditSchool(d, s) = Change(d, <<e>>)
  BY DEF EditSchool
<1>2. e \in Exact(d)
  BY <1>0, SnapshotsExact
<1>3. e.kind = "school" /\ e.id = s /\ e.op = "modify" /\ e.scope = TRUE
  BY DEF SchoolSnapshot
<1> HIDE DEF e
<1>4. TellsAll(d, d, e)
  BY DEF TellsAll, SameData
<1>5. FollowsOn(d, e)
  BY <1>3 DEF FollowsOn, DirObjects
<1>6. RowsKeep(d, d)
  BY OthersFit
<1>7. ChangeTells(d, Change(d, <<e>>)) /\ Change(d, <<e>>).dir = d
  BY <1>0, <1>2, <1>4, <1>5, ToldChange DEF Change
<1> QED
  BY <1>1, <1>6, <1>7

\* Removing a school, after its host groups (UDM container/ou).
LEMMA SchoolRemovedTells ==
  ASSUME NEW d, DirFits(d), NEW s \in DirSchools(d), \A h \in DirHostGroups(d) : h[1] # d.school[s]
  PROVE  LET c == RemoveSchool(d, s) IN ChangeTells(d, c) /\ RowsKeep(d, c.dir)
<1> USE StoreAssumption DEF StoreAssumption
<1> DEFINE n == [d EXCEPT !.school[s] = NoRow]
           e == Removal("school", s, TRUE)
<1>0. DirKept(d) /\ HostsFound(d)
  BY DEF DirFits
<1>1. /\ n.group = d.group /\ n.user = d.user /\ n.hosts = d.hosts
      /\ n.school = [d.school EXCEPT ![s] = NoRow]
      /\ d.school \in [School -> SchoolName \cup {NoRow}] /\ s \in School
  BY <1>0 DEF DirKept, DirectoryType, DirSchools
<1>2. RemoveSchool(d, s) = Change(n, <<e>>)
  BY DEF RemoveSchool, Change
<1>3. DirKept(n)
  <2>1. ChangeKept(d, RemoveSchool(d, s), {s})
    BY <1>0, <1>1, SchoolChanges
  <2> QED
    BY <1>2, <2>1 DEF ChangeKept, Change
<1> HIDE DEF n
<1>4. /\ DirSchools(n) = DirSchools(d) \ {s}
      /\ DirGroups(n) = DirGroups(d) /\ DirUsers(n) = DirUsers(d)
      /\ NamesUnique(n) /\ RowsKeep(d, n)
      /\ \A g \in Group, u \in User : u \in MembersOf(n, g) <=> u \in MembersOf(d, g)
  BY <1>1, OthersFit DEF DirSchools
<1>5. \A t \in DirSchools(n) : n.school[t] = d.school[t] /\ t \in DirSchools(d)
  BY <1>1, <1>4
<1>6. \A p \in DirSchoolNames(d) : p = d.school[s] \/ p \in DirSchoolNames(n)
  BY <1>4, <1>5 DEF DirSchoolNames
<1>7. HostsFound(n)
  BY <1>0, <1>1, <1>6 DEF HostsFound, DirHostGroups
<1>8. e \in SyncEvent /\ e.kind = "school" /\ e.id = s /\ e.op = "delete" /\ e.scope = TRUE
  BY <1>1, RemovalTyped DEF Removal
<1> HIDE DEF e
<1>9. s \notin DirObjects(n)
  BY <1>1, <1>4 DEF DirObjects, DirGroups, DirUsers
<1>10. e \in Exact(n)
  BY <1>8, <1>9, RemovalExact
<1>11. \A x \in Object : x = s \/ SameData(d, n, x)
  BY <1>1, <1>4 DEF SameData
<1>12. TellsAll(d, n, e)
  BY <1>1, <1>4, <1>8, <1>11 DEF TellsAll, About
<1>13. FollowsOn(d, e)
  BY <1>8 DEF FollowsOn, DirObjects
<1>14. ChangeTells(d, Change(n, <<e>>)) /\ Change(n, <<e>>).dir = n
  BY <1>3, <1>4, <1>7, <1>10, <1>12, <1>13, ToldChange DEF Change
<1> QED
  BY <1>2, <1>4, <1>14

\* A change of a DC host group.
LEMMA HostsChangedTells ==
  ASSUME NEW d, DirFits(d), NEW h \in SchoolName \X HostKind,
         NEW hosts \in (SUBSET Host) \cup {NoRow},
         h[1] \in DirSchoolNames(d), hosts # d.hosts[h]
  PROVE  LET c == SetHosts(d, h, hosts) IN ChangeTells(d, c) /\ RowsKeep(d, c.dir)
<1> DEFINE c == SetHosts(d, h, hosts)
           n == c.dir
           op == IF d.hosts[h] = NoRow THEN "create" ELSE IF hosts = NoRow THEN "delete" ELSE "modify"
           e == HostSnapshot(n, op, h)
<1>0. DirKept(d) /\ HostsFound(d)
  BY DEF DirFits
<1>1. /\ n.group = d.group /\ n.school = d.school /\ n.user = d.user /\ c = Change(n, <<e>>)
      /\ \A k \in SchoolName \X HostKind : n.hosts[k] = IF k = h THEN hosts ELSE d.hosts[k]
  BY <1>0 DEF SetHosts, Change, DirKept, DirectoryType
<1>2. DirKept(n)
  BY <1>0, HostsChangedKeeps DEF ChangeKept
<1>3. op \in {"create", "modify", "delete"} /\ (op = "delete" <=> hosts = NoRow)
  OBVIOUS
<1> HIDE DEF c, op
<1>4. e \in SyncEvent
  BY <1>2, <1>3, HostSnapshotTyped
<1>5. /\ e.kind = "host" /\ e.op = op /\ e.school = h[1] /\ e.scope = TRUE
      /\ <<e.school, e.host_kind>> = h
  BY DEF HostSnapshot
<1>6. e = HostSnapshot(n, e.op, <<e.school, e.host_kind>>)
  BY <1>5
<1> HIDE DEF e
<1>7. e \in Exact(n)
  BY <1>1, <1>3, <1>4, <1>5, <1>6 DEF Exact, Removes
<1>8. /\ DirGroups(n) = DirGroups(d) /\ DirUsers(n) = DirUsers(d)
      /\ NamesUnique(n) /\ RowsKeep(d, n)
      /\ \A g \in Group, u \in User : u \in MembersOf(n, g) <=> u \in MembersOf(d, g)
  BY <1>1, OthersFit
<1>9. DirSchools(n) = DirSchools(d) /\ DirSchoolNames(n) = DirSchoolNames(d)
  BY <1>1 DEF DirSchools, DirSchoolNames
<1>10. HostsFound(n)
  BY <1>0, <1>1, <1>9 DEF HostsFound, DirHostGroups
<1>11. TellsAll(d, n, e)
  BY <1>1, <1>5, <1>8 DEF TellsAll, SameData
<1>12. FollowsOn(d, e)
  BY <1>5 DEF FollowsOn
<1>13. ChangeTells(d, Change(n, <<e>>)) /\ Change(n, <<e>>).dir = n
  BY <1>2, <1>7, <1>8, <1>10, <1>11, <1>12, ToldChange DEF Change
<1> QED
  BY <1>1, <1>8, <1>13 DEF c

\* A group is written with a name no other has (UDM groups/group).
LEMMA GroupRowTells ==
  ASSUME NEW d, DirFits(d), NEW g \in Group, NEW row \in GroupRow,
         row.members \subseteq DirUsers(d),
         row.senders \subseteq DirUsers(d) \cup DirGroups(d),
         row.school \in DirSchoolNames(d), NEW op \in {"create", "modify"},
         op = "create" <=> g \notin DirGroups(d),
         \A h \in DirGroups(d) : h = g \/ d.group[h].name # row.name
  PROVE  LET n == [d EXCEPT !.group[g] = row]
         IN /\ ChangeTells(d, Change(n, <<GroupSnapshot(n, op, g)>>))
            /\ row.scope = (IF g \in DirGroups(d) THEN d.group[g].scope ELSE TRUE)
                 => ScopesKept(d, n)
            /\ row.senders = {} /\ NoSenders(d) => NoSenders(n)
<1> USE DirectoryAssumption, StoreAssumption DEF DirectoryAssumption, StoreAssumption
<1> DEFINE n == [d EXCEPT !.group[g] = row]
           e == GroupSnapshot(n, op, g)
<1>0. DirKept(d) /\ HostsFound(d) /\ NamesUnique(d) /\ row # NoRow
  BY DEF DirFits, GroupRow
<1>1. /\ n.group = [d.group EXCEPT ![g] = row] /\ n.school = d.school /\ n.user = d.user
      /\ n.hosts = d.hosts
  BY <1>0 DEF DirKept, DirectoryType
<1>2. DirKept(n)
  <2>1. ChangeKept(d, Change(n, <<e>>), {g})
    BY <1>0, GroupWritten
  <2> QED
    BY <2>1 DEF ChangeKept, Change
<1> HIDE DEF n
<1>3. \A h \in Group : n.group[h] = IF h = g THEN row ELSE d.group[h]
  BY <1>0, <1>1 DEF DirKept, DirectoryType
<1>4. DirGroups(n) = DirGroups(d) \cup {g} /\ DirUsers(n) = DirUsers(d)
  BY <1>0, <1>1, <1>3 DEF DirGroups, DirUsers
<1>5. NamesUnique(n)
  <2>1. ASSUME NEW a \in DirGroups(n), NEW b \in DirGroups(n), n.group[a].name = n.group[b].name
        PROVE  a = b
    BY <1>0, <1>3, <1>4, <2>1 DEF NamesUnique, DirGroups
  <2>2. \A u, v \in DirUsers(n) : n.user[u].name = n.user[v].name => u = v
    BY <1>0, <1>1, <1>4 DEF NamesUnique
  <2> QED
    BY <2>1, <2>2 DEF NamesUnique
<1>6. DirSchools(n) = DirSchools(d) /\ DirSchoolNames(n) = DirSchoolNames(d)
  BY <1>1 DEF DirSchools, DirSchoolNames
<1>7. HostsFound(n)
  BY <1>0, <1>1, <1>6 DEF HostsFound, DirHostGroups
<1>8. e \in Exact(n)
  BY <1>2, <1>4, SnapshotsExact
<1>9. e.kind = "group" /\ e.id = g /\ e.op = op
  BY DEF GroupSnapshot
<1> HIDE DEF e
<1>10. \A x \in Object : x = g \/ SameData(d, n, x)
  BY <1>1, <1>3, <1>4 DEF SameData
<1>11. \A h \in Group, u \in User : h = g \/ (u \in MembersOf(n, h) <=> u \in MembersOf(d, h))
  BY <1>3, <1>4 DEF MembersOf
<1>12. TellsAll(d, n, e)
  BY <1>1, <1>9, <1>10, <1>11 DEF TellsAll, About
<1>13. FollowsOn(d, e)
  BY <1>9 DEF FollowsOn, DirObjects, DirSchools, DirUsers
<1>14. ChangeTells(d, Change(n, <<e>>))
  BY <1>2, <1>5, <1>7, <1>8, <1>12, <1>13, ToldChange
<1>15. row.scope = (IF g \in DirGroups(d) THEN d.group[g].scope ELSE TRUE) => ScopesKept(d, n)
  BY <1>3, <1>4 DEF ScopesKept, DirGroups
<1>16. row.senders = {} /\ NoSenders(d) => NoSenders(n)
  BY <1>3, <1>4 DEF NoSenders, DirGroups
<1> QED
  BY <1>14, <1>15, <1>16 DEF n, e

\* The groups of n are those of d, apart from their members and senders.
GroupsStay(d, n) ==
  /\ GroupsAsBefore(d, n)
  /\ \A g \in DirGroups(n) : n.group[g].senders \subseteq d.group[g].senders

\* Groups that stay keep their names, roles and at most their senders (refint).
LEMMA StayingFits ==
  ASSUME NEW d, NEW n, GroupsStay(d, n), n.school = d.school, n.hosts = d.hosts,
         NamesUnique(d), HostsFound(d),
         \A u, v \in DirUsers(n) : n.user[u].name = n.user[v].name => u = v
  PROVE  NamesUnique(n) /\ HostsFound(n) /\ RowsKeep(d, n)
<1>1. NamesUnique(n)
  BY DEF NamesUnique, GroupsStay, GroupsAsBefore
<1>2. DirSchoolNames(n) = DirSchoolNames(d)
  BY DEF DirSchoolNames, DirSchools
<1>3. HostsFound(n)
  BY <1>2 DEF HostsFound, DirHostGroups
<1>4. ScopesKept(d, n)
  BY DEF ScopesKept, GroupsStay, GroupsAsBefore
<1>5. NoSenders(d) => NoSenders(n)
  BY DEF NoSenders, GroupsStay, GroupsAsBefore
<1> QED
  BY <1>1, <1>3, <1>4, <1>5 DEF RowsKeep

\* Removing a group (refint on the allowed senders).
LEMMA GroupRemovedTells ==
  ASSUME NEW d, DirFits(d), NEW g \in DirGroups(d)
  PROVE  LET c == RemoveGroup(d, g) IN ChangeTells(d, c) /\ RowsKeep(d, c.dir)
<1> USE StoreAssumption, DirectoryAssumption DEF StoreAssumption, DirectoryAssumption
<1> DEFINE n == RemoveGroup(d, g).dir
           e == Removal("group", g, d.group[g].scope)
<1>0. DirKept(d) /\ NamesUnique(d) /\ HostsFound(d)
  BY DEF DirFits
<1>1. /\ n.school = d.school /\ n.user = d.user /\ n.hosts = d.hosts
      /\ n.group = [h \in Group |-> IF h = g \/ d.group[h] = NoRow THEN NoRow
                                    ELSE [d.group[h] EXCEPT !.senders = @ \ {g}]]
      /\ RemoveGroup(d, g) = Change(n, <<e>>)
  BY <1>0 DEF RemoveGroup, Change, DirKept, DirectoryType
<1>2. DirKept(n)
  BY <1>0, GroupRemovedKeeps DEF ChangeKept
<1> HIDE DEF n
<1>3. g \in Group /\ \A h \in DirGroups(d) : d.group[h] \in GroupRow
  BY <1>0 DEF DirKept, DirectoryType, DirGroups, GroupRow
<1> DEFINE Without(h) == [d.group[h] EXCEPT !.senders = @ \ {g}]
<1>4. \A h \in DirGroups(d) : /\ Without(h) \in GroupRow
                              /\ Without(h).name = d.group[h].name
                              /\ Without(h).school = d.group[h].school
                              /\ Without(h).scope = d.group[h].scope
                              /\ Without(h).members = d.group[h].members
                              /\ Without(h).senders \subseteq d.group[h].senders
  BY <1>3 DEF GroupRow
<1>5. \A h \in Group : n.group[h] = IF h = g \/ d.group[h] = NoRow THEN NoRow ELSE Without(h)
  BY <1>1
<1> HIDE DEF Without
<1>6. NoRow \notin GroupRow
  BY DEF GroupRow
<1>7. DirGroups(n) = DirGroups(d) \ {g} /\ DirUsers(n) = DirUsers(d)
  BY <1>1, <1>4, <1>5, <1>6 DEF DirGroups, DirUsers
<1>8. GroupsStay(d, n)
  BY <1>3, <1>4, <1>5, <1>7 DEF GroupsAsBefore, GroupsStay, DirGroups
<1>9. NamesUnique(n) /\ HostsFound(n) /\ RowsKeep(d, n)
  BY <1>0, <1>1, <1>7, <1>8, StayingFits DEF NamesUnique
<1>10. e \in SyncEvent /\ e.kind = "group" /\ e.id = g /\ e.op = "delete" /\ e.scope = d.group[g].scope
  <2>1. d.group[g].scope \in BOOLEAN
    BY <1>3 DEF GroupRow
  <2> QED
    BY <1>3, <2>1, RemovalTyped DEF Removal
<1> HIDE DEF e
<1>11. g \notin DirObjects(n)
  BY <1>3, <1>7 DEF DirObjects, DirSchools, DirUsers
<1>12. e \in Exact(n)
  BY <1>10, <1>11, RemovalExact
<1>13. \A x \in Object : x = g \/ SameData(d, n, x)
  BY <1>1, <1>7, <1>8 DEF SameData, GroupsStay, GroupsAsBefore
<1>14. \A h \in Group, u \in User : h = g \/ (u \in MembersOf(n, h) <=> u \in MembersOf(d, h))
  BY <1>4, <1>5, <1>7 DEF MembersOf, DirGroups
<1>15. TellsAll(d, n, e)
  BY <1>1, <1>10, <1>13, <1>14 DEF TellsAll, About
<1>16. FollowsOn(d, e)
  BY <1>10 DEF FollowsOn, DirObjects
<1>17. ChangeTells(d, Change(n, <<e>>)) /\ Change(n, <<e>>).dir = n
  BY <1>2, <1>9, <1>12, <1>15, <1>16, ToldChange DEF Change
<1> QED
  BY <1>1, <1>9, <1>17

\* A new user with a name no other has (UDM users/user).
LEMMA UserAddedTells ==
  ASSUME NEW d, DirFits(d), NEW u \in User, u \notin DirUsers(d), NEW name \in UserName,
         NEW schools \in SUBSET DirSchoolNames(d), NEW ou \in schools,
         \A v \in DirUsers(d) : d.user[v].name # name
  PROVE  LET c == AddUser(d, u, name, ou, schools) IN ChangeTells(d, c) /\ RowsKeep(d, c.dir)
<1> USE StoreAssumption, DirectoryAssumption DEF StoreAssumption, DirectoryAssumption
<1> DEFINE c == AddUser(d, u, name, ou, schools)
           n == c.dir
           e == UserSnapshot(n, "create", u)
           row == [name |-> name, ou |-> ou, schools |-> schools]
<1>0. DirKept(d) /\ NamesUnique(d) /\ HostsFound(d)
  BY DEF DirFits
<1>a. ou \in SchoolName /\ schools \in SUBSET SchoolName
  BY <1>0 DEF DirKept, DirectoryType, DirSchoolNames, DirSchools
<1>1. /\ n.user = [d.user EXCEPT ![u] = row] /\ n.group = d.group /\ n.school = d.school
      /\ n.hosts = d.hosts /\ c = Change(n, <<e>>) /\ row # NoRow /\ row.name = name
  BY <1>0, <1>a DEF AddUser, Change, DirKept, DirectoryType
<1>2. DirKept(n)
  BY <1>0, <1>a, UserAddedKeeps DEF ChangeKept
<1> HIDE DEF c, row
<1>3. \A v \in User : n.user[v] = IF v = u THEN row ELSE d.user[v]
  BY <1>0, <1>1 DEF DirKept, DirectoryType
<1>4. DirUsers(n) = DirUsers(d) \cup {u} /\ DirGroups(n) = DirGroups(d)
  BY <1>1, <1>3 DEF DirUsers, DirGroups
<1>5. ASSUME NEW v \in DirUsers(n), NEW w \in DirUsers(n), n.user[v].name = n.user[w].name
      PROVE  v = w
  BY <1>0, <1>1, <1>3, <1>4, <1>5 DEF NamesUnique, DirUsers
<1>6. GroupsStay(d, n)
  BY <1>1, <1>4 DEF GroupsStay, GroupsAsBefore
<1>7. NamesUnique(n) /\ HostsFound(n) /\ RowsKeep(d, n)
  BY <1>0, <1>1, <1>5, <1>6, StayingFits
<1>8. e \in Exact(n)
  BY <1>2, <1>4, SnapshotsExact
<1>9. e.kind = "user" /\ e.id = u /\ e.op = "create" /\ e.scope = TRUE
  BY DEF UserSnapshot
<1> HIDE DEF e
<1>10. \A x \in Object : x = u \/ SameData(d, n, x)
  BY <1>1, <1>3, <1>4 DEF SameData
<1>11. TellsAll(d, n, e)
  BY <1>1, <1>4, <1>9, <1>10 DEF TellsAll, About, MembersOf
<1>12. FollowsOn(d, e)
  BY <1>9 DEF FollowsOn, DirObjects, DirSchools, DirGroups
<1>13. ChangeTells(d, Change(n, <<e>>))
  BY <1>2, <1>7, <1>8, <1>11, <1>12, ToldChange
<1> QED
  BY <1>1, <1>7, <1>13 DEF c

\* Changing a user (refint on the members of the groups it leaves).
LEMMA UserEditedTells ==
  ASSUME NEW d, DirFits(d), NEW u \in DirUsers(d), NEW row \in UserRow,
         row.ou \in row.schools, row.schools \subseteq DirSchoolNames(d),
         \A v \in DirUsers(d) : v = u \/ d.user[v].name # row.name
  PROVE  LET c == EditUser(d, u, row) IN ChangeTells(d, c) /\ RowsKeep(d, c.dir)
<1> USE StoreAssumption, DirectoryAssumption DEF StoreAssumption, DirectoryAssumption
<1> DEFINE n == EditUser(d, u, row).dir
           e == UserSnapshot(n, "modify", u)
           left == {g \in GroupsOf(d, u) : d.group[g].school \notin row.schools}
           gs == IF row.name # d.user[u].name \/ row.ou # d.user[u].ou THEN GroupsOf(d, u) ELSE left
           Without(g) == [d.group[g] EXCEPT !.members = @ \ {u}]
<1>0. DirKept(d) /\ NamesUnique(d) /\ HostsFound(d)
  BY DEF DirFits
<1>1. /\ n.school = d.school /\ n.user = [d.user EXCEPT ![u] = row] /\ n.hosts = d.hosts
      /\ n.group = [g \in Group |-> IF g \in left THEN Without(g) ELSE d.group[g]]
      /\ EditUser(d, u, row) = Change(n, <<e>> \o GroupSnapshots(n, gs))
  BY <1>0 DEF EditUser, Change, DirKept, DirectoryType
<1>2. DirKept(n)
  BY <1>0, UserEditedKeeps DEF ChangeKept
<1> HIDE DEF n
<1>3. /\ \A g \in DirGroups(d) : d.group[g] \in GroupRow
      /\ left \subseteq DirGroups(d) /\ gs \subseteq DirGroups(d) /\ u \in User
  BY <1>0 DEF DirKept, DirectoryType, DirGroups, DirUsers, GroupRow, GroupsOf
<1> HIDE DEF gs, left
<1>4. \A g \in DirGroups(d) : /\ Without(g) \in GroupRow
                              /\ Without(g).name = d.group[g].name
                              /\ Without(g).school = d.group[g].school
                              /\ Without(g).scope = d.group[g].scope
                              /\ Without(g).senders = d.group[g].senders
                              /\ Without(g).members = d.group[g].members \ {u}
  BY <1>3 DEF GroupRow
<1> HIDE DEF Without
<1>5. \A g \in Group : n.group[g] = IF g \in left THEN Without(g) ELSE d.group[g]
  BY <1>1
<1>6. NoRow \notin GroupRow /\ NoRow \notin UserRow
  BY DEF GroupRow, UserRow
<1>7. DirGroups(n) = DirGroups(d)
  BY <1>3, <1>4, <1>5, <1>6 DEF DirGroups
<1>8. GroupsStay(d, n)
  BY <1>4, <1>5, <1>7 DEF GroupsAsBefore, GroupsStay, DirGroups
<1>9. \A v \in User : n.user[v] = IF v = u THEN row ELSE d.user[v]
  BY <1>0, <1>1 DEF DirKept, DirectoryType
<1>10. DirUsers(n) = DirUsers(d)
  BY <1>6, <1>9 DEF DirUsers
<1>11. ASSUME NEW v \in DirUsers(n), NEW w \in DirUsers(n), n.user[v].name = n.user[w].name
       PROVE  v = w
  BY <1>0, <1>9, <1>10, <1>11 DEF NamesUnique, DirUsers
<1>12. NamesUnique(n) /\ HostsFound(n) /\ RowsKeep(d, n)
  BY <1>0, <1>1, <1>8, <1>11, StayingFits
<1>13. e \in Exact(n)
  BY <1>2, <1>10, SnapshotsExact
<1>14. e.kind = "user" /\ e.id = u /\ e.op = "modify" /\ e.scope = TRUE
  BY DEF UserSnapshot
<1> HIDE DEF e
<1>15. \A x \in Object : x = u \/ SameData(d, n, x)
  BY <1>1, <1>7, <1>8, <1>9 DEF SameData, GroupsStay, GroupsAsBefore
<1>16. \A g \in Group, v \in User : v = u \/ (v \in MembersOf(n, g) <=> v \in MembersOf(d, g))
  BY <1>4, <1>5, <1>7 DEF MembersOf
<1>17. TellsAll(d, n, e)
  BY <1>1, <1>14, <1>15, <1>16 DEF TellsAll, About
<1>18. FollowsOn(d, e)
  BY <1>14 DEF FollowsOn, DirObjects
<1>19. /\ ChangeTells(d, Change(n, <<e>> \o GroupSnapshots(n, gs)))
       /\ Change(n, <<e>> \o GroupSnapshots(n, gs)).dir = n
  BY <1>2, <1>3, <1>7, <1>12, <1>13, <1>17, <1>18, ToldChange DEF Change
<1> QED
  BY <1>1, <1>12, <1>19

\* Removing a user (refint on the groups that name it).
LEMMA UserRemovedTells ==
  ASSUME NEW d, DirFits(d), NEW u \in DirUsers(d)
  PROVE  LET c == RemoveUser(d, u) IN ChangeTells(d, c) /\ RowsKeep(d, c.dir)
<1> USE StoreAssumption, DirectoryAssumption DEF StoreAssumption, DirectoryAssumption
<1> DEFINE n == RemoveUser(d, u).dir
           e == Removal("user", u, TRUE)
           gs == GroupsOf(d, u)
           Lost(g) == [d.group[g] EXCEPT !.members = @ \ {u}]
           Without(g) == [Lost(g) EXCEPT !.senders = @ \ {u}]
<1>0. DirKept(d) /\ NamesUnique(d) /\ HostsFound(d)
  BY DEF DirFits
<1>1. /\ n.school = d.school /\ n.user = [d.user EXCEPT ![u] = NoRow] /\ n.hosts = d.hosts
      /\ n.group = [g \in Group |-> IF d.group[g] = NoRow THEN NoRow
                                    ELSE [d.group[g] EXCEPT !.members = @ \ {u}, !.senders = @ \ {u}]]
      /\ RemoveUser(d, u) = Change(n, <<e>> \o GroupSnapshots(n, gs))
  BY <1>0 DEF RemoveUser, Change, DirKept, DirectoryType
<1>2. DirKept(n)
  BY <1>0, UserRemovedKeeps DEF ChangeKept
<1> HIDE DEF n
<1>3. gs \subseteq DirGroups(d) /\ u \in User /\ \A g \in DirGroups(d) : d.group[g] \in GroupRow
  BY <1>0 DEF DirKept, DirectoryType, DirGroups, DirUsers, GroupRow, GroupsOf
<1>5. \A g \in Group : n.group[g] = IF d.group[g] = NoRow THEN NoRow ELSE Without(g)
  BY <1>1
<1>a. \A g \in DirGroups(d) : /\ Lost(g) \in GroupRow
                              /\ Lost(g).name = d.group[g].name
                              /\ Lost(g).school = d.group[g].school
                              /\ Lost(g).scope = d.group[g].scope
                              /\ Lost(g).senders = d.group[g].senders
                              /\ Lost(g).members = d.group[g].members \ {u}
  BY <1>3 DEF GroupRow
<1> HIDE DEF Lost
<1>4. \A g \in DirGroups(d) : /\ Without(g) \in GroupRow
                              /\ Without(g).name = d.group[g].name
                              /\ Without(g).school = d.group[g].school
                              /\ Without(g).scope = d.group[g].scope
                              /\ Without(g).senders \subseteq d.group[g].senders
                              /\ Without(g).members = d.group[g].members \ {u}
  BY <1>a DEF GroupRow
<1> HIDE DEF gs, Without
<1>6. NoRow \notin GroupRow
  BY DEF GroupRow
<1>7. DirGroups(n) = DirGroups(d)
  BY <1>4, <1>5, <1>6 DEF DirGroups
<1>8. GroupsStay(d, n)
  BY <1>4, <1>5, <1>7 DEF GroupsAsBefore, GroupsStay, DirGroups
<1>9. \A v \in User : n.user[v] = IF v = u THEN NoRow ELSE d.user[v]
  BY <1>0, <1>1 DEF DirKept, DirectoryType
<1>10. DirUsers(n) = DirUsers(d) \ {u}
  BY <1>9 DEF DirUsers
<1>11. ASSUME NEW v \in DirUsers(n), NEW w \in DirUsers(n), n.user[v].name = n.user[w].name
       PROVE  v = w
  BY <1>0, <1>9, <1>10, <1>11 DEF NamesUnique, DirUsers
<1>12. NamesUnique(n) /\ HostsFound(n) /\ RowsKeep(d, n)
  BY <1>0, <1>1, <1>8, <1>11, StayingFits
<1>13. e \in SyncEvent /\ e.kind = "user" /\ e.id = u /\ e.op = "delete" /\ e.scope = TRUE
  BY <1>3, RemovalTyped DEF Removal
<1> HIDE DEF e
<1>14. u \notin DirObjects(n)
  BY <1>3, <1>10 DEF DirObjects, DirSchools, DirGroups
<1>15. e \in Exact(n)
  BY <1>13, <1>14, RemovalExact
<1>16. \A x \in Object : x = u \/ SameData(d, n, x)
  BY <1>1, <1>7, <1>8, <1>9 DEF SameData, GroupsStay, GroupsAsBefore
<1>17. \A g \in Group, v \in User : v = u \/ (v \in MembersOf(n, g) <=> v \in MembersOf(d, g))
  BY <1>4, <1>5, <1>7 DEF MembersOf, DirGroups
<1>18. TellsAll(d, n, e)
  BY <1>1, <1>13, <1>16, <1>17 DEF TellsAll, About
<1>19. FollowsOn(d, e)
  BY <1>13 DEF FollowsOn, DirObjects
<1>20. /\ ChangeTells(d, Change(n, <<e>> \o GroupSnapshots(n, gs)))
       /\ Change(n, <<e>> \o GroupSnapshots(n, gs)).dir = n
  BY <1>2, <1>3, <1>7, <1>12, <1>15, <1>18, <1>19, ToldChange DEF Change
<1>21. ChangeTells(d, RemoveUser(d, u)) /\ RemoveUser(d, u).dir = n
  BY <1>1, <1>20
<1> QED
  BY <1>12, <1>21

----------------------------------------------------------------------------
(* The changes that happen *)

\* A change is told, and keeps roles and senders unless it is about them.
ToldSubmitted ==
  \E operation, c :
    /\ ChangeTells(dir, c)
    /\ Submit(operation, c)
    /\ operation = "role" \/ ScopesKept(dir, c.dir)
    /\ operation = "senders" \/ (NoSenders(dir) => NoSenders(c.dir))

\* The witnesses of ToldSubmitted (Submit).
LEMMA SubmitsTold ==
  ASSUME NEW operation, NEW c, ChangeTells(dir, c), RowsKeep(dir, c.dir), Submit(operation, c)
  PROVE  ToldSubmitted
BY DEF ToldSubmitted, RowsKeep

\* Changes of schools and of DC host groups.
LEMMA SchoolChangeTold ==
  ASSUME DirFits(dir), SchoolChange
  PROVE  ToldSubmitted
<1>1. ASSUME NEW s \in School, NEW name \in SchoolName, SchoolAdded(s, name) PROVE ToldSubmitted
  <2> DEFINE c == AddSchool(dir, s, name)
  <2>1. ChangeTells(dir, c) /\ RowsKeep(dir, c.dir) /\ Submit("school", c)
    BY <1>1, SchoolAddedTells DEF SchoolAdded
  <2> HIDE DEF c
  <2> QED
    BY <2>1, SubmitsTold
<1>2. ASSUME NEW s \in DirSchools(dir), SchoolRemoved(s) PROVE ToldSubmitted
  <2> DEFINE c == RemoveSchool(dir, s)
  <2>1. ChangeTells(dir, c) /\ RowsKeep(dir, c.dir) /\ Submit("school", c)
    BY <1>2, SchoolRemovedTells DEF SchoolRemoved
  <2> HIDE DEF c
  <2> QED
    BY <2>1, SubmitsTold
<1>3. ASSUME NEW s \in DirSchools(dir), SchoolEdited(s) PROVE ToldSubmitted
  <2> DEFINE c == EditSchool(dir, s)
  <2>1. ChangeTells(dir, c) /\ RowsKeep(dir, c.dir) /\ Submit("edit", c)
    BY <1>3, SchoolEditedTells DEF SchoolEdited
  <2> HIDE DEF c
  <2> QED
    BY <2>1, SubmitsTold
<1>4. ASSUME NEW h \in SchoolName \X HostKind, NEW hosts \in (SUBSET Host) \cup {NoRow},
             HostsChanged(h, hosts)
      PROVE  ToldSubmitted
  <2> DEFINE c == SetHosts(dir, h, hosts)
  <2>1. ChangeTells(dir, c) /\ RowsKeep(dir, c.dir) /\ Submit("hosts", c)
    BY <1>4, HostsChangedTells DEF HostsChanged
  <2> HIDE DEF c
  <2> QED
    BY <2>1, SubmitsTold
<1> QED
  BY <1>1, <1>2, <1>3, <1>4 DEF SchoolChange

\* c writes the row of group g and tells it.
RowWritten(c, g, row, op) ==
  LET n == [dir EXCEPT !.group[g] = row] IN c = Change(n, <<GroupSnapshot(n, op, g)>>)

\* A group is written with a name no other has.
LEMMA GroupRowTold ==
  ASSUME DirFits(dir), NEW g \in Group, NEW row \in GroupRow,
         row.members \subseteq DirUsers(dir),
         row.senders \subseteq DirUsers(dir) \cup DirGroups(dir),
         row.school \in DirSchoolNames(dir), NEW op \in {"create", "modify"}, NEW operation,
         op = "create" <=> g \notin DirGroups(dir),
         \A h \in DirGroups(dir) : h = g \/ dir.group[h].name # row.name,
         operation = "role" \/ row.scope = (IF g \in DirGroups(dir) THEN dir.group[g].scope ELSE TRUE),
         operation = "senders" \/ row.senders = {}
           \/ (g \in DirGroups(dir) /\ row.senders = dir.group[g].senders),
         NEW c, RowWritten(c, g, row, op), Submit(operation, c)
  PROVE  ToldSubmitted
<1> DEFINE n == [dir EXCEPT !.group[g] = row]
<1>1. /\ ChangeTells(dir, c)
      /\ row.scope = (IF g \in DirGroups(dir) THEN dir.group[g].scope ELSE TRUE)
           => ScopesKept(dir, n)
      /\ row.senders = {} /\ NoSenders(dir) => NoSenders(n)
  BY GroupRowTells DEF RowWritten
<1>2. c.dir = n
  BY DEF RowWritten, Change
<1>3. operation = "senders" \/ (NoSenders(dir) => row.senders = {})
  BY DEF NoSenders
<1> HIDE DEF n
<1> QED
  BY <1>1, <1>2, <1>3 DEF ToldSubmitted

\* Changes of groups.
LEMMA GroupChangeTold ==
  ASSUME DirFits(dir), GroupChange
  PROVE  ToldSubmitted
<1>0. DirKept(dir) /\ SchoolsFound(dir) /\ NamesUnique(dir)
  BY DEF DirFits
<1>1. ASSUME NEW g \in DirGroups(dir)
      PROVE  /\ g \in Group /\ dir.group[g] \in GroupRow
             /\ dir.group[g].members \subseteq DirUsers(dir)
             /\ dir.group[g].senders \subseteq DirUsers(dir) \cup DirGroups(dir)
             /\ dir.group[g].school \in DirSchoolNames(dir)
             /\ \A h \in DirGroups(dir) : h = g \/ dir.group[h].name # dir.group[g].name
  BY <1>0 DEF DirKept, DirectoryType, ReferencesIntact, DirGroups, GroupRow, SchoolsFound, NamesUnique
<1>2. ASSUME NEW g \in DirGroups(dir), NEW row \in GroupRow,
             row.members \subseteq DirUsers(dir),
             row.senders \subseteq DirUsers(dir) \cup DirGroups(dir),
             row.school \in DirSchoolNames(dir), NEW operation,
             \A h \in DirGroups(dir) : h = g \/ dir.group[h].name # row.name,
             operation = "role" \/ row.scope = dir.group[g].scope,
             operation = "senders" \/ row.senders = dir.group[g].senders,
             Submit(operation, EditGroup(dir, g, row))
      PROVE  ToldSubmitted
  <2> DEFINE c == EditGroup(dir, g, row)
  <2>1. g \in Group /\ "modify" \in {"create", "modify"} /\ ("modify" = "create" <=> g \notin DirGroups(dir))
    BY <1>1
  <2>2. RowWritten(c, g, row, "modify")
    BY DEF EditGroup, RowWritten
  <2>3. /\ operation = "role" \/ row.scope = (IF g \in DirGroups(dir) THEN dir.group[g].scope ELSE TRUE)
        /\ operation = "senders" \/ row.senders = {}
             \/ (g \in DirGroups(dir) /\ row.senders = dir.group[g].senders)
    BY <1>2
  <2>4. Submit(operation, c)
    BY <1>2
  <2> HIDE DEF c
  <2> QED
    BY <1>2, <2>1, <2>2, <2>3, <2>4, GroupRowTold
<1>3. ASSUME NEW g \in Group, NEW name \in GroupName, NEW sn \in DirSchoolNames(dir),
             NEW members \in SUBSET User, GroupAdded(g, name, sn, members)
      PROVE  ToldSubmitted
  <2> DEFINE row == [name |-> name, school |-> sn, members |-> members, senders |-> {},
                     scope |-> TRUE]
             n == [dir EXCEPT !.group[g] = row]
             c == Change(n, <<GroupSnapshot(n, "create", g)>>)
  <2>1. sn \in SchoolName
    BY <1>0 DEF DirKept, DirectoryType, DirSchoolNames, DirSchools
  <2>2. /\ row \in GroupRow /\ row.members \subseteq DirUsers(dir)
        /\ row.senders = {} /\ row.scope = TRUE
        /\ row.school = sn /\ row.name = name
        /\ g \notin DirGroups(dir) /\ \A h \in DirGroups(dir) : dir.group[h].name # name
    BY <1>3, <2>1 DEF GroupRow, GroupAdded, UsersOfSchool, FreeGroupName
  <2>3. Submit("group", c) /\ RowWritten(c, g, row, "create")
    BY <1>3 DEF GroupAdded, AddGroup, RowWritten
  <2> HIDE DEF row, c
  <2>4. "create" \in {"create", "modify"} /\ ("create" = "create" <=> g \notin DirGroups(dir))
    BY <2>2
  <2>5. /\ row.senders \subseteq DirUsers(dir) \cup DirGroups(dir)
        /\ row.school \in DirSchoolNames(dir)
        /\ \A h \in DirGroups(dir) : h = g \/ dir.group[h].name # row.name
        /\ row.scope = (IF g \in DirGroups(dir) THEN dir.group[g].scope ELSE TRUE)
    BY <2>2
  <2> QED
    BY <2>2, <2>3, <2>4, <2>5, GroupRowTold
<1>4. ASSUME NEW g \in DirGroups(dir), NEW members \in SUBSET User, MembersChanged(g, members)
      PROVE  ToldSubmitted
  <2> DEFINE row == [dir.group[g] EXCEPT !.members = members]
  <2>1. /\ row \in GroupRow /\ row.members = members /\ row.senders = dir.group[g].senders
        /\ row.school = dir.group[g].school /\ members \subseteq DirUsers(dir)
        /\ row.name = dir.group[g].name /\ row.scope = dir.group[g].scope
    BY <1>1, <1>4 DEF GroupRow, MembersChanged, UsersOfSchool
  <2>2. Submit("members", EditGroup(dir, g, row))
    BY <1>4 DEF MembersChanged
  <2> HIDE DEF row
  <2> QED
    BY <1>1, <1>2, <2>1, <2>2
<1>5. ASSUME NEW g \in DirGroups(dir), NEW name \in GroupName, GroupRenamed(g, name)
      PROVE  ToldSubmitted
  <2> DEFINE row == [dir.group[g] EXCEPT !.name = name]
  <2>1. /\ row \in GroupRow /\ row.members = dir.group[g].members
        /\ row.senders = dir.group[g].senders /\ row.school = dir.group[g].school
        /\ row.name = name /\ row.scope = dir.group[g].scope
    BY <1>1 DEF GroupRow
  <2>2. Submit("rename", EditGroup(dir, g, row)) /\ \A h \in DirGroups(dir) : dir.group[h].name # name
    BY <1>5 DEF GroupRenamed, FreeGroupName
  <2> HIDE DEF row
  <2> QED
    BY <1>1, <1>2, <2>1, <2>2
<1>6. ASSUME NEW g \in DirGroups(dir), NEW sn \in DirSchoolNames(dir), GroupMoved(g, sn)
      PROVE  ToldSubmitted
  <2> DEFINE members == dir.group[g].members \cap UsersOfSchool(sn)
             placed == [dir.group[g] EXCEPT !.school = sn]
             row == [placed EXCEPT !.members = members]
  <2>1. sn \in SchoolName
    BY <1>0 DEF DirKept, DirectoryType, DirSchoolNames, DirSchools
  <2>2. members \in SUBSET User /\ members \subseteq dir.group[g].members
    BY <1>1 DEF GroupRow
  <2>3. Submit("regroup", EditGroup(dir, g, row))
    BY <1>6 DEF GroupMoved
  <2> HIDE DEF members
  <2>4. /\ placed \in GroupRow /\ placed.senders = dir.group[g].senders /\ placed.school = sn
        /\ placed.name = dir.group[g].name /\ placed.scope = dir.group[g].scope
    BY <1>1, <2>1 DEF GroupRow
  <2> HIDE DEF placed
  <2>5. /\ row \in GroupRow /\ row.senders = placed.senders /\ row.members = members
        /\ row.school = placed.school /\ row.name = placed.name /\ row.scope = placed.scope
    BY <2>2, <2>4 DEF GroupRow
  <2> HIDE DEF row
  <2> QED
    BY <1>1, <1>2, <2>2, <2>3, <2>4, <2>5
<1>7. ASSUME NEW g \in DirGroups(dir), NEW senders \in SUBSET (User \cup Group),
             SendersChanged(g, senders)
      PROVE  ToldSubmitted
  <2> DEFINE row == [dir.group[g] EXCEPT !.senders = senders]
  <2>1. /\ row \in GroupRow /\ row.members = dir.group[g].members /\ row.senders = senders
        /\ row.school = dir.group[g].school /\ row.name = dir.group[g].name
        /\ row.scope = dir.group[g].scope
        /\ senders \subseteq DirUsers(dir) \cup DirGroups(dir)
    BY <1>1, <1>7 DEF GroupRow, SendersChanged
  <2>2. Submit("senders", EditGroup(dir, g, row))
    BY <1>7 DEF SendersChanged
  <2> HIDE DEF row
  <2> QED
    BY <1>1, <1>2, <2>1, <2>2
<1>8. ASSUME NEW g \in DirGroups(dir), RoleLost(g) PROVE ToldSubmitted
  <2> DEFINE row == [dir.group[g] EXCEPT !.scope = FALSE]
  <2>0. dir.group[g] \in GroupRow
    BY <1>1
  <2>1. /\ row \in GroupRow /\ row.members = dir.group[g].members
        /\ row.senders = dir.group[g].senders /\ row.school = dir.group[g].school
        /\ row.name = dir.group[g].name
    BY <2>0 DEF GroupRow
  <2>2. Submit("role", EditGroup(dir, g, row))
    BY <1>8 DEF RoleLost
  <2> HIDE DEF row
  <2> QED
    BY <1>1, <1>2, <2>1, <2>2
<1>9. ASSUME NEW g \in DirGroups(dir), GroupRemoved(g) PROVE ToldSubmitted
  <2> DEFINE c == RemoveGroup(dir, g)
  <2>1. ChangeTells(dir, c) /\ RowsKeep(dir, c.dir) /\ Submit("group", c)
    BY <1>9, GroupRemovedTells DEF GroupRemoved
  <2> HIDE DEF c
  <2> QED
    BY <2>1, SubmitsTold
<1> QED
  BY <1>3, <1>4, <1>5, <1>6, <1>7, <1>8, <1>9 DEF GroupChange

\* Changes of users.
LEMMA UserChangeTold ==
  ASSUME DirFits(dir), UserChange
  PROVE  ToldSubmitted
<1>a. DirKept(dir) /\ SchoolsFound(dir) /\ NamesUnique(dir)
  BY DEF DirFits
<1>0. DirSchoolNames(dir) \subseteq SchoolName
  BY <1>a DEF DirKept, DirectoryType, DirSchoolNames, DirSchools
<1>1. ASSUME NEW u \in DirUsers(dir), NEW row \in UserRow,
             row.ou \in row.schools, row.schools \subseteq DirSchoolNames(dir),
             \A v \in DirUsers(dir) : v = u \/ dir.user[v].name # row.name,
             NEW operation, Submit(operation, EditUser(dir, u, row))
      PROVE  ToldSubmitted
  <2> DEFINE c == EditUser(dir, u, row)
  <2>1. ChangeTells(dir, c) /\ RowsKeep(dir, c.dir) /\ Submit(operation, c)
    BY <1>1, UserEditedTells
  <2> HIDE DEF c
  <2> QED
    BY <2>1, SubmitsTold
<1>2. ASSUME NEW u \in DirUsers(dir)
      PROVE  /\ dir.user[u] \in UserRow
             /\ dir.user[u].ou \in dir.user[u].schools
             /\ dir.user[u].schools \subseteq DirSchoolNames(dir)
             /\ \A v \in DirUsers(dir) : v = u \/ dir.user[v].name # dir.user[u].name
  BY <1>a DEF DirKept, DirectoryType, DirUsers, UserRow, SchoolsFound, NamesUnique
<1>3. ASSUME NEW schools \in SUBSET DirSchoolNames(dir), NEW ou \in schools,
             NEW name \in UserName, NEW u \in User, UserAdded(u, name, ou, schools)
      PROVE  ToldSubmitted
  <2> DEFINE c == AddUser(dir, u, name, ou, schools)
  <2>1. ChangeTells(dir, c) /\ RowsKeep(dir, c.dir) /\ Submit("user", c)
    BY <1>3, UserAddedTells DEF UserAdded, FreeUserName
  <2> HIDE DEF c
  <2> QED
    BY <2>1, SubmitsTold
<1>4. ASSUME NEW u \in DirUsers(dir), NEW name \in UserName, UserRenamed(u, name)
      PROVE  ToldSubmitted
  <2> DEFINE row == [dir.user[u] EXCEPT !.name = name]
  <2>1. /\ row \in UserRow /\ row.ou = dir.user[u].ou /\ row.schools = dir.user[u].schools
        /\ row.name = name
    BY <1>2 DEF UserRow
  <2>2. Submit("rename", EditUser(dir, u, row)) /\ \A v \in DirUsers(dir) : dir.user[v].name # name
    BY <1>4 DEF UserRenamed, FreeUserName
  <2> HIDE DEF row
  <2> QED
    BY <1>1, <1>2, <2>1, <2>2
<1>5. ASSUME NEW u \in DirUsers(dir), NEW schools \in SUBSET DirSchoolNames(dir),
             NEW ou \in schools, UserMoved(u, ou, schools)
      PROVE  ToldSubmitted
  <2> DEFINE placed == [dir.user[u] EXCEPT !.ou = ou]
             row == [placed EXCEPT !.schools = schools]
  <2>1. placed \in UserRow /\ placed.ou = ou /\ placed.name = dir.user[u].name
    BY <1>0, <1>2 DEF UserRow
  <2>2. Submit("move", EditUser(dir, u, row))
    BY <1>5 DEF UserMoved
  <2> HIDE DEF placed
  <2>3. row \in UserRow /\ row.ou = placed.ou /\ row.schools = schools /\ row.name = placed.name
    BY <1>0, <2>1 DEF UserRow
  <2> HIDE DEF row
  <2> QED
    BY <1>1, <1>2, <2>1, <2>2, <2>3
<1>6. ASSUME NEW u \in DirUsers(dir), UserRemoved(u) PROVE ToldSubmitted
  <2> DEFINE c == RemoveUser(dir, u)
  <2>1. ChangeTells(dir, c) /\ RowsKeep(dir, c.dir) /\ Submit("user", c)
    BY <1>6, UserRemovedTells DEF UserRemoved
  <2> HIDE DEF c
  <2> QED
    BY <2>1, SubmitsTold
<1> QED
  BY <1>3, <1>4, <1>5, <1>6 DEF UserChange

----------------------------------------------------------------------------
(* What the queue tells *)

\* A change appends its event, and those of the groups it rewrites, to the queue.
NewEvents(e) ==
  /\ DOMAIN queue' = DOMAIN log'
  /\ \A i \in DOMAIN log : i \in DOMAIN log' /\ log'[i] = log[i] /\ queue'[i] = queue[i]
  /\ Len(log) + 1 \in DOMAIN log' /\ log'[Len(log) + 1] = e
  /\ \A i \in DOMAIN log' \ DOMAIN log :
       /\ i \in Nat /\ i > Len(log)
       /\ i = Len(log) + 1 \/ log'[i] \in Rewritten(dir')
       /\ queue'[i] = D!FreshEvent(IF IsRelevant(log'[i]) THEN "relevant" ELSE "irrelevant")

\* A change of the directory, told by e and the groups rewritten for it.
ToldBy(e) ==
  /\ e \in Exact(dir')
  /\ TellsAll(dir, dir', e) /\ FollowsOn(dir, e)
  /\ DirFits(dir')
  /\ \A x \in DirObjects(dir') \ DirObjects(dir) : EventsOf(x) = {}
  /\ NewEvents(e)
  /\ UNCHANGED <<db, pc, cur, crashes>> /\ used'.faults = used.faults
  /\ "role" \in Operations \/ ScopesKept(dir, dir')
  /\ "senders" \in Operations \/ (NoSenders(dir) => NoSenders(dir'))

\* The records of what a change appends (Publish).
LEMMA AppendedRecords ==
  ASSUME IInv, NEW operation, NEW c, NEW e \in Exact(c.dir), NEW rest \in Seq(Rewritten(c.dir)),
         c.events = <<e>> \o rest, Submit(operation, c)
  PROVE  NewEvents(e)
<1> DEFINE es == c.events
           new == Prefilled(es)
           n == Len(log)
           R == Rewritten(c.dir)
<1>0. dir' = c.dir
  BY DEF Submit
<1>1. <<e>> \in Seq(SyncEvent) /\ rest \in Seq(SyncEvent) /\ es \in Seq(SyncEvent)
  <2>1. e \in SyncEvent /\ R \subseteq SyncEvent
    BY DEF Exact, Rewritten
  <2>2. rest \in Seq(SyncEvent)
    BY <2>1
  <2> QED
    BY <2>1, <2>2
<1>2. log' = log \o es
  BY DEF Submit
<1>3. queue' = queue \o new
  BY <1>1, Published DEF IInv, TypeOK, D!TypeOK, Submit
<1>4. new \in Seq(D!EventRecord) /\ Len(new) = Len(es)
  BY <1>1, PrefilledTyped
<1>5. \A j \in DOMAIN es :
        new[j] = D!FreshEvent(IF IsRelevant(es[j]) THEN "relevant" ELSE "irrelevant")
  BY DEF Prefilled, Classes
<1>6. queue \in Seq(D!EventRecord) /\ log \in Seq(SyncEvent) /\ Len(queue) = n
  BY DEF IInv, TypeOK, D!TypeOK
<1>7. es[1] = e /\ 1 \in DOMAIN es /\ \A j \in DOMAIN es : j = 1 \/ es[j] \in R
  <2> HIDE DEF R
  <2>1. rest \in Seq(R)
    BY DEF R
  <2>2. es = <<e>> \o rest
    OBVIOUS
  <2>3. \A j \in DOMAIN es : j = 1 \/ (j - 1 \in DOMAIN rest /\ es[j] = rest[j - 1])
    BY <2>1, <2>2
  <2>4. \A j \in DOMAIN rest : rest[j] \in R
    BY <2>1
  <2> QED
    BY <2>1, <2>2, <2>3, <2>4
<1> HIDE DEF es, new, R
<1>8. n \in Nat /\ DOMAIN queue = 1..n /\ DOMAIN log = 1..n /\ DOMAIN es = 1..Len(es)
  BY <1>1, <1>6
<1>9. DOMAIN queue' = DOMAIN log'
  BY <1>1, <1>2, <1>3, <1>4, <1>6
<1>10. ASSUME NEW i \in DOMAIN log
       PROVE  i \in DOMAIN log' /\ log'[i] = log[i] /\ queue'[i] = queue[i]
  BY <1>1, <1>2, <1>3, <1>4, <1>6
<1>11. ASSUME NEW i \in DOMAIN log', i \notin DOMAIN log
       PROVE  /\ i - n \in DOMAIN es /\ i - n \in Nat /\ i \in Nat /\ i > n
              /\ log'[i] = es[i - n] /\ queue'[i] = new[i - n]
  <2>1. Len(es) \in Nat /\ DOMAIN log' = 1..(n + Len(es))
    BY <1>1, <1>2, <1>6
  <2>2. i \in Nat /\ i > n /\ i - n \in 1..Len(es) /\ i - n \in Nat
    BY <1>8, <1>11, <2>1
  <2>3. log'[i] = es[i - n]
    BY <1>1, <1>2, <1>6, <2>1, <2>2
  <2>4. queue'[i] = new[i - n]
    BY <1>3, <1>4, <1>6, <2>1, <2>2
  <2> QED
    BY <1>8, <2>2, <2>3, <2>4
<1>12. n + 1 \in DOMAIN log' /\ log'[n + 1] = e
  <2>1. Len(es) \in Nat /\ Len(es) >= 1
    BY <1>1, <1>7, <1>8
  <2>2. DOMAIN log' = 1..(n + Len(es))
    BY <1>1, <1>2, <1>6
  <2>3. n + 1 \in DOMAIN log' /\ n + 1 \notin DOMAIN log /\ (n + 1) - n = 1
    BY <1>8, <2>1, <2>2
  <2> QED
    BY <1>7, <1>11, <2>3
<1>13. ASSUME NEW i \in DOMAIN log', i \notin DOMAIN log
       PROVE  /\ i \in Nat /\ i > n
              /\ i = n + 1 \/ log'[i] \in Rewritten(dir')
              /\ queue'[i] = D!FreshEvent(IF IsRelevant(log'[i]) THEN "relevant" ELSE "irrelevant")
  <2>1. i - n \in DOMAIN es /\ i \in Nat /\ i > n /\ log'[i] = es[i - n] /\ queue'[i] = new[i - n]
    BY <1>11, <1>13
  <2>2. i - n = 1 \/ es[i - n] \in R
    BY <1>7, <2>1
  <2>3. queue'[i] = D!FreshEvent(IF IsRelevant(es[i - n]) THEN "relevant" ELSE "irrelevant")
    BY <1>5, <2>1
  <2> QED
    BY <1>0, <1>8, <2>1, <2>2, <2>3 DEF R
<1> QED
  BY <1>9, <1>10, <1>12, <1>13 DEF NewEvents, n

\* New objects never had an event (GroupAdded, UserAdded, SchoolAdded).
LEMMA NewObjectsUnused ==
  ASSUME ChangeSubmitted
  PROVE  \A x \in DirObjects(dir') \ DirObjects(dir) : EventsOf(x) = {}
<1> PICK operation, c, X : /\ ChangeKept(dir, c, X)
                           /\ Submit(operation, c)
                           /\ \A x \in X : x \in DirObjects(dir) \/ EventsOf(x) = {}
  BY DEF ChangeSubmitted
<1>1. dir' = c.dir /\ DirObjects(c.dir) \subseteq DirObjects(dir) \cup X
  BY DEF Submit, ChangeKept
<1> QED
  BY <1>1

\* Every change of the directory is told by its first event (UDM, Provisioning).
LEMMA ChangesTold ==
  ASSUME IInv, IInv', WInv, WInv', DirFits(dir), SchoolChange \/ GroupChange \/ UserChange
  PROVE  \E e : ToldBy(e)
<1>1. ToldSubmitted
  BY SchoolChangeTold, GroupChangeTold, UserChangeTold
<1>2. ChangeSubmitted
  BY SchoolChangeSubmits, GroupChangeSubmits, UserChangeSubmits DEF DirFits
<1>3. PICK operation, c :
        /\ ChangeTells(dir, c)
        /\ Submit(operation, c)
        /\ operation = "role" \/ ScopesKept(dir, c.dir)
        /\ operation = "senders" \/ (NoSenders(dir) => NoSenders(c.dir))
  BY <1>1 DEF ToldSubmitted
<1>4. PICK e \in Exact(c.dir), rest \in Seq(Rewritten(c.dir)) :
        /\ c.events = <<e>> \o rest
        /\ TellsAll(dir, c.dir, e)
        /\ FollowsOn(dir, e)
        /\ NamesUnique(c.dir) /\ HostsFound(c.dir)
  BY <1>3 DEF ChangeTells
<1>5. dir' = c.dir /\ db' = db /\ pc' = pc /\ cur' = cur /\ crashes' = crashes
      /\ operation \in Operations /\ used' = [used EXCEPT !.changes = @ + 1]
  BY <1>3 DEF Submit, D!Publish
<1>6. used'.faults = used.faults
  BY <1>5 DEF IInv, TypeOK
<1>7. NewEvents(e)
  BY <1>3, <1>4, AppendedRecords
<1>8. DirFits(dir')
  BY <1>4, <1>5 DEF DirFits, IInv, TypeOK, DirKept, WInv, DirTold
<1>9. \A x \in DirObjects(dir') \ DirObjects(dir) : EventsOf(x) = {}
  BY <1>2, NewObjectsUnused
<1> QED
  BY <1>3, <1>4, <1>5, <1>6, <1>7, <1>8, <1>9 DEF ToldBy

----------------------------------------------------------------------------
(* The history *)

\* The schools that a handler looks up by name.
SchoolsWanted(e) ==
  SchoolsOf(e) \cup (IF e.kind = "host" /\ e.op # "delete" THEN {e.school} ELSE {})

NamesSchool(e) == e.kind = "school" /\ e.op # "delete"

\* An object is created by the first event about it.
CreatesOnce ==
  \A i, k \in DOMAIN log :
    i < k /\ log[k].kind # "host" /\ log[k].op = "create" => ~About(log[i], log[k].id)

\* OUs are not renamed.
SchoolsKeepNames ==
  \A i, k \in DOMAIN log :
    NamesSchool(log[i]) /\ NamesSchool(log[k]) /\ log[k].id = log[i].id => log[i].name = log[k].name

\* A school comes before the objects that are in it, and goes after them.
SchoolsCome ==
  \A j \in DOMAIN log : \A sn \in SchoolsWanted(log[j]) :
    \E i \in DOMAIN log :
      /\ i < j /\ NamesSchool(log[i]) /\ log[i].name = sn
      /\ \A k \in DOMAIN log : Removes(log[k]) /\ About(log[k], log[i].id) => j < k

\* Before a school is removed, everybody who was in it has told otherwise.
LeftBefore ==
  \A i, j, k \in DOMAIN log :
    /\ NamesSchool(log[i]) /\ Removes(log[k]) /\ About(log[k], log[i].id)
    /\ j < k /\ log[i].name \in SchoolsOf(log[j])
    => \E m \in DOMAIN log : j < m /\ m < k /\ About(log[m], log[j].id)

\* All events but those of groups are in scope, and users are in the school of their OU.
ScopesFit ==
  \A i \in DOMAIN log :
    /\ log[i].kind # "group" => log[i].scope = TRUE
    /\ log[i].kind = "user" /\ log[i].op # "delete" => log[i].ou \in log[i].schools

\* What is no longer in the directory has been removed.
GoneTold ==
  \A i \in DOMAIN log :
    log[i].kind # "host" /\ log[i].id \notin DirObjects(dir)
      => \E m \in DOMAIN log : Removes(log[m]) /\ About(log[m], log[i].id)

\* A name is given to another object after its owner has told otherwise.
NamesFreed ==
  \A i, k \in DOMAIN log :
    /\ i < k /\ log[i].kind = log[k].kind /\ log[i].kind # "host"
    /\ log[i].op # "delete" /\ log[k].op # "delete"
    /\ log[i].id # log[k].id /\ log[i].name = log[k].name
    => \E m \in DOMAIN log : i < m /\ m < k /\ About(log[m], log[i].id)

\* Unless roles change, all events of a group are in scope or none is.
OneScope ==
  \/ "role" \in Operations
  \/ /\ \A i \in DOMAIN log :
          log[i].kind = "group" /\ log[i].id \in DirGroups(dir)
            => log[i].scope = dir.group[log[i].id].scope
     /\ \A i, k \in DOMAIN log :
          log[i].kind = "group" /\ About(log[k], log[i].id) => log[k].scope = log[i].scope

AllTold == \A x \in DirObjects(dir) : \E i \in DOMAIN log : About(log[i], x)

\* What the events of one subscription tell, in their order.
History ==
  /\ CreatesOnce /\ SchoolsKeepNames /\ SchoolsCome /\ LeftBefore /\ ScopesFit
  /\ GoneTold /\ NamesFreed /\ OneScope /\ AllTold

----------------------------------------------------------------------------
(* A change adds to the history *)

\* An exact event tells its object's data (UDM).
LEMMA ExactCarries ==
  ASSUME NEW n, NEW e \in Exact(n)
  PROVE  /\ Carries(n, e) /\ e \in SyncEvent
         /\ e.kind # "host" /\ e.op # "delete" => e.id \in DirObjects(n)
<1>1. e \in SyncEvent /\ (Removes(e) => e.id \notin DirObjects(n))
  BY DEF Exact
<1>2. ASSUME e.kind = "school", e.op # "delete" PROVE e.id \in DirSchools(n) /\ n.school[e.id] = e.name
  <2>1. e.id \in DirSchools(n) /\ e = SchoolSnapshot(n, e.op, e.id)
    BY <1>2 DEF Exact
  <2>2. SchoolSnapshot(n, e.op, e.id).name = n.school[e.id]
    BY DEF SchoolSnapshot
  <2> QED
    BY <2>1, <2>2
<1>3. ASSUME e.kind = "group", e.op # "delete"
      PROVE  /\ e.id \in DirGroups(n)
             /\ n.group[e.id].name = e.name
             /\ n.group[e.id].school = e.school
             /\ n.group[e.id].scope = e.scope
  <2> DEFINE v == GroupSnapshot(n, e.op, e.id)
  <2>1. e.id \in DirGroups(n) /\ e = v
    BY <1>3 DEF Exact
  <2>2. /\ v.name = n.group[e.id].name /\ v.school = n.group[e.id].school
        /\ v.scope = n.group[e.id].scope
    BY DEF GroupSnapshot
  <2> HIDE DEF v
  <2> QED
    BY <2>1, <2>2
<1>4. ASSUME e.kind = "user", e.op # "delete"
      PROVE  /\ e.id \in DirUsers(n)
             /\ n.user[e.id].name = e.name
             /\ n.user[e.id].ou = e.ou
             /\ n.user[e.id].schools = e.schools
  <2> DEFINE v == UserSnapshot(n, e.op, e.id)
  <2>1. e.id \in DirUsers(n) /\ e = v
    BY <1>4 DEF Exact
  <2>2. /\ v.name = n.user[e.id].name /\ v.ou = n.user[e.id].ou
        /\ v.schools = n.user[e.id].schools
    BY DEF UserSnapshot
  <2> HIDE DEF v
  <2> QED
    BY <2>1, <2>2
<1>5. e.kind \in {"school", "group", "user", "host"}
  BY <1>1 DEF SyncEvent, SchoolEvent, GroupEvent, UserEvent, HostEvent, DeleteEvent
<1> QED
  BY <1>1, <1>2, <1>3, <1>4, <1>5 DEF Carries, DirObjects

\* The events before and after a change (Publish).
NewAndOld(e) ==
  /\ DOMAIN log = 1..Len(log) /\ Len(log) \in Nat
  /\ \A i \in DOMAIN log : /\ i \in DOMAIN log' /\ log'[i] = log[i] /\ log[i] \in SyncEvent
                           /\ log[i].kind # "host" => log[i].id \in Object
  /\ Len(log) + 1 \in DOMAIN log' /\ log'[Len(log) + 1] = e
  /\ \A i \in DOMAIN log' \ DOMAIN log :
       /\ i \in Nat /\ i > Len(log)
       /\ log'[i] \in Exact(dir') /\ Carries(dir', log'[i]) /\ log'[i] \in SyncEvent
       /\ log'[i].kind # "host" => log'[i].id \in Object
       /\ log'[i].kind # "host" /\ log'[i].op # "delete" => log'[i].id \in DirObjects(dir')
       /\ \/ i = Len(log) + 1 /\ log'[i] = e
          \/ i > Len(log) + 1 /\ log'[i].kind = "group" /\ log'[i].op = "modify"

\* Old events stay, new ones are exact (Submit).
LEMMA OldAndNew ==
  ASSUME IInv, NEW e, ToldBy(e)
  PROVE  NewAndOld(e) /\ e \in SyncEvent /\ (e.kind # "host" => e.id \in Object)
<1>1. /\ DOMAIN log = 1..Len(log) /\ Len(log) \in Nat
      /\ \A i \in DOMAIN log : /\ log[i] \in SyncEvent
                               /\ log[i].kind # "host" => log[i].id \in Object
  BY LoggedTyped
<1>2. \A f \in SyncEvent : f.kind # "host" => f.id \in Object
  BY DEF SyncEvent, SchoolEvent, GroupEvent, UserEvent, HostEvent, DeleteEvent, Object
<1>3. NewEvents(e) /\ e \in Exact(dir') /\ e \in SyncEvent
  BY DEF ToldBy, Exact
<1>4. ASSUME NEW i \in DOMAIN log' \ DOMAIN log
      PROVE  /\ i \in Nat /\ i > Len(log)
             /\ log'[i] \in Exact(dir')
             /\ \/ i = Len(log) + 1 /\ log'[i] = e
                \/ i > Len(log) + 1 /\ log'[i].kind = "group" /\ log'[i].op = "modify"
  <2>1. /\ i \in Nat /\ i > Len(log)
        /\ i = Len(log) + 1 \/ log'[i] \in Rewritten(dir')
        /\ log'[Len(log) + 1] = e
    BY <1>3 DEF NewEvents
  <2> QED
    BY <1>1, <1>3, <2>1 DEF Rewritten
<1>5. ASSUME NEW i \in DOMAIN log' \ DOMAIN log
      PROVE  /\ Carries(dir', log'[i]) /\ log'[i] \in SyncEvent
             /\ log'[i].kind # "host" => log'[i].id \in Object
             /\ log'[i].kind # "host" /\ log'[i].op # "delete" => log'[i].id \in DirObjects(dir')
  <2>1. log'[i] \in Exact(dir')
    BY <1>4
  <2> QED
    BY <1>2, <2>1, ExactCarries
<1>6. /\ \A i \in DOMAIN log : i \in DOMAIN log' /\ log'[i] = log[i]
      /\ Len(log) + 1 \in DOMAIN log' /\ log'[Len(log) + 1] = e
  BY <1>3 DEF NewEvents
<1> QED
  BY <1>1, <1>2, <1>3, <1>4, <1>5, <1>6 DEF NewAndOld

\* An object is new in the directory when its create event is published (Unused).
LEMMA CreatesOnceOn ==
  ASSUME IInv, NEW e, ToldBy(e), CreatesOnce
  PROVE  CreatesOnce'
<1> SUFFICES ASSUME NEW i \in DOMAIN log', NEW k \in DOMAIN log', i < k, log'[k].kind # "host",
                    log'[k].op = "create", About(log'[i], log'[k].id)
             PROVE  FALSE
  BY DEF CreatesOnce
<1>1. NewAndOld(e)
  BY OldAndNew
<1>2. CASE k \in DOMAIN log
  <2>1. i \in DOMAIN log
    BY <1>1, <1>2 DEF NewAndOld
  <2> QED
    BY <1>1, <1>2, <2>1 DEF NewAndOld, CreatesOnce
<1>3. CASE k \notin DOMAIN log
  <2>1. k = Len(log) + 1 /\ log'[k] = e /\ e.id \in DirObjects(dir')
    BY <1>1, <1>3 DEF NewAndOld
  <2>2. e.id \notin DirObjects(dir)
    BY <2>1 DEF ToldBy, FollowsOn
  <2>3. EventsOf(e.id) = {}
    BY <2>1, <2>2 DEF ToldBy
  <2>4. i \in DOMAIN log
    BY <1>1, <2>1 DEF NewAndOld
  <2> QED
    BY <1>1, <2>1, <2>3, <2>4 DEF NewAndOld, EventsOf, About
<1> QED
  BY <1>2, <1>3

\* The events of a school that is there tell the name it has (EditSchool).
LEMMA SchoolsKeepNamesOn ==
  ASSUME IInv, WInv', NEW e, ToldBy(e), SchoolsKeepNames
  PROVE  SchoolsKeepNames'
<1> SUFFICES ASSUME NEW i \in DOMAIN log', NEW k \in DOMAIN log', NamesSchool(log'[i]),
                    NamesSchool(log'[k]), log'[k].id = log'[i].id
             PROVE  log'[i].name = log'[k].name
  BY DEF SchoolsKeepNames
<1>1. NewAndOld(e)
  BY OldAndNew
<1>2. CASE i \in DOMAIN log /\ k \in DOMAIN log
  BY <1>1, <1>2 DEF NewAndOld, SchoolsKeepNames
<1>3. CASE i \notin DOMAIN log \/ k \notin DOMAIN log
  <2>1. log'[i].id \in DirSchools(dir')
    BY <1>1, <1>3 DEF NewAndOld, Carries, NamesSchool
  <2>2. SchoolsTold(dir', log')
    BY DEF WInv, DirTold
  <2> QED
    BY <2>1, <2>2 DEF SchoolsTold, About, NamesSchool
<1> QED
  BY <1>2, <1>3

\* The schools an exact event wants are in the directory.
LEMMA WantedAreFound ==
  ASSUME NEW n, DirFits(n), NEW e \in Exact(n)
  PROVE  SchoolsWanted(e) \subseteq DirSchoolNames(n)
<1>1. SchoolsOf(e) \subseteq DirSchoolNames(n)
  BY ExactCarries, SchoolsOfFound DEF DirFits
<1>2. ASSUME e.kind = "host", e.op # "delete" PROVE e.school \in DirSchoolNames(n)
  <2> DEFINE h == <<e.school, e.host_kind>>
  <2>1. e \in SyncEvent /\ n.hosts[h] # NoRow
    BY <1>2 DEF Exact
  <2>2. h \in SchoolName \X HostKind
    BY <1>2, <2>1 DEF SyncEvent, SchoolEvent, GroupEvent, UserEvent, HostEvent, DeleteEvent
  <2>3. h \in DirHostGroups(n)
    BY <2>1, <2>2 DEF DirHostGroups
  <2>4. h[1] \in DirSchoolNames(n)
    BY <2>3 DEF DirFits, HostsFound
  <2> QED
    BY <2>4
<1> QED
  BY <1>1, <1>2 DEF SchoolsWanted

\* The schools that a change names are there (GroupAdded, UserAdded, HostsChanged).
LEMMA SchoolsComeOn ==
  ASSUME IInv, RInv', WInv', NEW e, ToldBy(e), SchoolsCome
  PROVE  SchoolsCome'
<1> SUFFICES ASSUME NEW j \in DOMAIN log', NEW sn \in SchoolsWanted(log'[j])
             PROVE  \E i \in DOMAIN log' :
                      /\ i < j /\ NamesSchool(log'[i]) /\ log'[i].name = sn
                      /\ \A k \in DOMAIN log' : Removes(log'[k]) /\ About(log'[k], log'[i].id) => j < k
  BY DEF SchoolsCome
<1>1. NewAndOld(e)
  BY OldAndNew
<1>2. CASE j \in DOMAIN log
  <2>1. PICK i \in DOMAIN log :
          /\ i < j /\ NamesSchool(log[i]) /\ log[i].name = sn
          /\ \A k \in DOMAIN log : Removes(log[k]) /\ About(log[k], log[i].id) => j < k
    BY <1>1, <1>2 DEF NewAndOld, SchoolsCome
  <2>2. i \in DOMAIN log' /\ log'[i] = log[i]
    BY <1>1, <2>1 DEF NewAndOld
  <2>3. ASSUME NEW k \in DOMAIN log', Removes(log'[k]), About(log'[k], log'[i].id) PROVE j < k
    BY <1>1, <1>2, <2>1, <2>2, <2>3 DEF NewAndOld
  <2> QED
    BY <2>1, <2>2, <2>3
<1>3. CASE j \notin DOMAIN log
  <2>1. sn \in DirSchoolNames(dir')
    BY <1>1, <1>3, WantedAreFound DEF NewAndOld, ToldBy
  <2>2. PICK s \in DirSchools(dir') : dir'.school[s] = sn
    BY <2>1 DEF DirSchoolNames
  <2>3. SchoolsTold(dir', log')
    BY DEF WInv, DirTold
  <2>4. PICK i \in DOMAIN log' : About(log'[i], s)
    BY <2>3 DEF SchoolsTold
  <2>5. log'[i].op # "delete" /\ log'[i].name = sn
    BY <2>2, <2>3, <2>4 DEF SchoolsTold
  <2>6. log'[i].kind = "school" /\ log'[i].id = s
    <3>1. log'[i] \in SyncEvent /\ s \in Object /\ s \in School
      BY <1>1 DEF NewAndOld, DirSchools, Object
    <3> QED
      BY <2>4, <3>1, EventKinds DEF About
  <2>7. log'[j].kind # "school"
    BY DEF SchoolsWanted, SchoolsOf
  <2>8. i < j
    <3>1. j \in Nat /\ j > Len(log)
      BY <1>1, <1>3 DEF NewAndOld
    <3>2. CASE i \in DOMAIN log
      BY <1>1, <3>1, <3>2 DEF NewAndOld
    <3>3. CASE i \notin DOMAIN log
      <4>1. i = Len(log) + 1 /\ log'[i] = e
        BY <1>1, <2>6, <3>3 DEF NewAndOld
      <4>2. j # i
        BY <2>6, <2>7
      <4> QED
        BY <1>1, <3>1, <4>1, <4>2 DEF NewAndOld
    <3> QED
      BY <3>2, <3>3
  <2>9. \A k \in DOMAIN log' : ~(Removes(log'[k]) /\ About(log'[k], s))
    BY <2>3 DEF SchoolsTold, Removes
  <2> QED
    BY <2>4, <2>5, <2>6, <2>8, <2>9 DEF NamesSchool
<1> QED
  BY <1>2, <1>3

\* What a change of another object leaves as it is: the change tells all (refint).
LEMMA UntoldStays ==
  ASSUME IInv, NEW e, ToldBy(e), NEW x \in Object, ~About(e, x)
  PROVE  SameData(dir, dir', x)
BY DEF ToldBy, TellsAll

\* An event is not the latest of its object if another follows.
LEMMA NotTheLatest ==
  ASSUME IInv, NEW i \in DOMAIN log, log[i].kind # "host", ~Latest(log, i)
  PROVE  \E m \in DOMAIN log : i < m /\ About(log[m], log[i].id)
<1>1. DOMAIN log = 1..Len(log) /\ Len(log) \in Nat
  BY LoggedTyped
<1>2. PICK m \in DOMAIN log : About(log[m], log[i].id) /\ ~(m <= i)
  BY DEF Latest
<1> QED
  BY <1>1, <1>2

\* An OU is removed after everything that belongs to it (RemoveSchool).
LEMMA RemovedSchoolIsEmpty ==
  ASSUME IInv, WInv, DirFits(dir), NEW e, ToldBy(e), Removes(e), e.kind = "school",
         NEW j \in DOMAIN log, dir.school[e.id] \in SchoolsOf(log[j])
  PROVE  ~Latest(log, j)
<1> USE StoreAssumption DEF StoreAssumption
<1> DEFINE x == log[j].id
           sn == dir.school[e.id]
<1> SUFFICES ASSUME Latest(log, j) PROVE FALSE
  OBVIOUS
<1>1. NewAndOld(e) /\ e \in SyncEvent /\ e.id \in Object
  BY OldAndNew
<1>2. e.id \in School
  BY <1>1, EventKinds DEF About
<1>3. e.id \in DirSchools(dir) /\ e.id \notin DirSchools(dir')
  <2>1. e.id \in DirObjects(dir)
    BY <1>1 DEF ToldBy, FollowsOn, Removes
  <2>2. e.id \notin DirObjects(dir')
    BY DEF ToldBy, Exact
  <2> QED
    BY <1>2, <2>1, <2>2 DEF DirObjects, DirGroups, DirUsers
<1>4. Carries(dir, log[j]) /\ log[j] \in SyncEvent /\ x \in Object /\ log[j].kind # "host"
  <2>1. LatestCarries(dir, log)
    BY DEF WInv, DirTold
  <2>2. log[j].kind # "host"
    BY DEF Latest
  <2> QED
    BY <1>1, <2>1, <2>2 DEF LatestCarries, NewAndOld
<1>5. log[j].kind \in {"group", "user"} /\ log[j].op # "delete"
  BY DEF SchoolsOf
<1>6. x \notin School
  BY <1>4, <1>5, EventKinds DEF About
<1>7. SameData(dir, dir', x)
  <2>1. ~About(e, x)
    BY <1>2, <1>6 DEF About
  <2> QED
    BY <1>4, <2>1, UntoldStays
<1>8. Carries(dir', log[j])
  BY <1>4, <1>7, CarriesOn
<1>9. SchoolsFound(dir') /\ SchoolsFound(dir)
  BY DEF ToldBy, DirFits
<1>10. PICK t \in DirSchools(dir') : dir'.school[t] = sn
  <2>1. sn \in DirSchoolNames(dir')
    BY <1>8, <1>9, SchoolsOfFound
  <2> QED
    BY <2>1 DEF DirSchoolNames
<1>11. t # e.id /\ t \in Object /\ t \in School
  BY <1>3 DEF DirSchools, Object
<1>12. dir'.school[t] = dir.school[t]
  BY <1>11, UntoldStays DEF SameData, About
<1>13. t \in DirSchools(dir) /\ dir.school[t] = sn
  BY <1>10, <1>12 DEF DirSchools
<1> QED
  BY <1>3, <1>9, <1>11, <1>13 DEF SchoolsFound

\* The removal of a school comes after those who were in it have left.
LEMMA LeftBeforeOn ==
  ASSUME IInv, RInv', WInv, DirFits(dir), NEW e, ToldBy(e), LeftBefore
  PROVE  LeftBefore'
<1> SUFFICES ASSUME NEW i \in DOMAIN log', NEW j \in DOMAIN log', NEW k \in DOMAIN log',
                    NamesSchool(log'[i]), Removes(log'[k]), About(log'[k], log'[i].id),
                    j < k, log'[i].name \in SchoolsOf(log'[j])
             PROVE  \E m \in DOMAIN log' : j < m /\ m < k /\ About(log'[m], log'[j].id)
  BY DEF LeftBefore
<1>1. NewAndOld(e)
  BY OldAndNew
<1>2. i \in DOMAIN log
  <2> SUFFICES ASSUME i \notin DOMAIN log PROVE FALSE
    OBVIOUS
  <2>1. i = Len(log) + 1 /\ log'[i] = e
    BY <1>1 DEF NewAndOld, NamesSchool
  <2>2. k # i
    BY DEF NamesSchool, Removes
  <2>3. k \in DOMAIN log
    <3> SUFFICES ASSUME k \notin DOMAIN log PROVE FALSE
      OBVIOUS
    <3> QED
      BY <1>1, <2>1, <2>2 DEF NewAndOld, Removes
  <2>4. k < i
    BY <1>1, <2>1, <2>3 DEF NewAndOld
  <2>5. RemovalIsLast'
    BY DEF RInv
  <2>6. log'[i].kind # "host" /\ log'[k].id = log'[i].id
    BY DEF NamesSchool, About
  <2> QED
    BY <2>4, <2>5, <2>6 DEF RemovalIsLast, About
<1>3. CASE k \in DOMAIN log
  <2>1. j \in DOMAIN log
    BY <1>1, <1>3 DEF NewAndOld
  <2>2. PICK m \in DOMAIN log : j < m /\ m < k /\ About(log[m], log[j].id)
    BY <1>1, <1>2, <1>3, <2>1 DEF NewAndOld, LeftBefore
  <2> QED
    BY <1>1, <2>1, <2>2 DEF NewAndOld
<1>4. CASE k \notin DOMAIN log
  <2>1. k = Len(log) + 1 /\ log'[k] = e
    BY <1>1, <1>4 DEF NewAndOld, Removes
  <2>2. j \in DOMAIN log
    BY <1>1, <2>1 DEF NewAndOld
  <2>3. log'[i] = log[i] /\ log'[j] = log[j] /\ log[j] \in SyncEvent
    BY <1>1, <1>2, <2>2 DEF NewAndOld
  <2>4. e.id = log[i].id /\ Removes(e) /\ NamesSchool(log[i])
    BY <2>1, <2>3 DEF About
  <2>5. e.kind = "school" /\ e.id \in School
    <3>1. log[i] \in SyncEvent /\ log[i].id \in Object
      BY <1>1, <1>2, <2>4 DEF NewAndOld, NamesSchool
    <3>2. log[i].id \in School
      BY <2>4, <3>1, EventKinds DEF NamesSchool, About
    <3>3. e \in SyncEvent
      BY OldAndNew
    <3> QED
      BY <2>4, <3>1, <3>2, <3>3, EventKinds DEF About, Removes
  <2>6. log[i].name = dir.school[e.id]
    <3>1. e.id \in DirObjects(dir)
      BY <2>4 DEF ToldBy, FollowsOn, Removes
    <3>2. e.id \in DirSchools(dir)
      BY <2>5, <3>1, StoreAssumption DEF StoreAssumption, DirObjects, DirGroups, DirUsers
    <3>3. SchoolsTold(dir, log)
      BY DEF WInv, DirTold
    <3> QED
      BY <1>2, <2>4, <3>2, <3>3 DEF SchoolsTold, About, NamesSchool
  <2>7. ~Latest(log, j)
    BY <2>2, <2>3, <2>4, <2>5, <2>6, RemovedSchoolIsEmpty
  <2>8. log[j].kind # "host"
    BY <2>3 DEF SchoolsOf
  <2>9. PICK m \in DOMAIN log : j < m /\ About(log[m], log[j].id)
    BY <2>2, <2>7, <2>8, NotTheLatest
  <2> QED
    BY <1>1, <2>1, <2>3, <2>9 DEF NewAndOld
<1> QED
  BY <1>3, <1>4

\* Schools and users are always in scope; a user is in the school of its DN.
LEMMA ScopesFitOn ==
  ASSUME IInv, NEW e, ToldBy(e), ScopesFit
  PROVE  ScopesFit'
<1> SUFFICES ASSUME NEW i \in DOMAIN log'
             PROVE  /\ log'[i].kind # "group" => log'[i].scope = TRUE
                    /\ log'[i].kind = "user" /\ log'[i].op # "delete" => log'[i].ou \in log'[i].schools
  BY DEF ScopesFit
<1>1. NewAndOld(e)
  BY OldAndNew
<1>2. CASE i \in DOMAIN log
  BY <1>1, <1>2 DEF NewAndOld, ScopesFit
<1>3. CASE i \notin DOMAIN log
  <2>1. log'[i].kind # "group" => log'[i].scope = TRUE
    BY <1>1, <1>3 DEF NewAndOld, ToldBy, FollowsOn
  <2>2. ASSUME log'[i].kind = "user", log'[i].op # "delete" PROVE log'[i].ou \in log'[i].schools
    <3>1. Carries(dir', log'[i]) /\ SchoolsFound(dir')
      BY <1>1, <1>3 DEF NewAndOld, ToldBy, DirFits
    <3> QED
      BY <2>2, <3>1 DEF Carries, SchoolsFound
  <2> QED
    BY <2>1, <2>2
<1> QED
  BY <1>2, <1>3

\* What appears or disappears is told by the change's own event.
LEMMA AppearsTold ==
  ASSUME IInv, NEW e, ToldBy(e), NEW x \in Object, ~About(e, x)
  PROVE  x \in DirObjects(dir') <=> x \in DirObjects(dir)
<1> USE StoreAssumption DEF StoreAssumption
<1>1. SameData(dir, dir', x)
  BY UntoldStays
<1> QED
  BY <1>1 DEF SameData, DirObjects, DirSchools, DirGroups, DirUsers, Object

\* An object leaves the directory with its removal, and comes with its creation.
LEMMA GoneToldOn ==
  ASSUME IInv, NEW e, ToldBy(e), GoneTold, AllTold
  PROVE  GoneTold' /\ AllTold'
<1>1. NewAndOld(e) /\ e \in SyncEvent
  BY OldAndNew
<1>2. ASSUME NEW i \in DOMAIN log', log'[i].kind # "host", log'[i].id \notin DirObjects(dir')
      PROVE  \E m \in DOMAIN log' : Removes(log'[m]) /\ About(log'[m], log'[i].id)
  <2>1. CASE i \in DOMAIN log
    <3>1. log'[i] = log[i] /\ log[i].id \in Object
      BY <1>1, <1>2, <2>1 DEF NewAndOld
    <3>2. CASE log[i].id \notin DirObjects(dir)
      <4>1. PICK m \in DOMAIN log : Removes(log[m]) /\ About(log[m], log[i].id)
        BY <1>2, <2>1, <3>1, <3>2 DEF GoneTold
      <4> QED
        BY <1>1, <3>1, <4>1 DEF NewAndOld
    <3>3. CASE log[i].id \in DirObjects(dir)
      <4>1. About(e, log[i].id)
        BY <1>2, <3>1, <3>3, AppearsTold
      <4>2. e.op = "delete"
        <5>1. e \in Exact(dir') /\ e.kind # "host" /\ e.id = log[i].id
          BY <4>1 DEF ToldBy, About
        <5> QED
          BY <1>2, <3>1, <5>1, ExactCarries
      <4> QED
        BY <1>1, <3>1, <4>1, <4>2 DEF NewAndOld, Removes, About
    <3> QED
      BY <3>2, <3>3
  <2>2. CASE i \notin DOMAIN log
    BY <1>1, <1>2, <2>2 DEF NewAndOld, Removes, About
  <2> QED
    BY <2>1, <2>2
<1>3. ASSUME NEW x \in DirObjects(dir') PROVE \E i \in DOMAIN log' : About(log'[i], x)
  <2>1. x \in Object
    BY DEF DirObjects, DirSchools, DirGroups, DirUsers, Object
  <2>2. CASE About(e, x)
    BY <1>1, <2>2 DEF NewAndOld
  <2>3. CASE ~About(e, x)
    <3>1. x \in DirObjects(dir)
      BY <2>1, <2>3, AppearsTold
    <3>2. PICK i \in DOMAIN log : About(log[i], x)
      BY <3>1 DEF AllTold
    <3> QED
      BY <1>1, <3>2 DEF NewAndOld
  <2> QED
    BY <2>2, <2>3
<1> QED
  BY <1>2, <1>3 DEF GoneTold, AllTold

\* Two events that tell of one directory, of different objects, tell different names.
LEMMA NamesApart ==
  ASSUME NEW d, DirFits(d), NEW e, NEW f, Carries(d, e), Carries(d, f),
         e.kind \in {"school", "group", "user"}, e.kind = f.kind,
         e.op # "delete", f.op # "delete", e.name = f.name
  PROVE  e.id = f.id
<1>1. CASE e.kind = "school"
  BY <1>1 DEF Carries, DirFits, SchoolsFound
<1>2. CASE e.kind = "group"
  BY <1>2 DEF Carries, DirFits, NamesUnique
<1>3. CASE e.kind = "user"
  BY <1>3 DEF Carries, DirFits, NamesUnique
<1> QED
  BY <1>1, <1>2, <1>3

\* A name is given again only after it is free (FreeUserName, FreeGroupName).
LEMMA NamesFreedOn ==
  ASSUME IInv, WInv, NEW e, ToldBy(e), NamesFreed
  PROVE  NamesFreed'
<1> SUFFICES ASSUME NEW i \in DOMAIN log', NEW k \in DOMAIN log',
                    i < k, log'[i].kind = log'[k].kind, log'[i].kind # "host",
                    log'[i].op # "delete", log'[k].op # "delete",
                    log'[i].id # log'[k].id, log'[i].name = log'[k].name
             PROVE  \E m \in DOMAIN log' : i < m /\ m < k /\ About(log'[m], log'[i].id)
  BY DEF NamesFreed
<1>1. NewAndOld(e) /\ DirFits(dir')
  BY OldAndNew DEF ToldBy
<1>2. CASE k \in DOMAIN log
  <2>1. i \in DOMAIN log
    BY <1>1, <1>2 DEF NewAndOld
  <2>2. PICK m \in DOMAIN log : i < m /\ m < k /\ About(log[m], log[i].id)
    BY <1>1, <1>2, <2>1 DEF NewAndOld, NamesFreed
  <2> QED
    BY <1>1, <2>1, <2>2 DEF NewAndOld
<1>3. CASE k \notin DOMAIN log
  <2>1. Carries(dir', log'[k]) /\ log'[k] \in SyncEvent /\ k \in Nat /\ k > Len(log)
    BY <1>1, <1>3 DEF NewAndOld
  <2>2. log'[k].kind \in {"school", "group", "user"}
    BY <2>1 DEF SyncEvent, SchoolEvent, GroupEvent, UserEvent, HostEvent, DeleteEvent
  <2>3. ~Carries(dir', log'[i])
    BY <1>1, <2>1, <2>2, NamesApart
  <2>4. i \in DOMAIN log
    BY <1>1, <2>3 DEF NewAndOld
  <2>5. log'[i] = log[i] /\ log[i] \in SyncEvent /\ log[i].id \in Object
    BY <1>1, <2>4 DEF NewAndOld
  <2>6. CASE About(e, log[i].id)
    <3>1. k # Len(log) + 1
      BY <1>1, <2>5, <2>6 DEF NewAndOld, About
    <3> QED
      BY <1>1, <2>1, <2>4, <2>5, <2>6, <3>1 DEF NewAndOld
  <2>7. CASE ~About(e, log[i].id)
    <3>1. SameData(dir, dir', log[i].id)
      BY <2>5, <2>7, UntoldStays
    <3>2. ~Carries(dir, log[i])
      BY <2>3, <2>5, <3>1, CarriesOn
    <3>3. ~Latest(log, i)
      BY <2>4, <3>2 DEF WInv, DirTold, LatestCarries
    <3>4. PICK m \in DOMAIN log : i < m /\ About(log[m], log[i].id)
      BY <2>4, <2>5, <3>3, NotTheLatest
    <3> QED
      BY <1>1, <2>1, <2>5, <3>4 DEF NewAndOld
  <2> QED
    BY <2>6, <2>7
<1> QED
  BY <1>2, <1>3

\* Groups keep their role (RoleLost is the only change of it).
LEMMA OneScopeOn ==
  ASSUME IInv, NEW e, ToldBy(e), OneScope
  PROVE  OneScope'
<1> USE StoreAssumption DEF StoreAssumption
<1> SUFFICES ASSUME "role" \notin Operations PROVE OneScope'
  BY DEF OneScope
<1>1. NewAndOld(e) /\ ScopesKept(dir, dir')
  BY OldAndNew DEF ToldBy
<1>2. ASSUME NEW i \in DOMAIN log', log'[i].kind = "group", log'[i].id \in DirGroups(dir')
      PROVE  log'[i].scope = dir'.group[log'[i].id].scope
  <2>1. CASE i \notin DOMAIN log
    <3>1. ~Removes(log'[i])
      <4>1. log'[i].id \in DirObjects(dir') /\ Carries(dir', log'[i])
        BY <1>1, <1>2, <2>1 DEF NewAndOld, DirObjects
      <4> QED
        BY <4>1 DEF Carries
    <3> QED
      BY <1>1, <1>2, <2>1, <3>1 DEF NewAndOld, Carries, Removes
  <2>2. CASE i \in DOMAIN log
    <3>1. log'[i] = log[i]
      BY <1>1, <2>2 DEF NewAndOld
    <3>2. log[i].id \in DirGroups(dir)
      <4> SUFFICES ASSUME log[i].id \notin DirGroups(dir) PROVE FALSE
        OBVIOUS
      <4>1. log[i].id \in Group
        BY <1>2, <3>1 DEF DirGroups
      <4>2. log[i].id \in DirObjects(dir') \ DirObjects(dir)
        BY <1>2, <3>1, <4>1 DEF DirObjects, DirSchools, DirUsers
      <4>3. EventsOf(log[i].id) = {}
        BY <4>2 DEF ToldBy
      <4> QED
        BY <1>2, <2>2, <3>1, <4>3 DEF EventsOf
    <3>3. log[i].scope = dir.group[log[i].id].scope
      BY <1>2, <2>2, <3>1, <3>2 DEF OneScope
    <3> QED
      BY <1>1, <1>2, <3>1, <3>2, <3>3 DEF ScopesKept
  <2> QED
    BY <2>1, <2>2
<1>3. ASSUME NEW i \in DOMAIN log', NEW k \in DOMAIN log', log'[i].kind = "group",
             About(log'[k], log'[i].id)
      PROVE  log'[k].scope = log'[i].scope
  <2> DEFINE g == log'[i].id
  <2>1. \A j \in DOMAIN log' : log'[j] \in SyncEvent
    BY <1>1 DEF NewAndOld
  <2>2. g \in Object
    BY <1>1, <1>3 DEF NewAndOld
  <2>3. g \in Group /\ log'[k].kind = "group" /\ log'[k].id = g
    <3>1. About(log'[i], g)
      BY <1>3 DEF About
    <3>2. g \in Group
      BY <1>3, <2>1, <2>2, <3>1, EventKinds
    <3>3. log'[k].kind = "group"
      BY <1>3, <2>1, <2>2, <3>2, EventKinds
    <3> QED
      BY <1>3, <3>2, <3>3 DEF About
  <2>4. CASE i \in DOMAIN log /\ k \in DOMAIN log
    BY <1>1, <1>3, <2>4 DEF NewAndOld, OneScope
  <2>5. CASE g \in DirGroups(dir')
    BY <1>2, <1>3, <2>3, <2>5
  <2>6. CASE g \notin DirGroups(dir') /\ (i \notin DOMAIN log \/ k \notin DOMAIN log)
    <3>0. g \notin DirObjects(dir')
      BY <2>3, <2>6 DEF DirObjects, DirSchools, DirUsers
    <3>1. \A j \in {i, k} : j \notin DOMAIN log => log'[j] = e /\ e.op = "delete"
      BY <1>1, <1>3, <2>3, <3>0 DEF NewAndOld
    <3>2. e.op = "delete" /\ e.kind = "group" /\ e.id = g
      BY <1>3, <2>3, <2>6, <3>1
    <3>3. e.scope = dir.group[g].scope /\ g \in DirObjects(dir)
      BY <3>2 DEF ToldBy, FollowsOn
    <3>4. g \in DirGroups(dir)
      BY <2>3, <3>3 DEF DirObjects, DirSchools, DirUsers
    <3>5. \A j \in {i, k} : j \in DOMAIN log => log'[j].scope = dir.group[g].scope
      BY <1>1, <1>3, <2>3, <3>4 DEF NewAndOld, OneScope
    <3> QED
      BY <3>1, <3>3, <3>5
  <2> QED
    BY <2>4, <2>5, <2>6
<1> QED
  BY <1>2, <1>3 DEF OneScope

\* A change adds to what the events tell (Submit).
LEMMA HistoryGrows ==
  ASSUME IInv, RInv', WInv, WInv', DirFits(dir), History, NEW e, ToldBy(e)
  PROVE  History'
BY CreatesOnceOn, SchoolsKeepNamesOn, SchoolsComeOn, LeftBeforeOn, ScopesFitOn, GoneToldOn,
   NamesFreedOn, OneScopeOn DEF History

----------------------------------------------------------------------------
(* A prefill starts the history *)

\* The events of a sequence that are not of host groups are of S, one for each.
Lists(q, S) ==
  /\ q \in Seq(SyncEvent)
  /\ \A i \in DOMAIN q : q[i].kind = "host" \/ q[i].id \in S
  /\ \A i, k \in DOMAIN q : q[i].kind # "host" /\ q[k].kind # "host" /\ q[i].id = q[k].id => i = k
  /\ \A x \in S : \E i \in DOMAIN q : About(q[i], x)

\* One event for each element of a set (SetToSeq).
LEMMA ListedOnce ==
  ASSUME NEW S, IsFiniteSet(S), NEW q \in Seq(SyncEvent), Len(q) = Cardinality(S),
         \A j \in DOMAIN q : q[j].kind # "host" /\ q[j].id = SetToSeq(S)[j]
  PROVE  Lists(q, S)
<1> DEFINE n == Cardinality(S)
           order == SetToSeq(S)
<1>1. order \in [1..n -> S] /\ n \in Nat /\ DOMAIN q = 1..n
  BY SetToSeqTyped
<1>2. IsInjective(order)
  <2>1. n \in Nat /\ ExistsBijection(1..n, S)
    BY FS_CardinalityType
  <2>2. \E f : f \in [1..n -> S] /\ IsInjective(f)
    BY <2>1 DEF ExistsBijection, Bijection, Injection, IsInjective
  <2> QED
    BY <2>2 DEF SetToSeq
<1>3. \A x \in S : \E i \in 1..n : order[i] = x
  BY SetToSeqOnto
<1>4. \A j \in 1..n : q[j].kind # "host" /\ q[j].id = order[j]
  BY <1>1
<1> HIDE DEF order
<1>5. \A i, k \in 1..n : order[i] = order[k] => i = k
  BY <1>1, <1>2 DEF IsInjective
<1> QED
  BY <1>1, <1>3, <1>4, <1>5 DEF Lists, About

\* Events of different objects, one sequence behind the other.
LEMMA ListsTogether ==
  ASSUME NEW S, NEW T, NEW q, NEW r, Lists(q, S), Lists(r, T), S \cap T = {}
  PROVE  Lists(q \o r, S \cup T)
<1> DEFINE all == q \o r
<1>1. q \in Seq(SyncEvent) /\ r \in Seq(SyncEvent)
  BY DEF Lists
<1>2. /\ all \in Seq(SyncEvent) /\ Len(q) \in Nat /\ DOMAIN q = 1..Len(q)
      /\ \A m \in DOMAIN all :
           \/ m \in DOMAIN q /\ all[m] = q[m]
           \/ /\ m - Len(q) \in DOMAIN r /\ all[m] = r[m - Len(q)] /\ m \in Nat
  BY <1>1
<1>3. /\ \A i \in DOMAIN q : i \in DOMAIN all /\ all[i] = q[i]
      /\ \A j \in DOMAIN r : Len(q) + j \in DOMAIN all /\ all[Len(q) + j] = r[j]
  BY <1>1, Concatenated
<1> HIDE DEF all
<1>4. ASSUME NEW m \in DOMAIN all PROVE all[m].kind = "host" \/ all[m].id \in S \cup T
  BY <1>2 DEF Lists
<1>5. ASSUME NEW i \in DOMAIN all, NEW k \in DOMAIN all, all[i].kind # "host", all[k].kind # "host",
             all[i].id = all[k].id
      PROVE  i = k
  <2>1. CASE i \in DOMAIN q /\ all[i] = q[i] /\ k \in DOMAIN q /\ all[k] = q[k]
    BY <1>5, <2>1 DEF Lists
  <2>2. CASE /\ i - Len(q) \in DOMAIN r /\ all[i] = r[i - Len(q)] /\ i \in Nat
             /\ k - Len(q) \in DOMAIN r /\ all[k] = r[k - Len(q)] /\ k \in Nat
    <3>1. i - Len(q) = k - Len(q)
      BY <1>5, <2>2 DEF Lists
    <3> QED
      BY <1>2, <2>2, <3>1
  <2>3. CASE i \in DOMAIN q /\ all[i] = q[i] /\ k - Len(q) \in DOMAIN r /\ all[k] = r[k - Len(q)]
    BY <1>5, <2>3 DEF Lists
  <2>4. CASE k \in DOMAIN q /\ all[k] = q[k] /\ i - Len(q) \in DOMAIN r /\ all[i] = r[i - Len(q)]
    BY <1>5, <2>4 DEF Lists
  <2> QED
    BY <1>2, <2>1, <2>2, <2>3, <2>4
<1>6. ASSUME NEW x \in S \cup T PROVE \E i \in DOMAIN all : About(all[i], x)
  <2>1. CASE x \in S
    BY <1>3, <2>1 DEF Lists
  <2>2. CASE x \in T
    <3>1. PICK j \in DOMAIN r : About(r[j], x)
      BY <2>2 DEF Lists
    <3> QED
      BY <1>3, <3>1
  <2> QED
    BY <2>1, <2>2
<1>7. all \in Seq(SyncEvent)
  BY <1>2
<1> QED
  BY <1>4, <1>5, <1>6, <1>7 DEF Lists, all

\* A prefill publishes each object of the directory once (Prefill).
LEMMA PrefillLists ==
  ASSUME NEW d, DirKept(d)
  PROVE  Lists(PrefillEvents(d), DirObjects(d))
<1> USE StoreAssumption DEF StoreAssumption
<1> DEFINE schools == SetToSeq(DirSchools(d))
           groups == SetToSeq(DirGroups(d))
           hosts == SetToSeq(DirHostGroups(d))
           users == SetToSeq(DirUsers(d))
           a == [j \in DOMAIN schools |-> SchoolSnapshot(d, "create", schools[j])]
           b == [j \in DOMAIN groups |-> GroupSnapshot(d, "create", groups[j])]
           h == [j \in DOMAIN hosts |-> HostSnapshot(d, "create", hosts[j])]
           u == [j \in DOMAIN users |-> UserSnapshot(d, "create", users[j])]
<1>1. PrefillEvents(d) = ((a \o b) \o h) \o u
  BY DEF PrefillEvents
<1>2. /\ schools \in [1..Cardinality(DirSchools(d)) -> DirSchools(d)] /\ Cardinality(DirSchools(d)) \in Nat
      /\ groups \in [1..Cardinality(DirGroups(d)) -> DirGroups(d)] /\ Cardinality(DirGroups(d)) \in Nat
      /\ hosts \in [1..Cardinality(DirHostGroups(d)) -> DirHostGroups(d)]
      /\ Cardinality(DirHostGroups(d)) \in Nat
      /\ users \in [1..Cardinality(DirUsers(d)) -> DirUsers(d)] /\ Cardinality(DirUsers(d)) \in Nat
  BY DirFinite, SetToSeqTyped
<1>3. Lists(a, DirSchools(d))
  <2>1. \A x \in DirSchools(d) : SchoolSnapshot(d, "create", x) \in SyncEvent
    BY SchoolSnapshotTyped
  <2>2. \A x \in DirSchools(d) : SchoolSnapshot(d, "create", x).id = x
                                 /\ SchoolSnapshot(d, "create", x).kind # "host"
    BY DEF SchoolSnapshot
  <2> DEFINE n == Cardinality(DirSchools(d))
  <2> HIDE DEF schools, n
  <2>3. a \in [1..n -> SyncEvent] /\ \A j \in 1..n : a[j].id = schools[j] /\ a[j].kind # "host"
    BY <1>2, <2>1, <2>2 DEF schools, n
  <2>4. n \in Nat
    BY <1>2 DEF n
  <2> HIDE DEF a
  <2>5. a \in Seq(SyncEvent) /\ Len(a) = n /\ \A j \in DOMAIN a : a[j].id = schools[j] /\ a[j].kind # "host"
    BY <2>3, <2>4
  <2> QED
    BY <2>5, ListedOnce, DirFinite DEF n, schools
<1>4. Lists(b, DirGroups(d))
  <2>1. \A x \in DirGroups(d) : GroupSnapshot(d, "create", x) \in SyncEvent
    BY GroupSnapshotTyped
  <2>2. \A x \in DirGroups(d) : GroupSnapshot(d, "create", x).id = x
                                /\ GroupSnapshot(d, "create", x).kind # "host"
    BY DEF GroupSnapshot
  <2> DEFINE n == Cardinality(DirGroups(d))
  <2> HIDE DEF groups, n
  <2>3. b \in [1..n -> SyncEvent] /\ \A j \in 1..n : b[j].id = groups[j] /\ b[j].kind # "host"
    BY <1>2, <2>1, <2>2 DEF groups, n
  <2>4. n \in Nat
    BY <1>2 DEF n
  <2> HIDE DEF b
  <2>5. b \in Seq(SyncEvent) /\ Len(b) = n /\ \A j \in DOMAIN b : b[j].id = groups[j] /\ b[j].kind # "host"
    BY <2>3, <2>4
  <2> QED
    BY <2>5, ListedOnce, DirFinite DEF n, groups
<1>5. Lists(h, {})
  <2>1. \A x \in DirHostGroups(d) : HostSnapshot(d, "create", x) \in SyncEvent
                                    /\ HostSnapshot(d, "create", x).kind = "host"
    BY HostSnapshotTyped DEF HostSnapshot, DirHostGroups
  <2> DEFINE n == Cardinality(DirHostGroups(d))
  <2> HIDE DEF hosts, n
  <2>2. h \in [1..n -> SyncEvent] /\ \A j \in 1..n : h[j].kind = "host"
    BY <1>2, <2>1 DEF hosts, n
  <2>3. n \in Nat
    BY <1>2 DEF n
  <2> HIDE DEF h
  <2> QED
    BY <2>2, <2>3 DEF Lists
<1>6. Lists(u, DirUsers(d))
  <2>1. \A x \in DirUsers(d) : UserSnapshot(d, "create", x) \in SyncEvent
    BY UserSnapshotTyped
  <2>2. \A x \in DirUsers(d) : UserSnapshot(d, "create", x).id = x
                               /\ UserSnapshot(d, "create", x).kind # "host"
    BY DEF UserSnapshot
  <2> DEFINE n == Cardinality(DirUsers(d))
  <2> HIDE DEF users, n
  <2>3. u \in [1..n -> SyncEvent] /\ \A j \in 1..n : u[j].id = users[j] /\ u[j].kind # "host"
    BY <1>2, <2>1, <2>2 DEF users, n
  <2>4. n \in Nat
    BY <1>2 DEF n
  <2> HIDE DEF u
  <2>5. u \in Seq(SyncEvent) /\ Len(u) = n /\ \A j \in DOMAIN u : u[j].id = users[j] /\ u[j].kind # "host"
    BY <2>3, <2>4
  <2> QED
    BY <2>5, ListedOnce, DirFinite DEF n, users
<1>7. DirSchools(d) \cap DirGroups(d) = {} /\ (DirSchools(d) \cup DirGroups(d)) \cap DirUsers(d) = {}
  BY DEF DirSchools, DirGroups, DirUsers
<1> HIDE DEF a, b, h, u
<1>8. Lists(a \o b, DirSchools(d) \cup DirGroups(d))
  BY <1>3, <1>4, <1>7, ListsTogether
<1>9. Lists((a \o b) \o h, DirSchools(d) \cup DirGroups(d))
  <2>1. Lists((a \o b) \o h, (DirSchools(d) \cup DirGroups(d)) \cup {})
    BY <1>5, <1>8, ListsTogether
  <2> QED
    BY <2>1
<1>10. Lists(((a \o b) \o h) \o u, (DirSchools(d) \cup DirGroups(d)) \cup DirUsers(d))
  BY <1>6, <1>7, <1>9, ListsTogether
<1> QED
  BY <1>1, <1>10 DEF DirObjects

\* The events of a prefill are exact.
LEMMA PrefillExact ==
  ASSUME NEW d, DirKept(d)
  PROVE  /\ PrefillEvents(d) \in Seq(Exact(d))
         /\ \A i \in DOMAIN PrefillEvents(d) : /\ PrefillEvents(d)[i] \in Exact(d)
                                               /\ PrefillEvents(d)[i].op = "create"
                                               /\ PrefillEvents(d)[i].kind # "group"
                                                    => PrefillEvents(d)[i].scope = TRUE
<1> DEFINE T == {e \in Exact(d) : e.op = "create" /\ (e.kind # "group" => e.scope = TRUE)}
<1>1. \A s \in DirSchools(d) : SchoolSnapshot(d, "create", s) \in T
  BY SnapshotsExact DEF SchoolSnapshot
<1>2. \A g \in DirGroups(d) : GroupSnapshot(d, "create", g) \in T
  BY SnapshotsExact DEF GroupSnapshot
<1>3. \A u \in DirUsers(d) : UserSnapshot(d, "create", u) \in T
  BY SnapshotsExact DEF UserSnapshot
<1>4. \A h \in DirHostGroups(d) : HostSnapshot(d, "create", h) \in T
  BY SnapshotsExact DEF HostSnapshot
<1> HIDE DEF T
<1>5. PrefillEvents(d) \in Seq(T)
  BY <1>1, <1>2, <1>3, <1>4, PrefillOf
<1>6. \A i \in DOMAIN PrefillEvents(d) : PrefillEvents(d)[i] \in T
  BY <1>5
<1>7. PrefillEvents(d) \in Seq(Exact(d))
  BY <1>5 DEF T
<1> QED
  BY <1>6, <1>7 DEF T

\* A prefill tells all of the directory, schools first.
LEMMA HistoryStarts ==
  ASSUME DirFits(dir), log = PrefillEvents(dir)
  PROVE  History
<1>1. DirKept(dir) /\ SchoolsFound(dir)
  BY DEF DirFits
<1>2. Lists(log, DirObjects(dir))
  BY <1>1, PrefillLists
<1>3. \A i \in DOMAIN log : /\ log[i] \in Exact(dir) /\ log[i].op = "create"
                            /\ log[i].kind # "group" => log[i].scope = TRUE
  BY <1>1, PrefillExact
<1>4. \A i \in DOMAIN log : Carries(dir, log[i]) /\ ~Removes(log[i]) /\ log[i] \in SyncEvent
  BY <1>3, ExactCarries DEF Removes
<1>5. log \in Seq(SyncEvent)
  BY <1>2 DEF Lists
<1>6. CreatesOnce
  BY <1>2, <1>5 DEF Lists, CreatesOnce, About
<1>7. SchoolsKeepNames
  BY <1>4 DEF SchoolsKeepNames, NamesSchool, Carries
<1>8. SchoolsCome
  <2> SUFFICES ASSUME NEW j \in DOMAIN log, NEW sn \in SchoolsWanted(log[j])
               PROVE  \E i \in DOMAIN log : i < j /\ NamesSchool(log[i]) /\ log[i].name = sn
    BY <1>4 DEF SchoolsCome
  <2>1. sn \in DirSchoolNames(dir)
    BY <1>3, WantedAreFound
  <2>2. PICK s \in DirSchools(dir) : dir.school[s] = sn
    BY <2>1 DEF DirSchoolNames
  <2>3. PICK n \in Nat :
          /\ \A i \in DOMAIN log : i > n <=> log[i].kind # "school"
          /\ \A t \in DirSchools(dir) : \E k \in 1..n : k \in DOMAIN log /\ About(log[k], t)
    BY <1>1, PrefilledSchools
  <2>4. PICK i \in 1..n : i \in DOMAIN log /\ About(log[i], s)
    BY <2>2, <2>3
  <2>5. log[j].kind # "school"
    BY DEF SchoolsWanted, SchoolsOf
  <2>6. j \in Nat /\ j > n
    BY <1>5, <2>3, <2>5
  <2>7. log[i].kind = "school" /\ log[i].op # "delete" /\ i < j
    BY <1>3, <2>3, <2>4, <2>6
  <2>8. log[i].name = sn
    BY <1>4, <2>2, <2>4, <2>7 DEF Carries, About
  <2> QED
    BY <2>4, <2>7, <2>8 DEF NamesSchool
<1>9. LeftBefore
  BY <1>4 DEF LeftBefore
<1>10. ScopesFit
  BY <1>1, <1>3, <1>4 DEF ScopesFit, Carries, SchoolsFound
<1>11. GoneTold
  BY <1>2 DEF Lists, GoneTold
<1>12. NamesFreed
  <2> SUFFICES ASSUME NEW i \in DOMAIN log, NEW k \in DOMAIN log, log[i].kind = log[k].kind,
                      log[i].kind # "host", log[i].id # log[k].id, log[i].name = log[k].name
               PROVE  FALSE
    BY DEF NamesFreed
  <2>1. log[i].kind \in {"school", "group", "user"}
    BY <1>4 DEF SyncEvent, SchoolEvent, GroupEvent, UserEvent, HostEvent, DeleteEvent
  <2> QED
    BY <1>3, <1>4, <2>1, NamesApart
<1>13. OneScope
  <2>1. ASSUME NEW i \in DOMAIN log, log[i].kind = "group"
        PROVE  log[i].scope = dir.group[log[i].id].scope /\ log[i].id \in DirGroups(dir)
    BY <1>3, <1>4, <2>1 DEF Carries
  <2>2. ASSUME NEW i \in DOMAIN log, NEW k \in DOMAIN log, log[i].kind = "group",
               About(log[k], log[i].id)
        PROVE  log[k].scope = log[i].scope
    <3>1. i = k
      BY <1>2, <2>2 DEF Lists, About
    <3> QED
      BY <3>1
  <2> QED
    BY <2>1, <2>2 DEF OneScope
<1>14. AllTold
  BY <1>2 DEF Lists, AllTold
<1> QED
  BY <1>6, <1>7, <1>8, <1>9, <1>10, <1>11, <1>12, <1>13, <1>14 DEF History

----------------------------------------------------------------------------
(* What a handler writes of its own object *)

\* The DN tables after set_mapping of the event's object.
MappedDn(d, e) ==
  [y \in Object |-> IF y = e.id THEN EventDn(e) ELSE IF d.dn[y] = EventDn(e) THEN NoRow ELSE d.dn[y]]

\* The event's object is stored under the event's name.
Named(n, e) ==
  /\ e.kind = "school" => e.id \in Schools(n) /\ n.school[e.id] = e.name
  /\ e.kind = "group" => e.id \in Groups(n) /\ n.group[e.id].name = e.name
  /\ e.kind = "user" => e.id \in Users(n) /\ n.user[e.id] = e.name

\* A create event leaves the DN of an object it finds as it is.
OwnWrites(d, n, e) ==
  \/ n = d /\ (Stored(d, e.id) => e.op = "create")
  \/ n.dn = d.dn /\ Named(n, e) /\ e.op = "create" /\ Stored(d, e.id)
  \/ n.dn = MappedDn(d, e) /\ Named(n, e)

\* Recording the DN of an event's object (set_mapping).
LEMMA MappedOnce ==
  ASSUME NEW d \in Database, NEW e, e.id \in Object, EventDn(e) \in Dn
  PROVE  LET n == SetMapping(d, e.id, EventDn(e))
         IN n.dn = MappedDn(d, e) /\ SameRows(d, n)
<1> DEFINE dn == EventDn(e)
           x == e.id
           n == SetMapping(d, x, dn)
           f == [y \in Object |-> IF y = x THEN dn ELSE IF d.dn[y] = dn THEN NoRow ELSE d.dn[y]]
<1>1. x \in Object
  OBVIOUS
<1>2. MappedDn(d, e) = f
  BY DEF MappedDn
<1> HIDE DEF dn, x
<1>3. SameRows(d, n)
  BY <1>1, MappingOnly
<1>4. n.dn = f
  BY <1>1 DEF Database, Unmap, SetMapping
<1> QED
  BY <1>2, <1>3, <1>4 DEF dn, x

\* Schools (_handle_school_create, _handle_school_modify).
LEMMA SchoolOwnWrites ==
  ASSUME NEW d, Kept(d), NEW e \in SchoolEvent
  PROVE  OwnWrites(d, HandleEvent(d, e), e)
<1> USE StoreAssumption DEF StoreAssumption
<1> DEFINE n == HandleEvent(d, e)
           w == PutSchool(d, e.id, e.name)
           Map(x) == SetMapping(x, e.id, EventDn(e))
           m == Map(d)
           a == PutSchool(m, e.id, e.name)
<1>1. e.id \in School /\ e.id \in Object /\ e.name \in SchoolName /\ EventDn(e) \in Dn
      /\ e.kind = "school" /\ d \in Database
  BY SchoolDnTyped DEF SchoolEvent, Object, Kept
<1>2. \/ n = w /\ e.op = "create" /\ Stored(d, e.id)
      \/ n = Map(w)
      \/ n = a
  BY DEF SchoolEvent, HandleEvent, HandleSchoolCreate, HandleSchoolModify, Stored
<1>3. w \in Database /\ w.dn = d.dn /\ w.school[e.id] = e.name
  BY <1>1 DEF Database, PutSchool
<1>4. Map(w).dn = MappedDn(w, e) /\ Map(w).school = w.school
  BY <1>1, <1>3, MappedOnce DEF SameRows
<1>5. m.dn = MappedDn(d, e) /\ m.school = d.school
  BY <1>1, MappedOnce DEF SameRows
<1>6. a.dn = m.dn /\ a.school[e.id] = e.name
  <2>1. m.school \in [School -> SchoolName \cup {NoRow}]
    BY <1>1, <1>5 DEF Database
  <2>2. m.school[e.id] = m.school[e.id] /\ e.id \in DOMAIN m.school
    BY <1>1, <2>1
  <2>3. a = [m EXCEPT !.school = [m.school EXCEPT ![e.id] = e.name]]
    BY DEF PutSchool
  <2>4. m = [m EXCEPT !.dn = m.dn] /\ DOMAIN m = DOMAIN d
    BY <1>1 DEF SetMapping, Unmap, Database
  <2>5. "school" \in DOMAIN m /\ "dn" \in DOMAIN m
    BY <1>1, <2>4 DEF Database
  <2> HIDE DEF m, a
  <2> QED
    BY <2>2, <2>3, <2>5
<1>7. MappedDn(w, e) = MappedDn(d, e)
  BY <1>3 DEF MappedDn
<1> HIDE DEF n, w, a, m, Map
<1>8. \A x : x.school[e.id] = e.name => Named(x, e)
  BY <1>1 DEF Named, Schools
<1> QED
  BY <1>2, <1>3, <1>4, <1>5, <1>6, <1>7, <1>8 DEF OwnWrites, n

\* Users (_handle_user_create, _handle_user_modify).
LEMMA UserOwnWrites ==
  ASSUME NEW d, Kept(d), SchoolsUnique(d), NEW e \in UserEvent
  PROVE  OwnWrites(d, HandleEvent(d, e), e)
<1> USE StoreAssumption DEF StoreAssumption
<1> DEFINE n == HandleEvent(d, e)
           w == ApplyUser(d, e)
           Map(x) == SetMapping(x, e.id, EventDn(e))
           m == Map(d)
           a == ApplyUser(m, e)
<1>1. e.id \in User /\ e.id \in Object /\ e.name \in UserName /\ EventDn(e) \in Dn
      /\ e.kind = "user" /\ d \in Database
  BY UserDnTyped DEF UserEvent, Object, Kept
<1>2. \/ n = d /\ (Stored(d, e.id) => e.op = "create")
      \/ n = w /\ e.op = "create" /\ Stored(d, e.id)
      \/ n = Map(w)
      \/ n = a
  <2>1. Stored(d, e.id) <=> e.id \in Users(d)
    BY <1>1 DEF Stored, Schools, Groups
  <2> QED
    BY <2>1 DEF UserEvent, HandleEvent, HandleUserCreate, HandleUserModify
<1>3. \A x : x.user[e.id] = e.name => Named(x, e)
  BY <1>1 DEF Named, Users
<1>4. w \in Database /\ w.dn = d.dn /\ w.user[e.id] = e.name
  <2>1. w \in Database
    BY ApplyUserKeeps DEF Kept
  <2>2. \A s, p, l : /\ PutUser(d, e.id, e.name, s, p, l).dn = d.dn
                    /\ PutUser(d, e.id, e.name, s, p, l).user = [d.user EXCEPT ![e.id] = e.name]
    BY <1>1 DEF Database, PutUser
  <2>3. w.dn = d.dn /\ w.user = [d.user EXCEPT ![e.id] = e.name]
    BY <2>2 DEF ApplyUser
  <2>4. DOMAIN d.user = User
    BY <1>1 DEF Database
  <2> QED
    BY <1>1, <2>1, <2>3, <2>4
<1>5. Map(w).dn = MappedDn(w, e) /\ Map(w).user = w.user
  BY <1>1, <1>4, MappedOnce DEF SameRows
<1>6. m.dn = MappedDn(d, e) /\ m \in Database
  <2>1. m.dn = MappedDn(d, e)
    BY <1>1, MappedOnce
  <2>2. m \in Database
    BY <1>1 DEF SetMapping, Unmap, Database
  <2> QED
    BY <2>1, <2>2
<1>7. a.dn = m.dn /\ a.user[e.id] = e.name
  <2> HIDE DEF m
  <2> QED
    BY <1>1, <1>6 DEF Database, ApplyUser, PutUser
<1>8. MappedDn(w, e) = MappedDn(d, e)
  BY <1>4 DEF MappedDn
<1> HIDE DEF n, w, a, m, Map
<1> QED
  BY <1>2, <1>3, <1>4, <1>5, <1>6, <1>7, <1>8 DEF OwnWrites, n

\* Groups (_handle_group_create, _handle_group_modify).
LEMMA GroupOwnWrites ==
  ASSUME NEW d, Kept(d), NEW e \in GroupEvent
  PROVE  OwnWrites(d, HandleEvent(d, e), e)
<1> USE StoreAssumption DEF StoreAssumption
<1> DEFINE dn == EventDn(e)
           n == HandleEvent(d, e)
           w == NewGroup(d, e)
           m == Unmap(d, e.id, dn)
           a == ApplyGroup(m, e)
           b == ApplyGroup(d, e)
           Map(x) == SetMapping(x, e.id, dn)
<1>1. e.id \in Group /\ e.id \in Object /\ e.name \in GroupName /\ dn \in Dn
      /\ e.kind = "group" /\ d \in Database
  BY GroupDnTyped DEF GroupEvent, Object, Kept
<1>2. \/ n = d /\ (Stored(d, e.id) => e.op = "create")
      \/ n = Map(w) /\ SchoolsNamed(d, {e.school}) # {}
      \/ n = b /\ e.op = "create" /\ e.id \in Groups(d) /\ Stored(d, e.id)
      \/ n = Map(a) /\ e.id \in Groups(d)
  <2>1. Stored(d, e.id) <=> e.id \in Groups(d)
    BY <1>1 DEF Stored, Schools, Users
  <2> QED
    BY <2>1 DEF GroupEvent, HandleEvent, HandleGroupCreate, HandleGroupModify
<1>3. ASSUME NEW x, Kept(x), e.id \in Groups(x)
      PROVE  LET y == ApplyGroup(x, e)
             IN y.dn = x.dn /\ Named(y, e) /\ y \in Database
  <2> DEFINE y == ApplyGroup(x, e)
  <2>1. y.dn = x.dn /\ y.group[e.id].name = e.name
    BY <1>1, <1>3 DEF Kept, Database, ApplyGroup, ModifyGroup
  <2>2. Kept(y) /\ e.id \in Groups(y)
    BY <1>3, ApplyGroupKeeps
  <2> HIDE DEF y
  <2> QED
    BY <1>1, <2>1, <2>2 DEF Named, Kept, y
<1>4. ASSUME SchoolsNamed(d, {e.school}) # {}
      PROVE  w.dn = d.dn /\ Named(w, e) /\ w \in Database
  <2>1. w.dn = d.dn /\ w.group[e.id].name = e.name
    BY <1>1 DEF Database, NewGroup, CreateGroup
  <2>2. Kept(w) /\ e.id \in Groups(w)
    BY <1>4, NewGroupKeeps
  <2> HIDE DEF w
  <2> QED
    BY <1>1, <2>1, <2>2 DEF Named, Kept, w
<1>5. /\ Kept(m) /\ m.group = d.group
      /\ m.dn = [y \in Object |-> IF y = e.id \/ d.dn[y] = dn THEN NoRow ELSE d.dn[y]]
  <2>1. Kept(m) /\ m.group = d.group
    BY <1>1, UnmapKeeps
  <2>2. m.dn = [y \in Object |-> IF y = e.id \/ d.dn[y] = dn THEN NoRow ELSE d.dn[y]]
    <3> HIDE DEF dn
    <3> QED
      BY <1>1 DEF Database, Unmap
  <2> QED
    BY <2>1, <2>2
<1>6. ASSUME NEW x \in Database, Named(x, e)
      PROVE  Map(x).dn = MappedDn(x, e) /\ Named(Map(x), e)
  <2>1. Map(x).dn = MappedDn(x, e) /\ SameRows(x, Map(x))
    BY <1>1, MappedOnce
  <2> QED
    BY <1>1, <1>6, <2>1 DEF SameRows, Named, Groups
<1>7. w.dn = d.dn => MappedDn(w, e) = MappedDn(d, e)
  BY DEF MappedDn
<1>8. a.dn = m.dn => MappedDn(a, e) = MappedDn(d, e)
  <2>1. dn # NoRow
    BY <1>1
  <2> HIDE DEF a, m
  <2> QED
    BY <1>5, <2>1 DEF MappedDn
<1> HIDE DEF n, w, a, b, m, dn, Map
<1>9. CASE n = Map(w) /\ SchoolsNamed(d, {e.school}) # {}
  <2>1. Map(w).dn = MappedDn(w, e) /\ Named(Map(w), e)
    BY <1>4, <1>6, <1>9
  <2> QED
    BY <1>4, <1>7, <1>9, <2>1 DEF OwnWrites, n
<1>10. CASE n = b /\ e.op = "create" /\ e.id \in Groups(d) /\ Stored(d, e.id)
  BY <1>3, <1>10 DEF OwnWrites, n, b
<1>11. CASE n = Map(a) /\ e.id \in Groups(d)
  <2>1. e.id \in Groups(m)
    BY <1>5, <1>11 DEF Groups
  <2>2. a.dn = m.dn /\ Named(a, e) /\ a \in Database
    BY <1>3, <1>5, <2>1 DEF a
  <2>3. Map(a).dn = MappedDn(a, e) /\ Named(Map(a), e)
    BY <1>6, <2>2
  <2> QED
    BY <1>8, <1>11, <2>2, <2>3 DEF OwnWrites, n
<1>12. CASE n = d /\ (Stored(d, e.id) => e.op = "create")
  BY <1>12 DEF OwnWrites, n
<1> QED
  BY <1>2, <1>9, <1>10, <1>11, <1>12

\* The object of e is stored as e tells, its DN included.
StoredBy(d, e) == e.op # "delete" /\ d.dn[e.id] = EventDn(e) /\ Named(d, e)

\* The kinds of the events that write an object.
LEMMA Writers ==
  ASSUME NEW e \in SyncEvent, e.kind # "host", e.op # "delete"
  PROVE  /\ e \in SchoolEvent \/ e \in GroupEvent \/ e \in UserEvent
         /\ e.id \in Object /\ EventDn(e) \in Dn
         /\ e.kind = "school" <=> e \in SchoolEvent
         /\ e.kind = "group" <=> e \in GroupEvent
         /\ e.kind = "user" <=> e \in UserEvent
<1>1. e \in SchoolEvent \/ e \in GroupEvent \/ e \in UserEvent
  BY DEF SyncEvent, HostEvent, DeleteEvent
<1>2. EventDn(e) \in Dn
  BY <1>1, SchoolDnTyped, GroupDnTyped, UserDnTyped
<1> QED
  BY <1>1, <1>2 DEF SchoolEvent, GroupEvent, UserEvent, Object

\* What a handler writes of its own object (KelvinConnectorEventHandler).
LEMMA OwnIsWritten ==
  ASSUME NEW d, Kept(d), SchoolsUnique(d), NEW e \in SyncEvent, e.kind # "host", e.op # "delete"
  PROVE  OwnWrites(d, HandleEvent(d, e), e)
BY Writers, SchoolOwnWrites, GroupOwnWrites, UserOwnWrites

\* Another object keeps its DN, unless the event's object takes it (set_mapping).
LEMMA OthersDns ==
  ASSUME NEW d, Kept(d), SchoolsUnique(d), NEW e \in SyncEvent, NEW x \in Object, ~About(e, x)
  PROVE  LET n == HandleEvent(d, e)
         IN \/ n.dn[x] = d.dn[x]
            \/ e.kind # "host" /\ e.op # "delete" /\ d.dn[x] = EventDn(e) /\ Named(n, e)
<1> DEFINE n == HandleEvent(d, e)
<1>1. d \in Database
  BY DEF Kept
<1>2. CASE e.kind # "host" /\ e.op # "delete"
  <2>1. OwnWrites(d, n, e)
    BY <1>2, OwnIsWritten
  <2> HIDE DEF n
  <2>2. x # e.id
    BY <1>2 DEF About
  <2>3. MappedDn(d, e)[x] = IF d.dn[x] = EventDn(e) THEN NoRow ELSE d.dn[x]
    BY <2>2 DEF MappedDn
  <2> QED
    BY <1>2, <2>1, <2>3 DEF OwnWrites, n
<1>3. CASE e.kind = "host"
  BY <1>1, <1>3 DEF HandleEvent, HandleHostGroup, SetServers, Database
<1>4. CASE e.kind # "host" /\ e.op = "delete"
  <2>1. e.kind \in {"school", "group", "user"} /\ x # e.id
    BY <1>4 DEF SyncEvent, SchoolEvent, GroupEvent, UserEvent, HostEvent, DeleteEvent, About
  <2>2. n = DeleteSchool(d, e.id) \/ n = DeleteGroup(d, e.id) \/ n = DeleteUser(d, e.id)
    BY <1>4, <2>1 DEF HandleEvent, HandleDelete
  <2>3. n.dn = [d.dn EXCEPT ![e.id] = NoRow]
    <3> HIDE DEF n
    <3> QED
      BY <1>1, <2>2 DEF DeleteSchool, DeleteGroup, DeleteUser, Database
  <2> HIDE DEF n
  <2> QED
    BY <1>1, <2>1, <2>3 DEF Database, n
<1> QED
  BY <1>2, <1>3, <1>4

\* A DN tells the kind and the name of its object (UDM).
LEMMA DnsTell ==
  ASSUME NEW e, NEW f, e.kind \in {"school", "group", "user"}, f.kind \in {"school", "group", "user"},
         EventDn(e) = EventDn(f)
  PROVE  e.kind = f.kind /\ e.name = f.name
<1>1. \A c : /\ c.kind = "school" => EventDn(c)[1] = "ou" /\ EventDn(c)[2] = c.name
             /\ c.kind = "group" => EventDn(c)[1] = "cn" /\ EventDn(c)[2] = c.name
             /\ c.kind = "user" => EventDn(c)[1] = "uid" /\ EventDn(c)[2] = c.name
  BY DEF EventDn, SchoolDn, GroupDn, UserDn
<1> HIDE DEF EventDn
<1> QED
  BY <1>1

\* What an object is stored as stays while the events of others are handled.
LEMMA StoredStays ==
  ASSUME NEW d, Kept(d), SchoolsUnique(d), NEW e \in SyncEvent, ConstraintsHold(HandleEvent(d, e)),
         NEW f \in SyncEvent, f.kind # "host", ~About(e, f.id), StoredBy(d, f)
  PROVE  StoredBy(HandleEvent(d, e), f)
<1> DEFINE n == HandleEvent(d, e)
<1>1. /\ f.op # "delete" /\ f.id \in Object /\ d.dn[f.id] = EventDn(f) /\ Named(d, f)
      /\ f.kind \in {"school", "group", "user"}
      /\ f.kind = "school" => f.id \in School
      /\ f.kind = "group" => f.id \in Group
      /\ f.kind = "user" => f.id \in User
  BY Writers DEF StoredBy, SchoolEvent, GroupEvent, UserEvent
<1>2. RowKept(d, n, f.id)
  BY <1>1, OthersKept
<1>3. \/ n.dn[f.id] = d.dn[f.id]
      \/ e.kind # "host" /\ e.op # "delete" /\ d.dn[f.id] = EventDn(e) /\ Named(n, e)
  BY <1>1, OthersDns
<1> HIDE DEF n
<1>4. Named(n, f)
  BY <1>1, <1>2 DEF Named, RowKept, Schools, Groups, Users
<1>5. ASSUME e.kind # "host", e.op # "delete", d.dn[f.id] = EventDn(e), Named(n, e)
      PROVE  FALSE
  <2>1. e.kind \in {"school", "group", "user"} /\ e.id # f.id
    BY <1>5, Writers DEF About, SchoolEvent, GroupEvent, UserEvent
  <2>2. e.kind = f.kind /\ e.name = f.name
    <3>1. EventDn(e) = EventDn(f)
      BY <1>1, <1>5
    <3>2. e.kind \in {"school", "group", "user"} /\ f.kind \in {"school", "group", "user"}
      BY <1>1, <2>1
    <3> QED
      BY <3>1, <3>2, DnsTell
  <2>3. ConstraintsHold(n)
    BY DEF n
  <2> QED
    BY <1>4, <1>5, <2>1, <2>2, <2>3 DEF Named, ConstraintsHold
<1> QED
  BY <1>1, <1>3, <1>4, <1>5 DEF StoredBy, n

----------------------------------------------------------------------------
(* What has been committed *)

Committed(i) == queue[i].commits > 0

\* The j-th event is the last one about x that was committed.
LastCommitted(x, j) ==
  /\ j \in DOMAIN log /\ About(log[j], x) /\ Committed(j)
  /\ \A k \in DOMAIN log : About(log[k], x) /\ Committed(k) => k <= j

\* A stored object is stored as the last event about it that was committed tells.
StoredAsTold ==
  \A x \in Object : Stored(db, x) => \E j : LastCommitted(x, j) /\ StoredBy(db, log[j])

\* A school that was written and not removed has its name.
SchoolsStored ==
  \A i \in DOMAIN log :
    /\ NamesSchool(log[i]) /\ Committed(i)
    /\ \A k \in DOMAIN log : Removes(log[k]) /\ About(log[k], log[i].id) => ~Committed(k)
    => db.school[log[i].id] = log[i].name

\* The class of an event is its relevance, and decides how it may be settled.
VerdictsFit ==
  /\ \A i \in D!Events :
       /\ queue[i].class = (IF IsRelevant(log[i]) THEN "relevant" ELSE "irrelevant")
       /\ queue[i].outcome = "skipped" => ~IsRelevant(log[i])
       /\ queue[i].outcome # "malformed"
  /\ pc = "skipped" => ~IsRelevant(log[cur])
  /\ pc # "malformed"

\* While nothing is dropped, groups and users are in schools their events name.
PlacedBy ==
  /\ \A g \in Group, j \in DOMAIN log :
       LastCommitted(g, j) /\ Stored(db, g) => db.school[db.group[g].school] = log[j].school
  /\ \A u \in User, j \in DOMAIN log :
       LastCommitted(u, j) /\ Stored(db, u)
         => /\ \E s \in School : <<u, s>> \in db.primary
            /\ \A s \in School : <<u, s>> \in db.member => db.school[s] \in log[j].schools

\* There is one last event (the order of the queue).
LEMMA OneLastCommitted ==
  ASSUME IInv, NEW x, NEW j, NEW k, LastCommitted(x, j), LastCommitted(x, k)
  PROVE  j = k
<1>1. DOMAIN log = 1..Len(log) /\ Len(log) \in Nat
  BY LoggedTyped
<1> QED
  BY <1>1 DEF LastCommitted

\* Where the committed events are when the current one is (process_one_event).
LEMMA CommittedSoFar ==
  ASSUME IInv, CommitsInOrder, cur \in D!Events, D!OldestPending(cur)
  PROVE  \A k \in DOMAIN log : Committed(k) => k <= cur
<1>1. DOMAIN log = 1..Len(log) /\ Len(log) \in Nat /\ D!Events = DOMAIN log
  BY LoggedTyped
<1>2. ASSUME NEW k \in DOMAIN log, Committed(k), k > cur PROVE FALSE
  BY <1>1, <1>2 DEF CommitsInOrder, Committed, D!OldestPending
<1> QED
  BY <1>1, <1>2

\* The commit of the current event, as the lemmas below use it.
Commits ==
  /\ Attempt /\ log' = log /\ dir' = dir /\ cur \in DOMAIN log
  /\ ~HandlerFails(db, log[cur]) /\ db' = HandleEvent(db, log[cur]) /\ queue'[cur].commits > 0

\* After a commit the last event of the current object is the current one, and
\* that of any other object is the one it was.
LEMMA LastAfterCommit ==
  ASSUME IInv, RInv, Commits, NEW c, c = cur
  PROVE  /\ \A x : About(log[c], x) => LastCommitted(x, c)'
         /\ \A x, j : ~About(log[c], x) => (LastCommitted(x, j)' <=> LastCommitted(x, j))
         /\ \A k \in DOMAIN log : k # c => (Committed(k)' <=> Committed(k))
         /\ \A k \in DOMAIN log : Committed(k) => k <= c
         /\ Committed(c)'
         /\ D!OldestPending(c) /\ c \in D!Events /\ D!Events = DOMAIN log
         /\ c \in DOMAIN log /\ DOMAIN log = 1..Len(log) /\ Len(log) \in Nat
<1>1. /\ D!Events = DOMAIN log /\ D!OldestPending(c)
      /\ \A i \in DOMAIN log : i # c => queue'[i].commits = queue[i].commits
      /\ DOMAIN log = 1..Len(log) /\ Len(log) \in Nat
  BY AttemptCommits, LoggedTyped DEF RInv, Commits
<1>2. \A k \in DOMAIN log : Committed(k) => k <= c
  BY <1>1, CommittedSoFar DEF RInv, Commits
<1>3. \A k \in DOMAIN log : k # c => (Committed(k)' <=> Committed(k))
  BY <1>1 DEF Committed
<1>4. Committed(c)' /\ log' = log /\ c \in DOMAIN log
  BY DEF Committed, Commits
<1>5. ASSUME NEW x, About(log[c], x) PROVE LastCommitted(x, c)'
  <2>1. \A k \in DOMAIN log : Committed(k)' => k <= c
    BY <1>1, <1>2, <1>3, <1>4
  <2> QED
    BY <1>4, <1>5, <2>1 DEF LastCommitted
<1>6. ASSUME NEW x, NEW j, ~About(log[c], x) PROVE LastCommitted(x, j)' <=> LastCommitted(x, j)
  BY <1>3, <1>4, <1>6 DEF LastCommitted
<1> QED
  BY <1>1, <1>2, <1>3, <1>4, <1>5, <1>6

----------------------------------------------------------------------------
(* What a commit does to the rows *)

\* What a commit does to the database (one transaction).
LEMMA CommittedStore ==
  ASSUME IInv, Commits, NEW c, c = cur
  PROVE  /\ Kept(db) /\ SchoolsUnique(db) /\ ConstraintsHold(db)
         /\ log[c] \in SyncEvent /\ db' = HandleEvent(db, log[c])
         /\ ConstraintsHold(db') /\ ~SchoolMissing(db, log[c])
         /\ log' = log /\ dir' = dir
         /\ \A i \in DOMAIN log : /\ log[i] \in SyncEvent
                                  /\ log[i].kind # "host" => log[i].id \in Object
<1>1. Kept(db) /\ SchoolsUnique(db) /\ ConstraintsHold(db)
  BY DEF IInv, TypeOK, StoreConsistent, ConstraintsHold, Kept, SchoolsUnique
<1> QED
  BY <1>1, LoggedTyped DEF Commits, HandlerFails

\* Handlers leave an object stored as the last committed event about it tells:
\* its own events write it, and no other takes its name or its DN
\* (SynchronizationManager).
LEMMA CommitKeepsTold ==
  ASSUME IInv, RInv, CreatesOnce, StoredAsTold, Commits
  PROVE  StoredAsTold'
<1> PICK c : c = cur
  OBVIOUS
<1> DEFINE e == log[c]
           n == HandleEvent(db, e)
<1>1. /\ Kept(db) /\ SchoolsUnique(db) /\ ConstraintsHold(db) /\ db \in Database
      /\ e \in SyncEvent /\ db' = n /\ ConstraintsHold(n) /\ log' = log
      /\ \A i \in DOMAIN log : /\ log[i] \in SyncEvent
                               /\ log[i].kind # "host" => log[i].id \in Object
  BY CommittedStore DEF Kept
<1>2. /\ \A x : About(e, x) => LastCommitted(x, c)'
      /\ \A x, j : ~About(e, x) => (LastCommitted(x, j)' <=> LastCommitted(x, j))
      /\ \A k \in DOMAIN log : Committed(k) => k <= c
      /\ c \in DOMAIN log /\ DOMAIN log = 1..Len(log) /\ Len(log) \in Nat
  BY LastAfterCommit
<1>3. /\ e.kind = "host" => \A y : Stored(n, y) => Stored(db, y)
      /\ e.kind # "host" => StoresOnly(db, n, e.id)
      /\ e.kind # "host" /\ e.op = "delete" => ~Stored(n, e.id)
  BY <1>1, EventStoresOwnObject DEF Kept
<1> HIDE DEF n
<1>4. ASSUME NEW x \in Object, Stored(n, x), About(e, x)
      PROVE  \E j : LastCommitted(x, j)' /\ StoredBy(n, log[j])
  <2>1. e.kind # "host" /\ x = e.id /\ e.op # "delete"
    BY <1>3, <1>4 DEF About
  <2>2. OwnWrites(db, n, e)
    BY <1>1, <2>1, OwnIsWritten DEF n
  <2>3. e.op = "create" /\ Stored(db, x) => StoredBy(db, e)
    <3>1. ASSUME e.op = "create", Stored(db, x) PROVE StoredBy(db, e)
      <4>1. PICK j : LastCommitted(x, j) /\ StoredBy(db, log[j])
        BY <3>1 DEF StoredAsTold
      <4>2. j \in DOMAIN log /\ About(log[j], x) /\ j <= c
        BY <1>2, <4>1 DEF LastCommitted
      <4>3. ~(j < c)
        BY <1>2, <2>1, <3>1, <4>2 DEF CreatesOnce
      <4>4. j = c
        BY <1>2, <4>2, <4>3
      <4> QED
        BY <4>1, <4>4
    <3> QED
      BY <3>1
  <2>4. MappedDn(db, e)[e.id] = EventDn(e)
    BY <1>4, <2>1 DEF MappedDn
  <2>5. StoredBy(n, e)
    BY <1>4, <2>1, <2>2, <2>3, <2>4 DEF OwnWrites, StoredBy
  <2> QED
    BY <1>2, <1>4, <2>5
<1>5. ASSUME NEW x \in Object, Stored(n, x), ~About(e, x)
      PROVE  \E j : LastCommitted(x, j)' /\ StoredBy(n, log[j])
  <2>1. Stored(db, x)
    BY <1>3, <1>5 DEF StoresOnly, About
  <2>2. PICK j : LastCommitted(x, j) /\ StoredBy(db, log[j])
    BY <2>1 DEF StoredAsTold
  <2>3. j \in DOMAIN log /\ log[j].kind # "host" /\ log[j].id = x /\ log[j] \in SyncEvent
    BY <1>1, <2>2 DEF LastCommitted, About
  <2>4. StoredBy(n, log[j])
    BY <1>1, <1>5, <2>2, <2>3, StoredStays DEF n
  <2> QED
    BY <1>2, <1>5, <2>2, <2>4
<1> QED
  BY <1>1, <1>4, <1>5 DEF StoredAsTold

\* A school keeps the name it was given (_handle_school_create, _handle_school_modify).
LEMMA CommitKeepsSchools ==
  ASSUME IInv, RInv, SchoolsKeepNames, SchoolsStored, Commits
  PROVE  SchoolsStored'
<1> PICK c : c = cur
  OBVIOUS
<1> DEFINE e == log[c]
           n == HandleEvent(db, e)
<1>1. /\ Kept(db) /\ SchoolsUnique(db) /\ db \in Database
      /\ e \in SyncEvent /\ db' = n /\ log' = log
      /\ \A i \in DOMAIN log : /\ log[i] \in SyncEvent
                               /\ log[i].kind # "host" => log[i].id \in Object
  BY CommittedStore DEF Kept
<1>2. /\ \A k \in DOMAIN log : k # c => (Committed(k)' <=> Committed(k))
      /\ Committed(c)' /\ c \in DOMAIN log
  BY LastAfterCommit
<1> HIDE DEF n
<1>3. ASSUME NEW i \in DOMAIN log, NamesSchool(log[i]), Committed(i)',
             \A k \in DOMAIN log : Removes(log[k]) /\ About(log[k], log[i].id) => ~Committed(k)'
      PROVE  n.school[log[i].id] = log[i].name
  <2>1. log[i] \in SchoolEvent /\ log[i].id \in School /\ log[i].id \in Object
    BY <1>1, <1>3, Writers DEF NamesSchool, SchoolEvent
  <2>2. CASE About(e, log[i].id)
    <3>1. ~Removes(e)
      BY <1>2, <1>3, <2>2
    <3>2. e \in SchoolEvent /\ NamesSchool(e) /\ e.id = log[i].id
      BY <1>1, <2>1, <2>2, <3>1, EventKinds DEF NamesSchool, Removes, About, SchoolEvent
    <3>3. n.school = [db.school EXCEPT ![e.id] = e.name]
      BY <1>1, <3>2, SchoolEventRows DEF n
    <3>4. e.name = log[i].name
      BY <1>2, <1>3, <3>2 DEF SchoolsKeepNames
    <3> QED
      BY <1>1, <2>1, <3>2, <3>3, <3>4 DEF Database
  <2>3. CASE ~About(e, log[i].id)
    <3>1. i # c
      BY <1>3, <2>3 DEF About, NamesSchool
    <3>2. \A k \in DOMAIN log : Removes(log[k]) /\ About(log[k], log[i].id) => ~Committed(k)
      BY <1>2, <1>3, <2>3
    <3>3. db.school[log[i].id] = log[i].name
      BY <1>2, <1>3, <3>1, <3>2 DEF SchoolsStored
    <3>4. n.school[log[i].id] = db.school[log[i].id]
      BY <1>1, <2>1, <2>3, OthersKept DEF RowKept, n
    <3> QED
      BY <3>3, <3>4
  <2> QED
    BY <2>2, <2>3
<1> QED
  BY <1>1, <1>3 DEF SchoolsStored

\* The inductive invariant, next to IInv, RInv and WInv.
CInv ==
  /\ DirFits(dir) /\ History /\ VerdictsFit
  /\ StoredAsTold /\ SchoolsStored
  /\ NothingDropped => PlacedBy

\* A relevant event that is settled and was not dropped was committed (process_one_event).
LEMMA AckedIsCommitted ==
  ASSUME IInv, WInv, VerdictsFit, NothingDropped, NEW i \in DOMAIN log,
         D!Acked(i), IsRelevant(log[i])
  PROVE  Committed(i)
<1>1. i \in D!Events /\ queue[i] \in D!EventRecord
  <2>1. i \in D!Events /\ queue \in Seq(D!EventRecord)
    BY LoggedTyped DEF IInv, TypeOK, D!TypeOK
  <2> QED
    BY <2>1 DEF D!Events
<1>2. queue[i].outcome \in {"applied", "skipped", "malformed", "exhausted"}
  BY <1>1 DEF D!EventRecord, D!Verdict, D!Acked
<1>3. queue[i].outcome = "applied"
  BY <1>1, <1>2 DEF VerdictsFit, NothingDropped, Settled
<1> QED
  BY <1>1, <1>3 DEF WInv, Books, AppliedIsCommitted, Committed

\* Everything before the event that is handled was committed, unless out of scope.
LEMMA AllBeforeCommitted ==
  ASSUME IInv, WInv, VerdictsFit, NothingDropped, NEW c \in DOMAIN log, D!OldestPending(c)
  PROVE  \A m \in DOMAIN log : m < c /\ IsRelevant(log[m]) => Committed(m)
<1>1. DOMAIN log = 1..Len(log) /\ Len(log) \in Nat
  BY LoggedTyped
<1>2. ASSUME NEW m \in DOMAIN log, m < c PROVE D!Acked(m)
  BY <1>1, <1>2 DEF D!OldestPending
<1> QED
  BY <1>2, AckedIsCommitted

\* The schools that a handler looks up by name are stored (_fetch_school_by_name).
LEMMA WantedAreStored ==
  ASSUME IInv, RInv, WInv, CInv, NothingDropped, NEW c \in DOMAIN log, D!OldestPending(c),
         NEW sn \in SchoolsWanted(log[c])
  PROVE  \E s \in School : db.school[s] = sn
<1>1. PICK i \in DOMAIN log :
        /\ i < c /\ NamesSchool(log[i]) /\ log[i].name = sn
        /\ \A k \in DOMAIN log : Removes(log[k]) /\ About(log[k], log[i].id) => c < k
  BY DEF CInv, History, SchoolsCome
<1>2. DOMAIN log = 1..Len(log) /\ Len(log) \in Nat /\ D!Events = DOMAIN log
  BY LoggedTyped
<1>3. log[i] \in SyncEvent /\ log[i].id \in School
  BY <1>1, LoggedTyped, Writers DEF NamesSchool, SchoolEvent
<1>4. log[i].scope = TRUE
  BY <1>1 DEF CInv, History, ScopesFit, NamesSchool
<1>5. Committed(i)
  BY <1>1, <1>4, AllBeforeCommitted DEF CInv, IsRelevant
<1>6. \A k \in DOMAIN log : c < k => ~Committed(k)
  BY <1>2 DEF RInv, CommitsInOrder, Committed, D!OldestPending
<1>7. db.school[log[i].id] = sn
  BY <1>1, <1>5, <1>6 DEF CInv, SchoolsStored
<1> QED
  BY <1>3, <1>7

\* The name of a stored school is the one its last event tells.
LEMMA StoredSchools ==
  ASSUME IInv, StoredAsTold, NEW s \in Schools(db)
  PROVE  \E i \in DOMAIN log : /\ LastCommitted(s, i) /\ NamesSchool(log[i])
                               /\ log[i].id = s /\ log[i].name = db.school[s]
<1>1. s \in School /\ s \in Object /\ Stored(db, s)
  BY DEF Schools, Object, Stored
<1>2. PICK i : LastCommitted(s, i) /\ StoredBy(db, log[i])
  BY <1>1 DEF StoredAsTold
<1>3. i \in DOMAIN log /\ About(log[i], s) /\ log[i] \in SyncEvent
  BY <1>2, LoggedTyped DEF LastCommitted
<1>4. log[i].kind = "school" /\ log[i].op # "delete" /\ log[i].id = s
  BY <1>1, <1>2, <1>3, EventKinds DEF StoredBy, About
<1> QED
  BY <1>2, <1>3, <1>4 DEF NamesSchool, StoredBy, Named

\* A stored school keeps its name until it is removed (OUs are not renamed).
LEMMA NamesStay ==
  ASSUME IInv, RInv, SchoolsKeepNames, StoredAsTold, Commits, NEW c, c = cur, NEW s \in Schools(db),
         ~(Removes(log[c]) /\ About(log[c], s))
  PROVE  db'.school[s] = db.school[s]
<1> DEFINE e == log[c]
           n == HandleEvent(db, e)
<1>1. Kept(db) /\ SchoolsUnique(db) /\ db \in Database /\ e \in SyncEvent /\ db' = n
  BY CommittedStore DEF Kept
<1>2. s \in School /\ s \in Object
  BY DEF Schools, Object
<1>3. c \in DOMAIN log
  BY LastAfterCommit
<1> HIDE DEF n
<1>4. CASE ~About(e, s)
  BY <1>1, <1>2, <1>4, OthersKept DEF RowKept, n
<1>5. CASE About(e, s)
  <2>1. e \in SchoolEvent /\ NamesSchool(e) /\ e.id = s
    BY <1>1, <1>2, <1>5, EventKinds DEF NamesSchool, Removes, About
  <2>2. PICK i \in DOMAIN log : NamesSchool(log[i]) /\ log[i].id = s /\ log[i].name = db.school[s]
    BY StoredSchools
  <2>3. e.name = db.school[s]
    BY <1>3, <2>1, <2>2 DEF SchoolsKeepNames
  <2>4. n.school = [db.school EXCEPT ![e.id] = e.name]
    BY <1>1, <2>1, SchoolEventRows DEF n
  <2> QED
    BY <1>1, <1>2, <2>1, <2>3, <2>4 DEF Database
<1> QED
  BY <1>4, <1>5

----------------------------------------------------------------------------
(* Where a commit puts groups and users *)

\* A group is in the school that its last event names (_resolve_target_school).
LEMMA CommitPlacesGroups ==
  ASSUME IInv, RInv, WInv, CInv, NothingDropped, Commits,
         NEW g \in Group, NEW j \in DOMAIN log, LastCommitted(g, j)', Stored(db', g)
  PROVE  db'.school[db'.group[g].school] = log[j].school
<1> USE StoreAssumption DEF StoreAssumption
<1> PICK c : c = cur
  OBVIOUS
<1> DEFINE e == log[c]
           n == HandleEvent(db, e)
<1>1. /\ Kept(db) /\ SchoolsUnique(db) /\ ConstraintsHold(db) /\ db \in Database
      /\ e \in SyncEvent /\ db' = n /\ ConstraintsHold(n) /\ log' = log
  BY CommittedStore DEF Kept
<1>2. /\ \A x : About(e, x) => LastCommitted(x, c)'
      /\ \A x, k : ~About(e, x) => (LastCommitted(x, k)' <=> LastCommitted(x, k))
      /\ c \in DOMAIN log /\ DOMAIN log = 1..Len(log) /\ Len(log) \in Nat /\ D!OldestPending(c)
  BY LastAfterCommit
<1>3. /\ e.kind = "host" => \A y : Stored(n, y) => Stored(db, y)
      /\ e.kind # "host" => StoresOnly(db, n, e.id)
      /\ e.kind # "host" /\ e.op = "delete" => ~Stored(n, e.id)
  BY <1>1, EventStoresOwnObject DEF Kept
<1>4. g \in Object /\ g \notin School /\ g \notin User
  BY DEF Object
<1> HIDE DEF n
<1>5. CASE About(e, g)
  <2>1. e.op # "delete" /\ e.id = g /\ e.kind # "host"
    BY <1>1, <1>3, <1>5 DEF About
  <2>2. e \in GroupEvent /\ e.kind = "group"
    BY <1>1, <1>4, <1>5, <2>1, EventKinds
  <2>3. j = c
    BY <1>1, <1>2, <1>5 DEF LastCommitted
  <2>4. e.school \in SchoolsWanted(e)
    BY <2>1, <2>2 DEF SchoolsWanted, SchoolsOf
  <2>5. SchoolsNamed(db, {e.school}) # {}
    BY <1>2, <2>4, WantedAreStored DEF SchoolsNamed
  <2>6. n.school = db.school /\ n.group = [db.group EXCEPT ![g] = [name |-> e.name, school |-> TargetSchool(db, e)]]
    BY <1>1, <2>1, <2>2, <2>5, GroupEventRows DEF SameOthers, GroupRowPut, n
  <2>7. db.school[TargetSchool(db, e)] = e.school
    BY <2>5 DEF TargetSchool, SchoolsNamed
  <2>8. n.group[g].school = TargetSchool(db, e)
    BY <1>1, <2>6 DEF Database
  <2> QED
    BY <1>1, <2>3, <2>6, <2>7, <2>8
<1>6. CASE ~About(e, g)
  <2>1. LastCommitted(g, j) /\ Stored(db, g)
    BY <1>1, <1>2, <1>3, <1>4, <1>6 DEF StoresOnly, About
  <2>2. db.school[db.group[g].school] = log[j].school
    BY <2>1 DEF CInv, PlacedBy
  <2>3. n.group[g] = db.group[g]
    BY <1>1, <1>4, <1>6, OthersKept DEF RowKept, n
  <2> DEFINE s == db.group[g].school
  <2>4. g \in Groups(n) /\ g \in Groups(db)
    BY <1>1, <1>4, <2>1 DEF Stored, Schools, Users
  <2>5. s \in Schools(n) /\ s \in Schools(db)
    BY <1>1, <2>3, <2>4 DEF ConstraintsHold
  <2> HIDE DEF s
  <2>6. ~(Removes(e) /\ About(e, s))
    BY <1>3, <2>5 DEF Removes, About, Stored
  <2>7. n.school[s] = db.school[s]
    BY <1>1, <2>5, <2>6, NamesStay DEF CInv, History
  <2> QED
    BY <1>1, <2>2, <2>3, <2>7 DEF s
<1> QED
  BY <1>5, <1>6

\* A user is in schools that its last event names, one of them primary
\* (_build_school_memberships), and leaves a school before it is removed.
LEMMA CommitPlacesUsers ==
  ASSUME IInv, RInv, WInv, CInv, NothingDropped, Commits,
         NEW u \in User, NEW j \in DOMAIN log, LastCommitted(u, j)', Stored(db', u)
  PROVE  /\ \E s \in School : <<u, s>> \in db'.primary
         /\ \A s \in School : <<u, s>> \in db'.member => db'.school[s] \in log[j].schools
<1> USE StoreAssumption DEF StoreAssumption
<1> PICK c : c = cur
  OBVIOUS
<1> DEFINE e == log[c]
           n == HandleEvent(db, e)
<1>1. /\ Kept(db) /\ SchoolsUnique(db) /\ ConstraintsHold(db) /\ db \in Database
      /\ e \in SyncEvent /\ db' = n /\ log' = log
      /\ \A i \in DOMAIN log : /\ log[i] \in SyncEvent
                               /\ log[i].kind # "host" => log[i].id \in Object
  BY CommittedStore DEF Kept
<1>2. /\ \A x : About(e, x) => LastCommitted(x, c)'
      /\ \A x, k : ~About(e, x) => (LastCommitted(x, k)' <=> LastCommitted(x, k))
      /\ \A k \in DOMAIN log : Committed(k) => k <= c
      /\ c \in DOMAIN log /\ DOMAIN log = 1..Len(log) /\ Len(log) \in Nat /\ D!OldestPending(c)
  BY LastAfterCommit
<1>3. /\ e.kind = "host" => \A y : Stored(n, y) => Stored(db, y)
      /\ e.kind # "host" => StoresOnly(db, n, e.id)
      /\ e.kind # "host" /\ e.op = "delete" => ~Stored(n, e.id)
  BY <1>1, EventStoresOwnObject DEF Kept
<1>4. u \in Object /\ u \notin School /\ u \notin Group
  BY DEF Object
<1> HIDE DEF n
<1>5. CASE About(e, u)
  <2>1. e.op # "delete" /\ e.id = u /\ e.kind # "host"
    BY <1>1, <1>3, <1>5 DEF About
  <2>2. e \in UserEvent /\ e.kind = "user"
    BY <1>1, <1>4, <1>5, <2>1, EventKinds
  <2>3. j = c
    BY <1>1, <1>2, <1>5 DEF LastCommitted
  <2>4. e.ou \in SchoolsWanted(e)
    BY <1>2, <2>1, <2>2 DEF SchoolsWanted, SchoolsOf, CInv, History, ScopesFit
  <2>5. SchoolsNamed(db, e.schools) # {}
    <3>1. e.ou \in e.schools
      BY <1>2, <2>1, <2>2 DEF CInv, History, ScopesFit
    <3> QED
      BY <1>2, <2>4, <3>1, WantedAreStored DEF SchoolsNamed
  <2>6. n.school = db.school /\ UserRowPut(db, n, e)
    BY <1>1, <2>2, <2>5, UserEventRows DEF n
  <2>7. PrimarySchools(db, e) # {} /\ PrimarySchools(db, e) \subseteq SchoolsNamed(db, e.schools)
    BY <2>5 DEF PrimarySchools
  <2>8. SchoolsNamed(db, e.schools) \subseteq School
        /\ \A s \in SchoolsNamed(db, e.schools) : db.school[s] \in e.schools
    BY DEF SchoolsNamed
  <2>9. \E s \in School : <<u, s>> \in n.primary
    BY <2>1, <2>6, <2>7, <2>8 DEF UserRowPut
  <2>10. \A s \in School : <<u, s>> \in n.member => s \in SchoolsNamed(db, e.schools)
    BY <2>1, <2>6 DEF UserRowPut
  <2> QED
    BY <1>1, <2>3, <2>6, <2>8, <2>9, <2>10
<1>6. CASE ~About(e, u)
  <2>1. LastCommitted(u, j) /\ Stored(db, u)
    BY <1>1, <1>2, <1>3, <1>4, <1>6 DEF StoresOnly, About
  <2>2. /\ \E s \in School : <<u, s>> \in db.primary
        /\ \A s \in School : <<u, s>> \in db.member => db.school[s] \in log[j].schools
    BY <2>1 DEF CInv, PlacedBy
  <2>3. \A s \in School : MembershipKept(db, n, u, s) \/ MembershipGone(n, e, u, s)
    BY <1>1, <1>4, <1>6, OthersKept DEF n
  <2>4. \A s \in School : <<u, s>> \in db.member => s \in Schools(db)
    BY <1>1 DEF Kept, ReferencesHold, MembershipsHold
  <2>5. ASSUME NEW s \in School, <<u, s>> \in db.member PROVE ~(Removes(e) /\ About(e, s))
    <3> SUFFICES ASSUME Removes(e), About(e, s) PROVE FALSE
      OBVIOUS
    <3>1. PICK i \in DOMAIN log : NamesSchool(log[i]) /\ log[i].id = s /\ log[i].name = db.school[s]
      BY <2>4, <2>5, StoredSchools DEF CInv
    <3>2. db.school[s] \in log[j].schools
      BY <2>2, <2>5
    <3>3. log[j].kind = "user" /\ log[j].op # "delete" /\ j # c /\ log[j].id = u
      <4>1. log[j] \in SyncEvent /\ About(log[j], u) /\ j # c
        BY <1>1, <1>6, <2>1 DEF LastCommitted
      <4>2. PICK k : LastCommitted(u, k) /\ StoredBy(db, log[k])
        BY <1>4, <2>1 DEF CInv, StoredAsTold
      <4>3. k = j
        BY <2>1, <4>2, OneLastCommitted
      <4> QED
        BY <1>4, <4>1, <4>2, <4>3, EventKinds DEF StoredBy, About
    <3>4. log[i].name \in SchoolsOf(log[j])
      BY <3>1, <3>2, <3>3 DEF SchoolsOf
    <3>5. j < c
      BY <1>2, <2>1, <3>3 DEF LastCommitted
    <3>6. PICK m \in DOMAIN log : j < m /\ m < c /\ About(log[m], u)
      BY <1>2, <3>1, <3>3, <3>4, <3>5 DEF CInv, History, LeftBefore
    <3>7. log[m].scope = TRUE
      BY <1>1, <1>4, <3>6, EventKinds DEF CInv, History, ScopesFit
    <3>8. Committed(m)
      BY <1>2, <3>6, <3>7, AllBeforeCommitted DEF CInv, IsRelevant
    <3> QED
      BY <1>2, <2>1, <3>6, <3>8 DEF LastCommitted
  <2>6. db.primary \subseteq db.member
    BY <1>1 DEF Kept, ReferencesHold, MembershipsHold
  <2>7. \A s \in School : <<u, s>> \in db.member => MembershipKept(db, n, u, s)
    BY <2>3, <2>5 DEF MembershipGone, Removes, About
  <2>8. \E s \in School : <<u, s>> \in n.primary
    BY <2>2, <2>6, <2>7 DEF MembershipKept
  <2>9. ASSUME NEW s \in School, <<u, s>> \in n.member PROVE n.school[s] \in log[j].schools
    <3>1. <<u, s>> \in db.member
      BY <2>3, <2>9 DEF MembershipKept, MembershipGone
    <3>2. n.school[s] = db.school[s]
      BY <1>1, <2>4, <2>5, <3>1, NamesStay DEF CInv, History
    <3> QED
      BY <2>2, <3>1, <3>2
  <2> QED
    BY <1>1, <2>8, <2>9
<1> QED
  BY <1>5, <1>6

----------------------------------------------------------------------------
(* The steps *)

\* Only events out of scope are skipped (is_relevant).
LEMMA VerdictsStillFit ==
  ASSUME IInv, VerdictsFit, Process \/ Disturb \/ \E committed \in BOOLEAN : DatabaseFault(committed)
  PROVE  VerdictsFit'
<1>1. log' = log /\ D!Events' = DOMAIN queue'
  BY Outcomes DEF D!Events
<1>2. RecordsKept
  BY ProcessKeepsRecords
<1>3. pc \in {"fetched"} \cup D!Verdict => cur \in D!Events
  BY DEF IInv, CurrentExists
<1>4. pc' # "malformed" /\ (pc' = "skipped" => cur' = cur /\ ~IsRelevant(log[cur]))
  <2>1. CASE Attempt
    BY <2>1 DEF Attempt, D!Handle, D!HandlerError, D!Crash
  <2>2. CASE D!SkipIrrelevant
    BY <1>3, <2>2 DEF D!SkipIrrelevant, VerdictsFit
  <2>3. CASE (\E i \in D!Events : D!Fetch(i)) \/ D!Acknowledge \/ D!Restart
             \/ (\E reached \in BOOLEAN : D!AcknowledgeFails(reached)) \/ D!Kill
    BY <2>3 DEF D!Fetch, D!Acknowledge, D!Restart, D!AcknowledgeFails, D!Kill, D!Crash
  <2> QED
    BY <2>1, <2>2, <2>3 DEF Process, Deliver, Disturb, HandleCurrent, HandlerRaises, DatabaseFault,
                            Attempt
<1>5. ASSUME NEW i \in D!Events
      PROVE  /\ queue'[i].class = (IF IsRelevant(log[i]) THEN "relevant" ELSE "irrelevant")
             /\ queue'[i].outcome = "skipped" => ~IsRelevant(log[i])
             /\ queue'[i].outcome # "malformed"
  BY <1>2 DEF RecordsKept, VerdictsFit
<1>6. pc' = "skipped" => ~IsRelevant(log'[cur'])
  BY <1>1, <1>4
<1> QED
  BY <1>1, <1>2, <1>4, <1>5, <1>6 DEF VerdictsFit, RecordsKept

\* A dropped event stays dropped.
LEMMA NothingDroppedBefore ==
  ASSUME IInv, RInv, NothingDropped',
         Process \/ Disturb \/ \E committed \in BOOLEAN : DatabaseFault(committed)
  PROVE  NothingDropped
<1>1. D!Events' = DOMAIN queue'
  BY DEF D!Events
<1>2. RecordsKept
  BY ProcessKeepsRecords
<1>3. \A i \in D!Events : D!Acked(i) => queue'[i].outcome = queue[i].outcome
  <2>1. ASSUME NEW i \in D!Events, D!Acked(i), queue'[i].outcome # queue[i].outcome PROVE FALSE
    <3>1. i = cur /\ pc \in D!Verdict
      BY <1>2, <2>1 DEF RecordsKept
    <3> QED
      BY <2>1, <3>1 DEF RInv, CurrentIsOldest, D!OldestPending
  <2> QED
    BY <2>1
<1> QED
  BY <1>1, <1>2, <1>3 DEF NothingDropped, Settled, RecordsKept, D!Acked

\* An event's record when it is queued (Provisioning).
LEMMA FreshFields ==
  \A c : D!FreshEvent(c).class = c /\ D!FreshEvent(c).outcome = "pending" /\ D!FreshEvent(c).commits = 0
BY DEF D!FreshEvent

\* The events a change appends are neither dropped nor committed (Publish).
LEMMA ChangeCommitsNothing ==
  ASSUME IInv, NEW e, ToldBy(e)
  PROVE  /\ db' = db /\ (NothingDropped' <=> NothingDropped)
         /\ \A i \in DOMAIN log : /\ i \in DOMAIN log' /\ log'[i] = log[i]
                                  /\ (Committed(i)' <=> Committed(i))
         /\ \A i \in DOMAIN log' : Committed(i)' => i \in DOMAIN log
         /\ \A x, j : LastCommitted(x, j)' <=> LastCommitted(x, j)
<1> USE DEF D!FreshEvent
<1>1. D!Events = DOMAIN log /\ D!Events' = DOMAIN log'
  BY LoggedTyped DEF ToldBy, NewEvents, D!Events
<1>2. \A i \in DOMAIN log : i \in DOMAIN log' /\ log'[i] = log[i] /\ queue'[i] = queue[i]
  BY DEF ToldBy, NewEvents
<1>3. \A i \in DOMAIN log' \ DOMAIN log : queue'[i].commits = 0 /\ queue'[i].outcome = "pending"
  BY DEF ToldBy, NewEvents
<1>4. \A i \in DOMAIN log : Committed(i)' <=> Committed(i)
  BY <1>2 DEF Committed
<1>5. \A i \in DOMAIN log' : Committed(i)' => i \in DOMAIN log
  BY <1>3 DEF Committed
<1>6. NothingDropped' <=> NothingDropped
  BY <1>1, <1>2, <1>3 DEF NothingDropped, Settled
<1>7. ASSUME NEW x, NEW j PROVE LastCommitted(x, j)' <=> LastCommitted(x, j)
  BY <1>2, <1>4, <1>5 DEF LastCommitted
<1> QED
  BY <1>2, <1>4, <1>5, <1>6, <1>7 DEF ToldBy

\* A change of the directory commits nothing, and is history (Submit).
LEMMA ChangeKeepsC ==
  ASSUME IInv, RInv', WInv, WInv', CInv, NEW e, ToldBy(e)
  PROVE  CInv'
<1>1. DirFits(dir') /\ History'
  BY HistoryGrows DEF CInv, ToldBy
<1>2. VerdictsFit'
  <2>1. D!Events = DOMAIN log /\ D!Events' = DOMAIN log'
    BY LoggedTyped DEF ToldBy, NewEvents, D!Events
  <2>2. \A i \in DOMAIN log : i \in DOMAIN log' /\ log'[i] = log[i] /\ queue'[i] = queue[i]
    BY DEF ToldBy, NewEvents
  <2>3. \A i \in DOMAIN log' \ DOMAIN log :
          queue'[i] = D!FreshEvent(IF IsRelevant(log'[i]) THEN "relevant" ELSE "irrelevant")
    BY DEF ToldBy, NewEvents
  <2>4. pc' = pc /\ cur' = cur
    BY DEF ToldBy
  <2>5. pc = "skipped" => cur \in DOMAIN log
    BY <2>1 DEF IInv, CurrentExists, D!Verdict
  <2>6. \A i \in DOMAIN log' :
          /\ queue'[i].class = (IF IsRelevant(log'[i]) THEN "relevant" ELSE "irrelevant")
          /\ queue'[i].outcome = "skipped" => ~IsRelevant(log'[i])
          /\ queue'[i].outcome # "malformed"
    <3>1. ASSUME NEW i \in DOMAIN log' \ DOMAIN log
          PROVE  /\ queue'[i].class = (IF IsRelevant(log'[i]) THEN "relevant" ELSE "irrelevant")
                 /\ queue'[i].outcome = "pending"
      BY <2>3, FreshFields
    <3>2. ASSUME NEW i \in DOMAIN log
          PROVE  /\ queue'[i].class = (IF IsRelevant(log'[i]) THEN "relevant" ELSE "irrelevant")
                 /\ queue'[i].outcome = "skipped" => ~IsRelevant(log'[i])
                 /\ queue'[i].outcome # "malformed"
      BY <2>1, <2>2 DEF CInv, VerdictsFit
    <3> QED
      BY <3>1, <3>2
  <2> QED
    BY <2>1, <2>2, <2>4, <2>5, <2>6 DEF CInv, VerdictsFit
<1>c. /\ db' = db /\ (NothingDropped' <=> NothingDropped)
      /\ \A i \in DOMAIN log : /\ i \in DOMAIN log' /\ log'[i] = log[i]
                               /\ (Committed(i)' <=> Committed(i))
      /\ \A i \in DOMAIN log' : Committed(i)' => i \in DOMAIN log
      /\ \A x, j : LastCommitted(x, j)' <=> LastCommitted(x, j)
  BY ChangeCommitsNothing
<1>3. StoredAsTold'
  <2>1. ASSUME NEW x \in Object, Stored(db, x)
        PROVE  \E j : LastCommitted(x, j)' /\ StoredBy(db, log'[j])
    <3>1. PICK j : LastCommitted(x, j) /\ StoredBy(db, log[j])
      BY <2>1 DEF CInv, StoredAsTold
    <3>2. log'[j] = log[j]
      BY <1>c, <3>1 DEF LastCommitted
    <3> QED
      BY <1>c, <3>1, <3>2
  <2> QED
    BY <1>c, <2>1 DEF StoredAsTold
<1>4. SchoolsStored'
  <2>1. ASSUME NEW i \in DOMAIN log', NamesSchool(log'[i]), Committed(i)',
               \A k \in DOMAIN log' : Removes(log'[k]) /\ About(log'[k], log'[i].id) => ~Committed(k)'
        PROVE  db.school[log'[i].id] = log'[i].name
    <3>1. i \in DOMAIN log /\ log'[i] = log[i] /\ Committed(i)
      BY <1>c, <2>1
    <3>2. \A k \in DOMAIN log : Removes(log[k]) /\ About(log[k], log[i].id) => ~Committed(k)
      BY <1>c, <2>1, <3>1
    <3> QED
      BY <2>1, <3>1, <3>2 DEF CInv, SchoolsStored
  <2> QED
    BY <1>c, <2>1 DEF SchoolsStored
<1>5. NothingDropped' => PlacedBy'
  <2> SUFFICES ASSUME NothingDropped' PROVE PlacedBy'
    OBVIOUS
  <2>1. PlacedBy
    BY <1>c DEF CInv
  <2>2. \A x, j : LastCommitted(x, j)' => LastCommitted(x, j) /\ j \in DOMAIN log /\ log'[j] = log[j]
    BY <1>c DEF LastCommitted
  <2> QED
    BY <1>c, <2>1, <2>2 DEF PlacedBy
<1> QED
  BY <1>1, <1>2, <1>3, <1>4, <1>5 DEF CInv

\* A step of the process or of what disturbs it.
LEMMA ProcessKeepsC ==
  ASSUME IInv, RInv, WInv, CInv,
         Process \/ Disturb \/ \E committed \in BOOLEAN : DatabaseFault(committed)
  PROVE  CInv'
<1>1. log' = log /\ dir' = dir
  BY CommitsCounted
<1>2. DirFits(dir') /\ History'
  BY <1>1 DEF CInv, History, CreatesOnce, SchoolsKeepNames, SchoolsCome, LeftBefore, ScopesFit,
              GoneTold, NamesFreed, OneScope, AllTold
<1>3. VerdictsFit'
  BY VerdictsStillFit DEF CInv
<1>4. NothingDropped' => NothingDropped
  BY NothingDroppedBefore
<1>5. CASE db' = db /\ QueueGrows /\ CommitsKept
  <2>1. D!Events = DOMAIN log
    BY LoggedTyped
  <2>2. \A i \in DOMAIN log : Committed(i)' <=> Committed(i)
    BY <1>5, <2>1 DEF Committed, CommitsKept
  <2>3. \A x, j : LastCommitted(x, j)' <=> LastCommitted(x, j)
    BY <1>1, <2>2 DEF LastCommitted
  <2>4. StoredAsTold' /\ SchoolsStored' /\ (NothingDropped' => PlacedBy')
    BY <1>1, <1>4, <1>5, <2>2, <2>3 DEF CInv, StoredAsTold, SchoolsStored, PlacedBy
  <2> QED
    BY <1>2, <1>3, <2>4 DEF CInv
<1>6. CASE /\ Attempt /\ ~HandlerFails(db, log[cur]) /\ cur \in DOMAIN log
           /\ db' = HandleEvent(db, log[cur]) /\ queue'[cur].commits > 0
  <2>1. Commits
    BY <1>1, <1>6 DEF Commits
  <2>2. StoredAsTold' /\ SchoolsStored'
    BY <2>1, CommitKeepsTold, CommitKeepsSchools DEF CInv, History
  <2>3. NothingDropped' => PlacedBy'
    <3> SUFFICES ASSUME NothingDropped' PROVE PlacedBy'
      OBVIOUS
    <3>1. NothingDropped
      BY <1>4
    <3>2. \A g \in Group, j \in DOMAIN log :
            LastCommitted(g, j)' /\ Stored(db', g) => db'.school[db'.group[g].school] = log[j].school
      BY <2>1, <3>1, CommitPlacesGroups
    <3>3. \A u \in User, j \in DOMAIN log :
            LastCommitted(u, j)' /\ Stored(db', u)
              => /\ \E s \in School : <<u, s>> \in db'.primary
                 /\ \A s \in School : <<u, s>> \in db'.member => db'.school[s] \in log[j].schools
      BY <2>1, <3>1, CommitPlacesUsers
    <3> QED
      BY <1>1, <3>2, <3>3 DEF PlacedBy
  <2> QED
    BY <1>2, <1>3, <2>2, <2>3 DEF CInv
<1> QED
  BY <1>5, <1>6, CommitsCounted

\* Before the first event nothing is stored.
LEMMA InitC ==
  ASSUME Init, \A d \in InitialDirectory : DirFits(d)
  PROVE  CInv
<1>1. DirFits(dir) /\ History
  BY HistoryStarts DEF Init
<1>2. IInv
  BY InitInv
<1>3. D!Events = DOMAIN log /\ log \in Seq(SyncEvent)
  BY <1>2, LoggedTyped DEF IInv, TypeOK
<1>4. VerdictsFit
  <2>1. \A i \in DOMAIN log :
          queue[i] = D!FreshEvent(IF IsRelevant(log[i]) THEN "relevant" ELSE "irrelevant")
    BY <1>3 DEF Init, Prefilled, Classes
  <2>2. \A i \in DOMAIN log :
          /\ queue[i].class = (IF IsRelevant(log[i]) THEN "relevant" ELSE "irrelevant")
          /\ queue[i].outcome = "pending"
    BY <2>1, FreshFields
  <2> QED
    BY <1>3, <2>2 DEF VerdictsFit, Init
<1>5. \A x \in Object : ~Stored(db, x)
  BY DEF Init, EmptyDatabase, Stored, Schools, Groups, Users
<1>6. \A i \in DOMAIN log : ~Committed(i)
  <2>1. \A i \in DOMAIN log : queue[i].commits = 0
    BY <1>3, PrefilledFresh DEF Init
  <2> QED
    BY <2>1 DEF Committed
<1>7. StoredAsTold /\ SchoolsStored /\ PlacedBy
  BY <1>5, <1>6 DEF StoredAsTold, SchoolsStored, PlacedBy, LastCommitted
<1> QED
  BY <1>1, <1>4, <1>7 DEF CInv

\* The fourth invariant is inductive relative to the others, for one subscription.
LEMMA NextKeepsC ==
  ASSUME MaxResubscriptions = 0
  PROVE  IInv /\ IInv' /\ RInv /\ RInv' /\ WInv /\ WInv' /\ CInv /\ [Next]_vars => CInv'
<1> SUFFICES ASSUME IInv, IInv', RInv, RInv', WInv, WInv', CInv, [Next]_vars PROVE CInv'
  OBVIOUS
<1>1. CASE SchoolChange \/ GroupChange \/ UserChange
  <2>1. PICK e : ToldBy(e)
    BY <1>1, ChangesTold DEF CInv
  <2> QED
    BY <2>1, ChangeKeepsC
<1>2. CASE Process \/ Disturb \/ \E committed \in BOOLEAN : DatabaseFault(committed)
  BY <1>2, ProcessKeepsC
<1>3. ~Resubscribe
  BY DEF Resubscribe, IInv, TypeOK
<1>4. CASE UNCHANGED vars
  BY <1>4 DEF vars, CInv, History, CreatesOnce, SchoolsKeepNames, SchoolsCome, LeftBefore, ScopesFit,
              GoneTold, NamesFreed, OneScope, AllTold, VerdictsFit, NothingDropped, Settled,
              StoredAsTold, SchoolsStored, PlacedBy, LastCommitted, Committed, D!Events
<1> QED
  BY <1>1, <1>2, <1>3, <1>4 DEF Next

----------------------------------------------------------------------------
(* No handler fails *)

\* What a stored object is stored as is what the last event before the current
\* one tells, as long as groups keep their role (process_one_event).
LEMMA ToldUntilNow ==
  ASSUME "role" \notin Operations, IInv, RInv, WInv, CInv, NothingDropped,
         NEW c \in DOMAIN log, D!OldestPending(c),
         NEW x \in Object, Stored(db, x), ~About(log[c], x)
  PROVE  \E j \in DOMAIN log :
           /\ LastCommitted(x, j) /\ StoredBy(db, log[j])
           /\ j < c /\ About(log[j], x)
           /\ \A m \in DOMAIN log : j < m /\ m < c => ~About(log[m], x)
<1>1. /\ D!Events = DOMAIN log /\ DOMAIN log = 1..Len(log) /\ Len(log) \in Nat
      /\ \A i \in DOMAIN log : log[i] \in SyncEvent
  BY LoggedTyped
<1>2. PICK j : LastCommitted(x, j) /\ StoredBy(db, log[j])
  BY DEF CInv, StoredAsTold
<1>3. j \in DOMAIN log /\ About(log[j], x) /\ Committed(j)
  BY <1>2 DEF LastCommitted
<1>4. j < c
  <2>1. j # c
    BY <1>3
  <2>2. ~(j > c)
    BY <1>1, <1>3 DEF RInv, CommitsInOrder, Committed, D!OldestPending
  <2> QED
    BY <1>1, <1>3, <2>1, <2>2
<1>5. ASSUME NEW m \in DOMAIN log, j < m, m < c, About(log[m], x) PROVE FALSE
  <2>1. log[j].scope
    BY <1>1, <1>3 DEF WInv, Books, OnlyRelevantCommitted, Committed, IsRelevant
  <2>2. log[m].scope
    <3>1. CASE log[m].kind = "group"
      <4>1. log[j].kind = "group" /\ About(log[m], log[j].id)
        <5>1. x \in Group
          BY <1>1, <1>5, <3>1, EventKinds
        <5> QED
          BY <1>1, <1>3, <1>5, <5>1, EventKinds DEF About
      <4>2. log[m].scope = log[j].scope
        BY <1>3, <4>1 DEF CInv, History, OneScope
      <4> QED
        BY <2>1, <4>2
    <3>2. CASE log[m].kind # "group"
      BY <3>2 DEF CInv, History, ScopesFit
    <3> QED
      BY <3>1, <3>2
  <2>3. Committed(m)
    BY <1>5, <2>2, AllBeforeCommitted DEF CInv, IsRelevant
  <2>4. m <= j
    BY <1>2, <1>5, <2>3 DEF LastCommitted
  <2> QED
    BY <1>1, <1>3, <1>5, <2>4
<1> QED
  BY <1>2, <1>3, <1>4, <1>5

\* The name that an event gives to its object is free (unique columns).
LEMMA NamesAreFree ==
  ASSUME "role" \notin Operations, IInv, RInv, WInv, CInv, NothingDropped,
         NEW c \in DOMAIN log, D!OldestPending(c),
         log[c].kind # "host", log[c].op # "delete"
  PROVE  LET e == log[c]
         IN /\ e.kind = "school" => \A s \in Schools(db) : s # e.id => db.school[s] # e.name
            /\ e.kind = "group" => \A g \in Groups(db) : g # e.id => db.group[g].name # e.name
            /\ e.kind = "user" => \A u \in Users(db) : u # e.id => db.user[u] # e.name
<1> DEFINE e == log[c]
<1>1. \A i \in DOMAIN log : log[i] \in SyncEvent
  BY LoggedTyped
<1>2. ASSUME NEW x \in Object, Stored(db, x), x # e.id
      PROVE  \E j \in DOMAIN log : /\ StoredBy(db, log[j]) /\ About(log[j], x)
                                   /\ log[j].kind = e.kind => log[j].name # e.name
  <2>1. ~About(log[c], x)
    BY <1>2 DEF About
  <2>2. PICK j \in DOMAIN log :
          /\ StoredBy(db, log[j])
          /\ j < c /\ About(log[j], x)
          /\ \A m \in DOMAIN log : j < m /\ m < c => ~About(log[m], x)
    BY <1>2, <2>1, ToldUntilNow
  <2>3. ASSUME log[j].kind = e.kind, log[j].name = e.name PROVE FALSE
    BY <1>2, <2>2, <2>3 DEF CInv, History, NamesFreed, StoredBy, About
  <2> QED
    BY <2>2, <2>3
<1>3. ASSUME NEW s \in Schools(db), s # e.id, e.kind = "school" PROVE db.school[s] # e.name
  <2>1. s \in Object /\ Stored(db, s) /\ s \in School
    BY DEF Schools, Object, Stored
  <2>2. PICK j \in DOMAIN log : /\ StoredBy(db, log[j]) /\ About(log[j], s)
                                /\ log[j].kind = e.kind => log[j].name # e.name
    BY <1>2, <1>3, <2>1
  <2>3. log[j].kind = "school" /\ log[j].id = s
    BY <1>1, <2>1, <2>2, EventKinds DEF About
  <2> QED
    BY <1>3, <2>2, <2>3 DEF StoredBy, Named
<1>4. ASSUME NEW g \in Groups(db), g # e.id, e.kind = "group" PROVE db.group[g].name # e.name
  <2>1. g \in Object /\ Stored(db, g) /\ g \in Group
    BY DEF Groups, Object, Stored
  <2>2. PICK j \in DOMAIN log : /\ StoredBy(db, log[j]) /\ About(log[j], g)
                                /\ log[j].kind = e.kind => log[j].name # e.name
    BY <1>2, <1>4, <2>1
  <2>3. log[j].kind = "group" /\ log[j].id = g
    BY <1>1, <2>1, <2>2, EventKinds DEF About
  <2> QED
    BY <1>4, <2>2, <2>3 DEF StoredBy, Named
<1>5. ASSUME NEW u \in Users(db), u # e.id, e.kind = "user" PROVE db.user[u] # e.name
  <2>1. u \in Object /\ Stored(db, u) /\ u \in User
    BY DEF Users, Object, Stored
  <2>2. PICK j \in DOMAIN log : /\ StoredBy(db, log[j]) /\ About(log[j], u)
                                /\ log[j].kind = e.kind => log[j].name # e.name
    BY <1>2, <1>5, <2>1
  <2>3. log[j].kind = "user" /\ log[j].id = u
    BY <1>1, <2>1, <2>2, EventKinds DEF About
  <2> QED
    BY <1>5, <2>2, <2>3 DEF StoredBy, Named
<1> QED
  BY <1>3, <1>4, <1>5

\* A school is removed after its groups (group.school_id).
LEMMA NoGroupsLeft ==
  ASSUME "role" \notin Operations, IInv, RInv, WInv, CInv, NothingDropped,
         NEW c \in DOMAIN log, D!OldestPending(c),
         log[c].kind = "school", log[c].op = "delete", NEW g \in Groups(db)
  PROVE  db.group[g].school # log[c].id
<1> SUFFICES ASSUME db.group[g].school = log[c].id PROVE FALSE
  OBVIOUS
<1> DEFINE s == log[c].id
<1>1. /\ \A i \in DOMAIN log : log[i] \in SyncEvent
      /\ DOMAIN log = 1..Len(log) /\ Len(log) \in Nat
  BY LoggedTyped
<1>2. g \in Group /\ g \in Object /\ Stored(db, g) /\ s \in Schools(db)
  BY DEF Groups, Object, Stored, IInv, StoreConsistent, ConstraintsHold
<1>3. ~About(log[c], g)
  BY <1>1, <1>2, EventKinds
<1>4. PICK j \in DOMAIN log :
        /\ LastCommitted(g, j) /\ StoredBy(db, log[j])
        /\ j < c /\ About(log[j], g)
        /\ \A m \in DOMAIN log : j < m /\ m < c => ~About(log[m], g)
  BY <1>2, <1>3, ToldUntilNow
<1>5. db.school[s] = log[j].school
  BY <1>2, <1>4 DEF CInv, PlacedBy
<1>6. PICK i \in DOMAIN log : NamesSchool(log[i]) /\ log[i].id = s /\ log[i].name = db.school[s]
  BY <1>2, StoredSchools DEF CInv
<1>7. log[j].kind = "group" /\ log[j].op # "delete"
  BY <1>1, <1>2, <1>4, EventKinds DEF StoredBy
<1>8. log[i].name \in SchoolsOf(log[j])
  BY <1>5, <1>6, <1>7 DEF SchoolsOf
<1>9. Removes(log[c]) /\ About(log[c], log[i].id)
  BY <1>6 DEF Removes, About
<1>10. PICK m \in DOMAIN log : j < m /\ m < c /\ About(log[m], log[j].id)
  BY <1>4, <1>6, <1>8, <1>9 DEF CInv, History, LeftBefore
<1> QED
  BY <1>4, <1>10 DEF About

\* The database a handler leaves keeps the constraints, if the names are free,
\* the school of a group is stored and a removed school has no groups.
LEMMA ConstraintsStay ==
  ASSUME NEW d, Kept(d), ConstraintsHold(d), NEW e \in SyncEvent,
         e \in SchoolEvent => \A s \in Schools(d) : s # e.id => d.school[s] # e.name,
         e \in GroupEvent => /\ \A g \in Groups(d) : g # e.id => d.group[g].name # e.name
                             /\ SchoolsNamed(d, {e.school}) # {},
         e \in UserEvent => \A u \in Users(d) : u # e.id => d.user[u] # e.name,
         e.kind = "school" /\ e.op = "delete" => \A g \in Groups(d) : d.group[g].school # e.id
  PROVE  ConstraintsHold(HandleEvent(d, e))
<1> USE StoreAssumption DEF StoreAssumption
<1> DEFINE n == HandleEvent(d, e)
<1>0. d \in Database /\ SchoolsUnique(d)
  BY DEF Kept, ConstraintsHold, SchoolsUnique
<1>1. CASE e \in SchoolEvent
  <2>1. n.school = [d.school EXCEPT ![e.id] = e.name] /\ n.group = d.group /\ n.user = d.user
    BY <1>1, SchoolEventRows
  <2>2. e.id \in School /\ e.name \in SchoolName
    BY <1>1 DEF SchoolEvent
  <2> HIDE DEF n
  <2>3. Groups(n) = Groups(d) /\ Users(n) = Users(d) /\ Schools(n) = Schools(d) \cup {e.id}
    BY <1>0, <2>1, <2>2 DEF Groups, Users, Schools, Database
  <2>4. \A s \in Schools(n) : n.school[s] = IF s = e.id THEN e.name ELSE d.school[s]
    BY <1>0, <2>1, <2>2, <2>3 DEF Schools, Database
  <2> QED
    BY <1>1, <2>1, <2>3, <2>4 DEF ConstraintsHold, n
<1>2. CASE e \in GroupEvent
  <2>1. n.school = d.school /\ n.user = d.user /\ GroupRowPut(d, n, e)
    BY <1>2, GroupEventRows DEF SameOthers
  <2>2. e.id \in Group /\ e.name \in GroupName /\ e.school \in SchoolName
    BY <1>2 DEF GroupEvent
  <2> DEFINE t == TargetSchool(d, e)
  <2>3. t \in SchoolsNamed(d, {e.school})
    BY <1>2 DEF TargetSchool
  <2>4. t \in Schools(d)
    BY <2>2, <2>3 DEF SchoolsNamed, Schools
  <2> HIDE DEF n, t
  <2>5. n.group = [d.group EXCEPT ![e.id] = [name |-> e.name, school |-> t]]
    BY <2>1 DEF GroupRowPut, t
  <2>6. Users(n) = Users(d) /\ Schools(n) = Schools(d) /\ Groups(n) \subseteq Groups(d) \cup {e.id}
    BY <1>0, <2>1, <2>2, <2>5 DEF Groups, Users, Schools, Database
  <2>7. \A g \in Groups(n) :
          /\ g = e.id => n.group[g].name = e.name /\ n.group[g].school = t
          /\ g # e.id => n.group[g] = d.group[g] /\ g \in Groups(d)
    BY <1>0, <2>2, <2>5 DEF Groups, Database
  <2> QED
    BY <1>2, <2>1, <2>4, <2>6, <2>7 DEF ConstraintsHold, n
<1>3. CASE e \in UserEvent
  <2>1. n.school = d.school /\ n.group = d.group
        /\ (n.user = [d.user EXCEPT ![e.id] = e.name] \/ n = d)
    BY <1>0, <1>3, UserEventRows DEF UserRowPut
  <2>2. e.id \in User /\ e.name \in UserName
    BY <1>3 DEF UserEvent
  <2> HIDE DEF n
  <2>3. Groups(n) = Groups(d) /\ Schools(n) = Schools(d)
    BY <2>1 DEF Groups, Schools
  <2>4. \/ n = d
        \/ \A u \in Users(n) : n.user[u] = (IF u = e.id THEN e.name ELSE d.user[u])
                               /\ (u # e.id => u \in Users(d))
    BY <1>0, <2>1, <2>2 DEF Users, Database
  <2> QED
    BY <1>3, <2>1, <2>3, <2>4 DEF ConstraintsHold, n
<1>4. CASE e \in HostEvent
  <2>1. n.school = d.school /\ n.group = d.group /\ n.user = d.user
    BY <1>4 DEF HandleEvent, HandleHostGroup, SetServers, HostEvent, Kept, Database
  <2> QED
    BY <2>1 DEF ConstraintsHold, Schools, Groups, Users
<1>5. CASE e \in DeleteEvent
  <2>1. CASE e.kind = "school"
    <3>1. n = DeleteSchool(d, e.id) /\ e.id \in School
      BY <1>5, <2>1 DEF HandleEvent, HandleDelete, DeleteEvent
    <3>2. n.school = [d.school EXCEPT ![e.id] = NoRow] /\ n.group = d.group /\ n.user = d.user
      BY <1>0, <3>1 DEF DeleteSchool, Database
    <3>3. e.op = "delete"
      BY <1>5 DEF DeleteEvent
    <3> HIDE DEF n
    <3>4. /\ Groups(n) = Groups(d) /\ Users(n) = Users(d) /\ Schools(n) = Schools(d) \ {e.id}
          /\ \A s \in Schools(n) : n.school[s] = d.school[s]
      BY <1>0, <3>1, <3>2 DEF Groups, Users, Schools, Database
    <3> QED
      BY <2>1, <3>2, <3>3, <3>4 DEF ConstraintsHold, n
  <2>2. CASE e.kind = "group"
    <3>1. n = DeleteGroup(d, e.id) /\ e.id \in Group
      BY <1>5, <2>2 DEF HandleEvent, HandleDelete, DeleteEvent
    <3>2. n.group = [d.group EXCEPT ![e.id] = NoRow] /\ n.school = d.school /\ n.user = d.user
      BY <1>0, <3>1 DEF DeleteGroup, Database
    <3> HIDE DEF n
    <3>4. /\ Schools(n) = Schools(d) /\ Users(n) = Users(d) /\ Groups(n) = Groups(d) \ {e.id}
          /\ \A g \in Groups(n) : n.group[g] = d.group[g]
      BY <1>0, <3>1, <3>2 DEF Groups, Users, Schools, Database
    <3> QED
      BY <3>2, <3>4 DEF ConstraintsHold, n
  <2>3. CASE e.kind = "user"
    <3>1. n = DeleteUser(d, e.id) /\ e.id \in User
      BY <1>5, <2>3 DEF HandleEvent, HandleDelete, DeleteEvent
    <3>2. n.user = [d.user EXCEPT ![e.id] = NoRow] /\ n.school = d.school /\ n.group = d.group
      BY <1>0, <3>1 DEF DeleteUser, Database
    <3> HIDE DEF n
    <3>4. /\ Schools(n) = Schools(d) /\ Groups(n) = Groups(d) /\ Users(n) = Users(d) \ {e.id}
          /\ \A u \in Users(n) : n.user[u] = d.user[u]
      BY <1>0, <3>1, <3>2 DEF Groups, Users, Schools, Database
    <3> QED
      BY <3>2, <3>4 DEF ConstraintsHold, n
  <2> QED
    BY <1>5, <2>1, <2>2, <2>3 DEF DeleteEvent
<1> QED
  BY <1>1, <1>2, <1>3, <1>4, <1>5 DEF SyncEvent

\* While nothing is dropped and groups keep their role, no handler fails for
\* what it finds in the database (SynchronizationManager).
LEMMA NoHandlerFails ==
  ASSUME "role" \notin Operations, IInv, RInv, WInv, CInv, NothingDropped,
         NEW c \in DOMAIN log, D!OldestPending(c)
  PROVE  ~HandlerFails(db, log[c])
<1> DEFINE e == log[c]
<1>1. e \in SyncEvent /\ Kept(db) /\ ConstraintsHold(db)
  BY LoggedTyped DEF Kept, IInv, TypeOK, StoreConsistent
<1>2. \A sn \in SchoolsWanted(e) : \E s \in School : db.school[s] = sn
  BY WantedAreStored
<1>3. ~SchoolMissing(db, e)
  <2>1. e.kind = "host" /\ e.op # "delete" => e.school \in SchoolsWanted(e)
    BY DEF SchoolsWanted
  <2> QED
    BY <1>2, <2>1 DEF SchoolMissing, SchoolsNamed
<1>4. ASSUME e \in GroupEvent PROVE SchoolsNamed(db, {e.school}) # {}
  <2>1. e.school \in SchoolsWanted(e)
    BY <1>4 DEF SchoolsWanted, SchoolsOf, GroupEvent
  <2> QED
    BY <1>2, <2>1 DEF SchoolsNamed
<1>5. /\ e \in SchoolEvent => \A s \in Schools(db) : s # e.id => db.school[s] # e.name
      /\ e \in GroupEvent => \A g \in Groups(db) : g # e.id => db.group[g].name # e.name
      /\ e \in UserEvent => \A u \in Users(db) : u # e.id => db.user[u] # e.name
  BY NamesAreFree DEF SchoolEvent, GroupEvent, UserEvent
<1>6. e.kind = "school" /\ e.op = "delete" => \A g \in Groups(db) : db.group[g].school # e.id
  BY NoGroupsLeft
<1>7. ConstraintsHold(HandleEvent(db, e))
  BY <1>1, <1>4, <1>5, <1>6, ConstraintsStay
<1> QED
  BY <1>3, <1>7 DEF HandlerFails

----------------------------------------------------------------------------
(* No event is dropped *)

Busy == pc \in {"fetched"} \cup D!Verdict

\* Every delivery but the current one was ended by a fault or a crash.
Tries(i) == used.faults + crashes + (IF Busy /\ i = cur THEN 1 ELSE 0)

BInv ==
  /\ NothingDropped
  /\ pc # "exhausted"
  /\ \A i \in D!Events : ~D!Acked(i) => queue[i].delivered <= Tries(i)

\* The counters, and the records of the queue (KelvinConsumerModule).
LEMMA CountersTyped ==
  ASSUME IInv
  PROVE  /\ used.faults \in Nat /\ used.faults <= MaxFaults
         /\ crashes \in Nat /\ crashes <= MaxCrashes
         /\ queue \in Seq(D!EventRecord)
         /\ MaxDeliveries \in Nat /\ MaxFaults \in Nat /\ MaxCrashes \in Nat
         /\ \A i \in D!Events : queue[i] \in D!EventRecord /\ queue[i].delivered \in Nat
<1>1. queue \in Seq(D!EventRecord) /\ crashes \in 0..MaxCrashes /\ used.faults \in 0..MaxFaults
  BY DEF IInv, TypeOK, D!TypeOK
<1>2. \A i \in D!Events : queue[i] \in D!EventRecord
  BY <1>1 DEF D!Events
<1>3. \A i \in D!Events : queue[i].delivered \in Nat
  BY <1>2 DEF D!EventRecord
<1> QED
  BY <1>1, <1>2, <1>3, ConnectorAssumption DEF ConnectorAssumption

\* A change of the directory: new events have not been delivered (Publish).
LEMMA ChangeKeepsBudget ==
  ASSUME IInv, BInv, NEW e, ToldBy(e)
  PROVE  BInv'
<1>1. D!Events = DOMAIN log /\ D!Events' = DOMAIN log'
  BY LoggedTyped DEF ToldBy, NewEvents, D!Events
<1>2. /\ \A i \in DOMAIN log : queue'[i] = queue[i]
      /\ \A i \in DOMAIN log' \ DOMAIN log :
           queue'[i] = D!FreshEvent(IF IsRelevant(log'[i]) THEN "relevant" ELSE "irrelevant")
      /\ UNCHANGED <<pc, cur, crashes>> /\ used'.faults = used.faults
  BY DEF ToldBy, NewEvents
<1>3. NothingDropped'
  BY ChangeCommitsNothing DEF BInv
<1>4. \A i \in DOMAIN log' \ DOMAIN log : queue'[i].delivered = 0
  <2>1. \A c : D!FreshEvent(c).delivered = 0
    BY DEF D!FreshEvent
  <2> QED
    BY <1>2, <2>1
<1>5. ASSUME NEW i \in DOMAIN log', queue'[i].outcome = "pending"
      PROVE  queue'[i].delivered <= Tries(i)'
  <2>1. Tries(i)' = Tries(i) /\ Tries(i) \in Nat
    BY <1>2, CountersTyped DEF Tries, Busy
  <2>2. CASE i \in DOMAIN log
    BY <1>1, <1>2, <1>5, <2>1, <2>2 DEF BInv, D!Acked
  <2>3. CASE i \notin DOMAIN log
    BY <1>4, <2>1, <2>3
  <2> QED
    BY <2>2, <2>3
<1> QED
  BY <1>1, <1>2, <1>3, <1>5 DEF BInv, D!Acked

\* Fetching an event counts its delivery (num_delivered).
LEMMA FetchKeepsBudget ==
  ASSUME IInv, BInv, NEW i \in D!Events, D!Fetch(i), used' = used
  PROVE  BInv'
<1> DEFINE r == [queue[i] EXCEPT !.delivered = D!OneMore(@)]
<1>1. queue' = [queue EXCEPT ![i] = r] /\ pc = "idle" /\ pc' = "fetched" /\ cur' = i /\ crashes' = crashes
  BY DEF D!Fetch
<1>2. queue[i] \in D!EventRecord /\ queue[i].delivered \in Nat
  BY CountersTyped
<1>3. r.outcome = queue[i].outcome /\ r.delivered = D!OneMore(queue[i].delivered)
  BY <1>2 DEF D!EventRecord
<1>4. D!OneMore(queue[i].delivered) <= queue[i].delivered + 1 /\ D!OneMore(queue[i].delivered) \in Nat
  BY <1>2 DEF D!OneMore
<1> HIDE DEF r
<1>5. D!Events' = D!Events /\ \A k \in D!Events : queue'[k] = IF k = i THEN r ELSE queue[k]
  BY <1>1, CountersTyped DEF D!Events
<1>6. ASSUME NEW k \in D!Events, queue'[k].outcome = "pending"
      PROVE  queue'[k].delivered <= Tries(k)'
  <2>1. Tries(k) = used.faults + crashes
    BY <1>1, CountersTyped DEF Tries, Busy, D!Verdict
  <2>2. Tries(k)' = used.faults + crashes + (IF k = i THEN 1 ELSE 0)
    BY <1>1 DEF Tries, Busy
  <2>3. queue[k].delivered <= Tries(k) /\ queue[k].delivered \in Nat
    BY <1>3, <1>5, <1>6, CountersTyped DEF BInv, D!Acked
  <2> DEFINE T == used.faults + crashes
  <2>t. T \in Nat
    BY CountersTyped
  <2> HIDE DEF T
  <2>4. CASE k = i
    <3>1. Tries(k) = T /\ Tries(k)' = T + 1
      BY <2>1, <2>2, <2>4 DEF T
    <3>2. queue'[k].delivered \in Nat /\ queue'[k].delivered <= queue[k].delivered + 1
      BY <1>3, <1>4, <1>5, <2>4
    <3> QED
      BY <2>t, <2>3, <3>1, <3>2
  <2>5. CASE k # i
    <3>1. Tries(k) = T /\ Tries(k)' = T
      BY <2>t, <2>1, <2>2, <2>5 DEF T
    <3> QED
      BY <1>5, <2>3, <2>5, <3>1
  <2> QED
    BY <2>4, <2>5
<1> QED
  BY <1>1, <1>3, <1>5, <1>6 DEF BInv, NothingDropped, Settled, D!Acked

\* A step that delivers nothing: it ends the current delivery only if it settles
\* the event or a fault or a crash is counted.
LEMMA OthersKeepBudget ==
  ASSUME IInv, BInv, D!Events' = D!Events, pc' # "exhausted",
         \A k \in D!Events :
           /\ queue'[k].delivered = queue[k].delivered
           /\ queue'[k].outcome \in {queue[k].outcome, pc}
           /\ queue'[k].outcome = "pending" => queue[k].outcome = "pending",
         crashes' \in Nat, used'.faults \in Nat,
         crashes' >= crashes, used'.faults >= used.faults,
         \/ cur' = cur /\ Busy'
         \/ ~Busy
         \/ cur \notin D!Events \/ queue'[cur].outcome # "pending"
         \/ used'.faults + crashes' > used.faults + crashes
  PROVE  BInv'
<1>1. NothingDropped'
  BY DEF BInv, NothingDropped, Settled
<1>2. ASSUME NEW k \in D!Events, queue'[k].outcome = "pending"
      PROVE  queue'[k].delivered <= Tries(k)'
  <2>1. queue[k].delivered <= Tries(k) /\ queue[k].delivered \in Nat
    BY <1>2, CountersTyped DEF BInv, D!Acked
  <2>2. CASE Busy /\ k = cur
    <3>1. Tries(k) = used.faults + crashes + 1
      BY <2>2 DEF Tries
    <3>2. Tries(k)' = used'.faults + crashes' + (IF Busy' /\ k = cur' THEN 1 ELSE 0)
      BY DEF Tries
    <3>3. cur' = cur /\ Busy' => Tries(k)' = used'.faults + crashes' + 1
      BY <2>2, <3>2
    <3>4. Tries(k)' >= used'.faults + crashes' /\ Tries(k)' \in Nat
      BY <3>2
    <3>5. \/ cur' = cur /\ Busy'
          \/ used'.faults + crashes' > used.faults + crashes
      BY <1>2, <2>2
    <3>6. used.faults \in Nat /\ crashes \in Nat
      BY CountersTyped
    <3>7. queue[k].delivered <= Tries(k)'
      <4>1. CASE cur' = cur /\ Busy'
        BY <2>1, <3>1, <3>3, <3>6, <4>1
      <4>2. CASE used'.faults + crashes' > used.faults + crashes
        BY <2>1, <3>1, <3>4, <3>6, <4>2
      <4> QED
        BY <3>5, <4>1, <4>2
    <3> QED
      BY <3>7
  <2>3. CASE ~(Busy /\ k = cur)
    <3>1. Tries(k) = used.faults + crashes
      BY <2>3, CountersTyped DEF Tries
    <3>2. Tries(k)' >= used'.faults + crashes' /\ Tries(k)' \in Nat
      BY DEF Tries
    <3> QED
      BY <1>2, <2>1, <3>1, <3>2, CountersTyped
  <2> QED
    BY <2>2, <2>3
<1> QED
  BY <1>1, <1>2 DEF BInv, D!Acked

\* A step of the process or of what disturbs it: no handler fails for what it
\* finds, and there are not enough faults and crashes to use up a budget.
LEMMA ProcessKeepsBudget ==
  ASSUME "role" \notin Operations, MaxFaults + MaxCrashes < MaxDeliveries,
         IInv, IInv', RInv, WInv, CInv, BInv,
         Process \/ Disturb \/ \E committed \in BOOLEAN : DatabaseFault(committed)
  PROVE  BInv'
<1>1. pc \in {"fetched"} \cup D!Verdict => cur \in D!Events /\ D!OldestPending(cur)
  BY DEF IInv, CurrentExists, RInv, CurrentIsOldest
<1>2. D!Events = DOMAIN log
  BY LoggedTyped
<1>3. /\ used'.faults \in Nat /\ crashes' \in Nat /\ used'.faults <= MaxFaults /\ crashes' <= MaxCrashes
      /\ used.faults \in Nat /\ crashes \in Nat
  BY ConnectorAssumption DEF IInv, TypeOK, D!TypeOK
<1>4. \A i \in D!Events : queue[i] \in D!EventRecord
  BY CountersTyped
<1>5. ASSUME NEW r, cur \in D!Events, queue' = [queue EXCEPT ![cur] = r],
             r.delivered = queue[cur].delivered,
             r.outcome \in {queue[cur].outcome, pc}
      PROVE  /\ D!Events' = D!Events
             /\ queue'[cur].outcome = r.outcome
             /\ \A k \in D!Events : /\ queue'[k].delivered = queue[k].delivered
                                    /\ queue'[k].outcome \in {queue[k].outcome, pc}
  BY <1>5, CountersTyped DEF D!Events
<1>6. queue' = queue => D!Events' = D!Events
  BY DEF D!Events
<1>7. pc # "pending"
  BY DEF IInv, TypeOK, D!TypeOK, D!Verdict
<1>8. CASE \E i \in D!Events : D!Fetch(i) /\ used' = used
  BY <1>8, FetchKeepsBudget
<1>9. CASE D!SkipIrrelevant /\ used' = used
  BY <1>3, <1>6, <1>9, OthersKeepBudget DEF D!SkipIrrelevant, Busy, D!Verdict
<1>10. ASSUME pc \in D!Verdict, D!SettleCurrent, pc' \in {"idle", "down"},
              crashes' >= crashes, used'.faults >= used.faults
       PROVE  BInv'
  <2> DEFINE r == [queue[cur] EXCEPT !.outcome = pc]
  <2>1. cur \in D!Events /\ queue' = [queue EXCEPT ![cur] = r]
    BY <1>1, <1>10 DEF D!SettleCurrent
  <2>2. r.delivered = queue[cur].delivered /\ r.outcome = pc
    BY <1>4, <2>1 DEF D!EventRecord
  <2> HIDE DEF r
  <2>3. /\ D!Events' = D!Events
        /\ queue'[cur].outcome = pc
        /\ \A k \in D!Events : /\ queue'[k].delivered = queue[k].delivered
                               /\ queue'[k].outcome \in {queue[k].outcome, pc}
    BY <1>5, <2>1, <2>2
  <2> QED
    BY <1>3, <1>7, <1>10, <2>3, OthersKeepBudget
<1>11. CASE D!Acknowledge /\ used' = used
  <2>1. pc \in D!Verdict /\ D!SettleCurrent /\ pc' \in {"idle", "down"} /\ crashes' = crashes
    BY <1>11 DEF D!Acknowledge
  <2> QED
    BY <1>3, <1>10, <1>11, <2>1
<1>12. CASE D!Restart /\ used' = used
  BY <1>3, <1>6, <1>12, OthersKeepBudget DEF D!Restart, Busy, D!Verdict
<1>13. CASE HandleCurrent
  <2> DEFINE r == [queue[cur] EXCEPT !.commits = @ + 1]
  <2>1. /\ pc = "fetched" /\ pc' = "applied" /\ cur' = cur /\ crashes' = crashes /\ used' = used
        /\ queue' = [queue EXCEPT ![cur] = r]
    BY <1>13 DEF HandleCurrent, D!Handle, Others
  <2>2. cur \in D!Events
    BY <1>1, <2>1
  <2>3. r.delivered = queue[cur].delivered /\ r.outcome = queue[cur].outcome
    BY <1>4, <2>2 DEF D!EventRecord
  <2> HIDE DEF r
  <2>4. /\ D!Events' = D!Events
        /\ queue'[cur].outcome = queue[cur].outcome
        /\ \A k \in D!Events : /\ queue'[k].delivered = queue[k].delivered
                               /\ queue'[k].outcome \in {queue[k].outcome, pc}
    BY <1>5, <2>1, <2>2, <2>3
  <2>5. Busy'
    BY <2>1 DEF Busy, D!Verdict
  <2> QED
    BY <1>3, <1>7, <2>1, <2>4, <2>5, OthersKeepBudget
<1>14. CASE HandlerRaises
  <2>1. pc = "fetched" /\ HandlerFails(db, log[cur])
    BY <1>14 DEF HandlerRaises, D!HandlerError
  <2>2. PICK c : c = cur
    OBVIOUS
  <2>3. ~HandlerFails(db, log[c])
    BY <1>1, <1>2, <2>1, <2>2, NoHandlerFails DEF BInv
  <2> QED
    BY <2>1, <2>2, <2>3
<1>15. ASSUME NEW committed \in BOOLEAN, DatabaseFault(committed) PROVE BInv'
  <2>1. /\ pc = "fetched" /\ D!HandlerError(committed) /\ crashes' = crashes
        /\ used' = [used EXCEPT !.faults = @ + 1] /\ used.faults < MaxFaults
    BY <1>15 DEF DatabaseFault, D!HandlerError
  <2>2. used'.faults = used.faults + 1
    BY <2>1 DEF IInv, TypeOK
  <2>3. cur \in D!Events /\ ~D!Acked(cur)
    BY <1>1, <2>1 DEF D!OldestPending
  <2>4. queue[cur].delivered <= used.faults + crashes + 1 /\ queue[cur].delivered \in Nat
    <3>1. queue[cur].delivered <= Tries(cur)
      BY <2>3 DEF BInv
    <3> QED
      BY <2>1, <2>3, <3>1, CountersTyped DEF Tries, Busy
  <2>5. queue[cur].delivered < MaxDeliveries
    BY <1>3, <2>1, <2>4, CountersTyped
  <2>6. pc' = "down" /\ queue' = IF committed THEN [queue EXCEPT ![cur].commits = @ + 1] ELSE queue
    BY <2>1, <2>5 DEF D!HandlerError, D!Crash
  <2>7. used'.faults + crashes' > used.faults + crashes /\ used'.faults >= used.faults
        /\ crashes' >= crashes
    BY <1>3, <2>1, <2>2
  <2>8. CASE queue' = queue
    BY <1>3, <1>6, <2>6, <2>7, <2>8, OthersKeepBudget
  <2>9. CASE queue' = [queue EXCEPT ![cur].commits = @ + 1]
    <3> DEFINE r == [queue[cur] EXCEPT !.commits = @ + 1]
    <3>1. queue' = [queue EXCEPT ![cur] = r]
      BY <2>9
    <3>2. r.delivered = queue[cur].delivered /\ r.outcome = queue[cur].outcome
      BY <1>4, <2>3 DEF D!EventRecord
    <3> HIDE DEF r
    <3>3. /\ D!Events' = D!Events
          /\ queue'[cur].outcome = queue[cur].outcome
          /\ \A k \in D!Events : /\ queue'[k].delivered = queue[k].delivered
                                 /\ queue'[k].outcome \in {queue[k].outcome, pc}
      BY <1>5, <2>3, <3>1, <3>2
    <3> QED
      BY <1>3, <1>7, <2>6, <2>7, <3>3, OthersKeepBudget
  <2> QED
    BY <2>6, <2>8, <2>9
<1>16. ASSUME NEW reached \in BOOLEAN, D!AcknowledgeFails(reached), used' = used PROVE BInv'
  <2>1. pc \in D!Verdict /\ pc' = "down" /\ crashes' = crashes + 1
    BY <1>16 DEF D!AcknowledgeFails, D!Crash
  <2>2. CASE reached
    <3>1. D!SettleCurrent
      BY <1>16, <2>2 DEF D!AcknowledgeFails
    <3> QED
      BY <1>3, <1>10, <1>16, <2>1, <3>1
  <2>3. CASE ~reached
    <3>1. queue' = queue
      BY <1>16, <2>3 DEF D!AcknowledgeFails
    <3> QED
      BY <1>3, <1>6, <1>16, <2>1, <3>1, OthersKeepBudget
  <2> QED
    BY <2>2, <2>3
<1>17. CASE D!Kill /\ used' = used
  BY <1>3, <1>6, <1>17, OthersKeepBudget DEF D!Kill, D!Crash
<1> QED
  BY <1>8, <1>9, <1>11, <1>12, <1>13, <1>14, <1>15, <1>16, <1>17
     DEF Process, Deliver, Disturb, Others

\* The directories the first prefill may find are in order.
FitDirectories ==
  \A d \in InitialDirectory : SchoolsFound(d) /\ NamesUnique(d) /\ HostsFound(d)

\* All that holds of one subscription, whatever is dropped.
LEMMA OneSubscription ==
  ASSUME MaxResubscriptions = 0, FitDirectories
  PROVE  Spec => [](IInv /\ RInv /\ WInv /\ CInv)
<1>1. Init => RInv /\ WInv /\ CInv
  <2> SUFFICES ASSUME Init PROVE RInv /\ WInv /\ CInv
    OBVIOUS
  <2>1. IInv
    BY InitInv
  <2>2. RInv
    BY <2>1, PrefillStarts DEF Init
  <2>3. \A d \in InitialDirectory : DirFits(d)
    BY ConnectorAssumption DEF ConnectorAssumption, FitDirectories, DirFits, DirKept
  <2>4. JustSetUp
    BY <2>3 DEF Init, JustSetUp, DirFits
  <2> QED
    BY <2>1, <2>2, <2>3, <2>4, PrefillWrites, InitC
<1>2. IInv /\ IInv' /\ RInv /\ WInv /\ [Next]_vars => RInv' /\ WInv'
  BY NextKeepsRemovals, NextKeepsRows
<1>3. IInv /\ IInv' /\ RInv /\ RInv' /\ WInv /\ WInv' /\ CInv /\ [Next]_vars => CInv'
  BY NextKeepsC
<1> QED
  BY <1>1, <1>2, <1>3, Invariance, PTL DEF Spec

\* One step, whoever takes it.
LEMMA NextKeepsBudget ==
  ASSUME MaxResubscriptions = 0, "role" \notin Operations, MaxFaults + MaxCrashes < MaxDeliveries
  PROVE  IInv /\ IInv' /\ RInv /\ WInv /\ WInv' /\ CInv /\ BInv /\ [Next]_vars => BInv'
<1> SUFFICES ASSUME IInv, IInv', RInv, WInv, WInv', CInv, BInv, [Next]_vars PROVE BInv'
  OBVIOUS
<1>1. CASE SchoolChange \/ GroupChange \/ UserChange
  <2>1. PICK e : ToldBy(e)
    BY <1>1, ChangesTold DEF CInv
  <2> QED
    BY <2>1, ChangeKeepsBudget
<1>2. CASE Process \/ Disturb \/ \E committed \in BOOLEAN : DatabaseFault(committed)
  BY <1>2, ProcessKeepsBudget
<1>3. ~Resubscribe
  BY DEF Resubscribe, IInv, TypeOK
<1>4. CASE UNCHANGED vars
  BY <1>4 DEF vars, BInv, NothingDropped, Settled, Tries, Busy, D!Events, D!Acked
<1> QED
  BY <1>1, <1>2, <1>3, <1>4 DEF Next

(***************************************************************************)
(* No event is dropped after its deliveries as long as there are fewer     *)
(* faults and crashes, all told, than an event has deliveries: references  *)
(* that arrive early, names that change hands, schools that go and retries *)
(* make no handler fail by themselves (process_one_event,                  *)
(* SynchronizationManager).  The subscription is set up once, and groups   *)
(* keep their role: see MCConnector_role for what happens otherwise.       *)
(***************************************************************************)
THEOREM NothingIsDropped ==
  ASSUME MaxResubscriptions = 0, FitDirectories, "role" \notin Operations,
         MaxFaults + MaxCrashes < MaxDeliveries
  PROVE  Spec => []NothingDropped
<1>1. Init => BInv
  <2> SUFFICES ASSUME Init PROVE BInv
    OBVIOUS
  <2>1. IInv
    BY InitInv
  <2>2. D!Events = DOMAIN log /\ log \in Seq(SyncEvent)
    BY <2>1, LoggedTyped DEF IInv, TypeOK
  <2>3. \A i \in DOMAIN log :
          queue[i] = D!FreshEvent(IF IsRelevant(log[i]) THEN "relevant" ELSE "irrelevant")
    BY <2>2 DEF Init, Prefilled, Classes
  <2>4. \A c : D!FreshEvent(c).delivered = 0 /\ D!FreshEvent(c).outcome = "pending"
    BY DEF D!FreshEvent
  <2>5. \A i : Tries(i) \in Nat
    BY <2>1, CountersTyped DEF Tries
  <2>6. \A i \in D!Events : queue[i].delivered = 0 /\ queue[i].outcome = "pending"
    BY <2>2, <2>3, <2>4
  <2> QED
    BY <2>5, <2>6 DEF Init, BInv, NothingDropped, Settled
<1>2. IInv /\ IInv' /\ RInv /\ WInv /\ WInv' /\ CInv /\ BInv /\ [Next]_vars => BInv'
  BY NextKeepsBudget
<1>3. BInv => NothingDropped
  BY DEF BInv
<1> QED
  BY <1>1, <1>2, <1>3, OneSubscription, PTL DEF Spec

\* A stored user has its DN and a primary school (_build_school_memberships).
LEMMA StoredUsers ==
  ASSUME IInv, CInv, NothingDropped, NEW u \in Users(db)
  PROVE  db.dn[u] # NoRow /\ \E s \in School : <<u, s>> \in db.primary
<1>1. u \in User /\ u \in Object /\ Stored(db, u)
  BY DEF Users, Object, Stored
<1>2. PICK j : LastCommitted(u, j) /\ StoredBy(db, log[j])
  BY <1>1 DEF CInv, StoredAsTold
<1>3. j \in DOMAIN log /\ About(log[j], u) /\ log[j] \in SyncEvent
  BY <1>2, LoggedTyped DEF LastCommitted
<1>4. db.dn[u] \in Dn
  BY <1>2, <1>3, Writers DEF StoredBy, About
<1>5. \E s \in School : <<u, s>> \in db.primary
  BY <1>1, <1>2, <1>3 DEF CInv, PlacedBy
<1> QED
  BY <1>4, <1>5, StoreAssumption DEF StoreAssumption

----------------------------------------------------------------------------
(* What the events tell of the members of groups *)

\* The later of a group's event, the i-th, and a user's, the j-th, names the other by DN.
Refers(e, i, f, j) == IF j < i THEN EventDn(f) \in e.users ELSE EventDn(e) \in f.groups

\* The last events of a group and a user tell together whether the user is in the group.
RefsTold ==
  \A g \in DirGroups(dir), u \in DirUsers(dir), i, j \in DOMAIN log :
    /\ Latest(log, i) /\ About(log[i], g)
    /\ Latest(log, j) /\ About(log[j], u)
    => (Refers(log[i], i, log[j], j) <=> u \in dir.group[g].members)

\* An event of an object that is there is of its kind and no removal.
LEMMA EventsOfPresent ==
  ASSUME NEW n, NEW e \in SyncEvent, Carries(n, e)
  PROVE  /\ \A g \in DirGroups(n) : About(e, g) => e \in GroupEvent /\ e.op # "delete"
         /\ \A u \in DirUsers(n) : About(e, u) => e \in UserEvent /\ e.op # "delete"
<1> USE StoreAssumption DEF StoreAssumption
<1>1. ASSUME NEW g \in DirGroups(n), About(e, g)
      PROVE  e \in GroupEvent /\ e.op # "delete"
  <2>1. g \in Object /\ g \in Group /\ g \in DirObjects(n)
    BY DEF DirGroups, DirObjects, Object
  <2>2. ~Removes(e)
    BY <1>1, <2>1 DEF Carries, About
  <2> QED
    BY <1>1, <2>1, <2>2, EventKinds DEF About, Removes
<1>2. ASSUME NEW u \in DirUsers(n), About(e, u)
      PROVE  e \in UserEvent /\ e.op # "delete"
  <2>1. u \in Object /\ u \in User /\ u \in DirObjects(n)
    BY DEF DirUsers, DirObjects, Object
  <2>2. ~Removes(e)
    BY <1>2, <2>1 DEF Carries, About
  <2> QED
    BY <1>2, <2>1, <2>2, EventKinds DEF About, Removes
<1> QED
  BY <1>1, <1>2

\* The DN an event of a present object tells is the object's DN (UDM).
LEMMA EventDnIsDirDn ==
  ASSUME NEW n, NEW e \in SyncEvent, Carries(n, e)
  PROVE  /\ \A g \in DirGroups(n) : About(e, g)
              => EventDn(e) = DirDn(n, g) /\ DirDn(n, g) = GroupDn(n.group[g].name)
         /\ \A u \in DirUsers(n) : About(e, u)
              => EventDn(e) = DirDn(n, u) /\ DirDn(n, u) = UserDn(n.user[u].name, n.user[u].ou)
<1> USE StoreAssumption DEF StoreAssumption
<1>1. ASSUME NEW g \in DirGroups(n), About(e, g)
      PROVE  EventDn(e) = DirDn(n, g) /\ DirDn(n, g) = GroupDn(n.group[g].name)
  <2>1. e \in GroupEvent /\ e.op # "delete" /\ e.id = g /\ e.kind = "group"
    BY <1>1, EventsOfPresent DEF About, GroupEvent
  <2>2. EventDn(e) = GroupDn(n.group[g].name)
    BY <2>1 DEF EventDn, Carries
  <2>3. DirDn(n, g) = GroupDn(n.group[g].name)
    BY DEF DirDn, DirGroups, DirUsers
  <2> QED
    BY <2>2, <2>3
<1>2. ASSUME NEW u \in DirUsers(n), About(e, u)
      PROVE  EventDn(e) = DirDn(n, u) /\ DirDn(n, u) = UserDn(n.user[u].name, n.user[u].ou)
  <2>1. e \in UserEvent /\ e.op # "delete" /\ e.id = u /\ e.kind = "user"
    BY <1>2, EventsOfPresent DEF About, UserEvent
  <2>2. EventDn(e) = UserDn(n.user[u].name, n.user[u].ou)
    BY <2>1 DEF EventDn, Carries
  <2>3. DirDn(n, u) = UserDn(n.user[u].name, n.user[u].ou)
    BY DEF DirDn, DirGroups, DirUsers
  <2> QED
    BY <2>2, <2>3
<1> QED
  BY <1>1, <1>2

\* An exact event names the members of the group, or the groups of the user (UDM).
LEMMA RefsOfExact ==
  ASSUME NEW n, DirFits(n), NEW e \in SyncEvent, Carries(n, e), NEW f \in SyncEvent, Carries(n, f),
         NEW g \in DirGroups(n), NEW u \in DirUsers(n), About(e, g), About(f, u)
  PROVE  /\ e \in Exact(n) => (EventDn(f) \in e.users <=> u \in n.group[g].members)
         /\ f \in Exact(n) => (EventDn(e) \in f.groups <=> u \in n.group[g].members)
<1> USE StoreAssumption DEF StoreAssumption
<1>1. /\ EventDn(e) = DirDn(n, g) /\ EventDn(f) = DirDn(n, u)
      /\ \A h \in DirGroups(n) : DirDn(n, h) = GroupDn(n.group[h].name)
      /\ \A v \in DirUsers(n) : DirDn(n, v) = UserDn(n.user[v].name, n.user[v].ou)
  BY EventDnIsDirDn DEF DirDn, DirGroups, DirUsers
<1>2. \A v \in DirUsers(n) : DirDn(n, v) = DirDn(n, u) => v = u
  BY <1>1 DEF DirFits, NamesUnique, UserDn
<1>3. \A h \in DirGroups(n) : DirDn(n, h) = DirDn(n, g) => h = g
  BY <1>1 DEF DirFits, NamesUnique, GroupDn
<1>4. n.group[g].members \subseteq DirUsers(n)
  BY DEF DirFits, DirKept, ReferencesIntact
<1>5. /\ e.kind = "group" /\ e.op # "delete" /\ e.id = g
      /\ f.kind = "user" /\ f.op # "delete" /\ f.id = u
  BY EventsOfPresent DEF About, GroupEvent, UserEvent
<1>6. ASSUME e \in Exact(n) PROVE EventDn(f) \in e.users <=> u \in n.group[g].members
  <2>1. e = GroupSnapshot(n, e.op, g)
    BY <1>5, <1>6 DEF Exact
  <2>2. e.users = {DirDn(n, v) : v \in n.group[g].members}
    BY <2>1 DEF GroupSnapshot
  <2> QED
    BY <1>1, <1>2, <1>4, <2>2
<1>7. ASSUME f \in Exact(n) PROVE EventDn(e) \in f.groups <=> u \in n.group[g].members
  <2>1. f = UserSnapshot(n, f.op, u)
    BY <1>5, <1>7 DEF Exact
  <2>2. f.groups = {DirDn(n, h) : h \in GroupsOf(n, u)}
    BY <2>1 DEF UserSnapshot
  <2>3. GroupsOf(n, u) \subseteq DirGroups(n) /\ (g \in GroupsOf(n, u) <=> u \in n.group[g].members)
    BY DEF GroupsOf
  <2> QED
    BY <1>1, <1>3, <2>2, <2>3
<1> QED
  BY <1>6, <1>7

\* A change of the members of a group is told by the last event of one of the two
\* (refint, GroupSnapshots).
LEMMA RefsToldOn ==
  ASSUME IInv, WInv', NEW e, ToldBy(e), RefsTold
  PROVE  RefsTold'
<1> USE StoreAssumption DEF StoreAssumption
<1> SUFFICES ASSUME NEW g \in DirGroups(dir'), NEW u \in DirUsers(dir'),
                    NEW i \in DOMAIN log', NEW j \in DOMAIN log',
                    Latest(log', i), About(log'[i], g), Latest(log', j), About(log'[j], u)
             PROVE  Refers(log'[i], i, log'[j], j) <=> u \in dir'.group[g].members
  BY DEF RefsTold
<1>1. NewAndOld(e) /\ DirFits(dir')
  BY OldAndNew DEF ToldBy
<1>2. Carries(dir', log'[i]) /\ Carries(dir', log'[j])
  BY DEF WInv, DirTold, LatestCarries
<1>3. log'[i] \in SyncEvent /\ log'[j] \in SyncEvent
  <2>1. \A k \in DOMAIN log' : log'[k] \in SyncEvent
    BY <1>1 DEF NewAndOld
  <2> QED
    BY <2>1
<1>4. i \in Nat /\ j \in Nat
  BY <1>1 DEF NewAndOld
<1>5. CASE j < i /\ i \notin DOMAIN log
  <2>1. log'[i] \in Exact(dir')
    BY <1>1, <1>5 DEF NewAndOld
  <2> QED
    BY <1>1, <1>2, <1>3, <1>5, <2>1, RefsOfExact DEF Refers
<1>6. CASE ~(j < i) /\ j \notin DOMAIN log
  <2>1. log'[j] \in Exact(dir')
    BY <1>1, <1>6 DEF NewAndOld
  <2> QED
    BY <1>1, <1>2, <1>3, <1>6, <2>1, RefsOfExact DEF Refers
<1>7. CASE i \in DOMAIN log /\ j \in DOMAIN log
  <2>1. log'[i] = log[i] /\ log'[j] = log[j]
    BY <1>1, <1>7 DEF NewAndOld
  <2>2. g \in Object /\ u \in Object /\ g \in Group /\ u \in User
    BY DEF DirGroups, DirUsers, Object
  <2>3. Latest(log, i) /\ Latest(log, j)
    BY <1>1, <1>7, <2>1 DEF Latest, NewAndOld, About
  <2>4. ~About(e, g) /\ ~About(e, u)
    <3>1. ~About(e, log'[i].id) /\ ~About(e, log'[j].id)
      BY <1>1, <1>4, <1>7 DEF NewAndOld, Latest
    <3> QED
      BY <3>1 DEF About
  <2>5. g \in DirGroups(dir) /\ u \in DirUsers(dir)
    <3>1. g \in DirObjects(dir') /\ u \in DirObjects(dir')
      BY DEF DirObjects
    <3>2. g \in DirObjects(dir) /\ u \in DirObjects(dir)
      BY <2>2, <2>4, <3>1, AppearsTold
    <3> QED
      BY <2>2, <3>2 DEF DirObjects, DirSchools, DirGroups, DirUsers
  <2>6. u \in dir'.group[g].members <=> u \in dir.group[g].members
    <3>1. TellsAll(dir, dir', e)
      BY DEF ToldBy
    <3>2. u \in MembersOf(dir', g) <=> u \in MembersOf(dir, g)
      BY <2>2, <2>4, <3>1 DEF TellsAll
    <3> QED
      BY <2>5, <3>2 DEF MembersOf
  <2> QED
    BY <1>7, <2>1, <2>3, <2>5, <2>6 DEF RefsTold
<1> QED
  BY <1>1, <1>4, <1>5, <1>6, <1>7 DEF NewAndOld

\* A prefill tells the members of every group twice (Prefill).
LEMMA RefsToldStarts ==
  ASSUME DirFits(dir), log = PrefillEvents(dir)
  PROVE  RefsTold
<1> SUFFICES ASSUME NEW g \in DirGroups(dir), NEW u \in DirUsers(dir),
                    NEW i \in DOMAIN log, NEW j \in DOMAIN log,
                    About(log[i], g), About(log[j], u)
             PROVE  Refers(log[i], i, log[j], j) <=> u \in dir.group[g].members
  BY DEF RefsTold
<1>1. log[i] \in Exact(dir) /\ log[j] \in Exact(dir)
  BY PrefillExact DEF DirFits
<1>2. Carries(dir, log[i]) /\ Carries(dir, log[j]) /\ log[i] \in SyncEvent /\ log[j] \in SyncEvent
  BY <1>1, ExactCarries
<1> QED
  BY <1>1, <1>2, RefsOfExact DEF Refers

----------------------------------------------------------------------------
(* The links a handler leaves *)

\* A handled group event leaves the group as the event wants it
\* (_handle_group_create, _handle_group_modify), if the group has no senders.
LEMMA GroupEventSettles ==
  ASSUME NEW d, Kept(d), ConstraintsHold(d), MappingTyped(d), NEW e \in GroupEvent,
         ToldAsStored(d, e), e.senders = {}, SchoolsNamed(d, {e.school}) # {}
  PROVE  GroupSettled(HandleEvent(d, e), e)
<1> DEFINE dn == EventDn(e)
           w == NewGroup(d, e)
           n == SetMapping(w, e.id, dn)
           m == Unmap(d, e.id, dn)
           a == ApplyGroup(m, e)
           v == SetMapping(a, e.id, dn)
           h == HandleEvent(d, e)
<1>0. e.id \in Group /\ e.id \in Object /\ dn \in Dn
  BY GroupDnTyped DEF GroupEvent, Object
<1>1. e.id \notin Groups(d) => h = n
  BY DEF GroupEvent, HandleEvent, HandleGroupCreate, HandleGroupModify
<1>2. e.id \in Groups(d) => h = ApplyGroup(d, e) \/ h = v
  BY DEF GroupEvent, HandleEvent, HandleGroupCreate, HandleGroupModify
<1>3. ~NamesItself(e)
  BY DEF NamesItself
<1>4. CASE e.id \notin Groups(d)
  <2>1. GroupSettled(n, e)
    BY <1>3, <1>4, MappedGroupIsSettled
  <2> HIDE DEF n
  <2> QED
    BY <1>1, <1>4, <2>1
<1>5. CASE e.id \in Groups(d)
  <2>1. GroupSettled(ApplyGroup(d, e), e)
    BY <1>5, AppliedGroupIsSettled
  <2>2. Kept(m) /\ SameRows(d, m)
    BY <1>0, UnmapKeeps, MappingOnly DEF Kept
  <2>3. \A u \in User : u \in Object /\ d.dn[u] # dn /\ u # e.id
    BY GroupDnIsNoUsers
  <2> HIDE DEF dn
  <2>4. /\ m.dn[e.id] = NoRow /\ \A y \in Object : m.dn[y] # dn
        /\ \A y \in Object \ {e.id} : m.dn[y] = d.dn[y] \/ (d.dn[y] = dn /\ m.dn[y] = NoRow)
    BY <1>0, Unmapped DEF Kept
  <2> HIDE DEF m
  <2>5. /\ ConstraintsHold(m) /\ ToldAsStored(m, e) /\ e.id \in Groups(m)
        /\ SchoolsNamed(m, {e.school}) # {}
    BY <1>5, <2>2
       DEF SameRows, ConstraintsHold, ToldAsStored, StoredPlace, Schools, Groups, Users, SchoolsNamed
  <2>6. a \in Database /\ GroupSettled(a, e) /\ e.id \in Groups(a) /\ a.dn = m.dn
    BY <2>2, <2>5, AppliedGroupIsSettled
  <2>7. SchoolsNamed(a, {e.school}) # {}
    <3>1. a.school = m.school
      BY <2>2 DEF Kept, Database, ApplyGroup, ModifyGroup
    <3> QED
      BY <2>5, <3>1 DEF SchoolsNamed
  <2> HIDE DEF a
  <2>8. SameRows(a, v)
    BY <1>0, <2>6, MappingOnly
  <2>9. \A y \in Object \ {e.id} : v.dn[y] = a.dn[y] \/ (a.dn[y] = dn /\ v.dn[y] = NoRow)
    BY <1>0, <2>6, MappingIsSet
  <2> HIDE DEF v
  <2>10. \A u \in User : v.dn[u] = a.dn[u]
    BY <2>3, <2>4, <2>6, <2>9
  <2>11. GroupSettled(v, e)
    BY <2>6, <2>7, <2>8, <2>10, StaysSettled
  <2> HIDE DEF h
  <2> QED
    BY <1>2, <1>5, <2>1, <2>11 DEF h
<1> QED
  BY <1>4, <1>5

\* A handled user event leaves the user as the event wants it
\* (_handle_user_create, _handle_user_modify).
LEMMA UserEventSettles ==
  ASSUME NEW d, Kept(d), SchoolsUnique(d), MappingTyped(d), NEW e \in UserEvent,
         SchoolsNamed(d, e.schools) # {}
  PROVE  UserSettled(HandleEvent(d, e), e)
<1> DEFINE dn == EventDn(e)
           w == ApplyUser(d, e)
           n == SetMapping(w, e.id, dn)
           m == SetMapping(d, e.id, dn)
           v == ApplyUser(m, e)
           h == HandleEvent(d, e)
<1>0. e.id \in User /\ e.id \in Object /\ dn \in Dn /\ d \in Database
  BY UserDnTyped DEF UserEvent, Object, Kept
<1>1. /\ w \in Database /\ UserSettled(w, e) /\ w.dn = d.dn
  BY AppliedUserIsSettled
<1>2. SameRows(w, n) /\ \A g \in Group : n.dn[g] = w.dn[g]
  <2> HIDE DEF w
  <2>1. SameRows(w, n)
    BY <1>0, <1>1, MappingOnly
  <2>2. MappingTyped(w)
    BY <1>1 DEF MappingTyped
  <2> QED
    BY <1>1, <2>1, <2>2, UserDnIsNoGroups
<1>3. SameRows(d, m)
  BY <1>0, MappingOnly
<1>4. ASSUME e.id \in Users(d) PROVE UserSettled(v, e)
  <2>1. Kept(m) /\ SchoolsUnique(m)
    BY <1>0, <1>3, <1>4, SetMappingKeeps DEF Stored, SchoolsUnique, Schools, SameRows
  <2> HIDE DEF m
  <2> QED
    BY <2>1, AppliedUserIsSettled
<1>5. h = w \/ h = n \/ (e.id \in Users(d) /\ h = v)
  BY DEF UserEvent, HandleEvent, HandleUserCreate, HandleUserModify
<1> HIDE DEF w, n, m, v, dn
<1>6. UserSettled(n, e)
  <2>1. n.school = w.school /\ n.group = w.group
    BY <1>2 DEF SameRows
  <2>2. /\ SchoolsNamed(n, e.schools) = SchoolsNamed(w, e.schools)
        /\ PrimarySchools(n, e) = PrimarySchools(w, e) /\ EventLinks(n, e) = EventLinks(w, e)
    BY <1>2, <2>1, UserResolves
  <2> QED
    BY <1>1, <1>2, <2>2 DEF SameRows, UserSettled
<1> HIDE DEF h
<1> QED
  BY <1>1, <1>4, <1>5, <1>6 DEF h

\* References that handling e leaves alone: links between other objects, the
\* servers of schools it does not remove, and senders, as long as there are none.
RefsKept(d, n, e) ==
  /\ \A g \in Group, u \in User, s \in School :
       g # e.id /\ u # e.id /\ (s # e.id \/ ~Removes(e)) => (<<g, u, s>> \in n.link <=> <<g, u, s>> \in d.link)
  /\ \A s, k, v : s # e.id \/ ~Removes(e) => (<<s, k, v>> \in n.server <=> <<s, k, v>> \in d.server)
  /\ d.sender = {} /\ (e \in GroupEvent => e.senders = {}) => n.sender = {}

\* What a school, group or user event leaves alone (SynchronizationManager).
LEMMA EventKeepsRefs ==
  ASSUME NEW d, Kept(d), SchoolsUnique(d), NEW e \in SchoolEvent \cup GroupEvent \cup UserEvent
  PROVE  RefsKept(d, HandleEvent(d, e), e)
<1> USE StoreAssumption DEF StoreAssumption
<1> DEFINE n == HandleEvent(d, e)
           dn == EventDn(e)
           Good(y) == Kept(y) /\ SameRows(d, y)
           m == Unmap(d, e.id, dn)
           p == SetMapping(d, e.id, dn)
           Map(y) == SetMapping(y, e.id, dn)
<1>1. e.id \in Object /\ dn \in Dn /\ ~Removes(e)
  BY SchoolDnTyped, GroupDnTyped, UserDnTyped
     DEF SchoolEvent, GroupEvent, UserEvent, Object, Removes
<1>2. Good(d) /\ Good(m) /\ (Stored(d, e.id) => Good(p))
  <2> HIDE DEF dn
  <2>1. d \in Database
    BY DEF Kept
  <2>2. SameRows(d, m) /\ SameRows(d, p)
    BY <1>1, <2>1, MappingOnly
  <2>3. Kept(m)
    BY <1>1, UnmapKeeps
  <2>4. Stored(d, e.id) => Kept(p)
    BY <1>1, SetMappingKeeps
  <2> QED
    BY <2>2, <2>3, <2>4 DEF SameRows
<1>3. RefsKept(d, d, e)
  BY DEF RefsKept
<1>4. \A y, z : RefsKept(y, z, e) /\ SameRows(d, y) => RefsKept(d, z, e)
  BY DEF RefsKept, SameRows
<1>5. \A y \in Database : RefsKept(d, y, e) => RefsKept(d, Map(y), e)
  <2> TAKE y \in Database
  <2>1. SameRows(y, Map(y))
    BY <1>1, MappingOnly
  <2> HIDE DEF Map
  <2> QED
    BY <2>1 DEF RefsKept, SameRows
<1> HIDE DEF m, p, Map
<1>6. CASE e \in SchoolEvent
  <2> DEFINE Put(y) == PutSchool(y, e.id, e.name)
  <2>1. \A y \in Database : Put(y) \in Database /\ RefsKept(y, Put(y), e)
    BY <1>6 DEF Database, PutSchool, SchoolEvent, RefsKept
  <2>2. n = Put(d) \/ n = Map(Put(d)) \/ (Stored(d, e.id) /\ n = Put(p))
    BY <1>6 DEF SchoolEvent, HandleEvent, HandleSchoolCreate, HandleSchoolModify, Stored, p, Map, dn
  <2> HIDE DEF Put, n
  <2>3. RefsKept(d, n, e)
    BY <1>2, <1>4, <1>5, <2>1, <2>2 DEF Kept
  <2> QED
    BY <2>3 DEF n
<1>7. CASE e \in UserEvent
  <2> DEFINE Put(y) == ApplyUser(y, e)
  <2>1. \A y \in Database : RefsKept(y, Put(y), e)
    <3> TAKE y \in Database
    <3>1. /\ Put(y).link = {l \in y.link : l[2] # e.id} \cup EventLinks(y, e)
          /\ Put(y).server = y.server /\ Put(y).sender = y.sender
      BY DEF Database, ApplyUser, PutUser
    <3>2. \A l \in EventLinks(y, e) : l[2] = e.id
      BY DEF EventLinks
    <3> HIDE DEF Put
    <3> QED
      BY <3>1, <3>2 DEF RefsKept
  <2>2. n = d \/ n = Put(d) \/ n = Map(Put(d)) \/ (Stored(d, e.id) /\ n = Put(p))
    BY <1>7 DEF UserEvent, HandleEvent, HandleUserCreate, HandleUserModify, Stored, p, Map, dn
  <2>3. Put(d) \in Database
    BY <1>7, ApplyUserKeeps DEF Kept
  <2> HIDE DEF Put, n
  <2>4. RefsKept(d, n, e)
    BY <1>2, <1>3, <1>4, <1>5, <2>1, <2>2, <2>3 DEF Kept
  <2> QED
    BY <2>4 DEF n
<1>8. CASE e \in GroupEvent
  <2> DEFINE Put(y) == ApplyGroup(y, e)
             b == NewGroup(d, e)
  <2>1. \A y \in Database : \A users, s : \A l \in LinksInSchool(y, e.id, users, s) : l[1] = e.id
    BY LinksInSchoolAre
  <2>2. \A y : e.senders = {} => EventSenders(y, e) = {}
    BY DEF EventSenders, Resolve
  <2>3. \A y \in Database : RefsKept(y, Put(y), e)
    <3> TAKE y \in Database
    <3>1. PICK users, s : \/ Put(y).link = y.link
                          \/ Put(y).link = WithoutLinks(y, e.id) \cup LinksInSchool(y, e.id, users, s)
      BY DEF Database, ApplyGroup, ModifyGroup
    <3>2. /\ Put(y).server = y.server
          /\ Put(y).sender = WithoutSenders(y, e.id) \cup ({e.id} \X EventSenders(y, e))
      BY DEF Database, ApplyGroup, ModifyGroup
    <3> HIDE DEF Put
    <3>3. y.sender = {} /\ e.senders = {} => Put(y).sender = {}
      BY <2>2, <3>2 DEF WithoutSenders
    <3> QED
      BY <1>8, <2>1, <3>1, <3>2, <3>3 DEF RefsKept, WithoutLinks
  <2>4. RefsKept(d, b, e)
    <3>1. PICK users, s : b.link = WithoutLinks(d, e.id) \cup LinksInSchool(d, e.id, users, s)
      BY DEF Kept, Database, NewGroup, CreateGroup
    <3>2. /\ b.server = d.server
          /\ b.sender = WithoutSenders(d, e.id) \cup ({e.id} \X EventSenders(d, e))
      BY DEF Kept, Database, NewGroup, CreateGroup
    <3> HIDE DEF b
    <3>3. d.sender = {} /\ e.senders = {} => b.sender = {}
      BY <2>2, <3>2 DEF WithoutSenders
    <3> QED
      BY <1>8, <2>1, <3>1, <3>2, <3>3 DEF RefsKept, WithoutLinks, Kept
  <2>5. SchoolsNamed(d, {e.school}) # {} => b \in Database
    BY <1>8, NewGroupKeeps DEF Kept
  <2>6. Stored(d, e.id) <=> e.id \in Groups(d)
    BY <1>8 DEF GroupEvent, Stored, Schools, Users
  <2>7. \/ n = d \/ n = Put(d)
        \/ n = Map(b) /\ SchoolsNamed(d, {e.school}) # {}
        \/ Stored(d, e.id) /\ n = Map(Put(m))
    BY <1>8, <2>6 DEF GroupEvent, HandleEvent, HandleGroupCreate, HandleGroupModify, m, Map, dn
  <2>8. Stored(d, e.id) => Put(m) \in Database
    <3>1. Groups(m) = Groups(d)
      BY <1>2 DEF SameRows, Groups
    <3> QED
      BY <1>2, <1>8, <2>6, <3>1, ApplyGroupKeeps DEF Kept
  <2> HIDE DEF Put, b, n
  <2>9. RefsKept(d, n, e)
    BY <1>2, <1>3, <1>4, <1>5, <2>3, <2>4, <2>5, <2>7, <2>8 DEF Kept
  <2> QED
    BY <2>9 DEF n
<1> QED
  BY <1>6, <1>7, <1>8

\* What a removal leaves alone (ON DELETE CASCADE).
LEMMA RemovalKeepsRefs ==
  ASSUME NEW d, Kept(d), NEW e \in DeleteEvent
  PROVE  RefsKept(d, HandleEvent(d, e), e)
<1> DEFINE n == HandleEvent(d, e)
<1>1. Removes(e) /\ e.kind \in {"school", "group", "user"} /\ e.op = "delete"
  BY DEF DeleteEvent, Removes
<1>2. \/ n = DeleteSchool(d, e.id) \/ n = DeleteGroup(d, e.id) \/ n = DeleteUser(d, e.id)
  BY <1>1 DEF HandleEvent, HandleDelete
<1>3. CASE n = DeleteSchool(d, e.id)
  <2>1. /\ n.link = {l \in d.link : l[3] # e.id} /\ n.sender = d.sender
        /\ n.server = {v \in d.server : v[1] # e.id}
    BY <1>3 DEF DeleteSchool, Kept, Database
  <2> HIDE DEF n
  <2> QED
    BY <1>1, <2>1 DEF RefsKept, n
<1>4. CASE n = DeleteGroup(d, e.id)
  <2>1. /\ n.link = {l \in d.link : l[1] # e.id} /\ n.server = d.server
        /\ n.sender = {x \in d.sender : x[1] # e.id /\ x[2] # e.id}
    BY <1>4 DEF DeleteGroup, Kept, Database
  <2> HIDE DEF n
  <2> QED
    BY <1>1, <2>1 DEF RefsKept, n
<1>5. CASE n = DeleteUser(d, e.id)
  <2>1. /\ n.link = {l \in d.link : l[2] # e.id} /\ n.server = d.server
        /\ n.sender = {x \in d.sender : x[2] # e.id}
    BY <1>5 DEF DeleteUser, Kept, Database
  <2> HIDE DEF n
  <2> QED
    BY <1>1, <2>1 DEF RefsKept, n
<1> QED
  BY <1>2, <1>3, <1>4, <1>5

\* A DC host group event writes servers only (_handle_host_group_create and its siblings).
LEMMA HostEventRows ==
  ASSUME NEW d, Kept(d), NEW e \in HostEvent
  PROVE  LET n == HandleEvent(d, e)
         IN /\ SameRows([d EXCEPT !.server = n.server], n) /\ n.dn = d.dn
            /\ SchoolsNamed(d, {e.school}) = {} => n = d
            /\ SchoolsNamed(d, {e.school}) # {}
                 => LET s == CHOOSE s \in SchoolsNamed(d, {e.school}) : TRUE
                        hosts == IF e.op = "delete" THEN {} ELSE e.hosts
                    IN n.server = {v \in d.server : v[1] # s \/ v[2] # e.host_kind}
                                    \cup ({s} \X {e.host_kind} \X hosts)
<1> DEFINE n == HandleEvent(d, e)
           h == HandleHostGroup(d, e)
<1>1. n = h
  BY DEF HostEvent, HandleEvent
<1>2. d \in Database
  BY DEF Kept
<1>3. /\ SameRows([d EXCEPT !.server = h.server], h) /\ h.dn = d.dn
  BY <1>2 DEF HandleHostGroup, SetServers, SameRows, Database
<1>4. SchoolsNamed(d, {e.school}) = {} => h = d
  BY DEF HandleHostGroup
<1>5. SchoolsNamed(d, {e.school}) # {}
                 => LET s == CHOOSE s \in SchoolsNamed(d, {e.school}) : TRUE
                        hosts == IF e.op = "delete" THEN {} ELSE e.hosts
                    IN h.server = {v \in d.server : v[1] # s \/ v[2] # e.host_kind}
                                    \cup ({s} \X {e.host_kind} \X hosts)
  BY <1>2 DEF HandleHostGroup, SetServers, Database
<1> HIDE DEF h
<1> QED
  BY <1>1, <1>3, <1>4, <1>5

\* An event leaves the links between other objects alone, but in a school it removes.
LEMMA OthersLinks ==
  ASSUME NEW d, Kept(d), SchoolsUnique(d), NEW e \in SyncEvent,
         NEW g \in Group, NEW u \in User, NEW s \in School,
         ~About(e, g), ~About(e, u), ~(Removes(e) /\ About(e, s))
  PROVE  <<g, u, s>> \in HandleEvent(d, e).link <=> <<g, u, s>> \in d.link
<1> DEFINE n == HandleEvent(d, e)
<1>1. CASE e \in HostEvent
  <2>1. n.link = [d EXCEPT !.server = n.server].link
    BY <1>1, HostEventRows DEF SameRows
  <2> HIDE DEF n
  <2>2. n.link = d.link
    BY <2>1 DEF Kept, Database
  <2> QED
    BY <2>2 DEF n
<1>2. CASE e \notin HostEvent
  <2>1. e.kind # "host"
    BY <1>2 DEF SyncEvent, SchoolEvent, GroupEvent, UserEvent, DeleteEvent
  <2>2. RefsKept(d, n, e)
    BY <1>2, EventKeepsRefs, RemovalKeepsRefs DEF SyncEvent
  <2> HIDE DEF n
  <2> QED
    BY <2>1, <2>2 DEF RefsKept, About, Removes, n
<1> QED
  BY <1>1, <1>2

----------------------------------------------------------------------------
(* The links the events tell *)

\* No group has or had senders.
NoSendersAtAll ==
  /\ NoSenders(dir)
  /\ \A i \in DOMAIN log : log[i] \in GroupEvent => log[i].senders = {}
  /\ db.sender = {}

\* A stored user that belongs to the school of a stored group is linked to it if
\* the later of their events says so.
LinksWritten ==
  \A g \in Groups(db), u \in Users(db), i, j \in DOMAIN log :
    LastCommitted(g, i) /\ LastCommitted(u, j)
    => (<<g, u, db.group[g].school>> \in db.link
          <=> <<u, db.group[g].school>> \in db.member /\ Refers(log[i], i, log[j], j))

\* The DN of a stored object is the one its last committed event tells.
LEMMA StoredDn ==
  ASSUME IInv, StoredAsTold, NEW x \in Object, Stored(db, x), NEW j, LastCommitted(x, j)
  PROVE  db.dn[x] = EventDn(log[j])
<1>1. PICK k : LastCommitted(x, k) /\ StoredBy(db, log[k])
  BY DEF StoredAsTold
<1>2. k = j
  BY <1>1, OneLastCommitted
<1> QED
  BY <1>1, <1>2 DEF StoredBy, LastCommitted, About

\* A commit leaves the links as the events tell them, whichever comes last: the
\* group's links its own members, the user's its own groups, and no other event
\* touches them (_fetch_members_by_dns, _build_school_memberships).
LEMMA CommitKeepsLinks ==
  ASSUME IInv, IInv', RInv, WInv, CInv, LInv, LInv', HInv, NothingDropped, NoSendersAtAll,
         LinksWritten, Commits
  PROVE  LinksWritten'
<1> USE StoreAssumption DEF StoreAssumption
<1> PICK c : c = cur
  OBVIOUS
<1> DEFINE e == log[c]
           n == HandleEvent(db, e)
<1>1. /\ Kept(db) /\ SchoolsUnique(db) /\ ConstraintsHold(db) /\ db \in Database
      /\ e \in SyncEvent /\ db' = n /\ ConstraintsHold(n) /\ log' = log
  BY CommittedStore DEF Kept
<1>2. /\ \A x : About(e, x) => LastCommitted(x, c)'
      /\ \A x, k : ~About(e, x) => (LastCommitted(x, k)' <=> LastCommitted(x, k))
      /\ \A k \in DOMAIN log : Committed(k) => k <= c
      /\ c \in DOMAIN log /\ DOMAIN log = 1..Len(log) /\ Len(log) \in Nat /\ D!OldestPending(c)
  BY LastAfterCommit
<1>3. /\ e.kind = "host" => \A y : Stored(n, y) => Stored(db, y)
      /\ e.kind # "host" => StoresOnly(db, n, e.id)
      /\ e.kind # "host" /\ e.op = "delete" => ~Stored(n, e.id)
  BY <1>1, EventStoresOwnObject DEF Kept
<1>4. \A x \in Object : \A j : Stored(db', x) /\ LastCommitted(x, j)' => n.dn[x] = EventDn(log[j])
  <2>1. StoredAsTold'
    BY CommitKeepsTold DEF CInv, History
  <2> SUFFICES ASSUME NEW x \in Object, NEW j, Stored(db', x), LastCommitted(x, j)'
               PROVE  db'.dn[x] = EventDn(log[j])
    BY <1>1
  <2>2. PICK k : LastCommitted(x, k)' /\ StoredBy(db', log[k])
    BY <1>1, <2>1 DEF StoredAsTold
  <2>3. k \in 1..Len(log) /\ j \in 1..Len(log) /\ k <= j /\ j <= k
    BY <1>1, <1>2, <2>2 DEF LastCommitted
  <2>4. k = j
    BY <1>2, <2>3
  <2> QED
    BY <1>1, <2>2, <2>4 DEF StoredBy, LastCommitted, About
<1>5. \A l \in n.link : n.group[l[1]].school = l[3]
  BY <1>1 DEF LInv, LinksWithinSchool
<1>6. MappingTyped(db) /\ ToldAsStored(db, e)
  BY <1>2, QueuedAsStored DEF HInv, LInv
<1>7. \A x : About(e, x) => \A k : LastCommitted(x, k)' => k = c
  BY <1>1, <1>2 DEF LastCommitted
<1> SUFFICES ASSUME NEW g \in Groups(db'), NEW u \in Users(db'), NEW i \in DOMAIN log,
                    NEW j \in DOMAIN log, LastCommitted(g, i)', LastCommitted(u, j)'
             PROVE  <<g, u, n.group[g].school>> \in n.link
                      <=> <<u, n.group[g].school>> \in n.member /\ Refers(log[i], i, log[j], j)
  BY <1>1 DEF LinksWritten
<1> DEFINE s == n.group[g].school
<1>8. /\ g \in Object /\ g \in Group /\ g \notin School /\ g \notin User /\ g \in Groups(n)
      /\ u \in Object /\ u \in User /\ u \notin School /\ u \notin Group /\ u \in Users(n)
      /\ g # u /\ Stored(n, g) /\ Stored(n, u) /\ Stored(db', g) /\ Stored(db', u)
  BY <1>1 DEF Object, Groups, Users, Stored
<1>9. s \in Schools(n)
  BY <1>1, <1>8 DEF ConstraintsHold
<1>10. n.dn[g] = EventDn(log[i]) /\ n.dn[u] = EventDn(log[j])
  BY <1>4, <1>8
<1> HIDE DEF n
<1>11. CASE About(e, g)
  <2>1. e.op # "delete" /\ e.id = g /\ e.kind # "host"
    BY <1>1, <1>3, <1>8, <1>11 DEF About
  <2>2. e \in GroupEvent /\ e.kind = "group"
    BY <1>1, <1>8, <1>11, <2>1, EventKinds
  <2>3. ~About(e, u)
    BY <1>8, <2>1 DEF About
  <2>4. i = c /\ j < c
    BY <1>2, <1>7, <1>11, <2>3 DEF LastCommitted
  <2>5. SchoolsNamed(db, {e.school}) # {}
    <3>1. e.school \in SchoolsWanted(e)
      BY <2>1, <2>2 DEF SchoolsWanted, SchoolsOf
    <3> QED
      BY <1>2, <3>1, WantedAreStored DEF SchoolsNamed
  <2>6. e.senders = {}
    BY <1>2, <2>2 DEF NoSendersAtAll
  <2>7. GroupSettled(n, e)
    BY <1>1, <1>6, <2>2, <2>5, <2>6, GroupEventSettles DEF n
  <2>8. s = TargetSchool(n, e) /\ Members(n, g) = EventMembers(n, e, s)
    <3>1. n.group[g] = [name |-> e.name, school |-> TargetSchool(n, e)]
      BY <2>1, <2>7 DEF GroupSettled
    <3>2. s = TargetSchool(n, e)
      BY <3>1
    <3> QED
      BY <2>1, <2>7, <3>2 DEF GroupSettled
  <2>9. u \in Members(n, g) <=> <<g, u, s>> \in n.link
    BY <1>5, <1>8, <1>9 DEF Members, Schools
  <2>10. u \in EventMembers(n, e, s) <=> n.dn[u] \in e.users /\ <<u, s>> \in n.member
    BY <1>8 DEF EventMembers, Resolve
  <2> QED
    BY <1>10, <2>4, <2>8, <2>9, <2>10 DEF Refers
<1>12. CASE About(e, u)
  <2>1. e.op # "delete" /\ e.id = u /\ e.kind # "host"
    BY <1>1, <1>3, <1>8, <1>12 DEF About
  <2>2. e \in UserEvent /\ e.kind = "user"
    BY <1>1, <1>8, <1>12, <2>1, EventKinds
  <2>3. ~About(e, g)
    BY <1>8, <2>1 DEF About
  <2>4. j = c /\ i < c
    BY <1>2, <1>7, <1>12, <2>3 DEF LastCommitted
  <2>5. SchoolsNamed(db, e.schools) # {}
    <3>1. e.ou \in SchoolsWanted(e) /\ e.ou \in e.schools
      BY <1>2, <2>1, <2>2 DEF SchoolsWanted, SchoolsOf, CInv, History, ScopesFit
    <3> QED
      BY <1>2, <3>1, WantedAreStored DEF SchoolsNamed
  <2>6. UserSettled(n, e)
    BY <1>1, <1>6, <2>2, <2>5, UserEventSettles DEF n
  <2>7. <<g, u, s>> \in n.link <=> <<g, u, s>> \in EventLinks(n, e)
    BY <2>1, <2>6 DEF UserSettled
  <2>8. <<u, s>> \in n.member <=> s \in SchoolsNamed(n, e.schools)
    BY <2>1, <2>6 DEF UserSettled
  <2>9. <<g, u, s>> \in EventLinks(n, e) <=> n.dn[g] \in e.groups /\ s \in SchoolsNamed(n, e.schools)
    BY <1>8, <2>1 DEF EventLinks, Resolve
  <2>10. Refers(log[i], i, log[j], j) <=> EventDn(log[i]) \in e.groups
    BY <1>2, <2>4 DEF Refers
  <2> QED
    BY <1>10, <2>7, <2>8, <2>9, <2>10
<1>13. CASE ~About(e, g) /\ ~About(e, u)
  <2>1. LastCommitted(g, i) /\ LastCommitted(u, j)
    BY <1>2, <1>13
  <2>2. Stored(db, g) /\ Stored(db, u)
    BY <1>3, <1>8, <1>13 DEF StoresOnly, About
  <2>3. g \in Groups(db) /\ u \in Users(db)
    BY <1>8, <2>2 DEF Stored, Schools, Groups, Users
  <2>4. n.group[g] = db.group[g]
    BY <1>1, <1>8, <1>13, OthersKept DEF RowKept, n
  <2>5. s \in School /\ ~(Removes(e) /\ About(e, s))
    BY <1>3, <1>9 DEF Removes, About, Stored, Schools
  <2>6. <<u, s>> \in n.member <=> <<u, s>> \in db.member
    <3>1. MembershipKept(db, n, u, s) \/ MembershipGone(n, e, u, s)
      BY <1>1, <1>8, <1>13, <2>5, OthersKept DEF n
    <3> QED
      BY <2>5, <3>1 DEF MembershipKept, MembershipGone, Removes, About
  <2>7. <<g, u, s>> \in n.link <=> <<g, u, s>> \in db.link
    BY <1>1, <1>8, <1>13, <2>5, OthersLinks DEF n
  <2> QED
    BY <2>1, <2>3, <2>4, <2>6, <2>7 DEF LinksWritten
<1> QED
  BY <1>11, <1>12, <1>13

----------------------------------------------------------------------------
(* Last events *)

\* Of finitely many events of the queue there is a last.
LEMMA LastOfSome ==
  ASSUME NEW n \in Nat, NEW S, S \subseteq 1..n, S # {}
  PROVE  \E x \in S : \A y \in S : y <= x
<1> DEFINE R == OpToRel(<, Nat)
           T == {n - k : k \in S}
<1>1. IsWellFoundedOn(R, Nat)
  BY NatLessThanWellFounded, Zenon
<1>2. T \subseteq Nat /\ T # {}
  <2>1. \A k \in S : n - k \in Nat /\ n - k \in T
    OBVIOUS
  <2>2. T \subseteq Nat
    BY <2>1
  <2>3. PICK k : k \in S
    OBVIOUS
  <2> QED
    BY <2>1, <2>2, <2>3, Zenon
<1>3. \A x, y \in Nat : x < y => <<x, y>> \in R
  BY Zenon DEF OpToRel
<1> HIDE DEF R, T
<1>4. PICK t \in T : \A y \in T : <<y, t>> \notin R
  BY <1>1, <1>2, WFMin, Zenon
<1>5. t \in Nat /\ \A y \in T : y \in Nat /\ ~(y < t)
  BY <1>2, <1>3, <1>4
<1>6. PICK x \in S : t = n - x
  BY DEF T
<1>7. \A y \in S : y <= x
  <2> TAKE y \in S
  <2>1. ~(n - y < n - x)
    BY <1>5, <1>6 DEF T
  <2> QED
    BY <2>1
<1> QED
  BY <1>7

----------------------------------------------------------------------------
(* What the events tell of the servers *)

\* e is about the DC host group h, a school name and a kind.
TellsHosts(e, h) == e.kind = "host" /\ h = <<e.school, e.host_kind>>

LatestHosts(h, j) ==
  /\ j \in DOMAIN log /\ TellsHosts(log[j], h)
  /\ \A k \in DOMAIN log : TellsHosts(log[k], h) => k <= j

\* e tells the hosts h has in d, or that there is no such group.
HostsAsTold(d, e, h) ==
  /\ (e.op = "delete" <=> d.hosts[h] = NoRow)
  /\ d.hosts[h] # NoRow => e.hosts = d.hosts[h]

HostsTold ==
  \A h \in SchoolName \X HostKind :
    /\ \A j : LatestHosts(h, j) => HostsAsTold(dir, log[j], h)
    /\ dir.hosts[h] # NoRow => \E i \in DOMAIN log : TellsHosts(log[i], h)

\* Before a school is removed, its DC host groups have told that they go.
HostsLeft ==
  \A i, j, k \in DOMAIN log :
    /\ NamesSchool(log[i]) /\ Removes(log[k]) /\ About(log[k], log[i].id)
    /\ j < k /\ log[j].kind = "host" /\ log[j].op # "delete" /\ log[j].school = log[i].name
    => \E m \in DOMAIN log : j < m /\ m < k /\ TellsHosts(log[m], <<log[j].school, log[j].host_kind>>)

\* An exact event of a DC host group tells its hosts (UDM).
LEMMA ExactTellsHosts ==
  ASSUME NEW n, NEW e \in Exact(n), NEW h, TellsHosts(e, h)
  PROVE  HostsAsTold(n, e, h)
<1>1. /\ e = HostSnapshot(n, e.op, h)
      /\ (e.op = "delete" <=> n.hosts[h] = NoRow)
  BY DEF Exact, TellsHosts
<1>2. e.hosts = (IF n.hosts[h] = NoRow THEN {} ELSE n.hosts[h])
  BY <1>1 DEF HostSnapshot
<1> QED
  BY <1>1, <1>2 DEF HostsAsTold

\* A change of a DC host group is told, and no other change touches it (SetHosts).
LEMMA HostsToldOn ==
  ASSUME IInv, NEW e, ToldBy(e), HostsTold
  PROVE  HostsTold'
<1> SUFFICES ASSUME NEW h \in SchoolName \X HostKind
             PROVE  /\ \A j : LatestHosts(h, j)' => HostsAsTold(dir', log'[j], h)
                    /\ dir'.hosts[h] # NoRow => \E i \in DOMAIN log' : TellsHosts(log'[i], h)
  BY DEF HostsTold
<1>1. NewAndOld(e)
  BY OldAndNew
<1>2. \A i \in DOMAIN log' \ DOMAIN log : TellsHosts(log'[i], h) => i = Len(log) + 1 /\ log'[i] = e
  BY <1>1 DEF NewAndOld, TellsHosts
<1>3. CASE TellsHosts(e, h)
  <2>1. ASSUME NEW j, LatestHosts(h, j)' PROVE HostsAsTold(dir', log'[j], h)
    <3>1. j >= Len(log) + 1 /\ j \in DOMAIN log' /\ TellsHosts(log'[j], h)
      BY <1>1, <1>3, <2>1 DEF LatestHosts, NewAndOld
    <3>2. log'[j] = e
      BY <1>1, <1>2, <3>1 DEF NewAndOld
    <3>3. e \in Exact(dir')
      BY DEF ToldBy
    <3> QED
      BY <1>3, <3>2, <3>3, ExactTellsHosts
  <2>2. \E i \in DOMAIN log' : TellsHosts(log'[i], h)
    BY <1>1, <1>3 DEF NewAndOld
  <2> QED
    BY <2>1, <2>2
<1>4. CASE ~TellsHosts(e, h)
  <2>1. dir'.hosts[h] = dir.hosts[h]
    BY <1>4 DEF ToldBy, TellsAll, TellsHosts
  <2>2. \A i \in DOMAIN log' : TellsHosts(log'[i], h) => i \in DOMAIN log
    BY <1>2, <1>4
  <2>3. \A i \in DOMAIN log : i \in DOMAIN log' /\ log'[i] = log[i]
    BY <1>1 DEF NewAndOld
  <2>4. \A j : LatestHosts(h, j)' => LatestHosts(h, j) /\ log'[j] = log[j]
    BY <2>2, <2>3 DEF LatestHosts
  <2> QED
    BY <2>1, <2>3, <2>4 DEF HostsTold, HostsAsTold
<1> QED
  BY <1>3, <1>4

\* A school is removed after its DC host groups (SchoolRemoved).
LEMMA HostsLeftOn ==
  ASSUME IInv, RInv', WInv, DirFits(dir), NEW e, ToldBy(e), HostsTold, HostsLeft
  PROVE  HostsLeft'
<1> USE StoreAssumption DEF StoreAssumption
<1> SUFFICES ASSUME NEW i \in DOMAIN log', NEW j \in DOMAIN log', NEW k \in DOMAIN log',
                    NamesSchool(log'[i]), Removes(log'[k]), About(log'[k], log'[i].id),
                    j < k, log'[j].kind = "host", log'[j].op # "delete",
                    log'[j].school = log'[i].name
             PROVE  \E m \in DOMAIN log' :
                      j < m /\ m < k /\ TellsHosts(log'[m], <<log'[j].school, log'[j].host_kind>>)
  BY DEF HostsLeft
<1>1. NewAndOld(e)
  BY OldAndNew
<1>2. i \in DOMAIN log
  <2> SUFFICES ASSUME i \notin DOMAIN log PROVE FALSE
    OBVIOUS
  <2>1. i = Len(log) + 1 /\ log'[i] = e
    BY <1>1 DEF NewAndOld, NamesSchool
  <2>2. k # i
    BY DEF NamesSchool, Removes
  <2>3. k \in DOMAIN log
    <3> SUFFICES ASSUME k \notin DOMAIN log PROVE FALSE
      OBVIOUS
    <3> QED
      BY <1>1, <2>1, <2>2 DEF NewAndOld, Removes
  <2>4. k < i
    BY <1>1, <2>1, <2>3 DEF NewAndOld
  <2>5. RemovalIsLast'
    BY DEF RInv
  <2>6. log'[i].kind # "host" /\ log'[k].id = log'[i].id
    BY DEF NamesSchool, About
  <2> QED
    BY <2>4, <2>5, <2>6 DEF RemovalIsLast, About
<1>3. CASE k \in DOMAIN log
  <2>1. j \in DOMAIN log
    BY <1>1, <1>3 DEF NewAndOld
  <2>2. log'[i] = log[i] /\ log'[j] = log[j] /\ log'[k] = log[k]
    BY <1>1, <1>2, <1>3, <2>1 DEF NewAndOld
  <2>3. PICK m \in DOMAIN log :
          j < m /\ m < k /\ TellsHosts(log[m], <<log[j].school, log[j].host_kind>>)
    BY <1>2, <1>3, <2>1, <2>2 DEF HostsLeft
  <2> QED
    BY <1>1, <2>2, <2>3 DEF NewAndOld
<1>4. CASE k \notin DOMAIN log
  <2>1. k = Len(log) + 1 /\ log'[k] = e
    BY <1>1, <1>4 DEF NewAndOld, Removes
  <2>2. j \in DOMAIN log
    BY <1>1, <2>1 DEF NewAndOld
  <2>3. log'[i] = log[i] /\ log'[j] = log[j] /\ log[j] \in SyncEvent
    BY <1>1, <1>2, <2>2 DEF NewAndOld
  <2>4. e.id = log[i].id /\ Removes(e) /\ NamesSchool(log[i]) /\ e.kind # "host"
    BY <2>1, <2>3 DEF About
  <2>5. e.id \in School
    <3>1. log[i] \in SyncEvent /\ log[i].id \in Object
      BY <1>1, <1>2, <2>4 DEF NewAndOld, NamesSchool
    <3> QED
      BY <2>4, <3>1, EventKinds DEF NamesSchool, About
  <2>6. e.id \in DirSchools(dir) /\ e.id \notin DirSchools(dir')
    <3>1. e.id \in DirObjects(dir)
      BY <2>4 DEF ToldBy, FollowsOn, Removes
    <3>2. e.id \notin DirObjects(dir')
      BY <2>4 DEF ToldBy, Exact
    <3> QED
      BY <2>5, <3>1, <3>2 DEF DirObjects, DirGroups, DirUsers
  <2>7. log[i].name = dir.school[e.id]
    <3>1. SchoolsTold(dir, log)
      BY DEF WInv, DirTold
    <3> QED
      BY <1>2, <2>4, <2>6, <3>1 DEF SchoolsTold, About, NamesSchool
  <2> DEFINE h == <<log[j].school, log[j].host_kind>>
  <2>8. h \in SchoolName \X HostKind /\ TellsHosts(log[j], h) /\ h[1] = log[i].name
    <3>1. log[j] \in HostEvent
      BY <2>3 DEF SyncEvent, SchoolEvent, GroupEvent, UserEvent, DeleteEvent
    <3> QED
      BY <2>3, <3>1 DEF HostEvent, TellsHosts
  <2> HIDE DEF h
  <2>9. h[1] \notin DirSchoolNames(dir')
    <3> SUFFICES ASSUME NEW t \in DirSchools(dir'), dir'.school[t] = dir.school[e.id] PROVE FALSE
      BY <2>7, <2>8 DEF DirSchoolNames
    <3>1. t # e.id /\ t \in Object /\ t \in School
      BY <2>6 DEF DirSchools, Object
    <3>2. dir'.school[t] = dir.school[t]
      BY <3>1, UntoldStays DEF SameData, About
    <3>3. t \in DirSchools(dir)
      BY <3>2 DEF DirSchools
    <3> QED
      BY <2>6, <3>1, <3>2, <3>3 DEF DirFits, SchoolsFound
  <2>10. dir.hosts[h] = NoRow
    <3>1. dir'.hosts[h] = NoRow
      BY <2>8, <2>9 DEF ToldBy, DirFits, HostsFound, DirHostGroups
    <3>2. dir'.hosts[h] = dir.hosts[h]
      BY <2>4, <2>8 DEF ToldBy, TellsAll
    <3> QED
      BY <3>1, <3>2
  <2>11. ~LatestHosts(h, j)
    <3> SUFFICES ASSUME LatestHosts(h, j) PROVE FALSE
      OBVIOUS
    <3>1. HostsAsTold(dir, log[j], h)
      BY <2>8 DEF HostsTold
    <3> QED
      BY <2>3, <2>10, <3>1 DEF HostsAsTold
  <2>12. PICK m \in DOMAIN log : TellsHosts(log[m], h) /\ ~(m <= j)
    BY <2>2, <2>8, <2>11 DEF LatestHosts
  <2>13. m \in DOMAIN log' /\ log'[m] = log[m] /\ j < m /\ m < k
    BY <1>1, <2>1, <2>2, <2>12 DEF NewAndOld
  <2> QED
    BY <2>3, <2>12, <2>13 DEF h
<1> QED
  BY <1>3, <1>4

\* A prefill tells all DC host groups (Prefill).
LEMMA PrefillTellsHosts ==
  ASSUME NEW d, DirKept(d), NEW g \in DirHostGroups(d)
  PROVE  \E i \in DOMAIN PrefillEvents(d) : TellsHosts(PrefillEvents(d)[i], g)
<1> DEFINE schools == SetToSeq(DirSchools(d))
           groups == SetToSeq(DirGroups(d))
           hosts == SetToSeq(DirHostGroups(d))
           users == SetToSeq(DirUsers(d))
           a == [j \in DOMAIN schools |-> SchoolSnapshot(d, "create", schools[j])]
           b == [j \in DOMAIN groups |-> GroupSnapshot(d, "create", groups[j])]
           h == [j \in DOMAIN hosts |-> HostSnapshot(d, "create", hosts[j])]
           u == [j \in DOMAIN users |-> UserSnapshot(d, "create", users[j])]
<1>1. PrefillEvents(d) = ((a \o b) \o h) \o u
  BY DEF PrefillEvents
<1>2. /\ schools \in [1..Cardinality(DirSchools(d)) -> DirSchools(d)] /\ Cardinality(DirSchools(d)) \in Nat
      /\ groups \in [1..Cardinality(DirGroups(d)) -> DirGroups(d)] /\ Cardinality(DirGroups(d)) \in Nat
      /\ hosts \in [1..Cardinality(DirHostGroups(d)) -> DirHostGroups(d)]
      /\ Cardinality(DirHostGroups(d)) \in Nat
      /\ users \in [1..Cardinality(DirUsers(d)) -> DirUsers(d)] /\ Cardinality(DirUsers(d)) \in Nat
  BY DirFinite, SetToSeqTyped
<1>3. PICK i \in 1..Cardinality(DirHostGroups(d)) : hosts[i] = g
  BY <1>2, DirFinite, SetToSeqOnto
<1>4. h[i] = HostSnapshot(d, "create", g) /\ DOMAIN h = 1..Cardinality(DirHostGroups(d))
  BY <1>2, <1>3
<1>5. TellsHosts(h[i], g)
  <2>1. g = <<g[1], g[2]>>
    BY DEF DirHostGroups
  <2> QED
    BY <1>4, <2>1 DEF HostSnapshot, TellsHosts
<1>6. /\ \A x \in DirSchools(d) : SchoolSnapshot(d, "create", x) \in SyncEvent
      /\ \A x \in DirGroups(d) : GroupSnapshot(d, "create", x) \in SyncEvent
      /\ \A x \in DirHostGroups(d) : HostSnapshot(d, "create", x) \in SyncEvent
      /\ \A x \in DirUsers(d) : UserSnapshot(d, "create", x) \in SyncEvent
  BY SchoolSnapshotTyped, GroupSnapshotTyped, HostSnapshotTyped, UserSnapshotTyped DEF DirHostGroups
<1>7. /\ a \in [1..Cardinality(DirSchools(d)) -> SyncEvent]
      /\ b \in [1..Cardinality(DirGroups(d)) -> SyncEvent]
      /\ h \in [1..Cardinality(DirHostGroups(d)) -> SyncEvent]
      /\ u \in [1..Cardinality(DirUsers(d)) -> SyncEvent]
  <2> HIDE DEF schools, groups, hosts, users
  <2>1. /\ \A j \in DOMAIN schools : schools[j] \in DirSchools(d)
        /\ \A j \in DOMAIN groups : groups[j] \in DirGroups(d)
        /\ \A j \in DOMAIN hosts : hosts[j] \in DirHostGroups(d)
        /\ \A j \in DOMAIN users : users[j] \in DirUsers(d)
    BY <1>2 DEF schools, groups, hosts, users
  <2>2. /\ DOMAIN schools = 1..Cardinality(DirSchools(d)) /\ DOMAIN groups = 1..Cardinality(DirGroups(d))
        /\ DOMAIN hosts = 1..Cardinality(DirHostGroups(d)) /\ DOMAIN users = 1..Cardinality(DirUsers(d))
    BY <1>2 DEF schools, groups, hosts, users
  <2> QED
    BY <1>6, <2>1, <2>2
<1> HIDE DEF a, b, h, u
<1> DEFINE E == SyncEvent
<1>8. a \in Seq(E) /\ b \in Seq(E) /\ h \in Seq(E) /\ u \in Seq(E) /\ i \in 1..Len(h)
  <2>1. \A m \in Nat : \A f \in [1..m -> SyncEvent] : f \in Seq(SyncEvent) /\ Len(f) = m
    OBVIOUS
  <2>2. a \in Seq(E) /\ b \in Seq(E) /\ h \in Seq(E) /\ u \in Seq(E)
    BY <1>2, <1>7, <2>1, Zenon DEF E
  <2>3. Len(h) = Cardinality(DirHostGroups(d))
    BY <1>2, <1>7, <2>1, Zenon
  <2>4. i \in 1..Len(h)
    BY <1>3, <2>3
  <2> QED
    BY <2>2, <2>4
<1> HIDE DEF E
<1> DEFINE ab == a \o b
           abh == ab \o h
           all == abh \o u
<1>9. ab \in Seq(E) /\ Len(ab) \in Nat
  BY <1>8
<1> HIDE DEF ab
<1>10. abh \in Seq(E) /\ Len(ab) + i \in DOMAIN abh /\ abh[Len(ab) + i] = h[i]
  BY <1>8, <1>9
<1> HIDE DEF abh
<1>11. Len(ab) + i \in DOMAIN all /\ all[Len(ab) + i] = abh[Len(ab) + i]
  BY <1>8, <1>9, <1>10
<1> QED
  BY <1>1, <1>5, <1>10, <1>11 DEF all, abh, ab

\* A prefill tells the servers of the directory.
LEMMA HostsToldStarts ==
  ASSUME DirFits(dir), log = PrefillEvents(dir)
  PROVE  HostsTold /\ HostsLeft
<1>1. DirKept(dir)
  BY DEF DirFits
<1>2. \A i \in DOMAIN log : log[i] \in Exact(dir) /\ log[i].op = "create"
  BY <1>1, PrefillExact
<1>3. ASSUME NEW h \in SchoolName \X HostKind, NEW j, LatestHosts(h, j)
      PROVE  HostsAsTold(dir, log[j], h)
  BY <1>2, <1>3, ExactTellsHosts DEF LatestHosts
<1>4. ASSUME NEW h \in SchoolName \X HostKind, dir.hosts[h] # NoRow
      PROVE  \E i \in DOMAIN log : TellsHosts(log[i], h)
  BY <1>1, <1>4, PrefillTellsHosts DEF DirHostGroups
<1>5. HostsLeft
  BY <1>2 DEF HostsLeft, Removes
<1> QED
  BY <1>3, <1>4, <1>5 DEF HostsTold

----------------------------------------------------------------------------
(* The servers a handler leaves *)

LastCommittedHosts(h, j) ==
  /\ j \in DOMAIN log /\ TellsHosts(log[j], h) /\ Committed(j)
  /\ \A k \in DOMAIN log : TellsHosts(log[k], h) /\ Committed(k) => k <= j

\* A stored school has the servers that the last committed events of its DC host groups tell.
ServersWritten ==
  \A s \in Schools(db), k \in HostKind, v \in Host :
    <<s, k, v>> \in db.server
      <=> \E j : /\ LastCommittedHosts(<<db.school[s], k>>, j)
                 /\ log[j].op # "delete" /\ v \in log[j].hosts

\* A commit is the last of its own DC host group and of no other.
LEMMA LastHostsAfterCommit ==
  ASSUME IInv, RInv, Commits, NEW c, c = cur
  PROVE  /\ \A h, j : TellsHosts(log[c], h) => (LastCommittedHosts(h, j)' <=> j = c)
         /\ \A h, j : ~TellsHosts(log[c], h) => (LastCommittedHosts(h, j)' <=> LastCommittedHosts(h, j))
<1>1. /\ \A k \in DOMAIN log : k # c => (Committed(k)' <=> Committed(k))
      /\ \A k \in DOMAIN log : Committed(k) => k <= c
      /\ Committed(c)' /\ log' = log
      /\ c \in DOMAIN log /\ DOMAIN log = 1..Len(log) /\ Len(log) \in Nat
  BY LastAfterCommit, CommittedStore
<1>2. ASSUME NEW h, NEW j, TellsHosts(log[c], h) PROVE LastCommittedHosts(h, j)' <=> j = c
  <2>1. \A k \in DOMAIN log : Committed(k)' => k <= c
    BY <1>1
  <2>2. ASSUME LastCommittedHosts(h, j)' PROVE j = c
    <3>1. j \in 1..Len(log) /\ c \in 1..Len(log) /\ j <= c /\ c <= j
      BY <1>1, <1>2, <2>1, <2>2 DEF LastCommittedHosts
    <3> QED
      BY <1>1, <3>1
  <2>3. LastCommittedHosts(h, c)'
    BY <1>1, <1>2, <2>1 DEF LastCommittedHosts
  <2> QED
    BY <2>2, <2>3
<1>3. ASSUME NEW h, NEW j, ~TellsHosts(log[c], h)
      PROVE  LastCommittedHosts(h, j)' <=> LastCommittedHosts(h, j)
  BY <1>1, <1>3 DEF LastCommittedHosts
<1> QED
  BY <1>2, <1>3

\* A DC host group event sets the servers of one school and kind (_handle_host_group_create).
LEMMA HostEventServers ==
  ASSUME NEW d, Kept(d), SchoolsUnique(d), NEW e \in HostEvent
  PROVE  LET n == HandleEvent(d, e)
         IN /\ n.school = d.school
            /\ \A s \in Schools(d) : \A k, v :
                 <<s, k, v>> \in n.server
                   <=> IF d.school[s] = e.school /\ k = e.host_kind THEN e.op # "delete" /\ v \in e.hosts
                       ELSE <<s, k, v>> \in d.server
<1> DEFINE n == HandleEvent(d, e)
           t == CHOOSE s \in SchoolsNamed(d, {e.school}) : TRUE
           hosts == IF e.op = "delete" THEN {} ELSE e.hosts
<1>1. n.school = d.school
  <2>1. n.school = [d EXCEPT !.server = n.server].school
    BY HostEventRows DEF SameRows
  <2> HIDE DEF n
  <2> QED
    BY <2>1 DEF Kept, Database
<1>2. SchoolsNamed(d, {e.school}) = {} => n = d
  BY HostEventRows
<1>3. SchoolsNamed(d, {e.school}) # {}
        => n.server = {v \in d.server : v[1] # t \/ v[2] # e.host_kind} \cup ({t} \X {e.host_kind} \X hosts)
  BY HostEventRows
<1> SUFFICES ASSUME NEW s \in Schools(d), NEW k, NEW v
             PROVE  <<s, k, v>> \in n.server
                      <=> IF d.school[s] = e.school /\ k = e.host_kind THEN e.op # "delete" /\ v \in e.hosts
                          ELSE <<s, k, v>> \in d.server
  BY <1>1
<1>4. s \in SchoolsNamed(d, {e.school}) <=> d.school[s] = e.school
  BY DEF Schools, SchoolsNamed
<1>5. SchoolsNamed(d, {e.school}) # {} => t \in Schools(d) /\ d.school[t] = e.school
  <2>1. e.school # NoRow
    BY StoreAssumption DEF StoreAssumption, HostEvent
  <2> QED
    BY <2>1 DEF SchoolsNamed, Schools
<1> HIDE DEF n, t
<1>6. CASE SchoolsNamed(d, {e.school}) = {}
  BY <1>2, <1>4, <1>6
<1>7. CASE SchoolsNamed(d, {e.school}) # {}
  <2>1. s = t <=> d.school[s] = e.school
    BY <1>5, <1>7 DEF SchoolsUnique
  <2>2. <<s, k, v>> \in n.server
          <=> (<<s, k, v>> \in d.server /\ (s # t \/ k # e.host_kind))
                \/ (s = t /\ k = e.host_kind /\ v \in hosts)
    BY <1>3, <1>7
  <2> QED
    BY <2>1, <2>2
<1> QED
  BY <1>6, <1>7

\* A school that is new had no servers: those of a school of the same name went
\* before it did (SchoolRemoved, HandleHostGroup).
LEMMA NewSchoolIsBare ==
  ASSUME IInv, RInv, WInv, CInv, NothingDropped, HostsLeft, Commits, NEW c, c = cur,
         NEW s \in Schools(db'), s \notin Schools(db), NEW h \in SchoolName \X HostKind,
         h[1] = db'.school[s], NEW j, LastCommittedHosts(h, j), ~TellsHosts(log[c], h)
  PROVE  log[j].op = "delete"
<1> USE StoreAssumption DEF StoreAssumption
<1> SUFFICES ASSUME log[j].op # "delete" PROVE FALSE
  OBVIOUS
<1>1. /\ SchoolsUnique(db) /\ ConstraintsHold(db') /\ log' = log
      /\ \A i \in DOMAIN log : /\ log[i] \in SyncEvent
                               /\ log[i].kind # "host" => log[i].id \in Object
  BY CommittedStore
<1>2. /\ \A k \in DOMAIN log : Committed(k) => k <= c
      /\ c \in DOMAIN log /\ DOMAIN log = 1..Len(log) /\ Len(log) \in Nat /\ D!OldestPending(c)
  BY LastAfterCommit
<1>3. /\ j \in DOMAIN log /\ j < c /\ log[j].kind = "host" /\ log[j].school = h[1]
      /\ h = <<log[j].school, log[j].host_kind>>
  <2>1. j # c /\ j <= c /\ j \in DOMAIN log /\ TellsHosts(log[j], h)
    BY <1>2 DEF LastCommittedHosts
  <2> QED
    BY <1>2, <2>1 DEF TellsHosts
<1>4. log[j].school \in SchoolsWanted(log[j])
  BY <1>3 DEF SchoolsWanted
<1>5. PICK i \in DOMAIN log :
        /\ i < j /\ NamesSchool(log[i]) /\ log[i].name = h[1]
        /\ \A k \in DOMAIN log : Removes(log[k]) /\ About(log[k], log[i].id) => j < k
  BY <1>3, <1>4 DEF CInv, History, SchoolsCome
<1>6. Committed(i)
  <2>1. log[i].scope = TRUE
    BY <1>5 DEF CInv, History, ScopesFit, NamesSchool
  <2> QED
    BY <1>2, <1>3, <1>5, <2>1, AllBeforeCommitted DEF CInv, IsRelevant
<1>7. CASE \E k \in DOMAIN log : Removes(log[k]) /\ About(log[k], log[i].id) /\ Committed(k)
  <2>1. PICK k \in DOMAIN log : Removes(log[k]) /\ About(log[k], log[i].id) /\ Committed(k)
    BY <1>7
  <2>2. j < k /\ k <= c
    BY <1>2, <1>5, <2>1
  <2>3. PICK m \in DOMAIN log : j < m /\ m < k /\ TellsHosts(log[m], h)
    BY <1>3, <1>5, <2>1, <2>2 DEF HostsLeft
  <2>4. log[m].scope = TRUE
    BY <2>3 DEF CInv, History, ScopesFit, TellsHosts
  <2>5. Committed(m)
    BY <1>2, <2>2, <2>3, <2>4, AllBeforeCommitted DEF CInv, IsRelevant
  <2> QED
    BY <1>2, <1>3, <2>3, <2>5 DEF LastCommittedHosts
<1>8. CASE \A k \in DOMAIN log : Removes(log[k]) /\ About(log[k], log[i].id) => ~Committed(k)
  <2>1. db.school[log[i].id] = h[1]
    BY <1>5, <1>6, <1>8 DEF CInv, SchoolsStored
  <2>2. log[i].id \in School
    BY <1>1, <1>5, EventKinds DEF NamesSchool, About
  <2>3. log[i].id \in Schools(db)
    BY <2>1, <2>2 DEF Schools
  <2>4. log[i].id # s
    BY <2>3
  <2>5. db'.school[log[i].id] = h[1]
    <3>1. ~(Removes(log[c]) /\ About(log[c], log[i].id))
      <4> SUFFICES ASSUME Removes(log[c]), About(log[c], log[i].id) PROVE FALSE
        OBVIOUS
      <4>1. ~Stored(db', log[c].id)
        BY CommittedStore, EventStoresOwnObject DEF Kept, Removes
      <4>2. Stored(db', s) /\ s \in Object
        BY DEF Stored, Schools, Object
      <4>3. StoresOnly(db, db', log[c].id)
        BY CommittedStore, EventStoresOwnObject DEF Kept, Removes
      <4>4. Stored(db, s)
        BY <4>1, <4>2, <4>3 DEF StoresOnly
      <4> QED
        BY <4>4 DEF Stored, Schools, Groups, Users
    <3> QED
      BY <2>1, <2>3, <3>1, NamesStay DEF CInv, History
  <2>6. log[i].id \in Schools(db')
    BY <2>2, <2>5 DEF Schools
  <2> QED
    BY <1>1, <2>4, <2>5, <2>6 DEF ConstraintsHold
<1> QED
  BY <1>7, <1>8

\* A commit leaves the servers as the DC host groups' events tell them.
LEMMA CommitKeepsServers ==
  ASSUME IInv, IInv', RInv, WInv, CInv, NothingDropped, HostsLeft, ServersWritten, Commits
  PROVE  ServersWritten'
<1> USE StoreAssumption DEF StoreAssumption
<1> PICK c : c = cur
  OBVIOUS
<1> PICK e : e = log[c]
  OBVIOUS
<1> PICK n : n = db'
  OBVIOUS
<1>1. /\ Kept(db) /\ SchoolsUnique(db) /\ db \in Database /\ ConstraintsHold(db)
      /\ e \in SyncEvent /\ n = HandleEvent(db, e) /\ log' = log /\ n \in Database
  BY CommittedStore DEF Kept, IInv, TypeOK
<1>2. /\ \A h, j : TellsHosts(e, h) => (LastCommittedHosts(h, j)' <=> j = c)
      /\ \A h, j : ~TellsHosts(e, h) => (LastCommittedHosts(h, j)' <=> LastCommittedHosts(h, j))
  BY LastHostsAfterCommit
<1>3. /\ e.kind # "host" => StoresOnly(db, n, e.id)
      /\ e.kind # "host" /\ e.op = "delete" => ~Stored(n, e.id)
  BY <1>1, EventStoresOwnObject DEF Kept
<1>4. SUFFICES ASSUME NEW s \in Schools(n), NEW k \in HostKind, NEW v \in Host,
                      NEW h, h = <<n.school[s], k>>
               PROVE  <<s, k, v>> \in n.server
                        <=> \E j : LastCommittedHosts(h, j)' /\ log[j].op # "delete" /\ v \in log[j].hosts
  BY <1>1 DEF ServersWritten, LastCommittedHosts, Committed
<1>5. n.school[s] \in SchoolName /\ s \in School /\ h \in SchoolName \X HostKind /\ h[1] = n.school[s]
  BY <1>1, <1>4 DEF Database, Schools
<1>6. CASE e \in HostEvent
  <2>1. /\ n.school = db.school
        /\ \A t \in Schools(db) : \A kind, host :
             <<t, kind, host>> \in n.server
               <=> IF db.school[t] = e.school /\ kind = e.host_kind
                   THEN e.op # "delete" /\ host \in e.hosts
                   ELSE <<t, kind, host>> \in db.server
    BY <1>1, <1>6, HostEventServers
  <2>2. s \in Schools(db) /\ h = <<db.school[s], k>>
    BY <1>4, <2>1 DEF Schools
  <2>3. TellsHosts(e, h) <=> (db.school[s] = e.school /\ k = e.host_kind)
    BY <1>6, <2>2 DEF TellsHosts, HostEvent
  <2>4. CASE TellsHosts(e, h)
    BY <1>2, <2>1, <2>2, <2>3, <2>4
  <2>5. CASE ~TellsHosts(e, h)
    <3>1. <<s, k, v>> \in n.server <=> <<s, k, v>> \in db.server
      BY <2>1, <2>2, <2>3, <2>5
    <3>2. <<s, k, v>> \in db.server
            <=> \E j : LastCommittedHosts(h, j) /\ log[j].op # "delete" /\ v \in log[j].hosts
      BY <2>2 DEF ServersWritten
    <3> QED
      BY <1>2, <2>5, <3>1, <3>2
  <2> QED
    BY <2>4, <2>5
<1>7. CASE e \notin HostEvent
  <2>1. e.kind # "host" /\ ~TellsHosts(e, h)
    BY <1>1, <1>7 DEF SyncEvent, SchoolEvent, GroupEvent, UserEvent, DeleteEvent, TellsHosts
  <2>2. RefsKept(db, n, e)
    BY <1>1, <1>7, EventKeepsRefs, RemovalKeepsRefs DEF SyncEvent
  <2>3. ~(Removes(e) /\ About(e, s))
    BY <1>3, <1>4 DEF Removes, About, Stored
  <2>4. <<s, k, v>> \in n.server <=> <<s, k, v>> \in db.server
    BY <2>1, <2>2, <2>3 DEF RefsKept, Removes, About
  <2>5. CASE s \in Schools(db)
    <3>1. n.school[s] = db.school[s]
      BY <1>1, <2>3, <2>5, NamesStay DEF CInv, History
    <3>2. <<s, k, v>> \in db.server
            <=> \E j : LastCommittedHosts(h, j) /\ log[j].op # "delete" /\ v \in log[j].hosts
      BY <1>4, <2>5, <3>1 DEF ServersWritten
    <3> QED
      BY <1>2, <2>1, <2>4, <3>2
  <2>6. CASE s \notin Schools(db)
    <3>1. <<s, k, v>> \notin db.server
      BY <1>1, <2>6 DEF Kept, ReferencesHold, LinksHold
    <3>2. \A j : LastCommittedHosts(h, j) => log[j].op = "delete"
      BY <1>4, <1>5, <2>1, <2>6, NewSchoolIsBare
    <3> QED
      BY <1>2, <2>1, <2>4, <3>1, <3>2
  <2> QED
    BY <2>5, <2>6
<1> QED
  BY <1>6, <1>7

----------------------------------------------------------------------------
(* Without senders *)

\* A directory without senders publishes none (UDM).
LEMMA ExactHasNoSenders ==
  ASSUME NEW n, NoSenders(n), NEW e \in Exact(n), e \in GroupEvent
  PROVE  e.senders = {}
<1>1. e.id \in DirGroups(n) /\ e = GroupSnapshot(n, e.op, e.id)
  BY DEF Exact, GroupEvent
<1>2. e.senders = {DirDn(n, x) : x \in n.group[e.id].senders}
  BY <1>1 DEF GroupSnapshot
<1> QED
  BY <1>1, <1>2 DEF NoSenders

\* Nobody sets senders (SendersChanged is the only change that does).
LEMMA ChangeKeepsNoSenders ==
  ASSUME IInv, "senders" \notin Operations, NEW e, ToldBy(e), NoSendersAtAll
  PROVE  NoSendersAtAll'
<1>1. NoSenders(dir') /\ db' = db
  BY DEF ToldBy, NoSendersAtAll
<1>2. \A i \in DOMAIN log' : (i \in DOMAIN log /\ log'[i] = log[i]) \/ log'[i] \in Exact(dir')
  BY OldAndNew DEF NewAndOld
<1>3. \A i \in DOMAIN log' : log'[i] \in GroupEvent => log'[i].senders = {}
  BY <1>1, <1>2, ExactHasNoSenders DEF NoSendersAtAll
<1> QED
  BY <1>1, <1>3 DEF NoSendersAtAll

\* A DC host group event leaves the senders alone (_handle_host_group_create).
LEMMA HostEventKeepsSenders ==
  ASSUME NEW d, Kept(d), NEW e \in HostEvent
  PROVE  HandleEvent(d, e).sender = d.sender
<1> DEFINE n == HandleEvent(d, e)
<1>1. n.sender = [d EXCEPT !.server = n.server].sender
  BY HostEventRows DEF SameRows
<1> HIDE DEF n
<1>2. n.sender = d.sender
  BY <1>1 DEF Kept, Database
<1> QED
  BY <1>2 DEF n

\* Handlers write no senders but those of the event (_resolve_email_senders).
LEMMA CommitKeepsNoSenders ==
  ASSUME IInv, NoSendersAtAll, Commits
  PROVE  NoSendersAtAll'
<1> PICK c : c = cur
  OBVIOUS
<1>1. /\ Kept(db) /\ SchoolsUnique(db) /\ log[c] \in SyncEvent /\ db' = HandleEvent(db, log[c])
      /\ log' = log /\ dir' = dir /\ c \in DOMAIN log
  BY CommittedStore DEF Commits
<1>2. CASE log[c] \in HostEvent
  BY <1>1, <1>2, HostEventKeepsSenders DEF NoSendersAtAll
<1>3. CASE log[c] \notin HostEvent
  <2>1. RefsKept(db, HandleEvent(db, log[c]), log[c])
    BY <1>1, <1>3, EventKeepsRefs, RemovalKeepsRefs DEF SyncEvent
  <2> QED
    BY <1>1, <2>1 DEF NoSendersAtAll, RefsKept
<1> QED
  BY <1>2, <1>3

----------------------------------------------------------------------------
(* The steps *)

\* The inductive invariant of the references, next to the others.
FInv ==
  /\ NoSendersAtAll /\ RefsTold /\ HostsTold /\ HostsLeft
  /\ NothingDropped => LinksWritten /\ ServersWritten

\* The servers are as told while no DC host group's event is committed.
LEMMA ServersStay ==
  ASSUME ServersWritten, db' = db,
         \A h, j : LastCommittedHosts(h, j)' <=> LastCommittedHosts(h, j),
         \A h, j : LastCommittedHosts(h, j) => log'[j] = log[j]
  PROVE  ServersWritten'
<1>1. ASSUME NEW s, NEW k, NEW j, NEW h, h = <<db.school[s], k>>
      PROVE  LastCommittedHosts(<<db.school[s], k>>, j)' <=> LastCommittedHosts(h, j)'
  BY <1>1 DEF LastCommittedHosts
<1>2. ASSUME NEW s \in Schools(db), NEW k \in HostKind, NEW v \in Host
      PROVE  <<s, k, v>> \in db.server
               <=> \E j : /\ LastCommittedHosts(<<db.school[s], k>>, j)'
                          /\ log'[j].op # "delete" /\ v \in log'[j].hosts
  <2> PICK h : h = <<db.school[s], k>>
    OBVIOUS
  <2>1. <<s, k, v>> \in db.server
          <=> \E j : LastCommittedHosts(h, j) /\ log[j].op # "delete" /\ v \in log[j].hosts
    BY <1>2 DEF ServersWritten
  <2>2. \A j : LastCommittedHosts(<<db.school[s], k>>, j)' <=> LastCommittedHosts(h, j)
    BY <1>1
  <2> QED
    BY <2>1, <2>2
<1> QED
  BY <1>2 DEF ServersWritten

\* A change of the directory writes no reference (Submit).
LEMMA ChangeKeepsF ==
  ASSUME IInv, RInv', WInv, WInv', CInv, FInv, "senders" \notin Operations, NEW e, ToldBy(e)
  PROVE  FInv'
<1>1. NoSendersAtAll'
  BY ChangeKeepsNoSenders DEF FInv
<1>2. RefsTold'
  BY RefsToldOn DEF FInv
<1>3. HostsTold'
  BY HostsToldOn DEF FInv
<1>4. HostsLeft'
  BY HostsLeftOn DEF FInv, CInv
<1>5. /\ db' = db /\ (NothingDropped' <=> NothingDropped)
      /\ \A i \in DOMAIN log : /\ i \in DOMAIN log' /\ log'[i] = log[i]
                               /\ (Committed(i)' <=> Committed(i))
      /\ \A i \in DOMAIN log' : Committed(i)' => i \in DOMAIN log
      /\ \A x, j : LastCommitted(x, j)' <=> LastCommitted(x, j)
  BY ChangeCommitsNothing
<1>6. \A x, j : LastCommitted(x, j)' => LastCommitted(x, j) /\ j \in DOMAIN log /\ log'[j] = log[j]
  BY <1>5 DEF LastCommitted
<1>7. \A h, j : LastCommittedHosts(h, j)' <=> LastCommittedHosts(h, j)
  BY <1>5 DEF LastCommittedHosts
<1>8. \A h, j : LastCommittedHosts(h, j) => log'[j] = log[j]
  BY <1>5 DEF LastCommittedHosts
<1>9. LinksWritten => LinksWritten'
  BY <1>5, <1>6 DEF LinksWritten
<1>10. ServersWritten => ServersWritten'
  BY <1>5, <1>7, <1>8, ServersStay
<1> QED
  BY <1>1, <1>2, <1>3, <1>4, <1>5, <1>9, <1>10 DEF FInv

\* A step of the process or of what disturbs it.
LEMMA ProcessKeepsF ==
  ASSUME IInv, IInv', RInv, WInv, CInv, LInv, LInv', HInv, FInv,
         Process \/ Disturb \/ \E committed \in BOOLEAN : DatabaseFault(committed)
  PROVE  FInv'
<1>1. log' = log /\ dir' = dir
  BY CommitsCounted
<1>2. RefsTold' /\ HostsTold' /\ HostsLeft'
  <2>1. RefsTold'
    BY <1>1 DEF FInv, RefsTold, Latest
  <2>2. HostsTold'
    BY <1>1 DEF FInv, HostsTold, LatestHosts
  <2>3. HostsLeft'
    BY <1>1 DEF FInv, HostsLeft
  <2> QED
    BY <2>1, <2>2, <2>3
<1>3. NothingDropped' => NothingDropped
  BY NothingDroppedBefore
<1>4. CASE db' = db /\ QueueGrows /\ CommitsKept
  <2>1. D!Events = DOMAIN log
    BY LoggedTyped
  <2>2. \A i \in DOMAIN log : Committed(i)' <=> Committed(i)
    BY <1>4, <2>1 DEF Committed, CommitsKept
  <2>3. \A x, j : LastCommitted(x, j)' <=> LastCommitted(x, j)
    BY <1>1, <2>2 DEF LastCommitted
  <2>4. \A h, j : LastCommittedHosts(h, j)' <=> LastCommittedHosts(h, j)
    BY <1>1, <2>2 DEF LastCommittedHosts
  <2>5. NoSendersAtAll'
    BY <1>1, <1>4 DEF FInv, NoSendersAtAll
  <2>6. LinksWritten => LinksWritten'
    BY <1>1, <1>4, <2>3 DEF LinksWritten
  <2>7. ServersWritten => ServersWritten'
    BY <1>1, <1>4, <2>4, ServersStay
  <2> QED
    BY <1>2, <1>3, <2>5, <2>6, <2>7 DEF FInv
<1>5. CASE /\ Attempt /\ ~HandlerFails(db, log[cur]) /\ cur \in DOMAIN log
           /\ db' = HandleEvent(db, log[cur]) /\ queue'[cur].commits > 0
  <2>1. Commits
    BY <1>1, <1>5 DEF Commits
  <2>2. NoSendersAtAll'
    BY <2>1, CommitKeepsNoSenders DEF FInv
  <2>3. NothingDropped' => LinksWritten'
    BY <1>3, <2>1, CommitKeepsLinks DEF FInv
  <2>4. NothingDropped' => ServersWritten'
    BY <1>3, <2>1, CommitKeepsServers DEF FInv
  <2> QED
    BY <1>2, <2>2, <2>3, <2>4 DEF FInv
<1> QED
  BY <1>4, <1>5, CommitsCounted

\* Before the first event no reference is stored.
LEMMA InitF ==
  ASSUME Init, \A d \in InitialDirectory : DirFits(d) /\ NoSenders(d)
  PROVE  FInv
<1>1. DirFits(dir) /\ NoSenders(dir) /\ log = PrefillEvents(dir) /\ db = EmptyDatabase
  BY DEF Init
<1>2. RefsTold /\ HostsTold /\ HostsLeft
  BY <1>1, RefsToldStarts, HostsToldStarts
<1>3. NoSendersAtAll
  <2>1. \A i \in DOMAIN log : log[i] \in Exact(dir)
    BY <1>1, PrefillExact DEF DirFits
  <2>2. \A i \in DOMAIN log : log[i] \in GroupEvent => log[i].senders = {}
    BY <1>1, <2>1, ExactHasNoSenders
  <2> QED
    BY <1>1, <2>2 DEF NoSendersAtAll, EmptyDatabase
<1>4. Groups(db) = {} /\ Schools(db) = {}
  BY <1>1 DEF EmptyDatabase, Groups, Schools
<1> QED
  BY <1>2, <1>3, <1>4 DEF FInv, LinksWritten, ServersWritten

\* The fifth invariant is inductive relative to the others.
LEMMA NextKeepsF ==
  ASSUME MaxResubscriptions = 0, "senders" \notin Operations
  PROVE  /\ IInv /\ IInv' /\ RInv /\ RInv' /\ WInv /\ WInv' /\ CInv /\ LInv /\ LInv' /\ HInv /\ FInv
         /\ [Next]_vars
         => FInv'
<1> SUFFICES ASSUME IInv, IInv', RInv, RInv', WInv, WInv', CInv, LInv, LInv', HInv, FInv, [Next]_vars
             PROVE  FInv'
  OBVIOUS
<1>1. CASE SchoolChange \/ GroupChange \/ UserChange
  <2>1. PICK e : ToldBy(e)
    BY <1>1, ChangesTold DEF CInv
  <2> QED
    BY <2>1, ChangeKeepsF
<1>2. CASE Process \/ Disturb \/ \E committed \in BOOLEAN : DatabaseFault(committed)
  BY <1>2, ProcessKeepsF
<1>3. ~Resubscribe
  BY DEF Resubscribe, IInv, TypeOK
<1>4. CASE UNCHANGED vars
  <2>1. \A x, j : (LastCommitted(x, j)' <=> LastCommitted(x, j))
    BY <1>4 DEF vars, LastCommitted, Committed
  <2>2. RefsTold' /\ HostsTold' /\ HostsLeft' /\ NoSendersAtAll' /\ (NothingDropped' <=> NothingDropped)
    <3>1. RefsTold'
      BY <1>4 DEF vars, FInv, RefsTold, Latest
    <3>2. HostsTold' /\ HostsLeft' /\ NoSendersAtAll'
      BY <1>4 DEF vars, FInv, HostsTold, LatestHosts, HostsLeft, NoSendersAtAll
    <3>3. NothingDropped' <=> NothingDropped
      BY <1>4 DEF vars, NothingDropped, Settled, D!Events
    <3> QED
      BY <3>1, <3>2, <3>3
  <2>3. LinksWritten => LinksWritten'
    BY <1>4, <2>1 DEF vars, LinksWritten
  <2>4. ServersWritten => ServersWritten'
    BY <1>4 DEF vars, ServersWritten, LastCommittedHosts, Committed
  <2> QED
    BY <2>2, <2>3, <2>4 DEF FInv
<1> QED
  BY <1>1, <1>2, <1>3, <1>4 DEF Next

----------------------------------------------------------------------------
(* The queue is empty *)

\* An empty queue, from which nothing was dropped.
Settles == Drained /\ NothingDropped

\* Everything in scope has been committed, and nothing else (process_one_event).
LEMMA SettledIsCommitted ==
  ASSUME IInv, WInv, CInv, Settles
  PROVE  /\ \A i \in DOMAIN log : Committed(i) <=> IsRelevant(log[i])
         /\ \A i \in DOMAIN log : IsRelevant(log[i]) => Settled(i, "applied")
         /\ NoSchoolDropped
<1>1. D!Events = DOMAIN log /\ queue \in Seq(D!EventRecord)
  BY LoggedTyped DEF IInv, TypeOK, D!TypeOK
<1>2. ASSUME NEW i \in DOMAIN log PROVE Committed(i) <=> IsRelevant(log[i])
  <2>1. IsRelevant(log[i]) => Committed(i)
    BY <1>1, AckedIsCommitted DEF CInv, Settles, Drained
  <2>2. Committed(i) => IsRelevant(log[i])
    BY <1>1 DEF WInv, Books, OnlyRelevantCommitted, Committed
  <2> QED
    BY <2>1, <2>2
<1>3. ASSUME NEW i \in DOMAIN log, IsRelevant(log[i]) PROVE Settled(i, "applied")
  <2>1. queue[i] \in D!EventRecord
    BY <1>1 DEF D!Events
  <2>2. queue[i].outcome \in {"applied", "skipped", "malformed", "exhausted"}
    BY <1>1, <2>1 DEF D!EventRecord, D!Verdict, D!Acked, Settles, Drained
  <2> QED
    BY <1>1, <1>3, <2>2 DEF CInv, VerdictsFit, Settles, NothingDropped, Settled
<1>4. NoSchoolDropped
  <2>1. \A i \in DOMAIN log : log[i].kind = "school" => IsRelevant(log[i])
    BY DEF CInv, History, ScopesFit, IsRelevant
  <2> QED
    BY <1>1, <1>3, <2>1 DEF NoSchoolDropped, Settled
<1> QED
  BY <1>2, <1>3, <1>4

\* An object that has had an event has had a last one.
LEMMA LatestExists ==
  ASSUME IInv, NEW x, NEW i \in DOMAIN log, About(log[i], x)
  PROVE  \E j \in DOMAIN log : Latest(log, j) /\ About(log[j], x)
<1> DEFINE S == {k \in DOMAIN log : About(log[k], x)}
<1>1. DOMAIN log = 1..Len(log) /\ Len(log) \in Nat
  BY LoggedTyped
<1>2. S \subseteq 1..Len(log) /\ S # {}
  BY <1>1
<1>3. PICK j \in S : \A y \in S : y <= j
  <2> HIDE DEF S
  <2> QED
    BY <1>1, <1>2, LastOfSome
<1> QED
  BY <1>3 DEF Latest, About

\* So has a DC host group.
LEMMA LatestHostsExists ==
  ASSUME IInv, NEW h, NEW i \in DOMAIN log, TellsHosts(log[i], h)
  PROVE  \E j \in DOMAIN log : LatestHosts(h, j)
<1> DEFINE S == {k \in DOMAIN log : TellsHosts(log[k], h)}
<1>1. DOMAIN log = 1..Len(log) /\ Len(log) \in Nat
  BY LoggedTyped
<1>2. S \subseteq 1..Len(log) /\ S # {}
  BY <1>1
<1>3. PICK j \in S : \A y \in S : y <= j
  <2> HIDE DEF S
  <2> QED
    BY <1>1, <1>2, LastOfSome
<1> QED
  BY <1>3 DEF LatestHosts

\* The objects that a caught-up database holds.
Shown(x) == x \in DirObjects(dir) /\ (x \in DirGroups(dir) => dir.group[x].scope)

\* All events of such an object are in scope, and there is one.
LEMMA ShownInScope ==
  ASSUME IInv, CInv, "role" \notin Operations, NEW x \in Object, Shown(x)
  PROVE  /\ \A i \in DOMAIN log : About(log[i], x) => IsRelevant(log[i])
         /\ \E i \in DOMAIN log : About(log[i], x)
<1>1. ASSUME NEW i \in DOMAIN log, About(log[i], x) PROVE IsRelevant(log[i])
  <2>1. CASE log[i].kind = "group"
    <3>1. log[i].id \in DirGroups(dir)
      <4>1. x \in Group
        BY <1>1, <2>1, EventKinds, LoggedTyped
      <4> QED
        BY <1>1, <4>1, StoreAssumption
          DEF StoreAssumption, Shown, DirObjects, DirSchools, DirUsers, About
    <3> QED
      BY <1>1, <2>1, <3>1 DEF CInv, History, OneScope, IsRelevant, Shown, About
  <2>2. CASE log[i].kind # "group"
    BY <2>2 DEF CInv, History, ScopesFit, IsRelevant
  <2> QED
    BY <2>1, <2>2
<1>2. \E i \in DOMAIN log : About(log[i], x)
  BY DEF Shown, CInv, History, AllTold
<1> QED
  BY <1>1, <1>2

\* The last event of such an object is the last that was committed.
LEMMA ShownLatest ==
  ASSUME IInv, WInv, CInv, Settles, "role" \notin Operations, NEW x \in Object, Shown(x)
  PROVE  \E j \in DOMAIN log : /\ Latest(log, j) /\ About(log[j], x) /\ LastCommitted(x, j)
                               /\ Settled(j, "applied")
<1>1. PICK j \in DOMAIN log : Latest(log, j) /\ About(log[j], x)
  BY ShownInScope, LatestExists
<1>2. Committed(j) /\ Settled(j, "applied")
  BY <1>1, ShownInScope, SettledIsCommitted
<1>3. LastCommitted(x, j)
  BY <1>1, <1>2 DEF LastCommitted, Latest, About
<1> QED
  BY <1>1, <1>2, <1>3

\* What the directory does not have, or not in scope, is not stored.
LEMMA OthersUnstored ==
  ASSUME IInv, RInv, WInv, CInv, Settles, "role" \notin Operations, NEW x \in Object, ~Shown(x)
  PROVE  ~Stored(db, x)
<1> SUFFICES ASSUME Stored(db, x) PROVE FALSE
  OBVIOUS
<1>1. D!Events = DOMAIN log /\ \A i \in DOMAIN log : log[i] \in SyncEvent
  BY LoggedTyped
<1>2. PICK j \in DOMAIN log : About(log[j], x) /\ Committed(j)
  BY DEF CInv, StoredAsTold, LastCommitted
<1>3. IsRelevant(log[j])
  BY <1>2, SettledIsCommitted
<1>4. CASE x \notin DirObjects(dir)
  <2>1. PICK m \in DOMAIN log : Removes(log[m]) /\ About(log[m], x)
    BY <1>2, <1>4 DEF CInv, History, GoneTold, About
  <2>2. IsRelevant(log[m])
    <3>1. CASE log[m].kind = "group"
      BY <1>2, <1>3, <2>1, <3>1 DEF CInv, History, OneScope, IsRelevant, About
    <3>2. CASE log[m].kind # "group"
      BY <3>2 DEF CInv, History, ScopesFit, IsRelevant
    <3> QED
      BY <3>1, <3>2
  <2>3. queue[m].commits > 0
    BY <2>2, SettledIsCommitted DEF Committed
  <2> QED
    BY <1>1, <2>1, <2>3 DEF RInv, RemovedStaysRemoved, Removes, About
<1>5. CASE x \in DirGroups(dir) /\ ~dir.group[x].scope
  <2>1. x \in Group
    BY <1>5 DEF DirGroups
  <2>2. log[j].kind = "group" /\ log[j].id = x
    BY <1>1, <1>2, <2>1, EventKinds DEF About
  <2> QED
    BY <1>3, <1>5, <2>2 DEF CInv, History, OneScope, IsRelevant
<1> QED
  BY <1>4, <1>5 DEF Shown

\* Of every object the database has the columns that the directory calls for.
LEMMA AllOwnColumns ==
  ASSUME IInv, RInv, WInv, CInv, Settles, "role" \notin Operations, NEW x \in Object
  PROVE  OwnColumns(db, x) = OwnColumns(Projection(dir), x)
<1>1. SchoolsFound(dir) /\ Kept(db)
  BY DEF CInv, DirFits, IInv, TypeOK, StoreConsistent, Kept
<1>2. CASE Shown(x)
  <2>1. PICK j \in DOMAIN log : Latest(log, j) /\ About(log[j], x) /\ Settled(j, "applied")
    BY <1>2, ShownLatest
  <2>2. LastEvent(j) /\ j \in D!Events
    BY <2>1, LoggedTyped DEF LastEvent, EventsOf, Latest, About
  <2> QED
    BY <2>1, <2>2, SettledIsCommitted, LastAppliedIsRight DEF About
<1>3. CASE ~Shown(x) /\ x \notin DirObjects(dir)
  BY <1>1, <1>3, OthersUnstored, NothingLeft
<1>4. CASE ~Shown(x) /\ x \in DirGroups(dir)
  <2>1. x \in Group /\ ~Stored(db, x) /\ x \notin School /\ x \notin User
    BY <1>4, OthersUnstored, StoreAssumption DEF DirGroups, StoreAssumption
  <2>2. db.group[x] = NoRow
    BY <2>1 DEF Stored, Groups
  <2>3. Projection(dir).group[x] = NoRow
    BY <1>4, <2>1 DEF Projection, StoredGroups, Shown, DirObjects
  <2> QED
    BY <2>1, <2>2, <2>3 DEF OwnColumns
<1> QED
  BY <1>2, <1>3, <1>4 DEF Shown

----------------------------------------------------------------------------
(* Rows and columns *)

\* The pairs of a set with one key.
PairsOf(S, a) == {m \in S : m[1] = a}

\* The rows of a database are the columns of its objects.
LEMMA ColumnsAreRows ==
  ASSUME NEW d, NEW p, \A x \in Object : OwnColumns(d, x) = OwnColumns(p, x)
  PROVE  /\ \A s \in School : d.school[s] = p.school[s]
         /\ \A g \in Group : d.group[g] = p.group[g]
         /\ \A u \in User : /\ d.user[u] = p.user[u]
                            /\ PairsOf(d.member, u) = PairsOf(p.member, u)
                            /\ PairsOf(d.primary, u) = PairsOf(p.primary, u)
<1> USE StoreAssumption DEF StoreAssumption, Object
<1>1. \A s \in School : d.school[s] = p.school[s]
  <2> TAKE s \in School
  <2>1. OwnColumns(d, s) = OwnColumns(p, s)
    OBVIOUS
  <2> QED
    BY <2>1 DEF OwnColumns
<1>2. \A g \in Group : d.group[g] = p.group[g]
  <2> TAKE g \in Group
  <2>1. OwnColumns(d, g) = OwnColumns(p, g) /\ g \notin School
    OBVIOUS
  <2> QED
    BY <2>1 DEF OwnColumns
<1>3. \A u \in User : /\ d.user[u] = p.user[u]
                      /\ PairsOf(d.member, u) = PairsOf(p.member, u)
                      /\ PairsOf(d.primary, u) = PairsOf(p.primary, u)
  <2> TAKE u \in User
  <2>1. OwnColumns(d, u) = OwnColumns(p, u) /\ u \notin School /\ u \notin Group
    OBVIOUS
  <2>2. <<d.user[u], {m \in d.member : m[1] = u}, {m \in d.primary : m[1] = u}>>
          = <<p.user[u], {m \in p.member : m[1] = u}, {m \in p.primary : m[1] = u}>>
    BY <2>1 DEF OwnColumns
  <2> QED
    BY <2>2 DEF PairsOf
<1> QED
  BY <1>1, <1>2, <1>3

\* The tables of a projection (Projection).
LEMMA ProjectionTables ==
  ASSUME NEW d, d \in DirectoryType, SchoolsFound(d)
  PROVE  LET p == Projection(d)
         IN /\ p = [school |-> p.school, group |-> p.group, user |-> p.user, member |-> p.member,
                    primary |-> p.primary, link |-> p.link, sender |-> p.sender,
                    server |-> p.server, dn |-> p.dn]
            /\ DOMAIN p.school = School /\ p.school = [s \in School |-> p.school[s]]
            /\ p.group = [g \in Group |-> p.group[g]]
            /\ p.user = [u \in User |-> p.user[u]]
            /\ p.member \subseteq User \X School /\ p.primary \subseteq User \X School
            /\ p.link \subseteq Group \X User \X School
            /\ p.server \subseteq School \X HostKind \X Host
            /\ p.dn = [x \in Object |-> p.dn[x]]
<1>1. d.school \in [School -> SchoolName \cup {NoRow}]
  BY DEF DirectoryType
<1>2. Projection(d).school = d.school
  BY DEF Projection
<1>3. StoredGroups(d) \subseteq Group /\ DirUsers(d) \subseteq User /\ DirSchools(d) \subseteq School
  BY DEF StoredGroups, DirUsers, DirSchools, DirGroups
<1> QED
  BY <1>1, <1>2, <1>3 DEF Projection

----------------------------------------------------------------------------
(* A caught-up database is the projection of the directory, table by table *)

\* The objects that are stored are those the directory has in scope (Projection).
LEMMA StoredIsShown ==
  ASSUME IInv, RInv, WInv, CInv, Settles, "role" \notin Operations
  PROVE  /\ \A x \in Object : Stored(db, x) <=> Shown(x)
         /\ Schools(db) = DirSchools(dir) /\ Groups(db) = StoredGroups(dir)
         /\ Users(db) = DirUsers(dir) /\ Groups(db) \subseteq DirGroups(dir)
         /\ {u \in DirUsers(dir) : MemberSchools(dir, u) # {}} = DirUsers(dir)
<1> USE StoreAssumption DEF StoreAssumption
<1>1. SchoolsFound(dir) /\ dir \in DirectoryType
  BY DEF CInv, DirFits, IInv, TypeOK
<1>2. /\ \A s \in School : db.school[s] = Projection(dir).school[s]
      /\ \A g \in Group : db.group[g] = Projection(dir).group[g]
      /\ \A u \in User : db.user[u] = Projection(dir).user[u]
  BY AllOwnColumns, ColumnsAreRows
<1>3. Schools(db) = DirSchools(dir)
  BY <1>2, ProjectedSchools DEF Schools, DirSchools
<1>4. {u \in DirUsers(dir) : MemberSchools(dir, u) # {}} = DirUsers(dir)
  <2> SUFFICES ASSUME NEW u \in DirUsers(dir) PROVE MemberSchools(dir, u) # {}
    OBVIOUS
  <2>1. dir.user[u].ou \in dir.user[u].schools /\ dir.user[u].ou \in DirSchoolNames(dir)
    BY <1>1 DEF SchoolsFound
  <2> QED
    BY <2>1 DEF MemberSchools, DirSchoolNames
<1>5. Users(db) = DirUsers(dir)
  <2>1. ASSUME NEW u \in DirUsers(dir) PROVE u \in Users(db)
    <3>1. u \in User /\ Projection(dir).user[u] = dir.user[u].name
      BY <1>4, <2>1, ProjectedUsers DEF DirUsers
    <3>2. dir.user[u].name \in UserName
      BY <1>1, <2>1 DEF DirUsers, DirectoryType
    <3> QED
      BY <1>2, <3>1, <3>2 DEF Users
  <2>2. ASSUME NEW u \in Users(db) PROVE u \in DirUsers(dir)
    BY <1>2, <2>2, ProjectedUsers DEF Users
  <2> QED
    BY <2>1, <2>2
<1>6. Groups(db) = StoredGroups(dir)
  <2>1. ASSUME NEW g \in StoredGroups(dir) PROVE g \in Groups(db)
    <3>1. PICK s \in DirSchools(dir) : dir.school[s] = dir.group[g].school
      BY <2>1 DEF StoredGroups, DirSchoolNames
    <3>2. g \in Group /\ Projection(dir).group[g] = [name |-> dir.group[g].name, school |-> s]
      BY <1>1, <2>1, <3>1, ProjectedGroups DEF StoredGroups, DirGroups
    <3>3. dir.group[g].name \in GroupName /\ s \in School
      BY <1>1, <2>1 DEF StoredGroups, DirGroups, DirSchools, DirectoryType
    <3>4. Projection(dir).group[g] # NoRow
      BY <3>2, <3>3
    <3> QED
      BY <1>2, <3>2, <3>4 DEF Groups
  <2>2. ASSUME NEW g \in Groups(db) PROVE g \in StoredGroups(dir)
    <3>1. g \in Group /\ Projection(dir).group[g] # NoRow
      BY <1>2, <2>2 DEF Groups
    <3> QED
      BY <3>1 DEF Projection
  <2> QED
    BY <2>1, <2>2
<1>7. StoredGroups(dir) = {g \in DirGroups(dir) : dir.group[g].scope}
  BY <1>1 DEF StoredGroups, SchoolsFound
<1>8. \A x \in Object : Stored(db, x) <=> Shown(x)
  BY <1>3, <1>5, <1>6, <1>7 DEF Stored, Shown, DirObjects, DirSchools, DirUsers, DirGroups
<1> QED
  BY <1>3, <1>4, <1>5, <1>6, <1>7, <1>8

\* Memberships are the memberships of the users, one by one.
LEMMA SameByKey ==
  ASSUME NEW S \in SUBSET (User \X School), NEW T \in SUBSET (User \X School),
         \A a \in User : PairsOf(S, a) = PairsOf(T, a)
  PROVE  S = T
<1>1. ASSUME NEW m \in S PROVE m \in T
  <2>1. m \in PairsOf(S, m[1]) /\ m[1] \in User
    BY <1>1 DEF PairsOf
  <2>2. m \in PairsOf(T, m[1])
    BY <2>1
  <2> QED
    BY <2>2 DEF PairsOf
<1>2. ASSUME NEW m \in T PROVE m \in S
  <2>1. m \in PairsOf(T, m[1]) /\ m[1] \in User
    BY <1>2 DEF PairsOf
  <2>2. m \in PairsOf(S, m[1])
    BY <2>1
  <2> QED
    BY <2>2 DEF PairsOf
<1> QED
  BY <1>1, <1>2

\* The rows and memberships (SynchronizationManager).
LEMMA RowsFollow ==
  ASSUME IInv, RInv, WInv, CInv, Settles, "role" \notin Operations
  PROVE  /\ db.school = Projection(dir).school
         /\ db.group = Projection(dir).group
         /\ db.user = Projection(dir).user
         /\ db.member = Projection(dir).member
         /\ db.primary = Projection(dir).primary
<1>1. SchoolsFound(dir) /\ dir \in DirectoryType /\ db \in Database
  BY DEF CInv, DirFits, IInv, TypeOK
<1> DEFINE p == Projection(dir)
<1>2. /\ p.school = [s \in School |-> p.school[s]]
      /\ p.group = [g \in Group |-> p.group[g]]
      /\ p.user = [u \in User |-> p.user[u]]
      /\ p.member \subseteq User \X School /\ p.primary \subseteq User \X School
  BY <1>1, ProjectionTables
<1>a. \A x \in Object : OwnColumns(db, x) = OwnColumns(p, x)
  BY AllOwnColumns
<1> HIDE DEF p
<1>3. /\ \A s \in School : db.school[s] = p.school[s]
      /\ \A g \in Group : db.group[g] = p.group[g]
      /\ \A u \in User : /\ db.user[u] = p.user[u]
                         /\ PairsOf(db.member, u) = PairsOf(p.member, u)
                         /\ PairsOf(db.primary, u) = PairsOf(p.primary, u)
  BY <1>a, ColumnsAreRows
<1>4. /\ db.school = [s \in School |-> db.school[s]] /\ db.group = [g \in Group |-> db.group[g]]
      /\ db.user = [u \in User |-> db.user[u]]
      /\ db.member \subseteq User \X School /\ db.primary \subseteq User \X School
  BY <1>1 DEF Database
<1>5. db.school = p.school /\ db.group = p.group /\ db.user = p.user
  <2>1. db.school = p.school
    BY <1>2, <1>3, <1>4
  <2>2. db.group = p.group
    BY <1>2, <1>3, <1>4
  <2>3. db.user = p.user
    BY <1>2, <1>3, <1>4
  <2> QED
    BY <2>1, <2>2, <2>3
<1>6. db.member = p.member
  <2>1. db.member \in SUBSET (User \X School) /\ p.member \in SUBSET (User \X School)
    BY <1>2, <1>4
  <2> QED
    BY <1>3, <2>1, SameByKey
<1>7. db.primary = p.primary
  <2>1. db.primary \in SUBSET (User \X School) /\ p.primary \in SUBSET (User \X School)
    BY <1>2, <1>4
  <2> QED
    BY <1>3, <2>1, SameByKey
<1> QED
  BY <1>5, <1>6, <1>7 DEF p

----------------------------------------------------------------------------
(* References and DNs *)

\* The school of a stored group is the one the directory has it in.
LEMMA StoredGroupSchool ==
  ASSUME IInv, RInv, WInv, CInv, Settles, "role" \notin Operations, NEW g \in Groups(db)
  PROVE  /\ g \in DirGroups(dir) /\ db.group[g].school \in DirSchools(dir)
         /\ dir.school[db.group[g].school] = dir.group[g].school
<1>1. SchoolsFound(dir)
  BY DEF CInv, DirFits
<1>2. g \in StoredGroups(dir) /\ g \in Group
  BY StoredIsShown DEF Groups
<1>3. PICK s \in DirSchools(dir) : dir.school[s] = dir.group[g].school
  BY <1>2 DEF StoredGroups, DirSchoolNames
<1>4. Projection(dir).group[g] = [name |-> dir.group[g].name, school |-> s]
  BY <1>1, <1>2, <1>3, ProjectedGroups DEF StoredGroups
<1>5. db.group[g] = Projection(dir).group[g]
  BY RowsFollow
<1> QED
  BY <1>2, <1>3, <1>4, <1>5 DEF StoredGroups

\* The members of a stored group are linked, in the school of the group.
LEMMA LinkFollows ==
  ASSUME IInv, RInv, WInv, CInv, LInv, FInv, Settles, "role" \notin Operations,
         NEW g \in Group, NEW u \in User, NEW s \in School
  PROVE  <<g, u, s>> \in db.link
           <=> /\ g \in Groups(db) /\ <<u, s>> \in db.member /\ s = db.group[g].school
               /\ u \in dir.group[g].members
<1>1. LinksHold(db) /\ MembershipsHold(db)
  BY DEF IInv, StoreConsistent, ReferencesHold
<1>2. <<g, u, s>> \in db.link => g \in Groups(db) /\ <<u, s>> \in db.member /\ s = db.group[g].school
  BY <1>1 DEF LinksHold, LInv, LinksWithinSchool
<1> SUFFICES ASSUME g \in Groups(db), <<u, s>> \in db.member, s = db.group[g].school
             PROVE  <<g, u, s>> \in db.link <=> u \in dir.group[g].members
  BY <1>2
<1>3. u \in Users(db)
  BY <1>1 DEF MembershipsHold
<1>4. g \in DirGroups(dir) /\ u \in DirUsers(dir) /\ Shown(g) /\ Shown(u) /\ g \in Object /\ u \in Object
  BY <1>3, StoredIsShown DEF Stored, Object
<1>5. PICK i \in DOMAIN log : Latest(log, i) /\ About(log[i], g) /\ LastCommitted(g, i)
  BY <1>4, ShownLatest
<1>6. PICK j \in DOMAIN log : Latest(log, j) /\ About(log[j], u) /\ LastCommitted(u, j)
  BY <1>4, ShownLatest
<1>7. Refers(log[i], i, log[j], j) <=> u \in dir.group[g].members
  BY <1>4, <1>5, <1>6 DEF FInv, RefsTold
<1>8. <<g, u, s>> \in db.link <=> Refers(log[i], i, log[j], j)
  BY <1>3, <1>5, <1>6 DEF FInv, LinksWritten, Settles
<1> QED
  BY <1>7, <1>8

\* A school has the servers of its DC host groups.
LEMMA ServerFollows ==
  ASSUME IInv, RInv, WInv, CInv, FInv, Settles, "role" \notin Operations,
         NEW s \in School, NEW k \in HostKind, NEW v \in Host
  PROVE  <<s, k, v>> \in db.server
           <=> /\ s \in DirSchools(dir) /\ <<dir.school[s], k>> \in DirHostGroups(dir)
               /\ v \in dir.hosts[<<dir.school[s], k>>]
<1>1. LinksHold(db) /\ dir \in DirectoryType
  BY DEF IInv, TypeOK, StoreConsistent, ReferencesHold
<1>2. Schools(db) = DirSchools(dir) /\ db.school = dir.school
  BY StoredIsShown, RowsFollow DEF Projection
<1>3. <<s, k, v>> \in db.server => s \in DirSchools(dir)
  BY <1>1, <1>2 DEF LinksHold
<1> SUFFICES ASSUME s \in DirSchools(dir), NEW h, h = <<dir.school[s], k>>
             PROVE  <<s, k, v>> \in db.server <=> h \in DirHostGroups(dir) /\ v \in dir.hosts[h]
  BY <1>3
<1>4. h \in SchoolName \X HostKind
  BY <1>1 DEF DirSchools, DirectoryType
<1>5. \A i \in DOMAIN log : TellsHosts(log[i], h) => Committed(i)
  BY SettledIsCommitted DEF CInv, History, ScopesFit, TellsHosts, IsRelevant
<1>6. \A j : LastCommittedHosts(h, j) <=> LatestHosts(h, j)
  BY <1>5 DEF LastCommittedHosts, LatestHosts
<1>7. <<s, k, v>> \in db.server
        <=> \E j : LatestHosts(h, j) /\ log[j].op # "delete" /\ v \in log[j].hosts
  BY <1>2, <1>6 DEF FInv, Settles, ServersWritten
<1>8. ASSUME NEW j, LatestHosts(h, j)
      PROVE  log[j].op # "delete" /\ v \in log[j].hosts <=> h \in DirHostGroups(dir) /\ v \in dir.hosts[h]
  BY <1>4, <1>8 DEF FInv, HostsTold, HostsAsTold, DirHostGroups
<1>9. h \in DirHostGroups(dir) => \E j : LatestHosts(h, j)
  <2> SUFFICES ASSUME h \in DirHostGroups(dir) PROVE \E j : LatestHosts(h, j)
    OBVIOUS
  <2>1. PICK i \in DOMAIN log : TellsHosts(log[i], h)
    BY <1>4 DEF FInv, HostsTold, DirHostGroups
  <2> QED
    BY <2>1, LatestHostsExists
<1> QED
  BY <1>7, <1>8, <1>9

\* The DN of a stored object is its DN in the directory (set_mapping).
LEMMA DnFollows ==
  ASSUME IInv, RInv, WInv, CInv, Settles, "role" \notin Operations, NEW x \in Object
  PROVE  /\ ~Stored(db, x) => db.dn[x] = NoRow
         /\ x \in Groups(db) \cup Users(db) => db.dn[x] = DirDn(dir, x)
         /\ x \in Schools(db) => db.dn[x] = SchoolDn(dir.school[x])
<1>1. ~Stored(db, x) => db.dn[x] = NoRow
  BY DEF IInv, StoreConsistent, ReferencesHold, MappingHolds
<1> SUFFICES ASSUME Stored(db, x)
             PROVE  /\ x \in Groups(db) \cup Users(db) => db.dn[x] = DirDn(dir, x)
                    /\ x \in Schools(db) => db.dn[x] = SchoolDn(dir.school[x])
  BY <1>1 DEF Stored
<1>2. PICK j \in DOMAIN log : Latest(log, j) /\ About(log[j], x) /\ LastCommitted(x, j)
  BY StoredIsShown, ShownLatest
<1>3. log[j] \in SyncEvent /\ Carries(dir, log[j])
  BY <1>2, LoggedTyped DEF WInv, DirTold, LatestCarries
<1>4. db.dn[x] = EventDn(log[j])
  BY <1>2, StoredDn DEF CInv
<1>5. CASE x \in Groups(db) \cup Users(db)
  <2>1. x \in DirGroups(dir) \/ x \in DirUsers(dir)
    BY <1>5, StoredIsShown
  <2>2. EventDn(log[j]) = DirDn(dir, x)
    BY <1>2, <1>3, <2>1, EventDnIsDirDn
  <2>3. x \notin Schools(db)
    BY <1>5, StoreAssumption DEF StoreAssumption, Groups, Users, Schools
  <2> QED
    BY <1>4, <2>2, <2>3
<1>6. CASE x \in Schools(db)
  <2>1. x \in School /\ x \in DirSchools(dir) /\ log[j].kind = "school"
    BY <1>2, <1>3, <1>6, EventKinds, StoredIsShown DEF Schools
  <2>2. log[j].op # "delete"
    BY <1>2, <1>3, <2>1 DEF Carries, Removes, About, DirObjects
  <2>3. EventDn(log[j]) = SchoolDn(dir.school[x])
    BY <1>2, <1>3, <2>1, <2>2 DEF Carries, EventDn, About
  <2>4. x \notin Groups(db) \cup Users(db)
    BY <1>6, StoreAssumption DEF StoreAssumption, Groups, Users, Schools
  <2> QED
    BY <1>4, <2>3, <2>4
<1> QED
  BY <1>5, <1>6

\* A database that has caught up is the projection of the directory.
LEMMA CaughtUp ==
  ASSUME IInv, RInv, WInv, CInv, LInv, FInv, Settles, "role" \notin Operations
  PROVE  db = Projection(dir)
<1>1. SchoolsFound(dir) /\ dir \in DirectoryType /\ db \in Database
  BY DEF CInv, DirFits, IInv, TypeOK
<1> DEFINE p == Projection(dir)
<1>2. /\ p = [school |-> p.school, group |-> p.group, user |-> p.user, member |-> p.member,
              primary |-> p.primary, link |-> p.link, sender |-> p.sender,
              server |-> p.server, dn |-> p.dn]
      /\ p.link \subseteq Group \X User \X School /\ p.server \subseteq School \X HostKind \X Host
      /\ p.dn = [x \in Object |-> p.dn[x]]
  BY <1>1, ProjectionTables
<1>3. /\ db.school = p.school /\ db.group = p.group /\ db.user = p.user
      /\ db.member = p.member /\ db.primary = p.primary
  BY RowsFollow
<1>4. /\ Schools(db) = DirSchools(dir) /\ Groups(db) = StoredGroups(dir) /\ Users(db) = DirUsers(dir)
      /\ {u \in DirUsers(dir) : MemberSchools(dir, u) # {}} = DirUsers(dir)
  BY StoredIsShown
<1>5. db.link = p.link
  <2>1. ASSUME NEW g \in Group, NEW u \in User, NEW s \in School
        PROVE  <<g, u, s>> \in db.link <=> <<g, u, s>> \in p.link
    <3>1. <<g, u, s>> \in p.link
            <=> /\ g \in Groups(db) /\ u \in Users(db) /\ s \in DirSchools(dir)
                /\ u \in dir.group[g].members /\ dir.group[g].school = dir.school[s]
                /\ <<u, s>> \in p.member
      BY <1>4 DEF Projection
    <3>2. <<u, s>> \in p.member => u \in Users(db) /\ s \in DirSchools(dir)
      BY <1>3, <1>4 DEF IInv, StoreConsistent, ReferencesHold, MembershipsHold
    <3>3. g \in Groups(db) /\ s \in DirSchools(dir)
            => (dir.group[g].school = dir.school[s] <=> s = db.group[g].school)
      BY <1>1, StoredGroupSchool DEF SchoolsFound
    <3>4. <<g, u, s>> \in db.link
            <=> /\ g \in Groups(db) /\ <<u, s>> \in p.member /\ s = db.group[g].school
                /\ u \in dir.group[g].members
      BY <1>3, LinkFollows
    <3> QED
      BY <3>1, <3>2, <3>3, <3>4
  <2>2. db.link \subseteq Group \X User \X School
    BY <1>1 DEF Database
  <2> HIDE DEF p
  <2>3. ASSUME NEW l \in Group \X User \X School PROVE l \in db.link <=> l \in p.link
    <3>1. l = <<l[1], l[2], l[3]>> /\ l[1] \in Group /\ l[2] \in User /\ l[3] \in School
      BY <2>3
    <3> QED
      BY <2>1, <3>1
  <2> QED
    BY <1>2, <2>2, <2>3
<1>6. db.sender = p.sender
  <2>1. db.sender = {} /\ NoSenders(dir)
    BY DEF FInv, NoSendersAtAll
  <2>2. p.sender = {}
    BY <2>1 DEF Projection, NoSenders, StoredGroups
  <2> QED
    BY <2>1, <2>2
<1>7. db.server = p.server
  <2>1. ASSUME NEW s \in School, NEW k \in HostKind, NEW v \in Host
        PROVE  <<s, k, v>> \in db.server <=> <<s, k, v>> \in p.server
    <3>1. <<s, k, v>> \in p.server
            <=> /\ s \in DirSchools(dir) /\ <<dir.school[s], k>> \in DirHostGroups(dir)
                /\ v \in dir.hosts[<<dir.school[s], k>>]
      BY DEF Projection
    <3> QED
      BY <3>1, ServerFollows
  <2>2. db.server \subseteq School \X HostKind \X Host
    BY <1>1 DEF Database
  <2> HIDE DEF p
  <2>3. ASSUME NEW l \in School \X HostKind \X Host PROVE l \in db.server <=> l \in p.server
    <3>1. l = <<l[1], l[2], l[3]>> /\ l[1] \in School /\ l[2] \in HostKind /\ l[3] \in Host
      BY <2>3
    <3> QED
      BY <2>1, <3>1
  <2> QED
    BY <1>2, <2>2, <2>3
<1>8. db.dn = p.dn
  <2>1. ASSUME NEW x \in Object PROVE db.dn[x] = p.dn[x]
    <3>1. p.dn[x] = (IF x \in Groups(db) \cup Users(db) THEN DirDn(dir, x)
                     ELSE IF x \in Schools(db) THEN SchoolDn(dir.school[x]) ELSE NoRow)
      BY <1>4 DEF Projection
    <3> QED
      BY <3>1, DnFollows DEF Stored
  <2>2. db.dn = [x \in Object |-> db.dn[x]]
    BY <1>1 DEF Database
  <2> HIDE DEF p
  <2> QED
    BY <1>2, <2>1, <2>2
<1> HIDE DEF p
<1>9. db = [school |-> db.school, group |-> db.group, user |-> db.user, member |-> db.member,
            primary |-> db.primary, link |-> db.link, sender |-> db.sender,
            server |-> db.server, dn |-> db.dn]
  BY <1>1 DEF Database
<1>10. db = p
  BY <1>2, <1>3, <1>5, <1>6, <1>7, <1>8, <1>9
<1> QED
  BY <1>10 DEF p

----------------------------------------------------------------------------
(* The theorems *)

\* A directory without senders.
LEMMA NobodySendsToItself ==
  ASSUME NEW d, NoSenders(d)
  PROVE  SendersDistinct(d)
BY DEF NoSenders, SendersDistinct

(***************************************************************************)
(* Whatever the directory was at first and however it changed, wherever    *)
(* the process crashed and whatever was delivered twice: once the queue is *)
(* empty and no event was dropped, the database is the projection of the   *)
(* directory - every row, membership, group link, server and DN - although *)
(* references arrive before the objects they name (SynchronizationManager, *)
(* process_one_event).  The subscription is set up once; no group loses    *)
(* its role, changes its school or has allowed senders.                    *)
(***************************************************************************)
THEOREM UndroppedEventsConverge ==
  ASSUME MaxResubscriptions = 0, FitDirectories, \A d \in InitialDirectory : NoSenders(d),
         Operations \cap {"role", "regroup", "senders"} = {}
  PROVE  Spec => [](NothingDropped => StoreFollowsDirectory)
<1>1. Init => LInv /\ HInv /\ FInv
  <2> SUFFICES ASSUME Init PROVE LInv /\ HInv /\ FInv
    OBVIOUS
  <2>1. \A d \in InitialDirectory : DirFits(d) /\ NoSenders(d)
    BY ConnectorAssumption DEF ConnectorAssumption, FitDirectories, DirFits, DirKept
  <2>2. \A d \in InitialDirectory : SendersDistinct(d)
    BY NobodySendsToItself
  <2> QED
    BY <2>1, <2>2, InitPlaces, InitHandled, InitF
<1>2. IInv /\ IInv' /\ RInv /\ LInv /\ HInv /\ [Next]_vars => LInv' /\ HInv'
  BY NextKeepsPlaces, NextKeepsHandled
<1>3. /\ IInv /\ IInv' /\ RInv /\ RInv' /\ WInv /\ WInv' /\ CInv /\ LInv /\ LInv' /\ HInv /\ FInv
      /\ [Next]_vars
      => FInv'
  BY NextKeepsF
<1>4. IInv /\ RInv /\ WInv /\ CInv /\ LInv /\ FInv => (NothingDropped => StoreFollowsDirectory)
  BY CaughtUp DEF StoreFollowsDirectory, Settles
<1> QED
  BY <1>1, <1>2, <1>3, <1>4, OneSubscription, PTL DEF Spec

(***************************************************************************)
(* With fewer faults and crashes, all told, than an event has deliveries,  *)
(* nothing is dropped, and the database is the projection of the directory *)
(* whenever the queue is empty ("eventually consistent").                  *)
(***************************************************************************)
THEOREM StoreConverges ==
  ASSUME MaxResubscriptions = 0, FitDirectories, \A d \in InitialDirectory : NoSenders(d),
         Operations \cap {"role", "regroup", "senders"} = {},
         MaxFaults + MaxCrashes < MaxDeliveries
  PROVE  Spec => []StoreFollowsDirectory
<1>1. Spec => [](NothingDropped => StoreFollowsDirectory)
  BY UndroppedEventsConverge
<1>2. Spec => []NothingDropped
  BY NothingIsDropped
<1> QED
  BY <1>1, <1>2, PTL
=============================================================================
