--------------------------- MODULE HandlerProofs ----------------------------
(***************************************************************************)
(* LinksWithinSchool and RedeliveryIsHarmless, for every directory, any    *)
(* number of changes, crashes, faults and prefills: where the handlers put *)
(* groups and links, and what they do with an event they have handled.     *)
(*                                                                         *)
(* A moved group's members are looked up in the school it had, so one of   *)
(* its events leaves links of the old school.  If no group moves, there is *)
(* one school name for each school and each group ever: the directory, the *)
(* events on their way and the database agree on it, whatever was dropped  *)
(* or comes late.  So a handler finds the school that the stored group has *)
(* (LInv).                                                                 *)
(*                                                                         *)
(* An event whose acknowledgement got lost is handled again.  Events are   *)
(* committed in order, so nothing was handled in between, and every        *)
(* handler leaves a database that it would not change again (HInv), with   *)
(* two exceptions.  A moved group is one; and a group that is an allowed   *)
(* sender of itself does not resolve its own DN when it is created, but    *)
(* does when the event is repeated.  The theorem assumes both away: no     *)
(* group moves, no group sends to itself when it is first published, and   *)
(* senders do not change if the subscription may be set up again, since    *)
(* the prefill then creates the group of which the change made a sender of *)
(* itself.                                                                 *)
(***************************************************************************)
EXTENDS ConnectorProofs

Tells(e) == e.kind \in {"school", "group"} /\ e.op # "delete"
ToldPlace(e) == IF e.kind = "school" THEN e.name ELSE e.school

\* The school name of a school or group: in a directory, a database, a queue.
DirPlace(d, x, p) ==
  \/ x \in DirSchools(d) /\ p = d.school[x]
  \/ x \in DirGroups(d) /\ p = d.group[x].school

StoredPlace(d, x, p) ==
  \/ x \in Schools(d) /\ p = d.school[x]
  \/ x \in Groups(d) /\ p = d.school[d.group[x].school]

QueuedPlace(events, x, p) ==
  \E i \in DOMAIN events : Tells(events[i]) /\ x = events[i].id /\ p = ToldPlace(events[i])

Place(x, p) == DirPlace(dir, x, p) \/ StoredPlace(db, x, p) \/ QueuedPlace(log, x, p)

OnePlace ==
  \A x \in School \cup Group : \A p, q \in SchoolName : Place(x, p) /\ Place(x, q) => p = q

LInv == OnePlace /\ LinksWithinSchool

\* No group of a directory may send to itself, by name.
SendersDistinct(d) ==
  \A g \in DirGroups(d) : \A h \in d.group[g].senders \cap DirGroups(d) :
    d.group[h].name # d.group[g].name

NamesItself(e) == e.kind = "group" /\ e.op # "delete" /\ EventDn(e) \in e.senders

----------------------------------------------------------------------------
(* Where the handlers put groups and links *)

\* What a group event writes: the row, and links of the school found or had.
GroupLinked(d, e, l) ==
  \/ l \in d.link /\ (l[1] # e.id \/ e.id \in Groups(d))
  \/ l[1] = e.id /\ l[3] = TargetSchool(d, e)
  \/ l[1] = e.id /\ e.id \in Groups(d) /\ l[3] = d.group[e.id].school

GroupRewritten(d, n, e) ==
  /\ SchoolsNamed(d, {e.school}) # {} \/ e.id \in Groups(d)
  /\ n.group = [d.group EXCEPT ![e.id] = [name |-> e.name, school |-> TargetSchool(d, e)]]
  /\ \A l \in n.link : GroupLinked(d, e, l)

GroupWrites(d, n, e) ==
  /\ n.school = d.school
  /\ (n.group = d.group /\ n.link = d.link) \/ GroupRewritten(d, n, e)

\* All tables but the mapping are the same.
SameRows(d, n) ==
  /\ n.school = d.school /\ n.group = d.group /\ n.user = d.user
  /\ n.member = d.member /\ n.primary = d.primary /\ n.link = d.link
  /\ n.sender = d.sender /\ n.server = d.server

\* The mapping tables are apart from the others (set_mapping).
LEMMA MappingOnly ==
  ASSUME NEW d \in Database, NEW x \in Object, NEW dn
  PROVE  /\ SameRows(d, Unmap(d, x, dn)) /\ SameRows(d, SetMapping(d, x, dn))
         /\ Unmap(d, x, dn).dn =
              [y \in Object |-> IF y = x \/ d.dn[y] = dn THEN NoRow ELSE d.dn[y]]
         /\ SetMapping(d, x, dn).dn =
              [y \in Object |-> IF y = x THEN dn ELSE IF d.dn[y] = dn THEN NoRow ELSE d.dn[y]]
BY DEF Database, Unmap, SetMapping, SameRows

\* The links of one group in one school (GroupManager).
LEMMA LinksInSchoolAre ==
  ASSUME NEW d, NEW g, NEW users, NEW s, NEW l, l \in LinksInSchool(d, g, users, s)
  PROVE  l[1] = g /\ l[2] \in users /\ l[3] = s
<1>1. PICK v \in users : <<v, s>> \in d.member /\ l = <<g, v, s>>
  BY DEF LinksInSchool
<1> QED
  BY <1>1

\* A new group is linked in its school (resolve_group_create_relations).
LEMMA NewGroupWrites ==
  ASSUME NEW d, Kept(d), NEW e \in GroupEvent, SchoolsNamed(d, {e.school}) # {}
  PROVE  GroupWrites(d, NewGroup(d, e), e)
<1> DEFINE s == TargetSchool(d, e)
           n == NewGroup(d, e)
           users == EventMembers(d, e, s)
<1>1. /\ n.school = d.school
      /\ n.group = [d.group EXCEPT ![e.id] = [name |-> e.name, school |-> s]]
      /\ n.link = WithoutLinks(d, e.id) \cup LinksInSchool(d, e.id, users, s)
  BY DEF Kept, Database, NewGroup, CreateGroup
<1> HIDE DEF n, users, s
<1>2. ASSUME NEW l \in n.link
      PROVE  (l \in d.link /\ l[1] # e.id) \/ (l[1] = e.id /\ l[3] = s)
  <2>1. l \in WithoutLinks(d, e.id) \/ l \in LinksInSchool(d, e.id, users, s)
    BY <1>1, <1>2
  <2>2. ASSUME l \in LinksInSchool(d, e.id, users, s) PROVE l[1] = e.id /\ l[3] = s
    BY <2>2, LinksInSchoolAre
  <2> QED
    BY <2>1, <2>2 DEF WithoutLinks
<1>3. \A l \in n.link : GroupLinked(d, e, l)
  BY <1>2 DEF GroupLinked, s
<1>4. GroupRewritten(d, n, e)
  BY <1>1, <1>3 DEF GroupRewritten, s
<1> QED
  BY <1>1, <1>4 DEF GroupWrites, n

\* A stored group keeps its links or is linked in the school it had (_sync_group_members).
LEMMA ApplyGroupWrites ==
  ASSUME NEW d, Kept(d), NEW e \in GroupEvent, e.id \in Groups(d)
  PROVE  GroupWrites(d, ApplyGroup(d, e), e)
<1> DEFINE s == TargetSchool(d, e)
           n == ApplyGroup(d, e)
           users == EventMembers(d, e, s)
           old == d.group[e.id].school
<1>1. /\ n.school = d.school
      /\ n.group = [d.group EXCEPT ![e.id] = [name |-> e.name, school |-> s]]
      /\ n.link = IF users = Members(d, e.id) THEN d.link
                  ELSE WithoutLinks(d, e.id) \cup LinksInSchool(d, e.id, users, old)
  BY DEF Kept, Database, ApplyGroup, ModifyGroup
<1> HIDE DEF n, users, s, old
<1>2. ASSUME NEW l \in n.link
      PROVE  l \in d.link \/ (l[1] = e.id /\ l[3] = old)
  <2>1. l \in d.link \/ l \in WithoutLinks(d, e.id) \/ l \in LinksInSchool(d, e.id, users, old)
    BY <1>1, <1>2
  <2>2. ASSUME l \in LinksInSchool(d, e.id, users, old) PROVE l[1] = e.id /\ l[3] = old
    BY <2>2, LinksInSchoolAre
  <2> QED
    BY <2>1, <2>2 DEF WithoutLinks
<1>3. \A l \in n.link : GroupLinked(d, e, l)
  BY <1>2 DEF GroupLinked, old
<1>4. GroupRewritten(d, n, e)
  BY <1>1, <1>3 DEF GroupRewritten, s
<1> QED
  BY <1>1, <1>4 DEF GroupWrites, n

\* Group create and modify events (_handle_group_create, _handle_group_modify).
LEMMA GroupEventWrites ==
  ASSUME NEW d, Kept(d), NEW e \in GroupEvent
  PROVE  /\ GroupWrites(d, HandleGroupCreate(d, e), e)
         /\ GroupWrites(d, HandleGroupModify(d, e), e)
<1> DEFINE dn == EventDn(e)
           b == NewGroup(d, e)
           m == Unmap(d, e.id, dn)
           a == ApplyGroup(m, e)
<1>1. e.id \in Group /\ e.id \in Object /\ dn \in Dn
  BY GroupDnTyped DEF GroupEvent, Object
<1> HIDE DEF dn
<1>2. GroupWrites(d, d, e)
  BY DEF GroupWrites
<1>3. ASSUME SchoolsNamed(d, {e.school}) # {}
      PROVE  GroupWrites(d, SetMapping(b, e.id, dn), e)
  <2>1. GroupWrites(d, b, e) /\ b \in Database
    BY <1>3, NewGroupWrites, NewGroupKeeps DEF Kept
  <2> HIDE DEF b
  <2>2. SameRows(b, SetMapping(b, e.id, dn))
    BY <1>1, <2>1, MappingOnly
  <2> QED
    BY <2>1, <2>2 DEF SameRows, GroupWrites, GroupRewritten
<1>4. GroupWrites(d, HandleGroupCreate(d, e), e)
  BY <1>2, <1>3, ApplyGroupWrites DEF HandleGroupCreate, b, dn
<1>5. ASSUME e.id \in Groups(d)
      PROVE  GroupWrites(d, SetMapping(a, e.id, dn), e)
  <2>0. Kept(m) /\ SameRows(d, m)
    BY <1>1, UnmapKeeps, MappingOnly DEF Kept
  <2>1. Kept(m) /\ m.group = d.group /\ m.school = d.school /\ m.link = d.link
    BY <2>0 DEF SameRows
  <2>2. Groups(m) = Groups(d) /\ TargetSchool(m, e) = TargetSchool(d, e)
    BY <2>1 DEF Groups, TargetSchool, SchoolsNamed
  <2> HIDE DEF m
  <2>3. GroupWrites(m, a, e) /\ a \in Database
    BY <1>5, <2>1, <2>2, ApplyGroupWrites, ApplyGroupKeeps DEF Kept
  <2> HIDE DEF a
  <2>4. SameRows(a, SetMapping(a, e.id, dn))
    BY <1>1, <2>3, MappingOnly
  <2> QED
    BY <1>5, <2>1, <2>2, <2>3, <2>4 DEF SameRows, GroupWrites, GroupRewritten, GroupLinked, SchoolsNamed
<1> QED
  BY <1>4, <1>5 DEF HandleGroupModify, a, m, dn

LinksFit(d) == \A l \in d.link : d.group[l[1]].school = l[3]

\* Handling e moves nothing: it adds at most the place it tells.
StaysInPlace(d, n, e) ==
  /\ LinksFit(n)
  /\ \A x \in School \cup Group, p \in SchoolName :
       StoredPlace(n, x, p)
         => StoredPlace(d, x, p) \/ (Tells(e) /\ x = e.id /\ p = ToldPlace(e))

\* The stored school or group of e has the place e tells.
ToldAsStored(d, e) ==
  Tells(e) => \A p \in SchoolName : StoredPlace(d, e.id, p) => p = ToldPlace(e)

\* The school found by name is the one the stored group has (_resolve_target_school).
LEMMA TargetIsStored ==
  ASSUME NEW d, Kept(d), ConstraintsHold(d), NEW e \in GroupEvent, ToldAsStored(d, e)
  PROVE  /\ SchoolsNamed(d, {e.school}) # {} => d.school[TargetSchool(d, e)] = e.school
         /\ e.id \in Groups(d) => /\ SchoolsNamed(d, {e.school}) # {}
                                  /\ TargetSchool(d, e) = d.group[e.id].school
<1> USE StoreAssumption DEF StoreAssumption
<1> DEFINE found == SchoolsNamed(d, {e.school})
<1>1. Tells(e) /\ ToldPlace(e) = e.school /\ e.id \in Group /\ e.school \in SchoolName
  BY DEF GroupEvent, Tells, ToldPlace
<1>2. found # {} => TargetSchool(d, e) \in found
  BY DEF TargetSchool
<1>3. \A s \in found : s \in Schools(d) /\ d.school[s] = e.school
  BY <1>1 DEF SchoolsNamed, Schools
<1> HIDE DEF found
<1>4. ASSUME e.id \in Groups(d)
      PROVE  found # {} /\ TargetSchool(d, e) = d.group[e.id].school
  <2> DEFINE s == d.group[e.id].school
  <2>1. s \in Schools(d)
    BY <1>4 DEF ConstraintsHold
  <2>2. d.school[s] \in SchoolName
    BY <2>1 DEF Kept, Database, Schools
  <2>3. d.school[s] = e.school
    BY <1>1, <1>4, <2>2 DEF ToldAsStored, StoredPlace
  <2>4. s \in found
    BY <2>1, <2>3 DEF SchoolsNamed, Schools, found
  <2>5. \A t \in found : t = s
    BY <1>3, <2>1, <2>3 DEF ConstraintsHold
  <2> QED
    BY <1>2, <2>4, <2>5
<1> QED
  BY <1>2, <1>3, <1>4 DEF found

\* School events (_handle_school_create, _handle_school_modify).
LEMMA SchoolEventInPlace ==
  ASSUME NEW d, Kept(d), ConstraintsHold(d), LinksFit(d), NEW e \in SchoolEvent,
         ToldAsStored(d, e)
  PROVE  StaysInPlace(d, HandleEvent(d, e), e)
<1> USE StoreAssumption DEF StoreAssumption
<1> DEFINE n == HandleEvent(d, e)
           w == PutSchool(d, e.id, e.name)
           m == SetMapping(d, e.id, EventDn(e))
<1>1. /\ Tells(e) /\ ToldPlace(e) = e.name /\ e.id \in School /\ e.id \in Object
      /\ e.name \in SchoolName
  BY DEF SchoolEvent, Tells, ToldPlace, Object
<1>2. \A b \in Database : LET v == PutSchool(b, e.id, e.name)
                          IN /\ v.school = [b.school EXCEPT ![e.id] = e.name]
                             /\ v.group = b.group /\ v.link = b.link
  BY DEF Database, PutSchool
<1>3. w \in Database
  BY <1>1, PutSchoolKeeps DEF Kept
<1>4. SameRows(d, m) /\ SameRows(w, SetMapping(w, e.id, EventDn(e)))
  BY <1>1, <1>3, MappingOnly DEF Kept
<1>5. e.id \in Schools(d) => m \in Database
  BY <1>1, SetMappingKeeps, SchoolDnTyped DEF Kept, Stored
<1>6. \/ n = w \/ n = SetMapping(w, e.id, EventDn(e))
      \/ e.id \in Schools(d) /\ n = PutSchool(m, e.id, e.name)
  BY DEF SchoolEvent, HandleEvent, HandleSchoolCreate, HandleSchoolModify
<1> HIDE DEF n, w, m
<1>7. /\ n.school = [d.school EXCEPT ![e.id] = e.name]
      /\ n.group = d.group /\ n.link = d.link
  <2>1. CASE n = w \/ n = SetMapping(w, e.id, EventDn(e))
    BY <1>2, <1>4, <2>1 DEF SameRows, Kept, w
  <2>2. CASE e.id \in Schools(d) /\ n = PutSchool(m, e.id, e.name)
    BY <1>2, <1>4, <1>5, <2>2 DEF SameRows
  <2> QED
    BY <1>6, <2>1, <2>2
<1>8. e.id \in Schools(d) => d.school[e.id] = e.name
  BY <1>1 DEF ToldAsStored, StoredPlace, Schools, Kept, Database
<1>9. ASSUME NEW x \in School \cup Group, NEW p \in SchoolName, StoredPlace(n, x, p)
      PROVE  StoredPlace(d, x, p) \/ (x = e.id /\ p = e.name)
  <2>1. CASE x \in Schools(n) /\ p = n.school[x]
    BY <1>1, <1>7, <2>1 DEF StoredPlace, Schools, Kept, Database
  <2>2. CASE x \in Groups(n) /\ p = n.school[n.group[x].school]
    <3>1. x \in Groups(d) /\ d.group[x].school \in Schools(d)
      BY <1>7, <2>2 DEF Groups, ConstraintsHold
    <3>2. n.school[d.group[x].school] = d.school[d.group[x].school]
      BY <1>7, <1>8, <3>1 DEF Schools, Kept, Database
    <3> QED
      BY <1>7, <2>2, <3>1, <3>2 DEF StoredPlace
  <2> QED
    BY <1>9, <2>1, <2>2 DEF StoredPlace
<1>10. LinksFit(n)
  BY <1>7 DEF LinksFit
<1> QED
  BY <1>1, <1>9, <1>10 DEF StaysInPlace, n

\* Group events (_handle_group_create, _handle_group_modify).
LEMMA GroupEventInPlace ==
  ASSUME NEW d, Kept(d), ConstraintsHold(d), LinksFit(d), NEW e \in GroupEvent,
         ToldAsStored(d, e)
  PROVE  StaysInPlace(d, HandleEvent(d, e), e)
<1> DEFINE n == HandleEvent(d, e)
           s == TargetSchool(d, e)
<1>1. Tells(e) /\ ToldPlace(e) = e.school /\ e.id \in Group
  BY DEF GroupEvent, Tells, ToldPlace
<1>2. GroupWrites(d, n, e)
  BY GroupEventWrites DEF GroupEvent, HandleEvent
<1>3. /\ SchoolsNamed(d, {e.school}) # {} => d.school[s] = e.school
      /\ e.id \in Groups(d) => SchoolsNamed(d, {e.school}) # {} /\ s = d.group[e.id].school
  BY TargetIsStored
<1> HIDE DEF n, s
<1>4. CASE n.school = d.school /\ n.group = d.group /\ n.link = d.link
  <2>1. LinksFit(n)
    BY <1>4 DEF LinksFit
  <2>2. \A x, p : StoredPlace(n, x, p) => StoredPlace(d, x, p)
    BY <1>4 DEF StoredPlace, Schools, Groups
  <2> QED
    BY <2>1, <2>2 DEF StaysInPlace, n
<1>5. CASE n.school = d.school /\ GroupRewritten(d, n, e)
  <2>1. /\ d.school[s] = e.school
        /\ \A g \in Group : n.group[g] = IF g = e.id THEN [name |-> e.name, school |-> s]
                                         ELSE d.group[g]
    BY <1>3, <1>5 DEF GroupRewritten, Kept, Database, s
  <2>2. ASSUME NEW l \in n.link PROVE n.group[l[1]].school = l[3]
    <3>1. l \in d.link => l[1] \in Group
      BY DEF Kept, Database
    <3>2. GroupLinked(d, e, l)
      BY <1>5 DEF GroupRewritten
    <3>3. CASE l[1] = e.id
      <4>1. n.group[l[1]].school = s
        BY <1>1, <2>1, <3>3
      <4>2. l[3] = s
        BY <1>3, <3>2, <3>3 DEF GroupLinked, LinksFit, s
      <4> QED
        BY <4>1, <4>2
    <3>4. CASE l[1] # e.id
      BY <2>1, <3>1, <3>2, <3>4 DEF GroupLinked, LinksFit
    <3> QED
      BY <3>3, <3>4
  <2>3. ASSUME NEW x \in School \cup Group, NEW p \in SchoolName, StoredPlace(n, x, p)
        PROVE  StoredPlace(d, x, p) \/ (x = e.id /\ p = e.school)
    <3>1. CASE x \in Schools(n) /\ p = n.school[x]
      BY <1>5, <3>1 DEF StoredPlace, Schools
    <3>2. CASE x \in Groups(n) /\ p = n.school[n.group[x].school]
      BY <1>5, <2>1, <3>2 DEF StoredPlace, Groups
    <3> QED
      BY <2>3, <3>1, <3>2 DEF StoredPlace
  <2>4. LinksFit(n)
    BY <2>2 DEF LinksFit
  <2> QED
    BY <1>1, <2>3, <2>4 DEF StaysInPlace, n
<1> QED
  BY <1>2, <1>4, <1>5 DEF GroupWrites, n

\* Events that leave schools and groups alone, or only remove some.
LEMMA RemovalInPlace ==
  ASSUME NEW d, Kept(d), LinksFit(d), NEW n, ConstraintsHold(n), NEW e,
         \A s \in School : n.school[s] \in {d.school[s], NoRow},
         \A g \in Group : n.group[g] \in {d.group[g], NoRow},
         \A l \in n.link : l[1] \in Groups(n) /\ (l \in d.link \/ d.group[l[1]].school = l[3])
  PROVE  StaysInPlace(d, n, e)
<1>1. ASSUME NEW x \in School \cup Group, NEW p \in SchoolName, StoredPlace(n, x, p)
      PROVE  StoredPlace(d, x, p)
  <2>1. CASE x \in Schools(n) /\ p = n.school[x]
    <3>1. x \in School /\ n.school[x] = d.school[x]
      BY <2>1 DEF Schools
    <3> QED
      BY <2>1, <3>1 DEF StoredPlace, Schools
  <2>2. CASE x \in Groups(n) /\ p = n.school[n.group[x].school]
    <3>1. x \in Group /\ n.group[x] = d.group[x]
      BY <2>2 DEF Groups
    <3>2. d.group[x].school \in Schools(n)
      BY <2>2, <3>1 DEF ConstraintsHold
    <3>3. n.school[d.group[x].school] = d.school[d.group[x].school]
      BY <3>2 DEF Schools
    <3> QED
      BY <2>2, <3>1, <3>3 DEF StoredPlace, Groups
  <2> QED
    BY <1>1, <2>1, <2>2 DEF StoredPlace
<1>2. ASSUME NEW l \in n.link PROVE n.group[l[1]].school = l[3]
  <2>1. n.group[l[1]] = d.group[l[1]]
    BY DEF Groups
  <2>2. d.group[l[1]].school = l[3]
    BY DEF LinksFit
  <2> QED
    BY <2>1, <2>2
<1>3. LinksFit(n)
  BY <1>2 DEF LinksFit
<1> QED
  BY <1>1, <1>3 DEF StaysInPlace

\* User events link each group in its own school (_build_school_memberships).
LEMMA UserEventWrites ==
  ASSUME NEW d, Kept(d), SchoolsUnique(d), NEW e \in UserEvent
  PROVE  LET n == HandleEvent(d, e)
         IN /\ n.school = d.school /\ n.group = d.group
            /\ \A l \in n.link : l \in d.link \/ d.group[l[1]].school = l[3]
<1> DEFINE n == HandleEvent(d, e)
           m == SetMapping(d, e.id, EventDn(e))
           w == ApplyUser(d, e)
           v == ApplyUser(m, e)
<1>1. e.id \in Object
  BY DEF UserEvent, Object
<1>2. \A b \in Database : \A c \in EventLinks(b, e) : b.group[c[1]].school = c[3]
  BY DEF EventLinks
<1>3. \A b \in Database : LET a == ApplyUser(b, e)
                          IN /\ a.school = b.school /\ a.group = b.group
                             /\ a.link = {l \in b.link : l[2] # e.id} \cup EventLinks(b, e)
  BY DEF Database, ApplyUser, PutUser
<1>4. w \in Database /\ SameRows(d, m) /\ d \in Database
  BY <1>1, ApplyUserKeeps, MappingOnly DEF Kept
<1>5. SameRows(w, SetMapping(w, e.id, EventDn(e)))
  BY <1>1, <1>4, MappingOnly
<1>6. e.id \in Users(d) => m \in Database
  BY <1>1, SetMappingKeeps, UserDnTyped DEF Kept, Stored
<1>7. \/ n = d \/ n = w \/ n = SetMapping(w, e.id, EventDn(e))
      \/ e.id \in Users(d) /\ n = v
  BY DEF UserEvent, HandleEvent, HandleUserCreate, HandleUserModify
<1> HIDE DEF n, m
<1>8. /\ w.school = d.school /\ w.group = d.group
      /\ \A l \in w.link : l \in d.link \/ d.group[l[1]].school = l[3]
  BY <1>2, <1>3, <1>4
<1>9. ASSUME e.id \in Users(d)
      PROVE  /\ v.school = d.school /\ v.group = d.group
             /\ \A l \in v.link : l \in d.link \/ d.group[l[1]].school = l[3]
  <2>1. m \in Database /\ m.school = d.school /\ m.group = d.group /\ m.link = d.link
    BY <1>4, <1>6, <1>9 DEF SameRows
  <2> QED
    BY <1>2, <1>3, <2>1
<1> HIDE DEF w, v
<1> QED
  BY <1>5, <1>7, <1>8, <1>9 DEF SameRows, n

(***************************************************************************)
(* Whatever event is handled, links stay within the school of their group  *)
(* and nothing is stored at a new place except by the event that tells it  *)
(* (KelvinConnectorEventHandler).                                          *)
(***************************************************************************)
LEMMA EventInPlace ==
  ASSUME NEW d, Kept(d), ConstraintsHold(d), LinksFit(d), NEW e \in SyncEvent,
         ToldAsStored(d, e), ConstraintsHold(HandleEvent(d, e))
  PROVE  StaysInPlace(d, HandleEvent(d, e), e)
<1> USE StoreAssumption DEF StoreAssumption
<1> DEFINE n == HandleEvent(d, e)
<1>0. d \in Database /\ SchoolsUnique(d) /\ ReferencesHold(d)
  BY DEF Kept, SchoolsUnique, ConstraintsHold
<1>1. \A l \in n.link : l[1] \in Groups(n)
  BY <1>0, EventKeepsReferences DEF ReferencesHold, LinksHold
<1>2. CASE e \in UserEvent
  <2>1. /\ n.school = d.school /\ n.group = d.group
        /\ \A l \in n.link : l \in d.link \/ d.group[l[1]].school = l[3]
    BY <1>0, <1>2, UserEventWrites
  <2> HIDE DEF n
  <2> QED
    BY <1>1, <2>1, RemovalInPlace DEF n
<1>3. CASE e \in HostEvent
  <2>1. n = HandleHostGroup(d, e)
    BY <1>3 DEF HostEvent, HandleEvent
  <2>2. n.school = d.school /\ n.group = d.group /\ n.link = d.link
    BY <1>0, <2>1 DEF HandleHostGroup, SetServers, Database
  <2> HIDE DEF n
  <2> QED
    BY <1>1, <2>2, RemovalInPlace DEF n
<1>4. CASE e \in DeleteEvent
  <2>1. n = HandleDelete(d, e)
    BY <1>4 DEF DeleteEvent, HandleEvent
  <2>2. \/ e.id \in School /\ n = DeleteSchool(d, e.id)
        \/ e.id \in Group /\ n = DeleteGroup(d, e.id)
        \/ e.id \in User /\ n = DeleteUser(d, e.id)
    BY <1>4, <2>1 DEF DeleteEvent, HandleDelete
  <2> HIDE DEF n
  <2>3. CASE e.id \in School /\ n = DeleteSchool(d, e.id)
    <3>1. n.school = [d.school EXCEPT ![e.id] = NoRow] /\ n.group = d.group /\ n.link \subseteq d.link
      BY <1>0, <2>3 DEF Database, DeleteSchool
    <3> QED
      BY <1>0, <1>1, <3>1, RemovalInPlace DEF n, Database
  <2>4. CASE e.id \in Group /\ n = DeleteGroup(d, e.id)
    <3>1. n.school = d.school /\ n.group = [d.group EXCEPT ![e.id] = NoRow] /\ n.link \subseteq d.link
      BY <1>0, <2>4 DEF Database, DeleteGroup
    <3> QED
      BY <1>0, <1>1, <3>1, RemovalInPlace DEF n, Database
  <2>5. CASE e.id \in User /\ n = DeleteUser(d, e.id)
    <3>1. n.school = d.school /\ n.group = d.group /\ n.link \subseteq d.link
      BY <1>0, <2>5 DEF Database, DeleteUser
    <3> QED
      BY <1>1, <3>1, RemovalInPlace DEF n
  <2> QED
    BY <2>2, <2>3, <2>4, <2>5
<1> QED
  BY <1>2, <1>3, <1>4, SchoolEventInPlace, GroupEventInPlace DEF SyncEvent

----------------------------------------------------------------------------
(* What the directory publishes *)

\* Events that tell a place, and whether a group sends to itself, as it is in d.
Told(d) ==
  {e \in SyncEvent : /\ Tells(e) => DirPlace(d, e.id, ToldPlace(e))
                     /\ NamesItself(e) => ~SendersDistinct(d)}

\* A group is created without senders, and only if it is one of X.
Modest(X) ==
  {e \in SyncEvent : e.kind = "group" /\ e.op = "create" => e.id \in X /\ ~NamesItself(e)}

\* A change after which everything outside X is where it was, and X is new.
PlacesKept(d, c, X) ==
  /\ c.events \in Seq(Told(c.dir) \cap Modest(X))
  /\ X = {} \/ Len(c.events) = 1
  /\ \A x \in (School \cup Group) \ X, p \in SchoolName :
       DirPlace(c.dir, x, p) => DirPlace(d, x, p)

\* The groups of n are groups of d, with the same name and school.
GroupsShrink(d, n) ==
  /\ DirGroups(n) \subseteq DirGroups(d)
  /\ \A g \in DirGroups(n) : /\ n.group[g].name = d.group[g].name
                             /\ n.group[g].school = d.group[g].school
                             /\ n.group[g].senders \subseteq d.group[g].senders

\* A group names itself only if its senders share its name (UDM groups/group).
LEMMA SnapshotNames ==
  ASSUME NEW d, DirKept(d), NEW op \in {"create", "modify"}, NEW g \in DirGroups(d),
         NamesItself(GroupSnapshot(d, op, g))
  PROVE  ~SendersDistinct(d)
<1> USE StoreAssumption DEF StoreAssumption
<1> DEFINE e == GroupSnapshot(d, op, g)
<1>1. /\ e.kind = "group" /\ e.name = d.group[g].name
      /\ e.senders = {DirDn(d, x) : x \in d.group[g].senders}
  BY DEF GroupSnapshot
<1>2. EventDn(e) = GroupDn(d.group[g].name)
  BY <1>1 DEF EventDn
<1>3. PICK x \in d.group[g].senders : DirDn(d, x) = GroupDn(d.group[g].name)
  BY <1>1, <1>2 DEF NamesItself
<1>4. x \in DirUsers(d) \cup DirGroups(d)
  BY DEF DirKept, ReferencesIntact
<1>5. CASE x \in DirGroups(d)
  <2>1. DirDn(d, x) = GroupDn(d.group[x].name)
    BY <1>5 DEF DirDn, DirUsers, DirGroups
  <2>2. d.group[x].name = d.group[g].name
    BY <1>3, <2>1 DEF GroupDn
  <2> QED
    BY <1>5, <2>2 DEF SendersDistinct
<1>6. CASE x \in DirUsers(d)
  <2>1. DirDn(d, x) = UserDn(d.user[x].name, d.user[x].ou)
    BY <1>6 DEF DirDn, DirUsers, DirGroups
  <2> QED
    BY <1>3, <2>1 DEF GroupDn, UserDn
<1> QED
  BY <1>4, <1>5, <1>6

\* The event of a school or group tells where it is (UDM container/ou, groups/group).
LEMMA SnapshotsTell ==
  ASSUME NEW d, DirKept(d), NEW op \in {"create", "modify"}, NEW X
  PROVE  /\ \A s \in DirSchools(d) : SchoolSnapshot(d, op, s) \in Told(d) \cap Modest(X)
         /\ \A g \in DirGroups(d) : GroupSnapshot(d, op, g) \in Told(d)
         /\ \A g \in DirGroups(d) : op = "modify" => GroupSnapshot(d, op, g) \in Modest(X)
<1>1. ASSUME NEW s \in DirSchools(d) PROVE SchoolSnapshot(d, op, s) \in Told(d) \cap Modest(X)
  <2>1. SchoolSnapshot(d, op, s) \in SyncEvent
    BY SchoolSnapshotTyped
  <2>2. LET e == SchoolSnapshot(d, op, s)
        IN e.kind = "school" /\ e.id = s /\ e.name = d.school[s]
    BY DEF SchoolSnapshot
  <2> QED
    BY <2>1, <2>2 DEF Told, Modest, NamesItself, ToldPlace, DirPlace
<1>2. ASSUME NEW g \in DirGroups(d)
      PROVE  /\ GroupSnapshot(d, op, g) \in Told(d)
             /\ op = "modify" => GroupSnapshot(d, op, g) \in Modest(X)
  <2>1. GroupSnapshot(d, op, g) \in SyncEvent
    BY GroupSnapshotTyped
  <2>2. LET e == GroupSnapshot(d, op, g)
        IN e.kind = "group" /\ e.op = op /\ e.id = g /\ e.school = d.group[g].school
    BY DEF GroupSnapshot
  <2>3. NamesItself(GroupSnapshot(d, op, g)) => ~SendersDistinct(d)
    BY SnapshotNames
  <2> QED
    BY <2>1, <2>2, <2>3 DEF Told, Modest, ToldPlace, DirPlace
<1> QED
  BY <1>1, <1>2

\* The events of users and host groups and of removals tell no place.
LEMMA OthersTellNothing ==
  ASSUME NEW d, NEW e \in SyncEvent, e.kind \in {"user", "host"} \/ e.op = "delete", NEW X
  PROVE  e \in Told(d) \cap Modest(X)
BY DEF Told, Modest, Tells, NamesItself

\* A prefill publishes snapshots; whatever holds of them holds of its events.
LEMMA PrefillOf ==
  ASSUME NEW d, NEW T,
         \A s \in DirSchools(d) : SchoolSnapshot(d, "create", s) \in T,
         \A g \in DirGroups(d) : GroupSnapshot(d, "create", g) \in T,
         \A h \in DirHostGroups(d) : HostSnapshot(d, "create", h) \in T,
         \A u \in DirUsers(d) : UserSnapshot(d, "create", u) \in T
  PROVE  PrefillEvents(d) \in Seq(T)
<1> DEFINE schools == SetToSeq(DirSchools(d))
           groups == SetToSeq(DirGroups(d))
           hosts == SetToSeq(DirHostGroups(d))
           users == SetToSeq(DirUsers(d))
           a == [i \in DOMAIN schools |-> SchoolSnapshot(d, "create", schools[i])]
           b == [i \in DOMAIN groups |-> GroupSnapshot(d, "create", groups[i])]
           c == [i \in DOMAIN hosts |-> HostSnapshot(d, "create", hosts[i])]
           f == [i \in DOMAIN users |-> UserSnapshot(d, "create", users[i])]
<1>1. a \in Seq(T)
  <2>1. PICK n \in Nat : schools \in [1..n -> DirSchools(d)]
    BY DirFinite, SetToSeqTyped
  <2> QED
    BY <2>1
<1>2. b \in Seq(T)
  <2>1. PICK n \in Nat : groups \in [1..n -> DirGroups(d)]
    BY DirFinite, SetToSeqTyped
  <2> QED
    BY <2>1
<1>3. c \in Seq(T)
  <2>1. PICK n \in Nat : hosts \in [1..n -> DirHostGroups(d)]
    BY DirFinite, SetToSeqTyped
  <2> QED
    BY <2>1
<1>4. f \in Seq(T)
  <2>1. PICK n \in Nat : users \in [1..n -> DirUsers(d)]
    BY DirFinite, SetToSeqTyped
  <2> QED
    BY <2>1
<1>5. PrefillEvents(d) = a \o b \o c \o f
  BY DEF PrefillEvents
<1> HIDE DEF a, b, c, f
<1> QED
  BY <1>1, <1>2, <1>3, <1>4, <1>5

\* A prefill tells where everything is (Prefill).
LEMMA PrefillTells ==
  ASSUME NEW d, DirKept(d)
  PROVE  PrefillEvents(d) \in Seq(Told(d))
<1>1. \A s \in DirSchools(d) : SchoolSnapshot(d, "create", s) \in Told(d)
  BY SnapshotsTell
<1>2. \A g \in DirGroups(d) : GroupSnapshot(d, "create", g) \in Told(d)
  BY SnapshotsTell
<1>3. ASSUME NEW h \in DirHostGroups(d) PROVE HostSnapshot(d, "create", h) \in Told(d)
  <2>1. HostSnapshot(d, "create", h) \in SyncEvent
    BY HostSnapshotTyped DEF DirHostGroups
  <2> QED
    BY <2>1, OthersTellNothing DEF HostSnapshot
<1>4. ASSUME NEW u \in DirUsers(d) PROVE UserSnapshot(d, "create", u) \in Told(d)
  <2>1. UserSnapshot(d, "create", u) \in SyncEvent
    BY UserSnapshotTyped
  <2> QED
    BY <2>1, OthersTellNothing DEF UserSnapshot
<1> QED
  BY <1>1, <1>2, <1>3, <1>4, PrefillOf

\* The events of the groups that a change of a user rewrites (refint).
LEMMA RewritesTell ==
  ASSUME NEW d, DirKept(d), NEW gs \in SUBSET DirGroups(d)
  PROVE  GroupSnapshots(d, gs) \in Seq(Told(d) \cap Modest({}))
<1>1. IsFiniteSet(gs)
  BY DirFinite, FS_Subset
<1> DEFINE n == Cardinality(gs)
<1>2. n \in Nat /\ \A i \in 1..n : SetToSeq(gs)[i] \in gs
  BY <1>1, SetToSeqTyped
<1>3. \A i \in 1..n : GroupSnapshot(d, "modify", SetToSeq(gs)[i]) \in Told(d) \cap Modest({})
  <2>1. \A g \in DirGroups(d) : GroupSnapshot(d, "modify", g) \in Told(d) \cap Modest({})
    BY SnapshotsTell
  <2> QED
    BY <1>2, <2>1
<1>4. GroupSnapshots(d, gs) = [i \in 1..n |-> GroupSnapshot(d, "modify", SetToSeq(gs)[i])]
  BY DEF GroupSnapshots
<1> HIDE DEF n
<1> QED
  BY <1>2, <1>3, <1>4

----------------------------------------------------------------------------
(* The changes of the directory *)

\* Groups that lose members or senders, or go, stay where they are (refint).
LEMMA ShrunkKeeps ==
  ASSUME NEW d, DirKept(d), NEW n, GroupsShrink(d, n),
         \A s \in School : n.school[s] \in {d.school[s], NoRow}
  PROVE  /\ \A x \in School \cup Group, p \in SchoolName : DirPlace(n, x, p) => DirPlace(d, x, p)
         /\ SendersDistinct(d) => SendersDistinct(n)
<1>1. \A x \in School \cup Group, p \in SchoolName : DirPlace(n, x, p) => DirPlace(d, x, p)
  BY DEF DirPlace, GroupsShrink, DirSchools
<1>2. SendersDistinct(d) => SendersDistinct(n)
  BY DEF SendersDistinct, GroupsShrink
<1> QED
  BY <1>1, <1>2

\* Adding, changing and removing a school.
LEMMA SchoolChangesPlaced ==
  ASSUME NEW d, DirKept(d), NEW s \in School
  PROVE  /\ \A name \in SchoolName : LET c == AddSchool(d, s, name)
                                     IN PlacesKept(d, c, {s}) /\ c.dir.group = d.group
         /\ s \in DirSchools(d) => LET c == EditSchool(d, s)
                                   IN PlacesKept(d, c, {}) /\ c.dir.group = d.group
         /\ LET c == RemoveSchool(d, s) IN PlacesKept(d, c, {}) /\ c.dir.group = d.group
<1> USE StoreAssumption DEF StoreAssumption
<1>1. ASSUME NEW name \in SchoolName
      PROVE  LET c == AddSchool(d, s, name) IN PlacesKept(d, c, {s}) /\ c.dir.group = d.group
  <2> DEFINE n == [d EXCEPT !.school[s] = name]
             e == SchoolSnapshot(n, "create", s)
  <2>1. n.group = d.group /\ n.school = [d.school EXCEPT ![s] = name]
    BY DEF DirKept, DirectoryType
  <2>2. AddSchool(d, s, name) = [dir |-> n, events |-> <<e>>]
    BY DEF AddSchool, Change
  <2>3. DirKept(n)
    <3>1. ChangeKept(d, AddSchool(d, s, name), {s})
      BY SchoolChanges
    <3> QED
      BY <2>2, <3>1 DEF ChangeKept
  <2> HIDE DEF n
  <2>4. s \in DirSchools(n)
    BY <2>1 DEF DirSchools, DirKept, DirectoryType
  <2>5. e \in Told(n) \cap Modest({s})
    BY <2>3, <2>4, SnapshotsTell
  <2>6. \A x \in (School \cup Group) \ {s}, p \in SchoolName : DirPlace(n, x, p) => DirPlace(d, x, p)
    BY <2>1 DEF DirPlace, DirSchools, DirGroups, DirKept, DirectoryType
  <2> HIDE DEF e
  <2> QED
    BY <2>1, <2>2, <2>5, <2>6 DEF PlacesKept
<1>2. ASSUME s \in DirSchools(d)
      PROVE  LET c == EditSchool(d, s) IN PlacesKept(d, c, {}) /\ c.dir.group = d.group
  <2> DEFINE e == SchoolSnapshot(d, "modify", s)
  <2>1. EditSchool(d, s) = [dir |-> d, events |-> <<e>>]
    BY DEF EditSchool, Change
  <2>2. e \in Told(d) \cap Modest({})
    BY <1>2, SnapshotsTell
  <2> HIDE DEF e
  <2> QED
    BY <2>1, <2>2 DEF PlacesKept
<1>3. LET c == RemoveSchool(d, s) IN PlacesKept(d, c, {}) /\ c.dir.group = d.group
  <2> DEFINE n == [d EXCEPT !.school[s] = NoRow]
             e == Removal("school", s, TRUE)
  <2>1. n.group = d.group /\ n.school = [d.school EXCEPT ![s] = NoRow]
    BY DEF DirKept, DirectoryType
  <2>2. RemoveSchool(d, s) = [dir |-> n, events |-> <<e>>]
    BY DEF RemoveSchool, Change
  <2>3. e \in SyncEvent /\ e.op = "delete"
    BY RemovalTyped DEF Removal
  <2> HIDE DEF n, e
  <2>4. e \in Told(n) \cap Modest({})
    BY <2>3, OthersTellNothing
  <2>5. \A x \in School \cup Group, p \in SchoolName : DirPlace(n, x, p) => DirPlace(d, x, p)
    BY <2>1 DEF DirPlace, DirSchools, DirGroups, DirKept, DirectoryType
  <2> QED
    BY <2>1, <2>2, <2>4, <2>5 DEF PlacesKept
<1> QED
  BY <1>1, <1>2, <1>3

\* A group is written where it was, or is new (UDM groups/group).
LEMMA GroupRowPlaced ==
  ASSUME NEW d, DirKept(d), NEW g \in Group, NEW row \in GroupRow,
         row.members \subseteq DirUsers(d),
         row.senders \subseteq DirUsers(d) \cup DirGroups(d),
         NEW op \in {"create", "modify"}, op = "modify" \/ row.senders = {},
         NEW X, X = {g} \/ (op = "modify" /\ g \in DirGroups(d) /\ row.school = d.group[g].school)
  PROVE  LET n == [d EXCEPT !.group[g] = row]
         IN PlacesKept(d, Change(n, <<GroupSnapshot(n, op, g)>>), X)
<1> USE DirectoryAssumption, StoreAssumption DEF DirectoryAssumption, StoreAssumption, GroupRow
<1> DEFINE n == [d EXCEPT !.group[g] = row]
           e == GroupSnapshot(n, op, g)
           c == Change(n, <<e>>)
<1>1. n.group = [d.group EXCEPT ![g] = row] /\ n.school = d.school
  BY DEF DirKept, DirectoryType
<1>2. DirKept(n)
  <2>1. ChangeKept(d, c, {g})
    BY GroupWritten
  <2> QED
    BY <2>1 DEF ChangeKept, Change
<1> HIDE DEF n
<1>3. \A h \in Group : n.group[h] = IF h = g THEN row ELSE d.group[h]
  BY <1>1 DEF DirKept, DirectoryType
<1>4. g \in DirGroups(n)
  BY <1>3 DEF DirGroups
<1>5. e \in Told(n) \cap Modest(X)
  <2>1. e \in Told(n) /\ (op = "modify" => e \in Modest(X))
    BY <1>2, <1>4, SnapshotsTell
  <2>2. e.id = g /\ (row.senders = {} => e.senders = {})
    BY <1>3 DEF GroupSnapshot
  <2>3. op = "create" => e \in Modest(X)
    BY <2>1, <2>2 DEF Told, Modest, NamesItself
  <2> QED
    BY <2>1, <2>3
<1>6. \A x \in (School \cup Group) \ X, p \in SchoolName : DirPlace(n, x, p) => DirPlace(d, x, p)
  BY <1>1, <1>3 DEF DirPlace, DirSchools, DirGroups
<1> HIDE DEF e
<1>7. PlacesKept(d, c, X)
  BY <1>5, <1>6 DEF PlacesKept, Change
<1> QED
  BY <1>7 DEF c, e, n

\* The names of senders stay apart unless the senders of a group change.
LEMMA SendersKept ==
  ASSUME NEW d, DirKept(d), SendersDistinct(d), NEW g \in Group, NEW row \in GroupRow,
         \/ g \notin DirGroups(d) /\ row.senders = {}
         \/ /\ g \in DirGroups(d) /\ row.senders = d.group[g].senders
            /\ \/ row.name = d.group[g].name
               \/ \A h \in DirGroups(d) : d.group[h].name # row.name
  PROVE  SendersDistinct([d EXCEPT !.group[g] = row])
<1> USE StoreAssumption DEF StoreAssumption
<1> DEFINE n == [d EXCEPT !.group[g] = row]
<1>1. \A h \in Group : n.group[h] = IF h = g THEN row ELSE d.group[h]
  BY DEF DirKept, DirectoryType
<1> HIDE DEF n
<1> SUFFICES ASSUME NEW h \in DirGroups(n), NEW k \in n.group[h].senders \cap DirGroups(n)
             PROVE  n.group[k].name # n.group[h].name
  BY DEF SendersDistinct, n
<1>2. h \in Group /\ k \in Group
  BY DEF DirGroups
<1>3. h \in DirGroups(d) /\ k \in d.group[h].senders
  BY <1>1, <1>2 DEF DirGroups
<1>4. k \in DirGroups(d)
  <2>1. k \in DirUsers(d) \cup DirGroups(d)
    BY <1>3 DEF DirKept, ReferencesIntact
  <2> QED
    BY <1>2, <2>1 DEF DirUsers
<1>5. d.group[k].name # d.group[h].name
  BY <1>3, <1>4 DEF SendersDistinct
<1> QED
  BY <1>1, <1>2, <1>3, <1>4, <1>5

\* What a change of users or a removal of a group does to schools and groups.
LEMMA ShrinkingPlaced ==
  ASSUME NEW d, DirKept(d), NEW n, DirKept(n), GroupsShrink(d, n), n.school = d.school,
         NEW e \in SyncEvent, e.kind = "user" \/ e.op = "delete",
         NEW gs \in SUBSET DirGroups(n)
  PROVE  /\ PlacesKept(d, Change(n, <<e>> \o GroupSnapshots(n, gs)), {})
         /\ PlacesKept(d, Change(n, <<e>>), {})
         /\ SendersDistinct(d) => SendersDistinct(n)
<1> DEFINE T == Told(n) \cap Modest({})
           es == GroupSnapshots(n, gs)
<1>1. e \in T /\ es \in Seq(T)
  BY OthersTellNothing, RewritesTell
<1>2. /\ \A x \in School \cup Group, p \in SchoolName : DirPlace(n, x, p) => DirPlace(d, x, p)
      /\ SendersDistinct(d) => SendersDistinct(n)
  BY ShrunkKeeps
<1>3. <<e>> \in Seq(T) /\ <<e>> \o es \in Seq(T)
  <2> HIDE DEF T, es
  <2> QED
    BY <1>1
<1> HIDE DEF es
<1> QED
  BY <1>2, <1>3 DEF PlacesKept, Change, es

\* Removing a group (refint on the allowed senders).
LEMMA GroupRemovedPlaced ==
  ASSUME NEW d, DirKept(d), NEW g \in DirGroups(d)
  PROVE  LET c == RemoveGroup(d, g)
         IN PlacesKept(d, c, {}) /\ (SendersDistinct(d) => SendersDistinct(c.dir))
<1> USE StoreAssumption, DirectoryAssumption DEF StoreAssumption, DirectoryAssumption
<1> DEFINE n == RemoveGroup(d, g).dir
           e == Removal("group", g, d.group[g].scope)
<1>1. /\ n.school = d.school
      /\ n.group = [h \in Group |-> IF h = g \/ d.group[h] = NoRow THEN NoRow
                                    ELSE [d.group[h] EXCEPT !.senders = @ \ {g}]]
      /\ RemoveGroup(d, g) = Change(n, <<e>>)
  BY DEF RemoveGroup, Change, DirKept, DirectoryType
<1>2. DirKept(n)
  BY GroupRemovedKeeps DEF ChangeKept
<1> HIDE DEF n
<1>3. \A h \in DirGroups(d) : d.group[h] \in GroupRow
  BY DEF DirKept, DirectoryType, DirGroups, GroupRow
<1> DEFINE Without(h) == [d.group[h] EXCEPT !.senders = @ \ {g}]
<1>4. \A h \in DirGroups(n) : h \in DirGroups(d) /\ n.group[h] = Without(h)
  BY <1>1 DEF DirGroups
<1>5. GroupsShrink(d, n)
  <2>1. \A h \in DirGroups(d) : /\ Without(h).name = d.group[h].name
                                /\ Without(h).school = d.group[h].school
                                /\ Without(h).senders \subseteq d.group[h].senders
    BY <1>3 DEF GroupRow
  <2> HIDE DEF Without
  <2> QED
    BY <1>4, <2>1 DEF GroupsShrink
<1>6. e \in SyncEvent /\ e.op = "delete"
  <2>1. g \in Group /\ d.group[g].scope \in BOOLEAN
    BY <1>3 DEF DirGroups, GroupRow
  <2> QED
    BY <2>1, RemovalTyped DEF Removal
<1> HIDE DEF e
<1>7. PlacesKept(d, Change(n, <<e>>), {}) /\ (SendersDistinct(d) => SendersDistinct(n))
  BY <1>1, <1>2, <1>5, <1>6, ShrinkingPlaced
<1> QED
  BY <1>1, <1>7 DEF n

\* Changing a user (refint on the members of the groups it leaves).
LEMMA UserEditedPlaced ==
  ASSUME NEW d, DirKept(d), NEW u \in DirUsers(d), NEW row \in UserRow
  PROVE  LET c == EditUser(d, u, row)
         IN PlacesKept(d, c, {}) /\ (SendersDistinct(d) => SendersDistinct(c.dir))
<1> USE StoreAssumption, DirectoryAssumption DEF StoreAssumption, DirectoryAssumption
<1> DEFINE n == EditUser(d, u, row).dir
           e == UserSnapshot(n, "modify", u)
           left == {g \in GroupsOf(d, u) : d.group[g].school \notin row.schools}
           gs == IF row.name # d.user[u].name \/ row.ou # d.user[u].ou THEN GroupsOf(d, u) ELSE left
<1>1. /\ n.school = d.school /\ n.user = [d.user EXCEPT ![u] = row]
      /\ n.group = [g \in Group |-> IF g \in left THEN [d.group[g] EXCEPT !.members = @ \ {u}]
                                    ELSE d.group[g]]
      /\ EditUser(d, u, row) = Change(n, <<e>> \o GroupSnapshots(n, gs))
  BY DEF EditUser, Change, DirKept, DirectoryType
<1>2. DirKept(n)
  BY UserEditedKeeps DEF ChangeKept
<1> HIDE DEF n
<1>3. /\ \A g \in DirGroups(d) : d.group[g] \in GroupRow
      /\ left \subseteq DirGroups(d) /\ gs \subseteq DirGroups(d)
  BY DEF DirKept, DirectoryType, DirGroups, GroupRow, GroupsOf
<1> HIDE DEF left, gs
<1> DEFINE Without(g) == [d.group[g] EXCEPT !.members = @ \ {u}]
<1>4. /\ \A g \in Group : \/ n.group[g] = d.group[g]
                          \/ g \in DirGroups(d) /\ n.group[g] = Without(g)
      /\ \A g \in DirGroups(d) : /\ Without(g) \in GroupRow
                                 /\ Without(g).name = d.group[g].name
                                 /\ Without(g).school = d.group[g].school
                                 /\ Without(g).senders = d.group[g].senders
  <2>1. \A g \in Group : \/ n.group[g] = d.group[g]
                         \/ g \in DirGroups(d) /\ n.group[g] = Without(g)
    BY <1>1, <1>3
  <2> QED
    BY <1>3, <2>1 DEF GroupRow
<1> HIDE DEF Without
<1>5. DirGroups(n) = DirGroups(d)
  <2>1. NoRow \notin GroupRow
    BY DEF GroupRow
  <2> QED
    BY <1>4, <2>1 DEF DirGroups
<1>6. GroupsShrink(d, n)
  BY <1>4, <1>5 DEF GroupsShrink, DirGroups
<1>7. e \in SyncEvent /\ e.kind = "user"
  <2>1. u \in DirUsers(n)
    BY <1>1 DEF DirUsers, DirKept, DirectoryType, UserRow
  <2> QED
    BY <1>2, <2>1, UserSnapshotTyped DEF UserSnapshot
<1> HIDE DEF e
<1>8. /\ PlacesKept(d, Change(n, <<e>> \o GroupSnapshots(n, gs)), {})
      /\ SendersDistinct(d) => SendersDistinct(n)
  BY <1>1, <1>2, <1>3, <1>5, <1>6, <1>7, ShrinkingPlaced
<1> QED
  BY <1>1, <1>8 DEF n

\* Removing a user (refint on the members and allowed senders of groups).
LEMMA UserRemovedPlaced ==
  ASSUME NEW d, DirKept(d), NEW u \in DirUsers(d)
  PROVE  LET c == RemoveUser(d, u)
         IN PlacesKept(d, c, {}) /\ (SendersDistinct(d) => SendersDistinct(c.dir))
<1> USE StoreAssumption, DirectoryAssumption DEF StoreAssumption, DirectoryAssumption
<1> DEFINE n == RemoveUser(d, u).dir
           e == Removal("user", u, TRUE)
           gs == GroupsOf(d, u)
           Without(g) == [d.group[g] EXCEPT !.members = @ \ {u}, !.senders = @ \ {u}]
<1>1. /\ n.school = d.school
      /\ n.group = [g \in Group |-> IF d.group[g] = NoRow THEN NoRow ELSE Without(g)]
      /\ RemoveUser(d, u) = Change(n, <<e>> \o GroupSnapshots(n, gs))
  BY DEF RemoveUser, Change, DirKept, DirectoryType
<1>2. DirKept(n)
  BY UserRemovedKeeps DEF ChangeKept
<1> HIDE DEF n
<1>3. gs \subseteq DirGroups(d) /\ u \in User /\ \A g \in DirGroups(d) : d.group[g] \in GroupRow
  BY DEF DirKept, DirectoryType, DirGroups, DirUsers, GroupRow, GroupsOf
<1>4. \A g \in DirGroups(d) : /\ Without(g) \in GroupRow
                              /\ Without(g).name = d.group[g].name
                              /\ Without(g).school = d.group[g].school
                              /\ Without(g).senders = d.group[g].senders \ {u}
  BY <1>3 DEF GroupRow
<1> HIDE DEF gs, Without
<1>5. \A g \in Group : /\ g \in DirGroups(d) => n.group[g] = Without(g)
                       /\ g \notin DirGroups(d) => n.group[g] = NoRow
  BY <1>1 DEF DirGroups
<1>6. DirGroups(n) = DirGroups(d)
  <2>1. NoRow \notin GroupRow
    BY DEF GroupRow
  <2> QED
    BY <1>4, <1>5, <2>1 DEF DirGroups
<1>7. GroupsShrink(d, n)
  BY <1>4, <1>5, <1>6 DEF GroupsShrink, DirGroups
<1>8. e \in SyncEvent /\ e.kind = "user"
  BY <1>3, RemovalTyped DEF Removal
<1> HIDE DEF e
<1>9. /\ PlacesKept(d, Change(n, <<e>> \o GroupSnapshots(n, gs)), {})
      /\ SendersDistinct(d) => SendersDistinct(n)
  BY <1>1, <1>2, <1>3, <1>6, <1>7, <1>8, ShrinkingPlaced
<1> QED
  BY <1>1, <1>9 DEF n

\* Adding a user, and the hosts of a DC host group, touch no school or group.
LEMMA OthersPlaced ==
  ASSUME NEW d, DirKept(d), NEW n, DirKept(n), NEW e \in SyncEvent,
         n.school = d.school, n.group = d.group, e.kind \in {"user", "host"}
  PROVE  PlacesKept(d, Change(n, <<e>>), {}) /\ (SendersDistinct(d) => SendersDistinct(n))
<1> DEFINE T == Told(n) \cap Modest({})
<1>1. e \in T
  BY OthersTellNothing
<1> HIDE DEF T
<1>2. <<e>> \in Seq(T)
  BY <1>1
<1>3. \A x \in School \cup Group, p \in SchoolName : DirPlace(n, x, p) => DirPlace(d, x, p)
  BY DEF DirPlace, DirSchools, DirGroups
<1>4. SendersDistinct(d) => SendersDistinct(n)
  BY DEF SendersDistinct, DirGroups
<1> QED
  BY <1>2, <1>3, <1>4 DEF PlacesKept, Change, T

\* A new user (UDM users/user).
LEMMA UserAddedPlaced ==
  ASSUME NEW d, DirKept(d), NEW u \in User, NEW name \in UserName, NEW ou \in SchoolName,
         NEW schools \in SUBSET SchoolName
  PROVE  LET c == AddUser(d, u, name, ou, schools)
         IN PlacesKept(d, c, {}) /\ (SendersDistinct(d) => SendersDistinct(c.dir))
<1> USE DirectoryAssumption DEF DirectoryAssumption
<1> DEFINE c == AddUser(d, u, name, ou, schools)
           n == c.dir
           e == UserSnapshot(n, "create", u)
           row == [name |-> name, ou |-> ou, schools |-> schools]
<1>1. /\ n.user = [d.user EXCEPT ![u] = row] /\ n.group = d.group /\ n.school = d.school
      /\ c = Change(n, <<e>>) /\ row # NoRow
  BY DEF AddUser, Change, DirKept, DirectoryType
<1>2. DirKept(n)
  BY UserAddedKeeps DEF ChangeKept
<1> HIDE DEF c, row
<1>3. u \in DirUsers(n)
  BY <1>1 DEF DirUsers, DirKept, DirectoryType
<1>4. e \in SyncEvent /\ e.kind = "user"
  BY <1>2, <1>3, UserSnapshotTyped DEF UserSnapshot
<1> HIDE DEF e
<1>5. PlacesKept(d, c, {}) /\ (SendersDistinct(d) => SendersDistinct(n))
  BY <1>1, <1>2, <1>4, OthersPlaced
<1> QED
  BY <1>5 DEF c

\* A change of a DC host group.
LEMMA HostsChangedPlaced ==
  ASSUME NEW d, DirKept(d), NEW h \in SchoolName \X HostKind, NEW hosts \in (SUBSET Host) \cup {NoRow}
  PROVE  LET c == SetHosts(d, h, hosts)
         IN PlacesKept(d, c, {}) /\ (SendersDistinct(d) => SendersDistinct(c.dir))
<1> DEFINE c == SetHosts(d, h, hosts)
           n == c.dir
           op == IF d.hosts[h] = NoRow THEN "create" ELSE IF hosts = NoRow THEN "delete" ELSE "modify"
           e == HostSnapshot(n, op, h)
<1>1. n.group = d.group /\ n.school = d.school /\ c = Change(n, <<e>>)
  BY DEF SetHosts, Change, DirKept, DirectoryType
<1>2. DirKept(n)
  BY HostsChangedKeeps DEF ChangeKept
<1>3. op \in {"create", "modify", "delete"}
  OBVIOUS
<1> HIDE DEF c, op
<1>4. e \in SyncEvent /\ e.kind = "host"
  BY <1>2, <1>3, HostSnapshotTyped DEF HostSnapshot
<1> HIDE DEF e
<1>5. PlacesKept(d, c, {}) /\ (SendersDistinct(d) => SendersDistinct(n))
  BY <1>1, <1>2, <1>4, OthersPlaced
<1> QED
  BY <1>5 DEF c

(***************************************************************************)
(* A change that moves no school or group: what it places is new, in the   *)
(* directory, the queue and the database.                                  *)
(***************************************************************************)
InPlaceSubmitted ==
  \E operation, c, X :
    /\ PlacesKept(dir, c, X)
    /\ Submit(operation, c)
    /\ \A x \in X : Unused(x) /\ x \notin DirObjects(dir)
    /\ operation = "senders" \/ (SendersDistinct(dir) => SendersDistinct(c.dir))

\* The witnesses of InPlaceSubmitted (Submit).
LEMMA SubmitsInPlace ==
  ASSUME NEW operation, NEW c, NEW X, PlacesKept(dir, c, X), Submit(operation, c),
         \A x \in X : Unused(x) /\ x \notin DirObjects(dir),
         operation = "senders" \/ (SendersDistinct(dir) => SendersDistinct(c.dir))
  PROVE  InPlaceSubmitted
BY DEF InPlaceSubmitted

\* Changes of schools and of DC host groups move nothing.
LEMMA SchoolChangeInPlace ==
  ASSUME DirKept(dir), SchoolChange
  PROVE  InPlaceSubmitted
<1> USE StoreAssumption DEF StoreAssumption
<1>1. ASSUME NEW c, c.dir.group = dir.group PROVE SendersDistinct(dir) => SendersDistinct(c.dir)
  BY <1>1 DEF SendersDistinct, DirGroups
<1>2. ASSUME NEW s \in School, NEW name \in SchoolName, SchoolAdded(s, name)
      PROVE  InPlaceSubmitted
  <2> DEFINE c == AddSchool(dir, s, name)
  <2>1. PlacesKept(dir, c, {s}) /\ c.dir.group = dir.group
    BY SchoolChangesPlaced
  <2>2. Unused(s) /\ s \notin DirSchools(dir) /\ Submit("school", c)
    BY <1>2 DEF SchoolAdded
  <2> HIDE DEF c
  <2>3. s \notin DirObjects(dir)
    BY <2>2 DEF DirObjects, DirGroups, DirUsers
  <2> QED
    BY <1>1, <2>1, <2>2, <2>3, SubmitsInPlace
<1>3. ASSUME NEW s \in DirSchools(dir), SchoolRemoved(s) PROVE InPlaceSubmitted
  <2> DEFINE c == RemoveSchool(dir, s)
  <2>1. PlacesKept(dir, c, {}) /\ c.dir.group = dir.group
    BY SchoolChangesPlaced DEF DirSchools
  <2>2. Submit("school", c)
    BY <1>3 DEF SchoolRemoved
  <2> HIDE DEF c
  <2> QED
    BY <1>1, <2>1, <2>2, SubmitsInPlace
<1>4. ASSUME NEW s \in DirSchools(dir), SchoolEdited(s) PROVE InPlaceSubmitted
  <2> DEFINE c == EditSchool(dir, s)
  <2>1. PlacesKept(dir, c, {}) /\ c.dir.group = dir.group
    BY SchoolChangesPlaced DEF DirSchools
  <2>2. Submit("edit", c)
    BY <1>4 DEF SchoolEdited
  <2> HIDE DEF c
  <2> QED
    BY <1>1, <2>1, <2>2, SubmitsInPlace
<1>5. ASSUME NEW h \in SchoolName \X HostKind, NEW hosts \in (SUBSET Host) \cup {NoRow},
             HostsChanged(h, hosts)
      PROVE  InPlaceSubmitted
  BY <1>5, HostsChangedPlaced, SubmitsInPlace DEF HostsChanged
<1> QED
  BY <1>2, <1>3, <1>4, <1>5 DEF SchoolChange

\* Changes of users move no school or group.
LEMMA UserChangeInPlace ==
  ASSUME DirKept(dir), UserChange
  PROVE  InPlaceSubmitted
<1>0. DirSchoolNames(dir) \subseteq SchoolName
  BY DEF DirKept, DirectoryType, DirSchoolNames, DirSchools
<1>1. ASSUME NEW schools \in SUBSET DirSchoolNames(dir), NEW ou \in schools,
             NEW name \in UserName, NEW u \in User, UserAdded(u, name, ou, schools)
      PROVE  InPlaceSubmitted
  <2>1. ou \in SchoolName /\ schools \in SUBSET SchoolName
    BY <1>0
  <2> QED
    BY <1>1, <2>1, UserAddedPlaced, SubmitsInPlace DEF UserAdded
<1>2. ASSUME NEW u \in DirUsers(dir) PROVE dir.user[u] \in UserRow
  BY DEF DirKept, DirectoryType, DirUsers, UserRow
<1>3. ASSUME NEW u \in DirUsers(dir), NEW name \in UserName, UserRenamed(u, name)
      PROVE  InPlaceSubmitted
  <2> DEFINE row == [dir.user[u] EXCEPT !.name = name]
  <2>1. row \in UserRow
    BY <1>2 DEF UserRow
  <2>2. Submit("rename", EditUser(dir, u, row))
    BY <1>3 DEF UserRenamed
  <2> HIDE DEF row
  <2> QED
    BY <2>1, <2>2, UserEditedPlaced, SubmitsInPlace
<1>4. ASSUME NEW u \in DirUsers(dir), NEW schools \in SUBSET DirSchoolNames(dir),
             NEW ou \in schools, UserMoved(u, ou, schools)
      PROVE  InPlaceSubmitted
  <2> DEFINE row == [dir.user[u] EXCEPT !.ou = ou, !.schools = schools]
  <2>1. row \in UserRow
    BY <1>0, <1>2 DEF UserRow
  <2>2. Submit("move", EditUser(dir, u, row))
    BY <1>4 DEF UserMoved
  <2> HIDE DEF row
  <2> QED
    BY <2>1, <2>2, UserEditedPlaced, SubmitsInPlace
<1>5. ASSUME NEW u \in DirUsers(dir), UserRemoved(u) PROVE InPlaceSubmitted
  BY <1>5, UserRemovedPlaced, SubmitsInPlace DEF UserRemoved
<1> QED
  BY <1>1, <1>3, <1>4, <1>5 DEF UserChange

\* Changes of groups, except a move to another school, move nothing.
LEMMA GroupChangeInPlace ==
  ASSUME DirKept(dir), "regroup" \notin Operations, GroupChange
  PROVE  InPlaceSubmitted
<1> USE StoreAssumption DEF StoreAssumption
<1>1. ASSUME NEW g \in DirGroups(dir)
      PROVE  /\ g \in Group /\ dir.group[g] \in GroupRow
             /\ dir.group[g].members \subseteq DirUsers(dir)
             /\ dir.group[g].senders \subseteq DirUsers(dir) \cup DirGroups(dir)
  BY DEF DirKept, DirectoryType, ReferencesIntact, DirGroups, GroupRow
<1>2. ASSUME NEW g \in DirGroups(dir), NEW row \in GroupRow, NEW operation,
             row.members \subseteq DirUsers(dir), row.school = dir.group[g].school,
             row.senders \subseteq DirUsers(dir) \cup DirGroups(dir),
             Submit(operation, EditGroup(dir, g, row)),
             \/ operation = "senders"
             \/ /\ row.senders = dir.group[g].senders
                /\ \/ row.name = dir.group[g].name
                   \/ \A h \in DirGroups(dir) : dir.group[h].name # row.name
      PROVE  InPlaceSubmitted
  <2> DEFINE n == [dir EXCEPT !.group[g] = row]
             c == Change(n, <<GroupSnapshot(n, "modify", g)>>)
  <2>1. EditGroup(dir, g, row) = c /\ c.dir = n
    BY DEF EditGroup, Change
  <2>2. PlacesKept(dir, c, {})
    BY <1>1, <1>2, GroupRowPlaced
  <2>3. operation = "senders" \/ (SendersDistinct(dir) => SendersDistinct(n))
    BY <1>1, <1>2, SendersKept
  <2> HIDE DEF c, n
  <2> QED
    BY <1>2, <2>1, <2>2, <2>3, SubmitsInPlace
<1>3. ASSUME NEW g \in Group, NEW name \in GroupName, NEW sn \in DirSchoolNames(dir),
             NEW members \in SUBSET User, GroupAdded(g, name, sn, members)
      PROVE  InPlaceSubmitted
  <2> DEFINE row == [name |-> name, school |-> sn, members |-> members, senders |-> {},
                     scope |-> TRUE]
             n == [dir EXCEPT !.group[g] = row]
             c == Change(n, <<GroupSnapshot(n, "create", g)>>)
  <2>1. sn \in SchoolName
    BY DEF DirKept, DirectoryType, DirSchoolNames, DirSchools
  <2>2. /\ row \in GroupRow /\ row.members \subseteq DirUsers(dir) /\ row.senders = {}
        /\ Unused(g) /\ g \notin DirGroups(dir)
    BY <1>3, <2>1 DEF GroupRow, GroupAdded, UsersOfSchool
  <2>3. Submit("group", c) /\ c.dir = n
    BY <1>3 DEF GroupAdded, AddGroup, Change
  <2> HIDE DEF row
  <2>4. PlacesKept(dir, c, {g}) /\ (SendersDistinct(dir) => SendersDistinct(n))
    BY <2>2, GroupRowPlaced, SendersKept
  <2>5. g \notin DirObjects(dir)
    BY <2>2 DEF DirObjects, DirSchools, DirUsers
  <2> HIDE DEF c, n
  <2> QED
    BY <2>2, <2>3, <2>4, <2>5, SubmitsInPlace
<1>4. ASSUME NEW g \in DirGroups(dir), NEW members \in SUBSET User, MembersChanged(g, members)
      PROVE  InPlaceSubmitted
  <2> DEFINE row == [dir.group[g] EXCEPT !.members = members]
  <2>1. /\ row \in GroupRow /\ row.members = members /\ row.senders = dir.group[g].senders
        /\ row.name = dir.group[g].name /\ row.school = dir.group[g].school
        /\ members \subseteq DirUsers(dir)
    BY <1>1, <1>4 DEF GroupRow, MembersChanged, UsersOfSchool
  <2>2. Submit("members", EditGroup(dir, g, row))
    BY <1>4 DEF MembersChanged
  <2> HIDE DEF row
  <2>3. /\ row.members \subseteq DirUsers(dir)
        /\ row.senders \subseteq DirUsers(dir) \cup DirGroups(dir)
    BY <1>1, <2>1
  <2> QED
    BY <1>2, <2>1, <2>2, <2>3
<1>5. ASSUME NEW g \in DirGroups(dir), NEW name \in GroupName, GroupRenamed(g, name)
      PROVE  InPlaceSubmitted
  <2> DEFINE row == [dir.group[g] EXCEPT !.name = name]
  <2>1. /\ row \in GroupRow /\ row.members = dir.group[g].members
        /\ row.senders = dir.group[g].senders
        /\ row.name = name /\ row.school = dir.group[g].school
    BY <1>1 DEF GroupRow
  <2>2. Submit("rename", EditGroup(dir, g, row)) /\ \A h \in DirGroups(dir) : dir.group[h].name # name
    BY <1>5 DEF GroupRenamed, FreeGroupName
  <2> HIDE DEF row
  <2>3. /\ row.members \subseteq DirUsers(dir)
        /\ row.senders \subseteq DirUsers(dir) \cup DirGroups(dir)
    BY <1>1, <2>1
  <2> QED
    BY <1>2, <2>1, <2>2, <2>3
<1>6. ASSUME NEW g \in DirGroups(dir), NEW senders \in SUBSET (User \cup Group),
             SendersChanged(g, senders)
      PROVE  InPlaceSubmitted
  <2> DEFINE row == [dir.group[g] EXCEPT !.senders = senders]
  <2>1. /\ row \in GroupRow /\ row.members = dir.group[g].members
        /\ row.senders \subseteq DirUsers(dir) \cup DirGroups(dir)
        /\ row.school = dir.group[g].school
    BY <1>1, <1>6 DEF GroupRow, SendersChanged
  <2>2. Submit("senders", EditGroup(dir, g, row))
    BY <1>6 DEF SendersChanged
  <2> HIDE DEF row
  <2>3. /\ row.members \subseteq DirUsers(dir)
        /\ row.senders \subseteq DirUsers(dir) \cup DirGroups(dir)
    BY <1>1, <2>1
  <2> QED
    BY <1>2, <2>1, <2>2, <2>3
<1>7. ASSUME NEW g \in DirGroups(dir), RoleLost(g) PROVE InPlaceSubmitted
  <2> DEFINE row == [dir.group[g] EXCEPT !.scope = FALSE]
  <2>1. /\ row \in GroupRow /\ row.members = dir.group[g].members
        /\ row.senders = dir.group[g].senders
        /\ row.name = dir.group[g].name /\ row.school = dir.group[g].school
    <3>1. dir.group[g] \in GroupRow
      BY <1>1
    <3> QED
      BY <3>1 DEF GroupRow
  <2>2. Submit("role", EditGroup(dir, g, row))
    BY <1>7 DEF RoleLost
  <2> HIDE DEF row
  <2>3. /\ row.members \subseteq DirUsers(dir)
        /\ row.senders \subseteq DirUsers(dir) \cup DirGroups(dir)
    BY <1>1, <2>1
  <2> QED
    BY <1>2, <2>1, <2>2, <2>3
<1>8. ASSUME NEW g \in DirGroups(dir), GroupRemoved(g) PROVE InPlaceSubmitted
  BY <1>8, GroupRemovedPlaced, SubmitsInPlace DEF GroupRemoved
<1>9. ASSUME NEW g \in DirGroups(dir), NEW sn \in DirSchoolNames(dir), GroupMoved(g, sn)
      PROVE  FALSE
  BY <1>9 DEF GroupMoved, Submit
<1> QED
  BY <1>3, <1>4, <1>5, <1>6, <1>7, <1>8, <1>9 DEF GroupChange

----------------------------------------------------------------------------
(* One place for each school and group *)

\* An object is a school or a group, so a directory places it once.
LEMMA PlacedOnce ==
  ASSUME NEW d, NEW x, NEW p, NEW q, DirPlace(d, x, p), DirPlace(d, x, q)
  PROVE  p = q
BY StoreAssumption DEF StoreAssumption, DirPlace, DirSchools, DirGroups

\* Events that tell what the directory holds place nothing else (Provisioning).
LEMMA ToldPlaces ==
  ASSUME NEW d, NEW T, T \subseteq Told(d), NEW es \in Seq(T), NEW x, NEW p, QueuedPlace(es, x, p)
  PROVE  DirPlace(d, x, p)
<1>1. PICK i \in DOMAIN es : Tells(es[i]) /\ x = es[i].id /\ p = ToldPlace(es[i])
  BY DEF QueuedPlace
<1>2. es[i] \in Told(d)
  BY <1>1
<1> QED
  BY <1>1, <1>2 DEF Told

\* An event in either part of a queue.
LEMMA QueuedInEither ==
  ASSUME NEW q \in Seq(SyncEvent), NEW r \in Seq(SyncEvent), NEW x, NEW p,
         QueuedPlace(q \o r, x, p)
  PROVE  QueuedPlace(q, x, p) \/ QueuedPlace(r, x, p)
<1>1. PICK i \in DOMAIN (q \o r) : /\ Tells((q \o r)[i]) /\ x = (q \o r)[i].id
                                   /\ p = ToldPlace((q \o r)[i])
  BY DEF QueuedPlace
<1>2. \/ i \in DOMAIN q /\ (q \o r)[i] = q[i]
      \/ i - Len(q) \in DOMAIN r /\ (q \o r)[i] = r[i - Len(q)]
  OBVIOUS
<1> QED
  BY <1>1, <1>2 DEF QueuedPlace

\* A change of the directory keeps every school and group where it was (Submit).
LEMMA SubmitKeepsPlaces ==
  ASSUME IInv, OnePlace, InPlaceSubmitted
  PROVE  OnePlace'
<1> PICK operation, c, X :
      /\ PlacesKept(dir, c, X) /\ Submit(operation, c)
      /\ \A x \in X : Unused(x) /\ x \notin DirObjects(dir)
  BY DEF InPlaceSubmitted
<1> DEFINE es == c.events
           T == Told(c.dir) \cap Modest(X)
<1>1. /\ log' = log \o es /\ dir' = c.dir /\ db' = db /\ es \in Seq(T)
      /\ log \in Seq(SyncEvent)
  BY DEF Submit, PlacesKept, IInv, TypeOK
<1>2. T \subseteq Told(c.dir) /\ T \subseteq SyncEvent
  BY DEF Told
<1>3. \A x \in (School \cup Group) \ X, p \in SchoolName : DirPlace(c.dir, x, p) => DirPlace(dir, x, p)
  BY DEF PlacesKept
<1> HIDE DEF es, T
<1>4. es \in Seq(SyncEvent)
  BY <1>1, <1>2
<1>5. ASSUME NEW x, NEW p, Place(x, p)' PROVE Place(x, p) \/ DirPlace(c.dir, x, p)
  <2>1. QueuedPlace(log', x, p) => QueuedPlace(log, x, p) \/ QueuedPlace(es, x, p)
    BY <1>1, <1>4, QueuedInEither
  <2>2. QueuedPlace(es, x, p) => DirPlace(c.dir, x, p)
    BY <1>1, <1>2, ToldPlaces
  <2> QED
    BY <1>1, <1>5, <2>1, <2>2 DEF Place
<1>6. ASSUME NEW x \in X, NEW p PROVE ~Place(x, p)
  <2>1. EventsOf(x) = {} /\ ~Stored(db, x) /\ x \notin DirObjects(dir)
    BY DEF Unused
  <2>2. ~QueuedPlace(log, x, p)
    BY <2>1 DEF QueuedPlace, Tells, EventsOf
  <2>3. ~DirPlace(dir, x, p) /\ ~StoredPlace(db, x, p)
    BY <2>1 DEF DirPlace, DirObjects, StoredPlace, Stored
  <2> QED
    BY <2>2, <2>3 DEF Place
<1> SUFFICES ASSUME NEW x \in School \cup Group, NEW p \in SchoolName, NEW q \in SchoolName,
                    Place(x, p)', Place(x, q)'
             PROVE  p = q
  BY DEF OnePlace
<1>7. CASE x \in X
  BY <1>5, <1>6, <1>7, PlacedOnce
<1>8. CASE x \notin X
  BY <1>3, <1>5, <1>8 DEF OnePlace, Place
<1> QED
  BY <1>7, <1>8

\* The place an event tells is the one the database has (SynchronizationManager).
LEMMA QueuedAsStored ==
  ASSUME IInv, OnePlace, NEW i \in DOMAIN log
  PROVE  log[i] \in SyncEvent /\ ToldAsStored(db, log[i])
<1> DEFINE e == log[i]
<1>1. e \in SyncEvent
  BY DEF IInv, TypeOK
<1>2. ASSUME Tells(e), NEW p \in SchoolName, StoredPlace(db, e.id, p) PROVE p = ToldPlace(e)
  <2>1. e.id \in School \cup Group /\ ToldPlace(e) \in SchoolName
    BY <1>1, <1>2 DEF SyncEvent, SchoolEvent, GroupEvent, UserEvent, HostEvent, DeleteEvent,
                      Tells, ToldPlace
  <2>2. Place(e.id, p) /\ Place(e.id, ToldPlace(e))
    BY <1>2 DEF Place, QueuedPlace
  <2> QED
    BY <2>1, <2>2 DEF OnePlace
<1> QED
  BY <1>1, <1>2 DEF ToldAsStored

\* A handler commits or leaves the database as it is.
LEMMA Outcomes ==
  ASSUME IInv, Process \/ Disturb \/ \E committed \in BOOLEAN : DatabaseFault(committed)
  PROVE  /\ log' = log /\ dir' = dir
         /\ \/ db' = db
            \/ /\ Attempt /\ ~HandlerFails(db, log[cur])
               /\ db' = HandleEvent(db, log[cur]) /\ cur \in DOMAIN log
<1>1. log' = log /\ dir' = dir
  BY DEF Process, Disturb, Deliver, HandleCurrent, HandlerRaises, DatabaseFault, Others
<1>2. \/ db' = db
      \/ Attempt /\ ~HandlerFails(db, log[cur]) /\ db' = HandleEvent(db, log[cur])
  BY DEF Process, Disturb, Deliver, HandleCurrent, HandlerRaises, DatabaseFault, Attempt
<1>3. Attempt => cur \in DOMAIN log
  <2>1. D!Events = DOMAIN log
    BY DEF IInv, TypeOK, D!TypeOK, D!Events
  <2> QED
    BY <2>1, AttemptKeeps
<1> QED
  BY <1>1, <1>2, <1>3

\* Handlers store schools and groups where they are told to be.
LEMMA ProcessKeepsPlaces ==
  ASSUME IInv, LInv, Process \/ Disturb \/ \E committed \in BOOLEAN : DatabaseFault(committed)
  PROVE  LInv'
<1>1. LinksFit(db) /\ OnePlace
  BY DEF LInv, LinksWithinSchool, LinksFit
<1>2. /\ log' = log /\ dir' = dir
      /\ \/ db' = db
         \/ /\ Attempt /\ ~HandlerFails(db, log[cur])
            /\ db' = HandleEvent(db, log[cur]) /\ cur \in DOMAIN log
  BY Outcomes
<1>3. CASE db' = db
  BY <1>2, <1>3 DEF LInv, OnePlace, LinksWithinSchool, Place
<1>4. CASE db' = HandleEvent(db, log[cur]) /\ ~HandlerFails(db, log[cur]) /\ cur \in DOMAIN log
  <2> DEFINE e == log[cur]
  <2>1. e \in SyncEvent /\ ToldAsStored(db, e)
    BY <1>1, <1>4, QueuedAsStored
  <2>2. Kept(db) /\ ConstraintsHold(db) /\ ConstraintsHold(HandleEvent(db, e))
    BY <1>4 DEF IInv, TypeOK, StoreConsistent, Kept, HandlerFails
  <2>3. StaysInPlace(db, HandleEvent(db, e), e)
    BY <1>1, <2>1, <2>2, EventInPlace
  <2>4. StaysInPlace(db, db', e)
    BY <1>4, <2>3
  <2>5. ASSUME NEW x \in School \cup Group, NEW p \in SchoolName, Place(x, p)' PROVE Place(x, p)
    <3>1. StoredPlace(db', x, p)
            => StoredPlace(db, x, p) \/ (Tells(e) /\ x = e.id /\ p = ToldPlace(e))
      BY <2>4 DEF StaysInPlace
    <3>2. (Tells(e) /\ x = e.id /\ p = ToldPlace(e)) => QueuedPlace(log, x, p)
      BY <1>4 DEF QueuedPlace
    <3> QED
      BY <1>2, <2>5, <3>1, <3>2 DEF Place
  <2>6. OnePlace'
    BY <1>1, <2>5 DEF OnePlace
  <2>7. LinksWithinSchool'
    BY <2>4 DEF StaysInPlace, LinksFit, LinksWithinSchool
  <2> QED
    BY <2>6, <2>7 DEF LInv
<1> QED
  BY <1>2, <1>3, <1>4

\* A prefill tells what the directory holds (Resubscribe).
LEMMA ResubscribeKeepsPlaces ==
  ASSUME IInv, LInv, Resubscribe
  PROVE  LInv'
<1>1. DirKept(dir) /\ log' = PrefillEvents(dir) /\ dir' = dir /\ db' = db
  BY DEF Resubscribe, IInv, TypeOK, DirKept
<1>2. log' \in Seq(Told(dir))
  BY <1>1, PrefillTells
<1>3. ASSUME NEW x, NEW p, Place(x, p)' PROVE Place(x, p)
  <2>1. QueuedPlace(log', x, p) => DirPlace(dir, x, p)
    BY <1>2, ToldPlaces
  <2> QED
    BY <1>1, <1>3, <2>1 DEF Place
<1> QED
  BY <1>1, <1>3 DEF LInv, OnePlace, LinksWithinSchool

\* Before the first event only the directory places anything.
LEMMA InitPlaces ==
  ASSUME Init
  PROVE  LInv
<1>1. DirKept(dir)
  BY ConnectorAssumption DEF ConnectorAssumption, Init, DirKept
<1>2. log \in Seq(Told(dir))
  BY <1>1, PrefillTells DEF Init
<1>3. ASSUME NEW x, NEW p, Place(x, p) PROVE DirPlace(dir, x, p)
  <2>1. QueuedPlace(log, x, p) => DirPlace(dir, x, p)
    BY <1>2, ToldPlaces
  <2>2. ~StoredPlace(db, x, p)
    BY DEF Init, EmptyDatabase, StoredPlace, Schools, Groups
  <2> QED
    BY <1>3, <2>1, <2>2 DEF Place
<1>4. LinksWithinSchool
  BY DEF Init, EmptyDatabase, LinksWithinSchool
<1> QED
  BY <1>3, <1>4, PlacedOnce DEF LInv, OnePlace

\* One step, whoever takes it.
LEMMA NextKeepsPlaces ==
  ASSUME "regroup" \notin Operations
  PROVE  IInv /\ LInv /\ [Next]_vars => LInv'
<1>1. ASSUME LInv, UNCHANGED vars PROVE LInv'
  BY <1>1 DEF vars, LInv, OnePlace, LinksWithinSchool, Place
<1>2. ASSUME IInv, LInv, SchoolChange \/ GroupChange \/ UserChange PROVE LInv'
  <2>1. DirKept(dir)
    BY <1>2 DEF IInv, TypeOK, DirKept
  <2>2. InPlaceSubmitted
    BY <1>2, <2>1, SchoolChangeInPlace, GroupChangeInPlace, UserChangeInPlace
  <2>3. OnePlace' /\ db' = db
    BY <1>2, <2>2, SubmitKeepsPlaces DEF LInv, InPlaceSubmitted, Submit
  <2> QED
    BY <1>2, <2>3 DEF LInv, LinksWithinSchool
<1> QED
  BY <1>1, <1>2, ProcessKeepsPlaces, ResubscribeKeepsPlaces DEF Next

(***************************************************************************)
(* A group is linked to memberships of its own school only, although its   *)
(* members and its school are resolved at different times and by different *)
(* handlers, as long as no group moves to another school                   *)
(* (_sync_group_members, _build_school_memberships).                       *)
(***************************************************************************)
THEOREM LinksStayWithinSchool ==
  ASSUME "regroup" \notin Operations
  PROVE  Spec => []LinksWithinSchool
<1>1. Init => LInv
  BY InitPlaces
<1>2. IInv /\ LInv /\ [Next]_vars => LInv'
  BY NextKeepsPlaces
<1>3. LInv => LinksWithinSchool
  BY DEF LInv
<1> QED
  BY <1>1, <1>2, <1>3, Invariance, PTL DEF Spec

----------------------------------------------------------------------------
(* What is handled twice *)

MayNameItself == "senders" \in Operations

\* Without changes of senders no group ever sends to itself.
NoneNamesItself ==
  MayNameItself \/ (SendersDistinct(dir) /\ \A i \in DOMAIN log : ~NamesItself(log[i]))

\* No group sends to itself when it is created.
CreatedModestly == \A i \in DOMAIN log : NamesItself(log[i]) => log[i].op # "create"

\* The event that creates a group is the first about it.
CreatedFirst ==
  \A i, k \in DOMAIN log :
    i < k /\ log[k].kind = "group" /\ log[k].op = "create" => ~About(log[i], log[k].id)

\* A group is stored by an event about it.
StoredByEvent ==
  \A g \in Groups(db) : \E i \in D!Events : About(log[i], g) /\ queue[i].commits > 0

\* A group's DN is made of its name.
DnsNamed(d) == \A g \in Group : d.dn[g] # NoRow => d.dn[g] = GroupDn(d.group[g].name)

\* The DN tables of users and groups hold DNs of users and of groups.
MappingTyped(d) ==
  /\ \A u \in User, name \in GroupName : d.dn[u] # GroupDn(name)
  /\ \A g \in Group, name \in UserName, ou \in SchoolName : d.dn[g] # UserDn(name, ou)

\* Handling a committed event that is still in the queue again changes nothing.
Redone ==
  \A i \in D!Events :
    queue[i].commits > 0 /\ ~D!Acked(i)
      => HandleEvent(db, log[i]) = db /\ ~SchoolMissing(db, log[i])

HInv ==
  /\ NoneNamesItself
  /\ MaxResubscriptions = 0 => CreatedModestly /\ CreatedFirst /\ StoredByEvent /\ DnsNamed(db)
  /\ MappingTyped(db)
  /\ Redone

----------------------------------------------------------------------------
(* What is written twice is written once: the managers *)

\* A database is its tables.
LEMMA SameTables ==
  ASSUME NEW d \in Database, NEW n \in Database, SameRows(d, n), n.dn = d.dn
  PROVE  n = d
BY DEF Database, SameRows

\* A mapping that is there is not changed (set_mapping).
LEMMA MappingStays ==
  ASSUME NEW d \in Database, NEW x \in Object, NEW dn \in Dn, d.dn[x] = dn,
         \A y \in Object \ {x} : d.dn[y] # dn
  PROVE  SetMapping(d, x, dn) = d
<1> DEFINE n == SetMapping(d, x, dn)
<1>1. n \in Database
  BY DEF Database, SetMapping, Unmap
<1>2. SameRows(d, n)
  BY MappingOnly
<1>3. n.dn = d.dn
  <2>1. n.dn = [y \in Object |-> IF y = x THEN dn ELSE IF d.dn[y] = dn THEN NoRow ELSE d.dn[y]]
    BY DEF Database, SetMapping, Unmap
  <2>2. d.dn = [y \in Object |-> d.dn[y]]
    BY DEF Database
  <2> QED
    BY <2>1, <2>2
<1> HIDE DEF n
<1> QED
  BY <1>1, <1>2, <1>3, SameTables DEF n

\* A new mapping is there, once (set_mapping).
LEMMA MappingIsSet ==
  ASSUME NEW d \in Database, NEW x \in Object, NEW dn \in Dn
  PROVE  LET n == SetMapping(d, x, dn)
         IN /\ n \in Database
            /\ n.dn[x] = dn /\ \A y \in Object \ {x} : n.dn[y] # dn
            /\ \A y \in Object \ {x} : n.dn[y] = d.dn[y] \/ (d.dn[y] = dn /\ n.dn[y] = NoRow)
            /\ SetMapping(n, x, dn) = n
<1> USE StoreAssumption DEF StoreAssumption
<1> DEFINE n == SetMapping(d, x, dn)
<1>1. n \in Database
  BY DEF Database, SetMapping, Unmap
<1>2. n.dn = [y \in Object |-> IF y = x THEN dn ELSE IF d.dn[y] = dn THEN NoRow ELSE d.dn[y]]
  BY DEF Database, SetMapping, Unmap
<1> HIDE DEF n
<1>3. n.dn[x] = dn /\ \A y \in Object \ {x} : n.dn[y] # dn
  BY <1>2
<1>4. SetMapping(n, x, dn) = n
  BY <1>1, <1>3, MappingStays
<1> QED
  BY <1>1, <1>2, <1>3, <1>4 DEF n

\* The school a school event writes (_handle_school_create, _handle_school_modify).
LEMMA SchoolStays ==
  ASSUME NEW d \in Database, NEW s \in School, d.school[s] \in SchoolName
  PROVE  PutSchool(d, s, d.school[s]) = d
<1> DEFINE n == PutSchool(d, s, d.school[s])
<1>1. n \in Database /\ SameRows(d, n) /\ n.dn = d.dn
  BY DEF Database, PutSchool, SameRows
<1> HIDE DEF n
<1> QED
  BY <1>1, SameTables DEF n

\* The rows of a user that are as the event wants them (_apply_user_patch).
UserSettled(d, e) ==
  /\ d.user[e.id] = e.name
  /\ {m \in d.member : m[1] = e.id} = {e.id} \X SchoolsNamed(d, e.schools)
  /\ {m \in d.primary : m[1] = e.id} = {e.id} \X PrimarySchools(d, e)
  /\ {l \in d.link : l[2] = e.id} = EventLinks(d, e)

\* Such a user is not changed by applying the event again (_apply_user_patch).
LEMMA UserStays ==
  ASSUME NEW d \in Database, NEW e \in UserEvent, UserSettled(d, e)
  PROVE  ApplyUser(d, e) = d
<1> DEFINE n == ApplyUser(d, e)
<1>1. /\ n.user = d.user /\ n.member = d.member /\ n.primary = d.primary /\ n.link = d.link
      /\ n.school = d.school /\ n.group = d.group /\ n.sender = d.sender
      /\ n.server = d.server /\ n.dn = d.dn
  <2>1. /\ n.user = [d.user EXCEPT ![e.id] = e.name]
        /\ n.member = {m \in d.member : m[1] # e.id} \cup ({e.id} \X SchoolsNamed(d, e.schools))
        /\ n.primary = {m \in d.primary : m[1] # e.id} \cup ({e.id} \X PrimarySchools(d, e))
        /\ n.link = {l \in d.link : l[2] # e.id} \cup EventLinks(d, e)
        /\ n.school = d.school /\ n.group = d.group /\ n.sender = d.sender
        /\ n.server = d.server /\ n.dn = d.dn
    BY DEF Database, ApplyUser, PutUser
  <2>2. n.user = d.user
    BY <2>1 DEF UserSettled, Database
  <2>3. n.member = d.member
    BY <2>1 DEF UserSettled
  <2>4. n.primary = d.primary
    BY <2>1 DEF UserSettled
  <2>5. n.link = d.link
    BY <2>1 DEF UserSettled
  <2> QED
    BY <2>1, <2>2, <2>3, <2>4, <2>5
<1>2. n = [d EXCEPT !.user = n.user, !.member = n.member, !.primary = n.primary, !.link = n.link]
  BY <1>1 DEF Database, ApplyUser, PutUser
<1> HIDE DEF n
<1>3. n \in Database
  BY <1>1, <1>2 DEF Database
<1> QED
  BY <1>1, <1>3, SameTables DEF n, SameRows

\* What an event resolves depends on schools, groups and the DNs of groups only.
LEMMA UserResolves ==
  ASSUME NEW d, NEW n, NEW e \in UserEvent, n.school = d.school, n.group = d.group,
         \A g \in Group : n.dn[g] = d.dn[g]
  PROVE  /\ SchoolsNamed(n, e.schools) = SchoolsNamed(d, e.schools)
         /\ PrimarySchools(n, e) = PrimarySchools(d, e)
         /\ EventLinks(n, e) = EventLinks(d, e)
<1>1. SchoolsNamed(n, e.schools) = SchoolsNamed(d, e.schools)
  BY DEF SchoolsNamed
<1>2. PrimarySchools(n, e) = PrimarySchools(d, e)
  BY <1>1 DEF PrimarySchools
<1>3. Groups(n) = Groups(d)
  BY DEF Groups
<1>4. Resolve(n, e.groups) \cap Groups(n) = Resolve(d, e.groups) \cap Groups(d)
  BY <1>3 DEF Resolve, Groups, Object
<1>5. EventLinks(n, e) = EventLinks(d, e)
  BY <1>1, <1>4 DEF EventLinks
<1> QED
  BY <1>1, <1>2, <1>5

\* Applying an event leaves the rows it wants (_apply_user_patch, create_user).
LEMMA AppliedUserIsSettled ==
  ASSUME NEW d, Kept(d), SchoolsUnique(d), NEW e \in UserEvent
  PROVE  LET n == ApplyUser(d, e)
         IN /\ n \in Database /\ UserSettled(n, e)
            /\ n.school = d.school /\ n.group = d.group /\ n.dn = d.dn
            /\ e.id \in Users(n)
<1> USE StoreAssumption DEF StoreAssumption
<1> DEFINE n == ApplyUser(d, e)
           wanted == SchoolsNamed(d, e.schools)
           primary == PrimarySchools(d, e)
           links == EventLinks(d, e)
<1>1. n \in Database
  BY ApplyUserKeeps DEF Kept
<1>2. /\ n.user = [d.user EXCEPT ![e.id] = e.name]
      /\ n.member = {m \in d.member : m[1] # e.id} \cup ({e.id} \X wanted)
      /\ n.primary = {m \in d.primary : m[1] # e.id} \cup ({e.id} \X primary)
      /\ n.link = {l \in d.link : l[2] # e.id} \cup links
      /\ n.school = d.school /\ n.group = d.group /\ n.dn = d.dn
  BY DEF Kept, Database, ApplyUser, PutUser
<1>3. SchoolsNamed(n, e.schools) = wanted /\ PrimarySchools(n, e) = primary /\ EventLinks(n, e) = links
  BY <1>2, UserResolves
<1>4. \A l \in links : l[2] = e.id
  BY DEF EventLinks
<1> HIDE DEF n, wanted, primary, links
<1>5. n.user[e.id] = e.name /\ e.id \in Users(n)
  BY <1>2 DEF Kept, Database, UserEvent, Users
<1>6. {m \in n.member : m[1] = e.id} = {e.id} \X wanted
  BY <1>2
<1>7. {m \in n.primary : m[1] = e.id} = {e.id} \X primary
  BY <1>2
<1>8. {l \in n.link : l[2] = e.id} = links
  BY <1>2, <1>4
<1> QED
  BY <1>1, <1>2, <1>3, <1>5, <1>6, <1>7, <1>8 DEF UserSettled, n

\* The DN of a user is no group's (SQLAlchemyDNIDMapper has a table for each).
LEMMA UserDnIsNoGroups ==
  ASSUME NEW d \in Database, MappingTyped(d), NEW e \in UserEvent
  PROVE  \A g \in Group : SetMapping(d, e.id, EventDn(e)).dn[g] = d.dn[g]
<1> USE StoreAssumption DEF StoreAssumption
<1> DEFINE dn == EventDn(e)
           n == SetMapping(d, e.id, dn)
<1>1. e.id \in Object /\ e.id \notin Group /\ dn \in Dn
  BY UserDnTyped DEF UserEvent, Object
<1>2. dn = UserDn(e.name, e.ou) /\ e.name \in UserName /\ e.ou \in SchoolName
  BY DEF UserEvent, EventDn
<1> HIDE DEF dn
<1>3. \A y \in Object \ {e.id} : n.dn[y] = d.dn[y] \/ (d.dn[y] = dn /\ n.dn[y] = NoRow)
  BY <1>1, MappingIsSet
<1> HIDE DEF n
<1>4. \A g \in Group : g \in Object \ {e.id} /\ d.dn[g] # dn
  BY <1>1, <1>2 DEF MappingTyped, Object
<1>5. \A g \in Group : n.dn[g] = d.dn[g]
  BY <1>3, <1>4
<1> QED
  BY <1>5 DEF n, dn

----------------------------------------------------------------------------
(* What is written twice is written once: the handlers *)

Repeats(d, e) == HandleEvent(HandleEvent(d, e), e) = HandleEvent(d, e)

\* User events (_handle_user_create, _handle_user_modify).
LEMMA UserEventRepeats ==
  ASSUME NEW d, Kept(d), SchoolsUnique(d), MappingTyped(d), NEW e \in UserEvent
  PROVE  Repeats(d, e)
<1> DEFINE dn == EventDn(e)
           w == ApplyUser(d, e)
           n == SetMapping(w, e.id, dn)
           m == SetMapping(d, e.id, dn)
           v == ApplyUser(m, e)
<1>0. e.id \in User /\ e.id \in Object /\ dn \in Dn /\ d \in Database
  BY UserDnTyped DEF UserEvent, Object, Kept
<1>1. /\ w \in Database /\ UserSettled(w, e) /\ e.id \in Users(w)
      /\ w.school = d.school /\ w.dn = d.dn
  BY AppliedUserIsSettled
<1>2. ApplyUser(w, e) = w
  BY <1>1, UserStays
<1>3. /\ n \in Database /\ SameRows(w, n) /\ SetMapping(n, e.id, dn) = n
      /\ \A g \in Group : n.dn[g] = w.dn[g]
  <2> HIDE DEF w
  <2>1. n \in Database /\ SetMapping(n, e.id, dn) = n
    BY <1>0, <1>1, MappingIsSet
  <2>2. SameRows(w, n)
    BY <1>0, <1>1, MappingOnly
  <2>3. MappingTyped(w)
    BY <1>1 DEF MappingTyped
  <2> QED
    BY <1>1, <2>1, <2>2, <2>3, UserDnIsNoGroups
<1>4. /\ m \in Database /\ SameRows(d, m)
      /\ m.dn[e.id] = dn /\ \A y \in Object \ {e.id} : m.dn[y] # dn
  <2>1. SameRows(d, m)
    BY <1>0, MappingOnly
  <2> HIDE DEF dn
  <2>2. m \in Database /\ m.dn[e.id] = dn /\ \A y \in Object \ {e.id} : m.dn[y] # dn
    BY <1>0, MappingIsSet
  <2> QED
    BY <2>1, <2>2
<1>5. ASSUME e.id \in Users(d)
      PROVE  /\ e.id \in Users(v) /\ SetMapping(v, e.id, dn) = v /\ ApplyUser(v, e) = v
  <2>1. Kept(m) /\ SchoolsUnique(m)
    BY <1>0, <1>4, <1>5, SetMappingKeeps DEF Stored, SchoolsUnique, Schools, SameRows
  <2> HIDE DEF m
  <2>2. v \in Database /\ UserSettled(v, e) /\ v.dn = m.dn /\ e.id \in Users(v)
    BY <2>1, AppliedUserIsSettled
  <2> HIDE DEF v
  <2>3. SetMapping(v, e.id, dn) = v
    BY <1>0, <1>4, <2>2, MappingStays
  <2>4. ApplyUser(v, e) = v
    BY <2>2, UserStays
  <2> QED
    BY <2>2, <2>3, <2>4
<1> HIDE DEF w, n, m, v, dn
<1>6. ApplyUser(n, e) = n /\ e.id \in Users(n)
  <2>1. n.school = w.school /\ n.group = w.group
    BY <1>3 DEF SameRows
  <2>2. /\ SchoolsNamed(n, e.schools) = SchoolsNamed(w, e.schools)
        /\ PrimarySchools(n, e) = PrimarySchools(w, e) /\ EventLinks(n, e) = EventLinks(w, e)
    BY <1>3, <2>1, UserResolves
  <2>3. UserSettled(n, e)
    BY <1>1, <1>3, <2>2 DEF SameRows, UserSettled
  <2> QED
    BY <1>1, <1>3, <2>3, UserStays DEF SameRows, Users
<1>7. SchoolsNamed(w, e.schools) = SchoolsNamed(d, e.schools)
  BY <1>1 DEF SchoolsNamed
<1>8. SchoolsNamed(n, e.schools) = SchoolsNamed(d, e.schools)
  BY <1>3, <1>7 DEF SchoolsNamed, SameRows
<1> DEFINE c == HandleUserCreate(d, e)
           o == HandleUserModify(d, e)
<1>9. HandleUserCreate(c, e) = c
  <2>1. CASE SchoolsNamed(d, e.schools) = {}
    BY <2>1 DEF HandleUserCreate
  <2>2. CASE SchoolsNamed(d, e.schools) # {} /\ e.id \in Users(d)
    <3>1. c = w
      BY <2>2 DEF HandleUserCreate, w
    <3> HIDE DEF c
    <3> QED
      BY <1>1, <1>2, <1>7, <2>2, <3>1 DEF HandleUserCreate
  <2>3. CASE SchoolsNamed(d, e.schools) # {} /\ e.id \notin Users(d)
    <3>1. c = n
      BY <2>3 DEF HandleUserCreate, n, w, dn
    <3> HIDE DEF c
    <3> QED
      BY <1>6, <1>8, <2>3, <3>1 DEF HandleUserCreate
  <2> QED
    BY <2>1, <2>2, <2>3
<1>10. HandleUserModify(o, e) = o
  <2>1. CASE e.id \in Users(d)
    <3>1. o = v
      BY <2>1 DEF HandleUserModify, v, m, dn
    <3> HIDE DEF o
    <3> QED
      BY <1>5, <2>1, <3>1 DEF HandleUserModify, dn
  <2>2. CASE e.id \notin Users(d) /\ SchoolsNamed(d, e.schools) = {}
    BY <2>2 DEF HandleUserModify, HandleUserCreate
  <2>3. CASE e.id \notin Users(d) /\ SchoolsNamed(d, e.schools) # {}
    <3>1. o = n
      BY <2>3 DEF HandleUserModify, HandleUserCreate, n, w, dn
    <3> HIDE DEF o
    <3> QED
      BY <1>3, <1>6, <3>1 DEF HandleUserModify, dn
  <2> QED
    BY <2>1, <2>2, <2>3
<1>11. CASE e.op = "create"
  <2>1. \A b : HandleEvent(b, e) = HandleUserCreate(b, e)
    BY <1>11 DEF UserEvent, HandleEvent
  <2> QED
    BY <1>9, <2>1 DEF Repeats
<1>12. CASE e.op = "modify"
  <2>1. \A b : HandleEvent(b, e) = HandleUserModify(b, e)
    BY <1>12 DEF UserEvent, HandleEvent
  <2> QED
    BY <1>10, <2>1 DEF Repeats
<1> QED
  BY <1>11, <1>12 DEF UserEvent

\* The rows of a group that are as the event wants them (_apply_group_patch).
GroupSettled(d, e) ==
  /\ d.group[e.id] = [name |-> e.name, school |-> TargetSchool(d, e)]
  /\ Members(d, e.id) = EventMembers(d, e, TargetSchool(d, e))
  /\ {x \in d.sender : x[1] = e.id} = {e.id} \X EventSenders(d, e)

\* Such a group is not changed by applying the event again (_apply_group_patch).
LEMMA GroupStays ==
  ASSUME NEW d \in Database, NEW e \in GroupEvent, GroupSettled(d, e)
  PROVE  ApplyGroup(d, e) = d
<1> DEFINE n == ApplyGroup(d, e)
<1>1. /\ n.group = [d.group EXCEPT ![e.id] = [name |-> e.name, school |-> TargetSchool(d, e)]]
      /\ n.link = d.link
      /\ n.sender = {x \in d.sender : x[1] # e.id} \cup ({e.id} \X EventSenders(d, e))
      /\ n.school = d.school /\ n.user = d.user /\ n.member = d.member
      /\ n.primary = d.primary /\ n.server = d.server /\ n.dn = d.dn
  BY DEF Database, ApplyGroup, ModifyGroup, WithoutSenders, GroupSettled
<1>2. n.group = d.group
  BY <1>1 DEF GroupSettled, Database
<1>3. n.sender = d.sender
  BY <1>1 DEF GroupSettled
<1>4. n = [d EXCEPT !.group = n.group, !.link = n.link, !.sender = n.sender]
  BY <1>1 DEF Database, ApplyGroup, ModifyGroup
<1> HIDE DEF n
<1>5. n \in Database
  BY <1>1, <1>2, <1>3, <1>4 DEF Database
<1> QED
  BY <1>1, <1>2, <1>3, <1>5, SameTables DEF n, SameRows

\* A new group has the members that belong to its school (resolve_group_create_relations).
LEMMA LinkedMembers ==
  ASSUME NEW d, NEW n, NEW g \in Group, NEW users \in SUBSET User, NEW s \in School,
         \A u \in users : <<u, s>> \in d.member,
         n.link = WithoutLinks(d, g) \cup LinksInSchool(d, g, users, s)
  PROVE  Members(n, g) = users
<1>1. ASSUME NEW u \in users PROVE <<g, u, s>> \in n.link
  BY DEF LinksInSchool
<1>2. ASSUME NEW u, NEW t, <<g, u, t>> \in n.link PROVE u \in users
  <2>1. <<g, u, t>> \notin WithoutLinks(d, g)
    BY DEF WithoutLinks
  <2>2. <<g, u, t>> \in LinksInSchool(d, g, users, s)
    BY <1>2, <2>1
  <2> QED
    BY <2>2, LinksInSchoolAre
<1> QED
  BY <1>1, <1>2 DEF Members

\* What an event resolves depends on schools, users and DNs only (fetch_*_by_dns).
LEMMA GroupResolves ==
  ASSUME NEW d, NEW n, NEW e \in GroupEvent, n.school = d.school, n.user = d.user,
         n.member = d.member, SchoolsNamed(d, {e.school}) # {},
         \A u \in User : n.dn[u] = d.dn[u]
  PROVE  /\ TargetSchool(n, e) = TargetSchool(d, e)
         /\ \A s : EventMembers(n, e, s) = EventMembers(d, e, s)
<1>0. SchoolsNamed(n, {e.school}) = SchoolsNamed(d, {e.school})
  BY DEF SchoolsNamed
<1>1. TargetSchool(n, e) = TargetSchool(d, e)
  BY <1>0 DEF TargetSchool
<1>2. Resolve(n, e.users) \cap Users(n) = Resolve(d, e.users) \cap Users(d)
  BY DEF Resolve, Users, Object
<1>3. \A s : EventMembers(n, e, s) = EventMembers(d, e, s)
  BY <1>2 DEF EventMembers
<1> QED
  BY <1>1, <1>3

\* Applying an event leaves the rows it wants, as long as groups stay (_apply_group_patch).
LEMMA AppliedGroupIsSettled ==
  ASSUME NEW d, Kept(d), ConstraintsHold(d), NEW e \in GroupEvent, ToldAsStored(d, e),
         e.id \in Groups(d)
  PROVE  LET n == ApplyGroup(d, e)
         IN /\ n \in Database /\ GroupSettled(n, e) /\ e.id \in Groups(n) /\ n.dn = d.dn
<1> DEFINE n == ApplyGroup(d, e)
           s == TargetSchool(d, e)
           users == EventMembers(d, e, s)
           senders == EventSenders(d, e)
<1>1. n \in Database /\ e.id \in Groups(n)
  BY ApplyGroupKeeps DEF Kept
<1>2. SchoolsNamed(d, {e.school}) # {} /\ s = d.group[e.id].school
  BY TargetIsStored
<1>3. /\ n.group = [d.group EXCEPT ![e.id] = [name |-> e.name, school |-> s]]
      /\ n.link = IF users = Members(d, e.id) THEN d.link
                  ELSE WithoutLinks(d, e.id) \cup LinksInSchool(d, e.id, users, s)
      /\ n.sender = {x \in d.sender : x[1] # e.id} \cup ({e.id} \X senders)
      /\ n.school = d.school /\ n.user = d.user /\ n.member = d.member /\ n.dn = d.dn
  BY <1>2 DEF Kept, Database, ApplyGroup, ModifyGroup, WithoutSenders
<1>4. s \in School /\ users \in SUBSET User /\ \A u \in users : <<u, s>> \in d.member
  BY <1>2, EventReferences DEF EventMembers
<1>5. TargetSchool(n, e) = s /\ EventMembers(n, e, s) = users
  BY <1>2, <1>3, GroupResolves
<1>6. e.id \in Group /\ Groups(n) = Groups(d)
  <2>1. e.id \in Group /\ n.group[e.id] # NoRow
    BY <1>1 DEF Groups
  <2>2. \A g \in Group \ {e.id} : n.group[g] = d.group[g]
    BY <1>3 DEF Kept, Database
  <2> HIDE DEF n
  <2> QED
    BY <2>1, <2>2 DEF Groups
<1>7. EventSenders(n, e) = senders
  BY <1>3, <1>6 DEF EventSenders, Resolve, Users
<1> HIDE DEF n, s, users, senders
<1>8. Members(n, e.id) = users
  <2>1. CASE users = Members(d, e.id)
    BY <1>3, <2>1 DEF Members
  <2>2. CASE users # Members(d, e.id)
    <3>1. n.link = WithoutLinks(d, e.id) \cup LinksInSchool(d, e.id, users, s)
      BY <1>3, <2>2
    <3> QED
      BY <1>4, <1>6, <3>1, LinkedMembers
  <2> QED
    BY <2>1, <2>2
<1>9. n.group[e.id] = [name |-> e.name, school |-> s]
  BY <1>3, <1>6 DEF Kept, Database
<1>10. {x \in n.sender : x[1] = e.id} = {e.id} \X senders
  BY <1>3
<1> QED
  BY <1>1, <1>3, <1>5, <1>7, <1>8, <1>9, <1>10 DEF GroupSettled, n

\* A new group has the rows the event wants, before its DN is known (create_group).
LEMMA NewGroupIsSettled ==
  ASSUME NEW d, Kept(d), NEW e \in GroupEvent, e.id \notin Groups(d),
         SchoolsNamed(d, {e.school}) # {}
  PROVE  LET n == NewGroup(d, e)
         IN /\ n \in Database /\ GroupSettled(n, e) /\ e.id \in Groups(n)
            /\ n.dn = d.dn /\ n.school = d.school /\ n.user = d.user /\ d.dn[e.id] = NoRow
            /\ n.group = [d.group EXCEPT ![e.id] = [name |-> e.name, school |-> TargetSchool(d, e)]]
<1> USE StoreAssumption DEF StoreAssumption
<1> DEFINE n == NewGroup(d, e)
           s == TargetSchool(d, e)
           users == EventMembers(d, e, s)
           senders == EventSenders(d, e)
<1>1. n \in Database /\ e.id \in Groups(n)
  BY NewGroupKeeps DEF Kept
<1>2. /\ n.group = [d.group EXCEPT ![e.id] = [name |-> e.name, school |-> s]]
      /\ n.link = WithoutLinks(d, e.id) \cup LinksInSchool(d, e.id, users, s)
      /\ n.sender = {x \in d.sender : x[1] # e.id} \cup ({e.id} \X senders)
      /\ n.school = d.school /\ n.user = d.user /\ n.member = d.member /\ n.dn = d.dn
  BY DEF Kept, Database, NewGroup, CreateGroup, WithoutSenders
<1>3. s \in School /\ users \in SUBSET User /\ \A u \in users : <<u, s>> \in d.member
  BY EventReferences DEF EventMembers
<1>4. TargetSchool(n, e) = s /\ EventMembers(n, e, s) = users
  BY <1>2, GroupResolves
<1>5. d.dn[e.id] = NoRow /\ e.id \in Group /\ e.id \in Object
  BY DEF Kept, ReferencesHold, MappingHolds, GroupEvent, Object, Stored, Schools, Users
<1>6. e.id \notin Resolve(d, e.senders)
  BY <1>5 DEF Resolve, GroupEvent
<1>7. EventSenders(n, e) = senders
  <2>1. \A g \in Group \ {e.id} : n.group[g] = d.group[g]
    BY <1>2 DEF Kept, Database
  <2>2. Resolve(n, e.senders) = Resolve(d, e.senders) /\ Users(n) = Users(d)
    BY <1>2 DEF Resolve, Users
  <2> HIDE DEF n
  <2>3. Resolve(d, e.senders) \cap (Users(d) \cup Groups(n))
          = Resolve(d, e.senders) \cap (Users(d) \cup Groups(d))
    BY <1>6, <2>1 DEF Groups
  <2> QED
    BY <2>2, <2>3 DEF EventSenders
<1> HIDE DEF n, s, users, senders
<1>8. Members(n, e.id) = users
  BY <1>2, <1>3, <1>5, LinkedMembers
<1>9. n.group[e.id] = [name |-> e.name, school |-> s]
  BY <1>2, <1>5 DEF Kept, Database
<1>10. {x \in n.sender : x[1] = e.id} = {e.id} \X senders
  BY <1>2
<1> QED
  BY <1>1, <1>2, <1>4, <1>5, <1>7, <1>8, <1>9, <1>10 DEF GroupSettled, n, s

\* The mapping between the delete and the flush of set_mapping.
LEMMA Unmapped ==
  ASSUME NEW d \in Database, NEW x \in Object, NEW dn \in Dn
  PROVE  LET b == Unmap(d, x, dn)
         IN /\ b \in Database
            /\ b.dn[x] = NoRow /\ \A y \in Object : b.dn[y] # dn
            /\ \A y \in Object \ {x} : b.dn[y] = d.dn[y] \/ (d.dn[y] = dn /\ b.dn[y] = NoRow)
            /\ SetMapping(b, x, dn) = SetMapping(d, x, dn)
            /\ Unmap(SetMapping(d, x, dn), x, dn) = b
<1> USE StoreAssumption DEF StoreAssumption
<1> DEFINE b == Unmap(d, x, dn)
           n == SetMapping(d, x, dn)
           c == Unmap(n, x, dn)
           m == SetMapping(b, x, dn)
<1>1. b \in Database /\ b.dn = [y \in Object |-> IF y = x \/ d.dn[y] = dn THEN NoRow ELSE d.dn[y]]
  BY DEF Database, Unmap
<1>2. /\ n \in Database
      /\ n.dn = [y \in Object |-> IF y = x THEN dn ELSE IF d.dn[y] = dn THEN NoRow ELSE d.dn[y]]
  BY DEF Database, SetMapping, Unmap
<1>3. SameRows(d, b) /\ SameRows(d, n)
  BY MappingOnly
<1> HIDE DEF b, n
<1>4. c \in Database /\ c.dn = [y \in Object |-> IF y = x \/ n.dn[y] = dn THEN NoRow ELSE n.dn[y]]
  BY <1>2 DEF Database, Unmap
<1>5. /\ m \in Database
      /\ m.dn = [y \in Object |-> IF y = x THEN dn ELSE IF b.dn[y] = dn THEN NoRow ELSE b.dn[y]]
  BY <1>1 DEF Database, SetMapping, Unmap
<1>6. SameRows(n, c) /\ SameRows(b, m)
  BY <1>1, <1>2, MappingOnly
<1> HIDE DEF c, m
<1>7. c.dn = b.dn
  BY <1>1, <1>2, <1>4
<1>8. m.dn = n.dn
  BY <1>1, <1>2, <1>5
<1>9. c = b
  BY <1>1, <1>3, <1>4, <1>6, <1>7, SameTables DEF SameRows
<1>10. m = n
  BY <1>2, <1>3, <1>5, <1>6, <1>8, SameTables DEF SameRows
<1>11. b.dn[x] = NoRow /\ \A y \in Object : b.dn[y] # dn
  BY <1>1
<1>12. \A y \in Object \ {x} : b.dn[y] = d.dn[y] \/ (d.dn[y] = dn /\ b.dn[y] = NoRow)
  BY <1>1
<1> QED
  BY <1>1, <1>9, <1>10, <1>11, <1>12 DEF b, c, m, n

\* Nothing to unmap (set_mapping).
LEMMA UnmappedStays ==
  ASSUME NEW d \in Database, NEW x \in Object, NEW dn,
         d.dn[x] = NoRow, \A y \in Object : d.dn[y] # dn
  PROVE  Unmap(d, x, dn) = d
<1> DEFINE b == Unmap(d, x, dn)
<1>1. b \in Database /\ b.dn = d.dn
  <2>1. b.dn = [y \in Object |-> IF y = x \/ d.dn[y] = dn THEN NoRow ELSE d.dn[y]]
    BY DEF Database, Unmap
  <2>2. b.dn = [y \in Object |-> d.dn[y]]
    BY <2>1
  <2>3. b.dn = d.dn
    BY <2>2 DEF Database
  <2> QED
    BY <2>3 DEF Database, Unmap
<1>2. SameRows(d, b)
  BY MappingOnly
<1> HIDE DEF b
<1> QED
  BY <1>1, <1>2, SameTables DEF b

\* The rows of a group do not depend on DNs that resolve the same way.
LEMMA StaysSettled ==
  ASSUME NEW d, NEW n, NEW e \in GroupEvent, GroupSettled(d, e), SameRows(d, n),
         SchoolsNamed(d, {e.school}) # {},
         \A u \in User : n.dn[u] = d.dn[u],
         \A g \in Groups(d) : (n.dn[g] \in e.senders) <=> (d.dn[g] \in e.senders)
  PROVE  GroupSettled(n, e)
<1>1. TargetSchool(n, e) = TargetSchool(d, e) /\ \A s : EventMembers(n, e, s) = EventMembers(d, e, s)
  BY GroupResolves DEF SameRows
<1>2. EventSenders(n, e) = EventSenders(d, e)
  <2>1. Groups(n) = Groups(d) /\ Users(n) = Users(d)
    BY DEF SameRows, Groups, Users
  <2>2. \A x \in Groups(d) \cup Users(d) : (n.dn[x] \in e.senders) <=> (d.dn[x] \in e.senders)
    BY DEF Users
  <2>3. Groups(d) \cup Users(d) \subseteq Object
    BY DEF Groups, Users, Object
  <2> QED
    BY <2>1, <2>2, <2>3 DEF EventSenders, Resolve
<1>3. Members(n, e.id) = Members(d, e.id) /\ n.group = d.group /\ n.sender = d.sender
  BY DEF SameRows, Members
<1> QED
  BY <1>1, <1>2, <1>3 DEF GroupSettled

\* The DN of a group is no user's (SQLAlchemyDNIDMapper has a table for each).
LEMMA GroupDnIsNoUsers ==
  ASSUME NEW d, MappingTyped(d), NEW e \in GroupEvent
  PROVE  \A u \in User : u \in Object \ {e.id} /\ d.dn[u] # EventDn(e)
<1> USE StoreAssumption DEF StoreAssumption
<1>1. EventDn(e) = GroupDn(e.name) /\ e.name \in GroupName /\ e.id \in Group
  BY DEF GroupEvent, EventDn
<1> QED
  BY <1>1 DEF MappingTyped, Object

\* A new group whose DN has been recorded, and the same before the flush.
LEMMA MappedGroupIsSettled ==
  ASSUME NEW d, Kept(d), MappingTyped(d), NEW e \in GroupEvent, e.id \notin Groups(d),
         SchoolsNamed(d, {e.school}) # {}
  PROVE  LET w == NewGroup(d, e)
             n == SetMapping(w, e.id, EventDn(e))
             b == Unmap(w, e.id, EventDn(e))
         IN /\ n \in Database /\ e.id \in Groups(n)
            /\ ~NamesItself(e) => GroupSettled(n, e)
            /\ ConstraintsHold(n) /\ (NamesItself(e) => DnsNamed(d)) => GroupSettled(b, e)
<1> USE StoreAssumption DEF StoreAssumption
<1> DEFINE dn == EventDn(e)
           w == NewGroup(d, e)
           n == SetMapping(w, e.id, dn)
           b == Unmap(w, e.id, dn)
<1>0. e.id \in Group /\ e.id \in Object /\ dn \in Dn /\ e.kind = "group" /\ e.op # "delete"
  BY GroupDnTyped DEF GroupEvent, Object
<1>1. /\ w \in Database /\ GroupSettled(w, e) /\ e.id \in Groups(w)
      /\ w.dn = d.dn /\ w.school = d.school /\ d.dn[e.id] = NoRow
  BY NewGroupIsSettled
<1>2. \A g \in Group : w.group[g] = IF g = e.id THEN [name |-> e.name, school |-> TargetSchool(d, e)]
                                    ELSE d.group[g]
  <2>1. w.group = [d.group EXCEPT ![e.id] = [name |-> e.name, school |-> TargetSchool(d, e)]]
    BY DEF Kept, Database, NewGroup, CreateGroup
  <2> QED
    BY <2>1 DEF Kept, Database
<1>3. SchoolsNamed(w, {e.school}) # {}
  BY <1>1 DEF SchoolsNamed
<1>4. \A u \in User : u \in Object \ {e.id} /\ w.dn[u] # dn
  BY <1>1, GroupDnIsNoUsers
<1>5. NamesItself(e) <=> dn \in e.senders
  BY <1>0 DEF NamesItself
<1>6. NoRow \notin e.senders
  BY DEF GroupEvent
<1>7. dn = GroupDn(e.name)
  BY DEF GroupEvent, EventDn
<1> HIDE DEF w, dn
<1>8. /\ n \in Database /\ n.dn[e.id] = dn
      /\ \A y \in Object \ {e.id} : n.dn[y] = w.dn[y] \/ (w.dn[y] = dn /\ n.dn[y] = NoRow)
  BY <1>0, <1>1, MappingIsSet
<1>9. /\ b.dn[e.id] = NoRow
      /\ \A y \in Object \ {e.id} : b.dn[y] = w.dn[y] \/ (w.dn[y] = dn /\ b.dn[y] = NoRow)
  BY <1>0, <1>1, Unmapped
<1>10. SameRows(w, n) /\ SameRows(w, b)
  BY <1>0, <1>1, MappingOnly
<1> HIDE DEF n, b
<1>11. \A u \in User : n.dn[u] = w.dn[u] /\ b.dn[u] = w.dn[u]
  BY <1>4, <1>8, <1>9
<1>12. \A g \in Groups(w) : g \in Object
  BY DEF Groups, Object
<1>13. ASSUME dn \notin e.senders PROVE GroupSettled(n, e) /\ GroupSettled(b, e)
  <2>1. \A g \in Groups(w) : /\ (n.dn[g] \in e.senders) <=> (w.dn[g] \in e.senders)
                             /\ (b.dn[g] \in e.senders) <=> (w.dn[g] \in e.senders)
    BY <1>1, <1>6, <1>8, <1>9, <1>12, <1>13
  <2> QED
    BY <1>1, <1>3, <1>10, <1>11, <2>1, StaysSettled
<1>14. ASSUME DnsNamed(d), ConstraintsHold(n) PROVE GroupSettled(b, e)
  <2>1. ASSUME NEW g \in Groups(w), g # e.id PROVE w.dn[g] # dn
    <3> SUFFICES ASSUME w.dn[g] = dn PROVE FALSE
      OBVIOUS
    <3>1. g \in Group /\ d.dn[g] # NoRow
      BY <1>0, <1>1 DEF Groups
    <3>2. GroupDn(d.group[g].name) = GroupDn(e.name)
      BY <1>1, <1>7, <1>14, <3>1 DEF DnsNamed
    <3>3. d.group[g].name = e.name
      BY <3>2 DEF GroupDn
    <3>4. n.group[g].name = e.name /\ n.group[e.id].name = e.name
      BY <1>0, <1>2, <1>10, <2>1, <3>1, <3>3 DEF SameRows
    <3>5. g \in Groups(n) /\ e.id \in Groups(n)
      BY <1>1, <1>10 DEF SameRows, Groups
    <3> QED
      BY <1>14, <2>1, <3>4, <3>5 DEF ConstraintsHold
  <2>2. \A g \in Groups(w) : b.dn[g] = w.dn[g]
    BY <1>1, <1>9, <1>12, <2>1
  <2> QED
    BY <1>1, <1>3, <1>10, <1>11, <2>2, StaysSettled
<1>15. e.id \in Groups(n)
  BY <1>1, <1>10 DEF SameRows, Groups
<1> QED
  BY <1>5, <1>8, <1>13, <1>14, <1>15 DEF n, b, w, dn

(***************************************************************************)
(* Group events (_handle_group_create, _handle_group_modify).  A group     *)
(* that sends to itself must not be created by the event that says so, and *)
(* no other group may have its DN.                                         *)
(***************************************************************************)
LEMMA GroupEventRepeats ==
  ASSUME NEW d, Kept(d), ConstraintsHold(d), MappingTyped(d), NEW e \in GroupEvent,
         ToldAsStored(d, e), ConstraintsHold(HandleEvent(d, e)),
         NamesItself(e) => e.op # "create" /\ DnsNamed(d)
  PROVE  Repeats(d, e)
<1> DEFINE dn == EventDn(e)
           w == NewGroup(d, e)
           n == SetMapping(w, e.id, dn)
           b == Unmap(w, e.id, dn)
           m == Unmap(d, e.id, dn)
           a == ApplyGroup(m, e)
           v == SetMapping(a, e.id, dn)
           found == SchoolsNamed(d, {e.school})
<1>0. e.id \in Group /\ e.id \in Object /\ dn \in Dn
  BY GroupDnTyped DEF GroupEvent, Object
<1>1. ASSUME found # {}, e.id \notin Groups(d)
      PROVE  /\ n \in Database /\ e.id \in Groups(n)
             /\ ~NamesItself(e) => ApplyGroup(n, e) = n
             /\ ConstraintsHold(n) /\ (NamesItself(e) => DnsNamed(d))
                  => SetMapping(ApplyGroup(Unmap(n, e.id, dn), e), e.id, dn) = n
  <2>1. w \in Database
    BY <1>1, NewGroupKeeps DEF Kept
  <2>2. /\ n \in Database /\ e.id \in Groups(n)
        /\ ~NamesItself(e) => GroupSettled(n, e)
        /\ ConstraintsHold(n) /\ (NamesItself(e) => DnsNamed(d)) => GroupSettled(b, e)
    BY <1>1, MappedGroupIsSettled
  <2> HIDE DEF w, dn
  <2>3. b \in Database /\ SetMapping(b, e.id, dn) = n /\ Unmap(n, e.id, dn) = b
    BY <1>0, <2>1, Unmapped
  <2> HIDE DEF n, b
  <2>4. /\ GroupSettled(n, e) => ApplyGroup(n, e) = n
        /\ GroupSettled(b, e) => ApplyGroup(b, e) = b
    BY <2>2, <2>3, GroupStays
  <2> QED
    BY <2>2, <2>3, <2>4
<1>2. ASSUME e.id \in Groups(d)
      PROVE  /\ e.id \in Groups(v)
             /\ SetMapping(ApplyGroup(Unmap(v, e.id, dn), e), e.id, dn) = v
  <2>1. Kept(m) /\ SameRows(d, m)
    BY <1>0, UnmapKeeps, MappingOnly DEF Kept
  <2> HIDE DEF dn
  <2>2. m.dn[e.id] = NoRow /\ \A y \in Object : m.dn[y] # dn
    BY <1>0, Unmapped DEF Kept
  <2> HIDE DEF m
  <2>3. ConstraintsHold(m) /\ ToldAsStored(m, e) /\ e.id \in Groups(m)
    BY <1>2, <2>1 DEF SameRows, ConstraintsHold, ToldAsStored, StoredPlace, Schools, Groups, Users
  <2>4. a \in Database /\ GroupSettled(a, e) /\ e.id \in Groups(a) /\ a.dn = m.dn
    BY <2>1, <2>3, AppliedGroupIsSettled
  <2> HIDE DEF a
  <2>5. Unmap(a, e.id, dn) = a
    BY <1>0, <2>2, <2>4, UnmappedStays
  <2>6. Unmap(v, e.id, dn) = Unmap(a, e.id, dn)
    BY <1>0, <2>4, Unmapped
  <2>7. ApplyGroup(a, e) = a
    BY <2>4, GroupStays
  <2>8. SameRows(a, v)
    BY <1>0, <2>4, MappingOnly
  <2> QED
    BY <2>4, <2>5, <2>6, <2>7, <2>8 DEF SameRows, Groups
<1>3. ASSUME e.id \in Groups(d)
      PROVE  LET c == ApplyGroup(d, e) IN e.id \in Groups(c) /\ ApplyGroup(c, e) = c
  <2> DEFINE c == ApplyGroup(d, e)
  <2>1. c \in Database /\ GroupSettled(c, e) /\ e.id \in Groups(c)
    BY <1>3, AppliedGroupIsSettled
  <2> HIDE DEF c
  <2>2. ApplyGroup(c, e) = c
    BY <2>1, GroupStays
  <2> QED
    BY <2>1, <2>2 DEF c
<1>4. found # {} => SchoolsNamed(n, {e.school}) # {}
  <2>1. n.school = d.school
    BY DEF Kept, Database, NewGroup, CreateGroup, SetMapping, Unmap
  <2> HIDE DEF n
  <2> QED
    BY <2>1 DEF SchoolsNamed
<1>5. SchoolsNamed(ApplyGroup(d, e), {e.school}) = found
  <2>1. ApplyGroup(d, e).school = d.school
    BY DEF Kept, Database, ApplyGroup, ModifyGroup
  <2> QED
    BY <2>1 DEF SchoolsNamed
<1>6. CASE e.op = "create"
  <2>1. \A x : HandleEvent(x, e) = HandleGroupCreate(x, e)
    BY <1>6 DEF GroupEvent, HandleEvent
  <2>2. CASE found = {}
    BY <2>1, <2>2 DEF HandleGroupCreate, Repeats
  <2>3. CASE found # {} /\ e.id \in Groups(d)
    <3>1. HandleEvent(d, e) = ApplyGroup(d, e)
      BY <2>1, <2>3 DEF HandleGroupCreate
    <3> QED
      BY <1>3, <1>5, <2>1, <2>3, <3>1 DEF HandleGroupCreate, Repeats
  <2>4. CASE found # {} /\ e.id \notin Groups(d)
    <3>1. HandleEvent(d, e) = n
      BY <2>1, <2>4 DEF HandleGroupCreate
    <3> HIDE DEF n
    <3> QED
      BY <1>1, <1>4, <1>6, <2>1, <2>4, <3>1 DEF HandleGroupCreate, Repeats
  <2> QED
    BY <2>2, <2>3, <2>4
<1>7. CASE e.op = "modify"
  <2>1. \A x : HandleEvent(x, e) = HandleGroupModify(x, e)
    BY <1>7 DEF GroupEvent, HandleEvent
  <2>2. CASE e.id \in Groups(d)
    <3>1. HandleEvent(d, e) = v
      BY <2>1, <2>2 DEF HandleGroupModify
    <3> HIDE DEF v
    <3> QED
      BY <1>2, <2>1, <2>2, <3>1 DEF HandleGroupModify, Repeats
  <2>3. CASE found = {} /\ e.id \notin Groups(d)
    BY <2>1, <2>3 DEF HandleGroupModify, HandleGroupCreate, Repeats
  <2>4. CASE found # {} /\ e.id \notin Groups(d)
    <3>1. HandleEvent(d, e) = n
      BY <2>1, <2>4 DEF HandleGroupModify, HandleGroupCreate
    <3> HIDE DEF n
    <3> QED
      BY <1>1, <2>1, <2>4, <3>1 DEF HandleGroupModify, Repeats
  <2> QED
    BY <2>2, <2>3, <2>4
<1> QED
  BY <1>6, <1>7 DEF GroupEvent

\* School events (_handle_school_create, _handle_school_modify).
LEMMA SchoolEventRepeats ==
  ASSUME NEW d, Kept(d), NEW e \in SchoolEvent
  PROVE  Repeats(d, e)
<1> USE StoreAssumption DEF StoreAssumption
<1> DEFINE dn == EventDn(e)
           Put(x) == PutSchool(x, e.id, e.name)
           Map(x) == SetMapping(x, e.id, dn)
<1>0. e.id \in School /\ e.id \in Object /\ e.name \in SchoolName /\ dn \in Dn /\ d \in Database
  BY SchoolDnTyped DEF SchoolEvent, Object, Kept
<1>1. ASSUME NEW x \in Database
      PROVE  /\ Put(x) \in Database /\ Put(x).school[e.id] = e.name /\ Put(x).dn = x.dn
             /\ e.id \in Schools(Put(x))
             /\ Map(x) \in Database /\ SameRows(x, Map(x))
             /\ Map(x).dn[e.id] = dn /\ \A y \in Object \ {e.id} : Map(x).dn[y] # dn
  <2>1. Put(x) \in Database /\ Put(x).school[e.id] = e.name /\ Put(x).dn = x.dn
    BY <1>0 DEF Database, PutSchool
  <2>2. e.id \in Schools(Put(x))
    BY <1>0, <2>1 DEF Schools
  <2> HIDE DEF dn
  <2>3. SameRows(x, Map(x))
    BY <1>0, MappingOnly
  <2>4. Map(x) \in Database /\ Map(x).dn[e.id] = dn /\ \A y \in Object \ {e.id} : Map(x).dn[y] # dn
    BY <1>0, MappingIsSet
  <2> QED
    BY <2>1, <2>2, <2>3, <2>4
<1>2. ASSUME NEW x \in Database, x.school[e.id] = e.name
      PROVE  e.id \in Schools(x) /\ Put(x) = x
  BY <1>0, <1>2, SchoolStays DEF Schools
<1>3. ASSUME NEW x \in Database, x.dn[e.id] = dn, \A y \in Object \ {e.id} : x.dn[y] # dn
      PROVE  Map(x) = x
  BY <1>0, <1>3, MappingStays
<1>4. \A x : /\ HandleSchoolCreate(x, e) = IF e.id \in Schools(x) THEN Put(x) ELSE Map(Put(x))
             /\ HandleSchoolModify(x, e) = IF e.id \in Schools(x) THEN Put(Map(x)) ELSE Map(Put(x))
  BY DEF HandleSchoolCreate, HandleSchoolModify
<1> HIDE DEF dn, Put, Map
<1>5. LET n == Put(d) IN e.id \in Schools(n) /\ Put(n) = n
  BY <1>0, <1>1, <1>2
<1>6. LET n == Map(Put(d)) IN e.id \in Schools(n) /\ Put(n) = n /\ Map(n) = n
  <2> DEFINE p == Put(d)
             n == Map(p)
  <2>1. p \in Database /\ p.school[e.id] = e.name
    BY <1>0, <1>1
  <2> HIDE DEF p
  <2>2. n \in Database /\ n.school[e.id] = e.name /\ n.dn[e.id] = dn
        /\ \A y \in Object \ {e.id} : n.dn[y] # dn
    BY <1>1, <2>1 DEF SameRows
  <2> HIDE DEF n
  <2>3. e.id \in Schools(n) /\ Put(n) = n /\ Map(n) = n
    BY <1>2, <1>3, <2>2
  <2> QED
    BY <2>3 DEF n, p
<1>7. LET n == Put(Map(d)) IN e.id \in Schools(n) /\ Put(n) = n /\ Map(n) = n
  <2> DEFINE m == Map(d)
             n == Put(m)
  <2>1. m \in Database /\ m.dn[e.id] = dn /\ \A y \in Object \ {e.id} : m.dn[y] # dn
    BY <1>0, <1>1
  <2> HIDE DEF m
  <2>2. n \in Database /\ n.school[e.id] = e.name /\ n.dn = m.dn
    BY <1>1, <2>1
  <2> HIDE DEF n
  <2>3. e.id \in Schools(n) /\ Put(n) = n /\ Map(n) = n
    BY <1>2, <1>3, <2>1, <2>2
  <2> QED
    BY <2>3 DEF n, m
<1>8. CASE e.op = "create"
  <2>1. \A x : HandleEvent(x, e) = HandleSchoolCreate(x, e)
    BY <1>8 DEF SchoolEvent, HandleEvent
  <2> QED
    BY <1>4, <1>5, <1>6, <2>1 DEF Repeats
<1>9. CASE e.op = "modify"
  <2>1. \A x : HandleEvent(x, e) = HandleSchoolModify(x, e)
    BY <1>9 DEF SchoolEvent, HandleEvent
  <2> QED
    BY <1>4, <1>6, <1>7, <2>1 DEF Repeats
<1> QED
  BY <1>8, <1>9 DEF SchoolEvent

\* DC host group events (_handle_host_group_create and its siblings).
LEMMA HostEventRepeats ==
  ASSUME NEW d, Kept(d), NEW e \in HostEvent
  PROVE  Repeats(d, e) /\ (SchoolMissing(HandleEvent(d, e), e) => SchoolMissing(d, e))
<1> USE StoreAssumption DEF StoreAssumption
<1> DEFINE found == SchoolsNamed(d, {e.school})
           s == CHOOSE s \in found : TRUE
           hosts == IF e.op = "delete" THEN {} ELSE e.hosts
           n == SetServers(d, s, e.host_kind, hosts)
<1>1. \A x : HandleEvent(x, e) = HandleHostGroup(x, e)
  BY DEF HostEvent, HandleEvent
<1>2. CASE found = {}
  BY <1>1, <1>2 DEF HandleHostGroup, Repeats
<1>3. CASE found # {}
  <2>1. HandleEvent(d, e) = n
    BY <1>1, <1>3 DEF HandleHostGroup
  <2>2. SchoolsNamed(n, {e.school}) = found
    BY DEF Kept, Database, SetServers, SchoolsNamed
  <2>3. HandleEvent(n, e) = SetServers(n, s, e.host_kind, hosts)
    BY <1>1, <1>3, <2>2 DEF HandleHostGroup
  <2> DEFINE kind == e.host_kind
             m == SetServers(n, s, kind, hosts)
  <2>4. hosts \subseteq Host /\ s \in School /\ kind \in HostKind
    BY <1>3 DEF HostEvent, SchoolsNamed
  <2> HIDE DEF s, hosts, kind
  <2>5. /\ n = [d EXCEPT !.server = n.server] /\ m = [n EXCEPT !.server = m.server]
        /\ n.server = {v \in d.server : v[1] # s \/ v[2] # kind} \cup ({s} \X {kind} \X hosts)
        /\ m.server = {v \in n.server : v[1] # s \/ v[2] # kind} \cup ({s} \X {kind} \X hosts)
    BY DEF Kept, Database, SetServers, kind
  <2>6. m.server = n.server
    BY <2>5
  <2>7. m = n
    BY <2>5, <2>6 DEF Kept, Database
  <2> QED
    BY <2>1, <2>2, <2>3, <2>7 DEF Repeats, SchoolMissing, kind
<1> QED
  BY <1>2, <1>3

\* Deleting what is gone (SchoolManager.delete, GroupManager.delete, UserManager.delete).
LEMMA RemovalRepeats ==
  ASSUME NEW d, Kept(d), NEW e \in DeleteEvent
  PROVE  Repeats(d, e)
<1> USE StoreAssumption DEF StoreAssumption
<1>1. ASSUME NEW s \in School PROVE DeleteSchool(DeleteSchool(d, s), s) = DeleteSchool(d, s)
  <2> DEFINE n == DeleteSchool(d, s)
             m == DeleteSchool(n, s)
  <2>0. s \in Object
    BY DEF Object
  <2>1. /\ n.school = [d.school EXCEPT ![s] = NoRow] /\ n.group = d.group /\ n.user = d.user
        /\ n.member = {x \in d.member : x[2] # s} /\ n.primary = {x \in d.primary : x[2] # s}
        /\ n.link = {l \in d.link : l[3] # s} /\ n.sender = d.sender
        /\ n.server = {v \in d.server : v[1] # s} /\ n.dn = [d.dn EXCEPT ![s] = NoRow]
        /\ n \in Database
    BY <2>0 DEF Kept, Database, DeleteSchool
  <2> HIDE DEF n
  <2>2. /\ m.school = [n.school EXCEPT ![s] = NoRow] /\ m.group = n.group /\ m.user = n.user
        /\ m.member = {x \in n.member : x[2] # s} /\ m.primary = {x \in n.primary : x[2] # s}
        /\ m.link = {l \in n.link : l[3] # s} /\ m.sender = n.sender
        /\ m.server = {v \in n.server : v[1] # s} /\ m.dn = [n.dn EXCEPT ![s] = NoRow]
        /\ m \in Database
    BY <2>0, <2>1 DEF Database, DeleteSchool
  <2> HIDE DEF m
  <2>3. m.school = n.school
    BY <2>1, <2>2 DEF Database
  <2>4. m.dn = n.dn
    BY <2>0, <2>1, <2>2 DEF Database
  <2>5. SameRows(n, m)
    BY <2>1, <2>2, <2>3 DEF SameRows
  <2> QED
    BY <2>1, <2>2, <2>4, <2>5, SameTables DEF m, n
<1>2. ASSUME NEW g \in Group PROVE DeleteGroup(DeleteGroup(d, g), g) = DeleteGroup(d, g)
  <2> DEFINE n == DeleteGroup(d, g)
             m == DeleteGroup(n, g)
  <2>0. g \in Object
    BY DEF Object
  <2>1. /\ n.school = d.school /\ n.group = [d.group EXCEPT ![g] = NoRow] /\ n.user = d.user
        /\ n.member = d.member /\ n.primary = d.primary
        /\ n.link = {l \in d.link : l[1] # g}
        /\ n.sender = {x \in d.sender : x[1] # g /\ x[2] # g}
        /\ n.server = d.server /\ n.dn = [d.dn EXCEPT ![g] = NoRow]
        /\ n \in Database
    BY <2>0 DEF Kept, Database, DeleteGroup
  <2> HIDE DEF n
  <2>2. /\ m.school = n.school /\ m.group = [n.group EXCEPT ![g] = NoRow] /\ m.user = n.user
        /\ m.member = n.member /\ m.primary = n.primary
        /\ m.link = {l \in n.link : l[1] # g}
        /\ m.sender = {x \in n.sender : x[1] # g /\ x[2] # g}
        /\ m.server = n.server /\ m.dn = [n.dn EXCEPT ![g] = NoRow]
        /\ m \in Database
    BY <2>0, <2>1 DEF Database, DeleteGroup
  <2> HIDE DEF m
  <2>3. m.group = n.group
    BY <2>1, <2>2 DEF Database
  <2>4. m.dn = n.dn
    BY <2>0, <2>1, <2>2 DEF Database
  <2>5. SameRows(n, m)
    BY <2>1, <2>2, <2>3 DEF SameRows
  <2> QED
    BY <2>1, <2>2, <2>4, <2>5, SameTables DEF m, n
<1>3. ASSUME NEW u \in User PROVE DeleteUser(DeleteUser(d, u), u) = DeleteUser(d, u)
  <2> DEFINE n == DeleteUser(d, u)
             m == DeleteUser(n, u)
  <2>0. u \in Object
    BY DEF Object
  <2>1. /\ n.school = d.school /\ n.group = d.group /\ n.user = [d.user EXCEPT ![u] = NoRow]
        /\ n.member = {x \in d.member : x[1] # u} /\ n.primary = {x \in d.primary : x[1] # u}
        /\ n.link = {l \in d.link : l[2] # u}
        /\ n.sender = {x \in d.sender : x[2] # u}
        /\ n.server = d.server /\ n.dn = [d.dn EXCEPT ![u] = NoRow]
        /\ n \in Database
    BY <2>0 DEF Kept, Database, DeleteUser
  <2> HIDE DEF n
  <2>2. /\ m.school = n.school /\ m.group = n.group /\ m.user = [n.user EXCEPT ![u] = NoRow]
        /\ m.member = {x \in n.member : x[1] # u} /\ m.primary = {x \in n.primary : x[1] # u}
        /\ m.link = {l \in n.link : l[2] # u}
        /\ m.sender = {x \in n.sender : x[2] # u}
        /\ m.server = n.server /\ m.dn = [n.dn EXCEPT ![u] = NoRow]
        /\ m \in Database
    BY <2>0, <2>1 DEF Database, DeleteUser
  <2> HIDE DEF m
  <2>3. m.user = n.user
    BY <2>1, <2>2 DEF Database
  <2>4. m.dn = n.dn
    BY <2>0, <2>1, <2>2 DEF Database
  <2>5. SameRows(n, m)
    BY <2>1, <2>2, <2>3 DEF SameRows
  <2> QED
    BY <2>1, <2>2, <2>4, <2>5, SameTables DEF m, n
<1>4. \A x : HandleEvent(x, e) = HandleDelete(x, e)
  BY DEF DeleteEvent, HandleEvent
<1>5. CASE e.kind = "school"
  BY <1>1, <1>4, <1>5 DEF DeleteEvent, HandleDelete, Repeats
<1>6. CASE e.kind = "group"
  BY <1>2, <1>4, <1>6 DEF DeleteEvent, HandleDelete, Repeats
<1>7. CASE e.kind = "user"
  BY <1>3, <1>4, <1>7 DEF DeleteEvent, HandleDelete, Repeats
<1> QED
  BY <1>5, <1>6, <1>7 DEF DeleteEvent

(***************************************************************************)
(* Handling an event again right after it was handled changes nothing and  *)
(* finds what it needs (KelvinConnectorEventHandler).                      *)
(***************************************************************************)
LEMMA EventRepeats ==
  ASSUME NEW d, Kept(d), ConstraintsHold(d), MappingTyped(d), NEW e \in SyncEvent,
         ToldAsStored(d, e), ConstraintsHold(HandleEvent(d, e)), ~SchoolMissing(d, e),
         NamesItself(e) => e.op # "create" /\ DnsNamed(d)
  PROVE  Repeats(d, e) /\ ~SchoolMissing(HandleEvent(d, e), e)
<1>1. SchoolsUnique(d)
  BY DEF SchoolsUnique, ConstraintsHold
<1>2. CASE e \in HostEvent
  BY <1>2, HostEventRepeats
<1>3. CASE e \notin HostEvent
  <2>1. ~SchoolMissing(HandleEvent(d, e), e)
    BY <1>3 DEF SyncEvent, SchoolEvent, GroupEvent, UserEvent, DeleteEvent, SchoolMissing
  <2>2. CASE e \in SchoolEvent
    BY <2>1, <2>2, SchoolEventRepeats
  <2>3. CASE e \in GroupEvent
    BY <2>1, <2>3, GroupEventRepeats
  <2>4. CASE e \in UserEvent
    BY <1>1, <2>1, <2>4, UserEventRepeats
  <2>5. CASE e \in DeleteEvent
    BY <2>1, <2>5, RemovalRepeats
  <2> QED
    BY <1>3, <2>2, <2>3, <2>4, <2>5 DEF SyncEvent
<1> QED
  BY <1>2, <1>3

----------------------------------------------------------------------------
(* The mapping tables *)

\* The mapping changes for the object of an event only; others may lose their DN to it.
Names(e, y) == e.kind # "host" /\ e.op # "delete" /\ y = e.id

Maps(d, n, e) ==
  \A y \in Object : n.dn[y] \in {d.dn[y], NoRow} \/ (Names(e, y) /\ n.dn[y] = EventDn(e))

\* The mapping of one DN (set_mapping).
LEMMA MappingMaps ==
  ASSUME NEW d \in Database, NEW e, e.id \in Object, Names(e, e.id), EventDn(e) \in Dn
  PROVE  Maps(d, SetMapping(d, e.id, EventDn(e)), e)
<1> DEFINE dn == EventDn(e)
           n == SetMapping(d, e.id, dn)
<1> HIDE DEF dn
<1>1. /\ n.dn[e.id] = dn
      /\ \A y \in Object \ {e.id} : n.dn[y] = d.dn[y] \/ (d.dn[y] = dn /\ n.dn[y] = NoRow)
  BY MappingIsSet DEF dn
<1> HIDE DEF n
<1>2. \A y \in Object : n.dn[y] \in {d.dn[y], NoRow} \/ (y = e.id /\ n.dn[y] = dn)
  BY <1>1
<1> QED
  BY <1>2 DEF Maps, Names, n, dn

\* The DNs a group event records (_handle_group_create, _handle_group_modify).
LEMMA GroupEventMaps ==
  ASSUME NEW d, Kept(d), NEW e \in GroupEvent
  PROVE  LET n == HandleEvent(d, e)
         IN /\ Maps(d, n, e)
            /\ \A g \in Group \ {e.id} : n.group[g] = d.group[g]
            /\ (e.op = "create" /\ e.id \in Groups(d)) \/ n = d
               \/ (n.dn[e.id] = EventDn(e) /\ n.group[e.id].name = e.name)
<1> DEFINE dn == EventDn(e)
           w == NewGroup(d, e)
           m == Unmap(d, e.id, dn)
           a == ApplyGroup(m, e)
           b == ApplyGroup(d, e)
           Map(x) == SetMapping(x, e.id, dn)
<1>0. e.id \in Group /\ e.id \in Object /\ dn \in Dn /\ Names(e, e.id) /\ d \in Database
  BY GroupDnTyped DEF GroupEvent, Object, Kept, Names
<1>1. ASSUME NEW x \in Database
      PROVE  Map(x).group = x.group /\ Maps(x, Map(x), e) /\ Map(x).dn[e.id] = dn
  <2>1. Map(x).group = x.group
    BY DEF Database, SetMapping, Unmap
  <2>2. Maps(x, Map(x), e)
    BY <1>0, MappingMaps
  <2> HIDE DEF dn
  <2>3. Map(x).dn[e.id] = dn
    BY <1>0, MappingIsSet
  <2> QED
    BY <2>1, <2>2, <2>3
<1>2. ASSUME NEW x \in Database
      PROVE  LET n == ApplyGroup(x, e)
             IN /\ n.dn = x.dn /\ n.group[e.id].name = e.name
                /\ \A g \in Group \ {e.id} : n.group[g] = x.group[g]
  BY <1>0 DEF Database, ApplyGroup, ModifyGroup
<1>3. /\ w.dn = d.dn /\ w.group[e.id].name = e.name
      /\ \A g \in Group \ {e.id} : w.group[g] = d.group[g]
  BY <1>0 DEF Database, NewGroup, CreateGroup
<1>4. Kept(m) /\ m.group = d.group /\ \A y \in Object : m.dn[y] \in {d.dn[y], NoRow}
  <2>1. Kept(m) /\ m.group = d.group
    BY <1>0, UnmapKeeps
  <2> HIDE DEF dn
  <2>2. m.dn[e.id] = NoRow
        /\ \A y \in Object \ {e.id} : m.dn[y] = d.dn[y] \/ (d.dn[y] = dn /\ m.dn[y] = NoRow)
    BY <1>0, Unmapped
  <2> QED
    BY <2>1, <2>2
<1>5. ASSUME e.id \in Groups(d) PROVE a \in Database
  <2>1. e.id \in Groups(m)
    BY <1>4, <1>5 DEF Groups
  <2> QED
    BY <1>4, <2>1, ApplyGroupKeeps DEF Kept
<1>6. ASSUME SchoolsNamed(d, {e.school}) # {} PROVE w \in Database
  BY <1>6, NewGroupKeeps DEF Kept
<1> DEFINE n == HandleEvent(d, e)
<1>7. \/ n = d
      \/ n = Map(w) /\ SchoolsNamed(d, {e.school}) # {}
      \/ n = b /\ e.op = "create" /\ e.id \in Groups(d)
      \/ n = Map(a) /\ e.id \in Groups(d)
  BY DEF GroupEvent, HandleEvent, HandleGroupCreate, HandleGroupModify
<1>8. b.dn = d.dn /\ \A g \in Group \ {e.id} : b.group[g] = d.group[g]
  BY <1>0, <1>2
<1>9. ASSUME e.id \in Groups(d)
      PROVE  /\ a.dn = m.dn /\ a.group[e.id].name = e.name
             /\ \A g \in Group \ {e.id} : a.group[g] = d.group[g]
  <2>1. m \in Database
    BY <1>4 DEF Kept
  <2> QED
    BY <1>2, <1>4, <2>1
<1> HIDE DEF n, w, a, m, b, Map, dn
<1>10. CASE n = d
  BY <1>10 DEF Maps, n
<1>11. CASE n = Map(w) /\ w \in Database
  <2>1. Maps(w, n, e) /\ n.group = w.group /\ n.dn[e.id] = dn
    BY <1>1, <1>11
  <2> QED
    BY <1>3, <2>1 DEF Maps, n, dn
<1>12. CASE n = b /\ e.op = "create" /\ e.id \in Groups(d)
  BY <1>8, <1>12 DEF Maps, n
<1>13. CASE n = Map(a) /\ e.id \in Groups(d)
  <2>1. Maps(a, n, e) /\ n.group = a.group /\ n.dn[e.id] = dn
    BY <1>1, <1>5, <1>13
  <2> QED
    BY <1>4, <1>9, <1>13, <2>1 DEF Maps, n, dn
<1> QED
  BY <1>6, <1>7, <1>10, <1>11, <1>12, <1>13

\* The DNs and groups that the events of other objects leave alone.
LEMMA OtherEventMaps ==
  ASSUME NEW d, Kept(d), SchoolsUnique(d), NEW e \in SyncEvent, e \notin GroupEvent
  PROVE  LET n == HandleEvent(d, e)
         IN /\ Maps(d, n, e)
            /\ \A g \in Group : \/ n.group[g] = d.group[g]
                                \/ e \in DeleteEvent /\ n.dn[g] = NoRow
<1> USE StoreAssumption DEF StoreAssumption
<1> DEFINE dn == EventDn(e)
           n == HandleEvent(d, e)
           Map(x) == SetMapping(x, e.id, dn)
           Same(x, y) == y.dn = x.dn /\ y.group = x.group
<1>0. d \in Database
  BY DEF Kept
<1>1. ASSUME NEW x \in Database, e.id \in Object, Names(e, e.id), dn \in Dn
      PROVE  Map(x) \in Database /\ Maps(x, Map(x), e) /\ Map(x).group = x.group
  <2>1. Maps(x, Map(x), e)
    BY <1>1, MappingMaps
  <2>2. Map(x) \in Database /\ Map(x).group = x.group
    BY <1>1 DEF Database, SetMapping, Unmap
  <2> QED
    BY <2>1, <2>2
<1>3. Maps(d, d, e)
  BY DEF Maps
<1>4. CASE e \in UserEvent
  <2>1. e.id \in Object /\ Names(e, e.id) /\ dn \in Dn
    BY <1>4, UserDnTyped DEF UserEvent, Object, Names
  <2>2. \A x \in Database : Same(x, ApplyUser(x, e))
    BY DEF Database, ApplyUser, PutUser
  <2>3. ApplyUser(d, e) \in Database
    BY <1>4, ApplyUserKeeps DEF Kept
  <2>4. n \in {d, ApplyUser(d, e), Map(ApplyUser(d, e)), ApplyUser(Map(d), e)}
    BY <1>4 DEF UserEvent, HandleEvent, HandleUserCreate, HandleUserModify
  <2>5. Maps(d, n, e) /\ n.group = d.group
    <3> DEFINE w == ApplyUser(d, e)
               m == Map(d)
    <3>1. Same(d, w) /\ w \in Database /\ Same(m, ApplyUser(m, e))
      BY <1>0, <1>1, <2>1, <2>2, <2>3
    <3>2. Maps(w, Map(w), e) /\ Map(w).group = w.group /\ Maps(d, m, e) /\ m.group = d.group
      BY <1>0, <1>1, <2>1, <3>1
    <3> HIDE DEF n, w, m, Map
    <3>3. n = d \/ n = w \/ n = Map(w) \/ n = ApplyUser(m, e)
      BY <2>4 DEF w, m
    <3> QED
      BY <3>1, <3>2, <3>3 DEF Maps
  <2> QED
    BY <2>5
<1>5. CASE e \in SchoolEvent
  <2>1. e.id \in Object /\ Names(e, e.id) /\ dn \in Dn /\ e.id \in School /\ e.name \in SchoolName
    BY <1>5, SchoolDnTyped DEF SchoolEvent, Object, Names
  <2>2. \A x \in Database : Same(x, PutSchool(x, e.id, e.name))
    BY DEF Database, PutSchool
  <2>3. PutSchool(d, e.id, e.name) \in Database
    BY <2>1, PutSchoolKeeps DEF Kept
  <2>4. n \in {PutSchool(d, e.id, e.name), Map(PutSchool(d, e.id, e.name)),
               PutSchool(Map(d), e.id, e.name)}
    BY <1>5 DEF SchoolEvent, HandleEvent, HandleSchoolCreate, HandleSchoolModify
  <2>5. Maps(d, n, e) /\ n.group = d.group
    <3> DEFINE w == PutSchool(d, e.id, e.name)
               m == Map(d)
    <3>1. Same(d, w) /\ w \in Database /\ Same(m, PutSchool(m, e.id, e.name))
      BY <1>0, <1>1, <2>1, <2>2, <2>3
    <3>2. Maps(w, Map(w), e) /\ Map(w).group = w.group /\ Maps(d, m, e) /\ m.group = d.group
      BY <1>0, <1>1, <2>1, <3>1
    <3> HIDE DEF n, w, m, Map
    <3>3. n = w \/ n = Map(w) \/ n = PutSchool(m, e.id, e.name)
      BY <2>4 DEF w, m
    <3> QED
      BY <3>1, <3>2, <3>3 DEF Maps
  <2> QED
    BY <2>5
<1>6. CASE e \in HostEvent
  <2>1. n.dn = d.dn /\ n.group = d.group
    BY <1>6 DEF HostEvent, HandleEvent, HandleHostGroup, SetServers, Kept, Database
  <2> QED
    BY <2>1 DEF Maps
<1>7. CASE e \in DeleteEvent
  <2>0. n = HandleDelete(d, e)
    BY <1>7 DEF DeleteEvent, HandleEvent
  <2>1. \/ n = DeleteSchool(d, e.id) /\ e.id \in School
        \/ n = DeleteGroup(d, e.id) /\ e.id \in Group
        \/ n = DeleteUser(d, e.id) /\ e.id \in User
    <3> HIDE DEF n
    <3>1. CASE e.kind = "school"
      BY <1>7, <2>0, <3>1 DEF DeleteEvent, HandleDelete
    <3>2. CASE e.kind = "group"
      BY <1>7, <2>0, <3>2 DEF DeleteEvent, HandleDelete
    <3>3. CASE e.kind = "user"
      BY <1>7, <2>0, <3>3 DEF DeleteEvent, HandleDelete
    <3> QED
      BY <1>7, <3>1, <3>2, <3>3 DEF DeleteEvent
  <2>2. e.id \in Object
    BY <2>1 DEF Object
  <2> HIDE DEF n
  <2>3. n.dn = [d.dn EXCEPT ![e.id] = NoRow] /\ \A g \in Group \ {e.id} : n.group[g] = d.group[g]
    <3>1. CASE n = DeleteSchool(d, e.id)
      BY <1>0, <3>1 DEF Database, DeleteSchool
    <3>2. CASE n = DeleteGroup(d, e.id)
      BY <1>0, <3>2 DEF Database, DeleteGroup
    <3>3. CASE n = DeleteUser(d, e.id)
      BY <1>0, <3>3 DEF Database, DeleteUser
    <3> QED
      BY <2>1, <3>1, <3>2, <3>3
  <2>4. n.dn[e.id] = NoRow /\ \A y \in Object : n.dn[y] \in {d.dn[y], NoRow}
    BY <1>0, <2>2, <2>3 DEF Database
  <2> QED
    BY <1>7, <2>3, <2>4 DEF Maps, n
<1> QED
  BY <1>4, <1>5, <1>6, <1>7 DEF SyncEvent

\* The mapping tables keep to their kinds of DN (SQLAlchemyDNIDMapper).
LEMMA EventKeepsTypes ==
  ASSUME NEW d, Kept(d), SchoolsUnique(d), MappingTyped(d), NEW e \in SyncEvent
  PROVE  MappingTyped(HandleEvent(d, e))
<1> USE StoreAssumption DEF StoreAssumption
<1> DEFINE n == HandleEvent(d, e)
<1>1. Maps(d, n, e)
  BY GroupEventMaps, OtherEventMaps
<1>2. ASSUME NEW u \in User, Names(e, u), NEW name \in GroupName
      PROVE  EventDn(e) # GroupDn(name)
  <2>1. e \in UserEvent
    BY <1>2 DEF SyncEvent, SchoolEvent, GroupEvent, HostEvent, DeleteEvent, Names
  <2>2. EventDn(e) = UserDn(e.name, e.ou)
    BY <2>1 DEF UserEvent, EventDn
  <2> QED
    BY <2>2 DEF UserDn, GroupDn
<1>3. ASSUME NEW g \in Group, Names(e, g), NEW name \in UserName, NEW ou \in SchoolName
      PROVE  EventDn(e) # UserDn(name, ou)
  <2>1. e \in GroupEvent
    BY <1>3 DEF SyncEvent, SchoolEvent, UserEvent, HostEvent, DeleteEvent, Names
  <2>2. EventDn(e) = GroupDn(e.name)
    BY <2>1 DEF GroupEvent, EventDn
  <2> QED
    BY <2>2 DEF UserDn, GroupDn
<1>4. /\ \A name \in GroupName : GroupDn(name) # NoRow
      /\ \A name \in UserName, ou \in SchoolName : UserDn(name, ou) # NoRow
  BY DEF Dn
<1>5. User \subseteq Object /\ Group \subseteq Object
  BY DEF Object
<1> HIDE DEF n
<1>6. ASSUME NEW u \in User, NEW name \in GroupName PROVE n.dn[u] # GroupDn(name)
  BY <1>1, <1>2, <1>4, <1>5 DEF Maps, MappingTyped
<1>7. ASSUME NEW g \in Group, NEW name \in UserName, NEW ou \in SchoolName
      PROVE  n.dn[g] # UserDn(name, ou)
  BY <1>1, <1>3, <1>4, <1>5 DEF Maps, MappingTyped
<1> QED
  BY <1>6, <1>7 DEF MappingTyped, n

\* A group's DN is made of its name, unless a create event finds it (_handle_group_create).
LEMMA EventKeepsNames ==
  ASSUME NEW d, Kept(d), SchoolsUnique(d), DnsNamed(d), NEW e \in SyncEvent,
         ~(e \in GroupEvent /\ e.op = "create" /\ e.id \in Groups(d))
  PROVE  DnsNamed(HandleEvent(d, e))
<1> DEFINE n == HandleEvent(d, e)
<1>1. Maps(d, n, e)
  BY GroupEventMaps, OtherEventMaps
<1>2. CASE e \in GroupEvent
  <2>1. \A g \in Group \ {e.id} : n.group[g] = d.group[g]
    BY <1>2, GroupEventMaps
  <2>2. n = d \/ (n.dn[e.id] = EventDn(e) /\ n.group[e.id].name = e.name)
    BY <1>2, GroupEventMaps
  <2>3. EventDn(e) = GroupDn(e.name)
    BY <1>2 DEF GroupEvent, EventDn
  <2> HIDE DEF n
  <2>4. CASE n = d
    BY <2>4 DEF n
  <2>5. CASE n.dn[e.id] = EventDn(e) /\ n.group[e.id].name = e.name
    <3>1. ASSUME NEW g \in Group, g # e.id, n.dn[g] # NoRow
          PROVE  n.dn[g] = GroupDn(n.group[g].name)
      <4>1. n.dn[g] = d.dn[g]
        BY <1>1, <3>1 DEF Maps, Names, Object
      <4> QED
        BY <2>1, <3>1, <4>1 DEF DnsNamed
    <3> QED
      BY <2>3, <2>5, <3>1 DEF DnsNamed, n
  <2> QED
    BY <2>2, <2>4, <2>5
<1>3. CASE e \notin GroupEvent
  <2>1. \A g \in Group : n.group[g] = d.group[g] \/ (e \in DeleteEvent /\ n.dn[g] = NoRow)
    BY <1>3, OtherEventMaps
  <2> HIDE DEF n
  <2>2. ASSUME NEW g \in Group, n.dn[g] # NoRow
        PROVE  n.dn[g] = GroupDn(n.group[g].name)
    <3>1. ~Names(e, g)
      BY <1>3, StoreAssumption
         DEF SyncEvent, SchoolEvent, UserEvent, HostEvent, DeleteEvent, Names,
             StoreAssumption
    <3>2. n.dn[g] = d.dn[g]
      BY <1>1, <2>2, <3>1 DEF Maps, Object
    <3> QED
      BY <2>1, <2>2, <3>2 DEF DnsNamed
  <2> QED
    BY <2>2 DEF DnsNamed, n
<1> QED
  BY <1>2, <1>3

----------------------------------------------------------------------------
(* What the directory publishes *)

\* A change appends its events to the queue, none of them committed (Submit).
LEMMA EventsAppended ==
  ASSUME IInv, NEW operation, NEW c, c.events \in Seq(SyncEvent), Submit(operation, c)
  PROVE  /\ DOMAIN queue' = DOMAIN log' /\ DOMAIN log = 1..Len(log) /\ Len(log) \in Nat
         /\ \A i \in DOMAIN log : /\ i \in DOMAIN log' /\ i \in D!Events
                                  /\ log'[i] = log[i] /\ queue'[i] = queue[i]
         /\ \A i \in DOMAIN log' :
              \/ i \in DOMAIN log
              \/ /\ i - Len(log) \in DOMAIN c.events /\ i - Len(log) \in Nat
                 /\ log'[i] = c.events[i - Len(log)] /\ queue'[i].commits = 0
<1> DEFINE es == c.events
           new == Prefilled(es)
           n == Len(log)
<1>1. es \in Seq(SyncEvent) /\ log' = log \o es
  BY DEF Submit
<1>2. queue' = queue \o new
  BY Published DEF IInv, TypeOK, D!TypeOK, Submit
<1>3. /\ new \in Seq(D!EventRecord) /\ Len(new) = Len(es)
      /\ \A j \in DOMAIN es : new[j].commits = 0
  BY <1>1, PrefilledTyped, PrefilledFresh
<1>4. queue \in Seq(D!EventRecord) /\ log \in Seq(SyncEvent) /\ Len(queue) = n
  BY DEF IInv, TypeOK, D!TypeOK
<1> HIDE DEF es, new
<1>5. n \in Nat /\ DOMAIN queue = 1..n /\ DOMAIN log = 1..n /\ DOMAIN es = 1..Len(es)
  BY <1>1, <1>4
<1>6. DOMAIN queue' = DOMAIN log'
  BY <1>1, <1>2, <1>3, <1>4
<1>7. ASSUME NEW i \in DOMAIN log
      PROVE  i \in DOMAIN log' /\ log'[i] = log[i] /\ queue'[i] = queue[i]
  BY <1>1, <1>2, <1>3, <1>4
<1>8. ASSUME NEW i \in DOMAIN log', i \notin DOMAIN log
      PROVE  /\ i - n \in DOMAIN es /\ i - n \in Nat
             /\ log'[i] = es[i - n] /\ queue'[i] = new[i - n]
  BY <1>1, <1>2, <1>3, <1>4, <1>5, <1>8
<1> QED
  BY <1>3, <1>4, <1>5, <1>6, <1>7, <1>8 DEF es, D!Events

\* Where an event of a concatenation comes from.
LEMMA InEither ==
  ASSUME NEW S, NEW q \in Seq(S), NEW r \in Seq(S)
  PROVE  /\ q \o r \in Seq(S)
         /\ \A m \in DOMAIN (q \o r) :
              \/ m \in DOMAIN q /\ (q \o r)[m] = q[m]
              \/ m - Len(q) \in DOMAIN r /\ (q \o r)[m] = r[m - Len(q)]
OBVIOUS

\* A prefill publishes each group once.
LEMMA PrefilledOnce ==
  ASSUME NEW d, DirKept(d), NEW g \in Group,
         NEW i \in DOMAIN PrefillEvents(d), NEW k \in DOMAIN PrefillEvents(d),
         About(PrefillEvents(d)[i], g), About(PrefillEvents(d)[k], g)
  PROVE  i = k
<1> USE StoreAssumption DEF StoreAssumption
<1> DEFINE schools == SetToSeq(DirSchools(d))
           groups == SetToSeq(DirGroups(d))
           hosts == SetToSeq(DirHostGroups(d))
           users == SetToSeq(DirUsers(d))
           a == [j \in DOMAIN schools |-> SchoolSnapshot(d, "create", schools[j])]
           b == [j \in DOMAIN groups |-> GroupSnapshot(d, "create", groups[j])]
           h == [j \in DOMAIN hosts |-> HostSnapshot(d, "create", hosts[j])]
           u == [j \in DOMAIN users |-> UserSnapshot(d, "create", users[j])]
           pe == a \o b \o h \o u
           n == Cardinality(DirGroups(d))
           T == {e \in SyncEvent : ~About(e, g)}
<1>1. PrefillEvents(d) = pe
  BY DEF PrefillEvents
<1>2. /\ schools \in [1..Cardinality(DirSchools(d)) -> DirSchools(d)] /\ Cardinality(DirSchools(d)) \in Nat
      /\ groups \in [1..Cardinality(DirGroups(d)) -> DirGroups(d)] /\ Cardinality(DirGroups(d)) \in Nat
      /\ hosts \in [1..Cardinality(DirHostGroups(d)) -> DirHostGroups(d)]
      /\ Cardinality(DirHostGroups(d)) \in Nat
      /\ users \in [1..Cardinality(DirUsers(d)) -> DirUsers(d)] /\ Cardinality(DirUsers(d)) \in Nat
  BY DirFinite, SetToSeqTyped
<1>3. ASSUME NEW x \in 1..Cardinality(DirGroups(d)), NEW y \in 1..Cardinality(DirGroups(d)),
             groups[x] = groups[y]
      PROVE  x = y
  <2>1. Cardinality(DirGroups(d)) \in Nat
        /\ ExistsBijection(1..Cardinality(DirGroups(d)), DirGroups(d))
    BY DirFinite, FS_CardinalityType
  <2>2. \E f : f \in [1..Cardinality(DirGroups(d)) -> DirGroups(d)] /\ IsInjective(f)
    BY <2>1 DEF ExistsBijection, Bijection, Injection, IsInjective
  <2>3. IsInjective(groups)
    BY <2>2 DEF SetToSeq
  <2> QED
    BY <1>2, <1>3, <2>3 DEF IsInjective
<1>4. a \in Seq(SyncEvent) /\ \A j \in DOMAIN a : ~About(a[j], g)
  <2>1. \A x \in DirSchools(d) : SchoolSnapshot(d, "create", x) \in T
    BY SchoolSnapshotTyped DEF SchoolSnapshot, About, DirSchools
  <2>2. PICK m \in Nat : schools \in [1..m -> DirSchools(d)]
    BY DirFinite, SetToSeqTyped
  <2> HIDE DEF T
  <2>3. a \in [1..m -> T]
    BY <2>1, <2>2
  <2> HIDE DEF a
  <2> QED
    BY <2>3 DEF T
<1>5. /\ b \in Seq(SyncEvent) /\ DOMAIN b = 1..n /\ \A j \in 1..n : b[j].id = groups[j]
  <2>1. \A x \in DirGroups(d) : GroupSnapshot(d, "create", x) \in SyncEvent
    BY GroupSnapshotTyped
  <2>2. \A x \in DirGroups(d) : GroupSnapshot(d, "create", x).id = x
    BY DEF GroupSnapshot
  <2> HIDE DEF groups, n
  <2>3. b \in [1..n -> SyncEvent] /\ \A j \in 1..n : b[j].id = groups[j]
    BY <1>2, <2>1, <2>2 DEF groups, n
  <2>4. n \in Nat
    BY <1>2 DEF n
  <2> HIDE DEF b
  <2> QED
    BY <2>3, <2>4
<1>6. h \in Seq(SyncEvent) /\ \A j \in DOMAIN h : ~About(h[j], g)
  <2>1. \A x \in DirHostGroups(d) : HostSnapshot(d, "create", x) \in T
    BY HostSnapshotTyped DEF HostSnapshot, About, DirHostGroups
  <2>2. PICK m \in Nat : hosts \in [1..m -> DirHostGroups(d)]
    BY DirFinite, SetToSeqTyped
  <2> HIDE DEF T
  <2>3. h \in [1..m -> T]
    BY <2>1, <2>2
  <2> HIDE DEF h
  <2> QED
    BY <2>3 DEF T
<1>7. u \in Seq(SyncEvent) /\ \A j \in DOMAIN u : ~About(u[j], g)
  <2>1. \A x \in DirUsers(d) : UserSnapshot(d, "create", x) \in T
    BY UserSnapshotTyped DEF UserSnapshot, About, DirUsers
  <2>2. PICK m \in Nat : users \in [1..m -> DirUsers(d)]
    BY DirFinite, SetToSeqTyped
  <2> HIDE DEF T
  <2>3. u \in [1..m -> T]
    BY <2>1, <2>2
  <2> HIDE DEF u
  <2> QED
    BY <2>3 DEF T
<1> HIDE DEF a, b, h, u, groups, n
<1>8. ASSUME NEW m \in DOMAIN pe, About(pe[m], g)
      PROVE  m - Len(a) \in 1..n /\ groups[m - Len(a)] = g
  <2> DEFINE ab == a \o b
             abh == ab \o h
  <2>1. ab \in Seq(SyncEvent)
    BY <1>4, <1>5, InEither
  <2>2. abh \in Seq(SyncEvent)
    BY <1>6, <2>1, InEither
  <2>3. m \in DOMAIN abh /\ pe[m] = abh[m]
    <3> HIDE DEF abh
    <3>1. pe = abh \o u
      BY DEF abh
    <3> QED
      BY <1>7, <1>8, <2>2, <3>1, InEither
  <2>4. m \in DOMAIN ab /\ abh[m] = ab[m]
    <3> HIDE DEF ab
    <3> QED
      BY <1>6, <1>8, <2>1, <2>3, InEither
  <2>5. m - Len(a) \in DOMAIN b /\ ab[m] = b[m - Len(a)]
    <3>1. ~(m \in DOMAIN a /\ ab[m] = a[m])
      BY <1>4, <1>8, <2>3, <2>4
    <3>2. a \in Seq(SyncEvent) /\ b \in Seq(SyncEvent)
      BY <1>4, <1>5
    <3>3. \/ m \in DOMAIN a /\ ab[m] = a[m]
          \/ m - Len(a) \in DOMAIN b /\ ab[m] = b[m - Len(a)]
      BY <2>4, <3>2, InEither
    <3> QED
      BY <3>1, <3>3
  <2> QED
    BY <1>5, <1>8, <2>3, <2>4, <2>5 DEF About
<1>9. i \in Int /\ k \in Int /\ Len(a) \in Int
  <2>1. PrefillEvents(d) \in Seq(SyncEvent)
    BY CreatedTyped
  <2> QED
    BY <1>4, <2>1
<1>10. i - Len(a) = k - Len(a)
  BY <1>1, <1>3, <1>8 DEF n, groups
<1> QED
  BY <1>9, <1>10

\* A change creates groups that are new and do not send to themselves (GroupAdded).
LEMMA SubmitKeepsHandled ==
  ASSUME IInv, HInv, InPlaceSubmitted
  PROVE  HInv'
<1> PICK operation, c, X :
      /\ PlacesKept(dir, c, X) /\ Submit(operation, c)
      /\ \A x \in X : Unused(x) /\ x \notin DirObjects(dir)
      /\ operation = "senders" \/ (SendersDistinct(dir) => SendersDistinct(c.dir))
  BY DEF InPlaceSubmitted
<1> DEFINE es == c.events
           n == Len(log)
           T == Told(c.dir) \cap Modest(X)
<1>1. es \in Seq(T) /\ dir' = c.dir /\ db' = db /\ operation \in Operations
      /\ (X = {} \/ Len(es) = 1)
  BY DEF PlacesKept, Submit
<1>2. T \subseteq Told(c.dir) /\ T \subseteq SyncEvent /\ T \subseteq Modest(X)
  BY DEF Told
<1> HIDE DEF T, es
<1>3. es \in Seq(SyncEvent) /\ \A j \in DOMAIN es : es[j] \in T
  BY <1>1, <1>2
<1>4. /\ DOMAIN queue' = DOMAIN log' /\ DOMAIN log = 1..n /\ n \in Nat
      /\ \A i \in DOMAIN log : /\ i \in DOMAIN log' /\ i \in D!Events
                               /\ log'[i] = log[i] /\ queue'[i] = queue[i]
      /\ \A i \in DOMAIN log' :
           \/ i \in DOMAIN log
           \/ /\ i - n \in DOMAIN es /\ i - n \in Nat
              /\ log'[i] = es[i - n] /\ queue'[i].commits = 0
  BY <1>3, EventsAppended DEF es
<1>5. \A i \in DOMAIN log' : i \notin DOMAIN log => log'[i] \in T /\ i > n /\ queue'[i].commits = 0
  <2>1. \A j \in DOMAIN es : j \in Nat /\ j > 0
    BY <1>3
  <2>2. \A i \in DOMAIN log' : i \in Int
    BY DEF Submit, IInv, TypeOK
  <2> QED
    BY <1>3, <1>4, <2>1
<1> HIDE DEF n
<1>6. NoneNamesItself'
  <2>1. CASE MayNameItself
    BY <2>1 DEF NoneNamesItself
  <2>2. CASE ~MayNameItself
    <3>1. SendersDistinct(dir) /\ \A i \in DOMAIN log : ~NamesItself(log[i])
      BY <2>2 DEF HInv, NoneNamesItself
    <3>2. SendersDistinct(dir')
      BY <1>1, <2>2, <3>1 DEF MayNameItself
    <3>3. \A e \in T : ~NamesItself(e)
      BY <1>1, <1>2, <3>2 DEF Told
    <3>4. \A i \in DOMAIN log' : ~NamesItself(log'[i])
      BY <1>4, <1>5, <3>1, <3>3
    <3> QED
      BY <3>2, <3>4 DEF NoneNamesItself
  <2> QED
    BY <2>1, <2>2
<1>7. ASSUME CreatedModestly PROVE CreatedModestly'
  <2>1. \A e \in T : NamesItself(e) => e.op # "create"
    BY <1>2 DEF Modest, NamesItself
  <2> QED
    BY <1>4, <1>5, <1>7, <2>1 DEF CreatedModestly
<1>8. ASSUME CreatedFirst PROVE CreatedFirst'
  <2> SUFFICES ASSUME NEW i \in DOMAIN log', NEW k \in DOMAIN log', i < k,
                      log'[k].kind = "group", log'[k].op = "create", About(log'[i], log'[k].id)
               PROVE  FALSE
    BY DEF CreatedFirst, About
  <2>0. i \in Int /\ k \in Int
    BY DEF Submit, IInv, TypeOK
  <2>1. CASE k \in DOMAIN log
    <3>1. i \in DOMAIN log
      BY <1>4, <1>5, <2>0, <2>1
    <3> QED
      BY <1>4, <1>8, <2>1, <3>1 DEF CreatedFirst
  <2>2. CASE k \notin DOMAIN log
    <3>1. log'[k].id \in X
      BY <1>2, <1>5, <2>2 DEF Modest
    <3>2. DOMAIN es = {1}
      BY <1>1, <1>3, <3>1
    <3>3. CASE i \in DOMAIN log
      BY <1>4, <3>1, <3>3 DEF Unused, EventsOf, About
    <3>4. CASE i \notin DOMAIN log
      <4>1. i - n = 1 /\ k - n = 1
        BY <1>4, <2>2, <3>2, <3>4
      <4> QED
        BY <1>4, <2>0, <4>1
    <3> QED
      BY <3>3, <3>4
  <2> QED
    BY <2>1, <2>2
<1>9. ASSUME StoredByEvent PROVE StoredByEvent'
  <2> SUFFICES ASSUME NEW g \in Groups(db)
               PROVE  \E i \in DOMAIN queue' : About(log'[i], g) /\ queue'[i].commits > 0
    BY <1>1 DEF StoredByEvent, D!Events
  <2>1. PICK i \in D!Events : About(log[i], g) /\ queue[i].commits > 0
    BY <1>9 DEF StoredByEvent
  <2>2. i \in DOMAIN log
    BY DEF IInv, TypeOK, D!TypeOK, D!Events
  <2> QED
    BY <1>4, <2>1, <2>2
<1>10. Redone'
  <2> SUFFICES ASSUME NEW i \in DOMAIN queue', queue'[i].commits > 0, queue'[i].outcome = "pending"
               PROVE  HandleEvent(db, log'[i]) = db /\ ~SchoolMissing(db, log'[i])
    BY <1>1 DEF Redone, D!Events, D!Acked
  <2>1. i \in DOMAIN log
    BY <1>4, <1>5
  <2> QED
    BY <1>4, <2>1 DEF HInv, Redone, D!Acked
<1> QED
  BY <1>1, <1>6, <1>7, <1>8, <1>9, <1>10 DEF HInv, DnsNamed, MappingTyped

----------------------------------------------------------------------------
(* What the connector commits *)

\* A prefill: nothing is committed, and every group is created once.
LEMMA PrefillHandled ==
  ASSUME IInv, log = PrefillEvents(dir), queue = Prefilled(log), SendersDistinct(dir)
  PROVE  /\ NoneNamesItself /\ CreatedModestly /\ CreatedFirst
         /\ \A i \in D!Events : queue[i].commits = 0
<1>1. DirKept(dir) /\ log \in Seq(Told(dir)) /\ log \in Seq(SyncEvent)
  BY PrefillTells DEF IInv, TypeOK, DirKept
<1>2. \A i \in DOMAIN log : log[i] \in Told(dir) /\ log[i] \in SyncEvent
  BY <1>1
<1>3. \A i \in DOMAIN log : ~NamesItself(log[i])
  BY <1>2 DEF Told
<1>4. CreatedFirst
  <2> SUFFICES ASSUME NEW i \in DOMAIN log, NEW k \in DOMAIN log, i < k, log[k].kind = "group",
                      About(log[i], log[k].id)
               PROVE  FALSE
    BY DEF CreatedFirst
  <2>1. log[k].id \in Group /\ About(log[k], log[k].id)
    BY <1>2 DEF SyncEvent, SchoolEvent, GroupEvent, UserEvent, HostEvent, DeleteEvent, About
  <2>2. i = k
    BY <1>1, <2>1, PrefilledOnce
  <2>3. i \in Int
    BY <1>1
  <2> QED
    BY <2>2, <2>3
<1>5. \A i \in D!Events : queue[i].commits = 0
  BY <1>1, PrefilledFresh DEF D!Events
<1> QED
  BY <1>3, <1>4, <1>5 DEF NoneNamesItself, CreatedModestly

\* Before the first event.
LEMMA InitHandled ==
  ASSUME Init, \A d \in InitialDirectory : SendersDistinct(d)
  PROVE  HInv
<1> USE StoreAssumption DEF StoreAssumption
<1>1. NoneNamesItself /\ CreatedModestly /\ CreatedFirst /\ \A i \in D!Events : queue[i].commits = 0
  BY InitInv, PrefillHandled DEF Init
<1>2. Groups(db) = {} /\ \A x \in Object : db.dn[x] = NoRow
  BY DEF Init, EmptyDatabase, Groups
<1>3. DnsNamed(db)
  BY <1>2 DEF DnsNamed, Object
<1>4. MappingTyped(db)
  <2>1. \A name \in GroupName : GroupDn(name) \in Dn
    BY DEF Dn
  <2>2. \A name \in UserName, ou \in SchoolName : UserDn(name, ou) \in Dn
    BY DEF Dn
  <2> QED
    BY <1>2, <2>1, <2>2 DEF MappingTyped, Object
<1> QED
  BY <1>1, <1>2, <1>3, <1>4 DEF HInv, StoredByEvent, Redone

\* Setting the subscription up again (setup-provisioning-subscription.sh).
LEMMA ResubscribeKeepsHandled ==
  ASSUME IInv, IInv', HInv, Resubscribe, ~MayNameItself \/ MaxResubscriptions = 0
  PROVE  HInv'
<1>1. MaxResubscriptions # 0
  BY ConnectorAssumption DEF ConnectorAssumption, Resubscribe, IInv, TypeOK
<1>2. SendersDistinct(dir')
  BY <1>1 DEF HInv, NoneNamesItself, Resubscribe
<1>3. log' = PrefillEvents(dir') /\ queue' = Prefilled(log') /\ dir' = dir /\ db' = db
  BY DEF Resubscribe
<1>4. DirKept(dir') /\ log' \in Seq(SyncEvent)
  BY DEF IInv, TypeOK, DirKept
<1>5. log' \in Seq(Told(dir'))
  BY <1>3, <1>4, PrefillTells
<1>6. \A i \in DOMAIN log' : ~NamesItself(log'[i])
  <2>1. \A i \in DOMAIN log' : log'[i] \in Told(dir')
    BY <1>5
  <2> QED
    BY <1>2, <2>1 DEF Told
<1>7. NoneNamesItself'
  BY <1>2, <1>6 DEF NoneNamesItself
<1>8. DOMAIN queue' = DOMAIN log' /\ \A i \in DOMAIN log' : queue'[i].commits = 0
  BY <1>3, <1>4, PrefilledFresh
<1>9. Redone'
  BY <1>8 DEF Redone, D!Events
<1> QED
  BY <1>1, <1>3, <1>7, <1>9 DEF HInv, MappingTyped

\* What is committed is counted, and nothing else (process_one_event).
LEMMA CommitsCounted ==
  ASSUME IInv, RInv, Process \/ Disturb \/ \E committed \in BOOLEAN : DatabaseFault(committed)
  PROVE  /\ log' = log /\ dir' = dir
         /\ \/ db' = db /\ QueueGrows /\ CommitsKept
            \/ /\ Attempt /\ ~HandlerFails(db, log[cur]) /\ cur \in DOMAIN log
               /\ db' = HandleEvent(db, log[cur]) /\ queue'[cur].commits > 0
<1>1. log' = log /\ dir' = dir
  BY DEF Process, Disturb, Deliver, HandleCurrent, HandlerRaises, DatabaseFault, Others
<1>2. queue \in Seq(D!EventRecord) /\ D!Events = DOMAIN log
  BY DEF IInv, TypeOK, D!TypeOK, D!Events
<1>3. ASSUME queue' = queue PROVE QueueGrows /\ CommitsKept
  BY <1>3 DEF QueueGrows, CommitsKept, D!Events, D!Acked
<1>4. ASSUME Attempt, queue' = [queue EXCEPT ![cur].commits = @ + 1]
      PROVE  cur \in DOMAIN log /\ queue'[cur].commits > 0
  <2>1. cur \in D!Events
    BY <1>4, AttemptKeeps
  <2>2. queue[cur] \in D!EventRecord
    BY <1>2, <2>1 DEF D!Events
  <2>3. queue[cur].commits \in Nat /\ queue'[cur].commits = queue[cur].commits + 1
    BY <1>2, <1>4, <2>1, <2>2 DEF D!Events, D!EventRecord
  <2> QED
    BY <1>2, <2>1, <2>3
<1>5. CASE Deliver \/ Disturb
  <2>1. QueueGrows /\ CommitsKept
    BY <1>5, DeliveryCommitsNothing DEF RInv
  <2> QED
    BY <1>1, <1>5, <2>1 DEF Deliver, Disturb
<1>6. CASE HandleCurrent
  BY <1>1, <1>4, <1>6 DEF HandleCurrent, Attempt, D!Handle
<1>7. CASE HandlerRaises
  BY <1>1, <1>3, <1>7 DEF HandlerRaises, D!HandlerError
<1>8. ASSUME NEW committed \in BOOLEAN, DatabaseFault(committed)
      PROVE  \/ db' = db /\ QueueGrows /\ CommitsKept
             \/ /\ Attempt /\ ~HandlerFails(db, log[cur]) /\ cur \in DOMAIN log
                /\ db' = HandleEvent(db, log[cur]) /\ queue'[cur].commits > 0
  <2>1. Attempt
    BY <1>8 DEF DatabaseFault, Attempt
  <2>2. CASE committed
    BY <1>4, <1>8, <2>1, <2>2 DEF DatabaseFault, D!HandlerError
  <2>3. CASE ~committed
    BY <1>3, <1>8, <2>3 DEF DatabaseFault, D!HandlerError
  <2> QED
    BY <2>2, <2>3
<1> QED
  BY <1>1, <1>5, <1>6, <1>7, <1>8 DEF Process

\* A step that commits nothing.
LEMMA NothingHandled ==
  ASSUME IInv, HInv, log' = log, dir' = dir, db' = db, QueueGrows, CommitsKept
  PROVE  HInv'
<1>1. StoredByEvent => StoredByEvent'
  BY DEF StoredByEvent, QueueGrows, CommitsKept, D!Events
<1>2. Redone'
  BY DEF HInv, Redone, QueueGrows, CommitsKept, D!Events, D!Acked
<1> QED
  BY <1>1, <1>2 DEF HInv, NoneNamesItself, CreatedModestly, CreatedFirst, DnsNamed, MappingTyped

\* A create event does not find its group, unless it is handled again (_handle_group_create).
LEMMA CreatesUnlessRedone ==
  ASSUME IInv, RInv, CreatedFirst, StoredByEvent, Redone, cur \in D!Events, D!OldestPending(cur),
         log[cur].kind = "group", log[cur].op = "create", log[cur].id \in Groups(db)
  PROVE  HandleEvent(db, log[cur]) = db
<1>1. PICK i \in D!Events : About(log[i], log[cur].id) /\ queue[i].commits > 0
  BY DEF StoredByEvent
<1>2. D!Events = DOMAIN log /\ i \in Int /\ cur \in Int
  BY DEF IInv, TypeOK, D!TypeOK, D!Events
<1>3. ~(i < cur)
  BY <1>1, <1>2 DEF CreatedFirst
<1>4. ~(cur < i)
  BY <1>1 DEF RInv, CommitsInOrder, D!OldestPending
<1>5. i = cur
  BY <1>2, <1>3, <1>4
<1> QED
  BY <1>1, <1>5 DEF Redone, D!OldestPending

\* An event is committed (KelvinConnectorEventHandler, one transaction).
LEMMA CommitHandled ==
  ASSUME IInv, LInv, RInv, HInv, Attempt, log' = log, dir' = dir, cur \in DOMAIN log,
         ~HandlerFails(db, log[cur]), db' = HandleEvent(db, log[cur]), queue'[cur].commits > 0,
         ~MayNameItself \/ MaxResubscriptions = 0
  PROVE  HInv'
<1> DEFINE e == log[cur]
           n == HandleEvent(db, e)
<1>1. /\ cur \in D!Events /\ D!OldestPending(cur) /\ DOMAIN queue' = D!Events
      /\ \A i \in D!Events : /\ queue'[i].outcome = queue[i].outcome
                             /\ i # cur => queue'[i].commits = queue[i].commits
  BY AttemptCommits DEF RInv
<1>2. e \in SyncEvent /\ ToldAsStored(db, e)
  BY QueuedAsStored DEF LInv
<1>3. /\ Kept(db) /\ db \in Database /\ ConstraintsHold(db) /\ SchoolsUnique(db)
      /\ ReferencesHold(db) /\ ConstraintsHold(n) /\ ~SchoolMissing(db, e)
  BY DEF IInv, TypeOK, StoreConsistent, Kept, SchoolsUnique, ConstraintsHold, HandlerFails
<1>4. D!Events = DOMAIN log /\ D!Events \subseteq Int
  BY DEF IInv, TypeOK, D!TypeOK, D!Events
<1> HIDE DEF e, n
<1>5. n = db'
  BY DEF n, e
<1>6. MappingTyped(db) /\ MappingTyped(n)
  BY <1>2, <1>3, EventKeepsTypes DEF HInv, n
<1>7. NamesItself(e) => e.op # "create" /\ DnsNamed(db)
  <2> SUFFICES ASSUME NamesItself(e) PROVE e.op # "create" /\ DnsNamed(db)
    OBVIOUS
  <2>1. MayNameItself
    BY DEF HInv, NoneNamesItself, e
  <2>2. CreatedModestly /\ DnsNamed(db)
    BY <2>1 DEF HInv
  <2> QED
    BY <2>2 DEF CreatedModestly, e
<1>8. HandleEvent(n, e) = n /\ ~SchoolMissing(n, e)
  BY <1>2, <1>3, <1>6, <1>7, EventRepeats DEF Repeats, n
<1>9. Redone'
  <2> SUFFICES ASSUME NEW i \in D!Events, queue'[i].commits > 0, queue[i].outcome = "pending"
               PROVE  HandleEvent(n, log[i]) = n /\ ~SchoolMissing(n, log[i])
    BY <1>1, <1>5 DEF Redone, D!Events, D!Acked
  <2>1. CASE i = cur
    BY <1>8, <2>1 DEF e
  <2>2. CASE i # cur
    <3>1. queue[i].commits > 0
      BY <1>1, <2>2
    <3>2. ~(cur < i)
      BY <1>1, <3>1 DEF RInv, CommitsInOrder, D!OldestPending
    <3>3. i \in 1..(cur - 1)
      BY <1>4, <2>2, <3>2 DEF IInv, TypeOK, D!TypeOK
    <3> QED
      BY <1>1, <3>3 DEF D!OldestPending, D!Acked
  <2> QED
    BY <2>1, <2>2
<1>10. ASSUME StoredByEvent PROVE StoredByEvent'
  <2>1. /\ e.kind = "host" => \A y : Stored(n, y) => Stored(db, y)
        /\ e.kind # "host" => StoresOnly(db, n, e.id)
    BY <1>2, <1>3, EventStoresOwnObject DEF n
  <2> SUFFICES ASSUME NEW g \in Groups(n)
               PROVE  \E i \in D!Events : About(log[i], g) /\ queue'[i].commits > 0
    BY <1>1, <1>5 DEF StoredByEvent, D!Events
  <2>2. Stored(n, g) /\ g \in Group /\ g \in Object
    BY DEF Stored, Groups, Object
  <2>3. CASE About(e, g)
    BY <1>1, <2>3 DEF e
  <2>4. CASE ~About(e, g)
    <3>1. Stored(db, g)
      BY <2>1, <2>2, <2>4 DEF StoresOnly, About
    <3>2. g \in Groups(db)
      BY <2>2, <3>1, StoreAssumption DEF Stored, Schools, Users, StoreAssumption
    <3>3. PICK i \in D!Events : About(log[i], g) /\ queue[i].commits > 0
      BY <1>10, <3>2 DEF StoredByEvent
    <3> QED
      BY <1>1, <3>3
  <2> QED
    BY <2>3, <2>4
<1>11. ASSUME CreatedFirst, StoredByEvent, DnsNamed(db) PROVE DnsNamed(n)
  <2>1. CASE e.kind = "group" /\ e.op = "create" /\ e.id \in Groups(db)
    <3>1. n = db
      BY <1>1, <1>11, <2>1, CreatesUnlessRedone DEF HInv, n, e
    <3> QED
      BY <1>11, <3>1
  <2>2. CASE ~(e.kind = "group" /\ e.op = "create" /\ e.id \in Groups(db))
    BY <1>2, <1>3, <1>11, <2>2, EventKeepsNames DEF GroupEvent, n
  <2> QED
    BY <2>1, <2>2
<1> QED
  BY <1>5, <1>6, <1>9, <1>10, <1>11 DEF HInv, NoneNamesItself, CreatedModestly, CreatedFirst,
                                        DnsNamed, MappingTyped

\* One step, whoever takes it.
LEMMA NextKeepsHandled ==
  ASSUME "regroup" \notin Operations, ~MayNameItself \/ MaxResubscriptions = 0
  PROVE  IInv /\ IInv' /\ LInv /\ RInv /\ HInv /\ [Next]_vars => HInv'
<1>1. ASSUME HInv, UNCHANGED vars PROVE HInv'
  BY <1>1 DEF vars, HInv, NoneNamesItself, CreatedModestly, CreatedFirst, StoredByEvent, DnsNamed,
              MappingTyped, Redone, D!Events, D!Acked
<1>2. ASSUME IInv, HInv, SchoolChange \/ GroupChange \/ UserChange PROVE HInv'
  <2>1. DirKept(dir)
    BY <1>2 DEF IInv, TypeOK, DirKept
  <2>2. InPlaceSubmitted
    BY <1>2, <2>1, SchoolChangeInPlace, GroupChangeInPlace, UserChangeInPlace
  <2> QED
    BY <1>2, <2>2, SubmitKeepsHandled
<1>3. ASSUME IInv, LInv, RInv, HInv,
             Process \/ Disturb \/ \E committed \in BOOLEAN : DatabaseFault(committed)
      PROVE  HInv'
  <2>1. log' = log /\ dir' = dir
    BY <1>3, CommitsCounted
  <2>2. CASE db' = db /\ QueueGrows /\ CommitsKept
    BY <1>3, <2>1, <2>2, NothingHandled
  <2>3. CASE /\ Attempt /\ ~HandlerFails(db, log[cur]) /\ cur \in DOMAIN log
             /\ db' = HandleEvent(db, log[cur]) /\ queue'[cur].commits > 0
    BY <1>3, <2>1, <2>3, CommitHandled
  <2> QED
    BY <1>3, <2>2, <2>3, CommitsCounted
<1> QED
  BY <1>1, <1>2, <1>3, ResubscribeKeepsHandled DEF Next

(***************************************************************************)
(* An event whose transaction was committed before the acknowledgement got *)
(* lost is delivered again, and the handlers neither fail nor change       *)
(* anything (process_one_event, SynchronizationManager).  No group moves   *)
(* to another school; no group sends to itself when the subscription is    *)
(* set up, nor is made to before it is set up again.                       *)
(***************************************************************************)
THEOREM RedeliveryDoesNoHarm ==
  ASSUME "regroup" \notin Operations,
         \A d \in InitialDirectory : SendersDistinct(d),
         "senders" \notin Operations \/ MaxResubscriptions = 0
  PROVE  Spec => []RedeliveryIsHarmless
<1>1. ~MayNameItself \/ MaxResubscriptions = 0
  BY DEF MayNameItself
<1>2. Init => LInv /\ RInv /\ HInv
  <2> SUFFICES ASSUME Init PROVE LInv /\ RInv /\ HInv
    OBVIOUS
  <2>1. IInv
    BY InitInv
  <2>2. RInv
    BY <2>1, PrefillStarts DEF Init
  <2> QED
    BY <2>2, InitPlaces, InitHandled
<1>3. IInv /\ IInv' /\ LInv /\ RInv /\ HInv /\ [Next]_vars => LInv' /\ RInv' /\ HInv'
  BY <1>1, NextKeepsPlaces, NextKeepsRemovals, NextKeepsHandled
<1>4. IInv /\ RInv /\ HInv => RedeliveryIsHarmless
  <2> SUFFICES ASSUME IInv, RInv, HInv, pc = "fetched", queue[cur].commits > 0
               PROVE  ~HandlerFails(db, log[cur]) /\ HandleEvent(db, log[cur]) = db
    BY DEF RedeliveryIsHarmless
  <2>1. cur \in D!Events /\ ~D!Acked(cur)
    BY DEF IInv, CurrentExists, RInv, CurrentIsOldest, D!OldestPending
  <2>2. HandleEvent(db, log[cur]) = db /\ ~SchoolMissing(db, log[cur])
    BY <2>1 DEF HInv, Redone
  <2> QED
    BY <2>2 DEF HandlerFails, IInv, StoreConsistent
<1> QED
  BY <1>2, <1>3, <1>4, Invariance, PTL DEF Spec
=============================================================================
