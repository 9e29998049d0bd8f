--------------------------- MODULE ConnectorProofs ---------------------------
(***************************************************************************)
(* Proofs about Connector, for every directory, any number of changes,     *)
(* crashes, faults and prefills.  That the database stays consistent needs *)
(* the events to be well-formed; they are snapshots of the directory, so   *)
(* that needs the references within the directory to be intact; and the    *)
(* event handled must be one of the queue.  IInv says all this.            *)
(***************************************************************************)
EXTENDS Connector, FiniteSetTheorems, TLAPS

(***************************************************************************)
(* The operators.  No event makes the connector leave dangling references, *)
(* a second primary school or an ambiguous DN mapping behind, whatever the *)
(* database holds and whatever DNs the event names: the managers keep      *)
(* ReferencesHold, so a handler can only fail for one of the reasons in    *)
(* HandlerFails.                                                           *)
(***************************************************************************)

Kept(d) == d \in Database /\ ReferencesHold(d)
SchoolsUnique(d) == \A s, t \in Schools(d) : d.school[s] = d.school[t] => s = t

\* What CreateGroup and ModifyGroup have in common.
PutGroup(d, g, row, link, senders) ==
  [d EXCEPT !.group[g] = row, !.link = link,
            !.sender = WithoutSenders(d, g) \cup ({g} \X senders)]

----------------------------------------------------------------------------
(* DN mapping *)

(***************************************************************************)
(* Taking a DN and an object out of the mapping leaves the rows alone      *)
(* (set_mapping, first statement).                                         *)
(***************************************************************************)
LEMMA UnmapKeeps ==
  ASSUME NEW d, Kept(d), NEW x \in Object, NEW dn \in Dn
  PROVE  LET n == Unmap(d, x, dn)
         IN /\ Kept(n)
            /\ n.school = d.school /\ n.group = d.group /\ n.user = d.user
            /\ n.member = d.member
<1> DEFINE n == Unmap(d, x, dn)
<1>1. /\ n.school = d.school /\ n.group = d.group /\ n.user = d.user
      /\ n.member = d.member /\ n.primary = d.primary /\ n.link = d.link
      /\ n.sender = d.sender /\ n.server = d.server
      /\ n.dn = [y \in Object |-> IF y = x \/ d.dn[y] = dn THEN NoRow ELSE d.dn[y]]
      /\ n \in Database
  BY DEF Kept, Database, Unmap
<1> HIDE DEF n
<1>2. MembershipsHold(n) /\ LinksHold(n)
  BY <1>1 DEF Kept, ReferencesHold, MembershipsHold, LinksHold, Schools, Groups, Users, Stored
<1>3. MappingHolds(n)
  BY <1>1 DEF Kept, ReferencesHold, MappingHolds, Schools, Groups, Users, Stored
<1> QED
  BY <1>1, <1>2, <1>3 DEF Kept, ReferencesHold, n

(***************************************************************************)
(* A stored object gets a DN, which nothing else has afterwards            *)
(* (set_mapping).                                                          *)
(***************************************************************************)
LEMMA SetMappingKeeps ==
  ASSUME NEW d, Kept(d), NEW x \in Object, NEW dn \in Dn, Stored(d, x)
  PROVE  LET n == SetMapping(d, x, dn)
         IN /\ Kept(n)
            /\ n.school = d.school /\ n.group = d.group /\ n.user = d.user
            /\ n.member = d.member
<1> USE StoreAssumption DEF StoreAssumption
<1> DEFINE n == SetMapping(d, x, dn)
<1>1. /\ n.school = d.school /\ n.group = d.group /\ n.user = d.user
      /\ n.member = d.member /\ n.primary = d.primary /\ n.link = d.link
      /\ n.sender = d.sender /\ n.server = d.server
      /\ n.dn = [y \in Object |-> IF y = x THEN dn ELSE IF d.dn[y] = dn THEN NoRow ELSE d.dn[y]]
      /\ n \in Database
  BY DEF Kept, Database, Unmap, SetMapping
<1> HIDE DEF n
<1>2. MembershipsHold(n) /\ LinksHold(n)
  BY <1>1 DEF Kept, ReferencesHold, MembershipsHold, LinksHold, Schools, Groups, Users, Stored
<1>3. MappingHolds(n)
  BY <1>1 DEF Kept, ReferencesHold, MappingHolds, Schools, Groups, Users, Stored
<1> QED
  BY <1>1, <1>2, <1>3 DEF Kept, ReferencesHold, n

----------------------------------------------------------------------------
(* Deletes *)

(***************************************************************************)
(* Removing a school takes its memberships, links, servers and DN with it  *)
(* (SchoolManager.delete); its groups would fail ConstraintsHold.          *)
(***************************************************************************)
LEMMA DeleteSchoolKeeps ==
  ASSUME NEW d, Kept(d), NEW s \in School
  PROVE  Kept(DeleteSchool(d, s))
<1> USE StoreAssumption DEF StoreAssumption
<1> DEFINE n == DeleteSchool(d, s)
<1>1. /\ n.school = [d.school EXCEPT ![s] = NoRow] /\ n.group = d.group /\ n.user = d.user
      /\ n.member = {m \in d.member : m[2] # s} /\ n.primary = {m \in d.primary : m[2] # s}
      /\ n.link = {l \in d.link : l[3] # s} /\ n.sender = d.sender
      /\ n.server = {v \in d.server : v[1] # s} /\ n.dn = [d.dn EXCEPT ![s] = NoRow]
      /\ n \in Database
  BY DEF Kept, Database, DeleteSchool, Object
<1> HIDE DEF n
<1>2. Groups(n) = Groups(d) /\ Users(n) = Users(d) /\ Schools(n) = Schools(d) \ {s}
  BY <1>1 DEF Kept, Database, Schools, Groups, Users
<1>3. MembershipsHold(n)
  BY <1>1, <1>2 DEF Kept, Database, ReferencesHold, MembershipsHold
<1>4. LinksHold(n)
  <2>1. \A l \in n.link : l[1] \in Groups(n) /\ <<l[2], l[3]>> \in n.member
    BY <1>1, <1>2 DEF Kept, Database, ReferencesHold, LinksHold
  <2>2. \A x \in n.sender : x[1] \in Groups(n) /\ Stored(n, x[2])
    <3>1. \A x \in d.sender : x[2] \notin School
      BY DEF Kept, Database
    <3> QED
      BY <1>1, <1>2, <3>1 DEF Kept, ReferencesHold, LinksHold, Stored, Schools
  <2>3. \A v \in n.server : v[1] \in Schools(n)
    BY <1>1, <1>2 DEF Kept, ReferencesHold, LinksHold
  <2> QED
    BY <2>1, <2>2, <2>3 DEF LinksHold
<1>5. MappingHolds(n)
  BY <1>1, <1>2 DEF Kept, Database, ReferencesHold, MappingHolds, Stored, Object
<1> QED
  BY <1>1, <1>3, <1>4, <1>5 DEF Kept, ReferencesHold, n

(***************************************************************************)
(* Removing a group takes its links, its rights as a sender and its DN     *)
(* with it (GroupManager.delete).                                          *)
(***************************************************************************)
LEMMA DeleteGroupKeeps ==
  ASSUME NEW d, Kept(d), NEW g \in Group
  PROVE  Kept(DeleteGroup(d, g))
<1> USE StoreAssumption DEF StoreAssumption
<1> DEFINE n == DeleteGroup(d, g)
<1>1. /\ n.school = d.school /\ n.group = [d.group EXCEPT ![g] = NoRow] /\ n.user = d.user
      /\ n.member = d.member /\ n.primary = d.primary
      /\ n.link = {l \in d.link : l[1] # g}
      /\ n.sender = {x \in d.sender : x[1] # g /\ x[2] # g}
      /\ n.server = d.server /\ n.dn = [d.dn EXCEPT ![g] = NoRow]
      /\ n \in Database
  BY DEF Kept, Database, DeleteGroup, Object
<1> HIDE DEF n
<1>2. Groups(n) = Groups(d) \ {g} /\ Users(n) = Users(d) /\ Schools(n) = Schools(d)
  BY <1>1 DEF Kept, Database, Schools, Groups, Users
<1>3. MembershipsHold(n)
  BY <1>1, <1>2 DEF Kept, ReferencesHold, MembershipsHold
<1>4. LinksHold(n)
  BY <1>1, <1>2 DEF Kept, ReferencesHold, LinksHold, Stored
<1>5. MappingHolds(n)
  BY <1>1, <1>2 DEF Kept, Database, ReferencesHold, MappingHolds, Stored, Object
<1> QED
  BY <1>1, <1>3, <1>4, <1>5 DEF Kept, ReferencesHold, n

(***************************************************************************)
(* Removing a user takes its memberships, their links, its rights as a     *)
(* sender and its DN with it (UserManager.delete).                         *)
(***************************************************************************)
LEMMA DeleteUserKeeps ==
  ASSUME NEW d, Kept(d), NEW u \in User
  PROVE  Kept(DeleteUser(d, u))
<1> USE StoreAssumption DEF StoreAssumption
<1> DEFINE n == DeleteUser(d, u)
<1>1. /\ n.school = d.school /\ n.group = d.group /\ n.user = [d.user EXCEPT ![u] = NoRow]
      /\ n.member = {m \in d.member : m[1] # u} /\ n.primary = {m \in d.primary : m[1] # u}
      /\ n.link = {l \in d.link : l[2] # u}
      /\ n.sender = {x \in d.sender : x[2] # u}
      /\ n.server = d.server /\ n.dn = [d.dn EXCEPT ![u] = NoRow]
      /\ n \in Database
  BY DEF Kept, Database, DeleteUser, Object
<1> HIDE DEF n
<1>2. Groups(n) = Groups(d) /\ Users(n) = Users(d) \ {u} /\ Schools(n) = Schools(d)
  BY <1>1 DEF Kept, Database, Schools, Groups, Users
<1>3. MembershipsHold(n)
  BY <1>1, <1>2 DEF Kept, Database, ReferencesHold, MembershipsHold
<1>4. LinksHold(n)
  BY <1>1, <1>2 DEF Kept, Database, ReferencesHold, LinksHold, Stored
<1>5. MappingHolds(n)
  BY <1>1, <1>2 DEF Kept, Database, ReferencesHold, MappingHolds, Stored, Object
<1> QED
  BY <1>1, <1>3, <1>4, <1>5 DEF Kept, ReferencesHold, n

----------------------------------------------------------------------------
(* Creating and modifying *)

(***************************************************************************)
(* A user is written with memberships in stored schools, at most one of    *)
(* them primary, and with links of these memberships to stored groups      *)
(* (UserManager.create, modify).                                           *)
(***************************************************************************)
LEMMA PutUserKeeps ==
  ASSUME NEW d, Kept(d), NEW u \in User, NEW name \in UserName,
         NEW schools, schools \subseteq Schools(d),
         NEW primary, primary \subseteq schools, \A s, t \in primary : s = t,
         NEW links, links \subseteq Groups(d) \X {u} \X schools
  PROVE  LET n == PutUser(d, u, name, schools, primary, links)
         IN Kept(n) /\ u \in Users(n)
<1> USE StoreAssumption DEF StoreAssumption
<1> DEFINE n == PutUser(d, u, name, schools, primary, links)
<1>0. schools \subseteq School /\ Groups(d) \subseteq Group
  BY DEF Schools, Groups
<1>1. /\ n.school = d.school /\ n.group = d.group /\ n.user = [d.user EXCEPT ![u] = name]
      /\ n.member = {m \in d.member : m[1] # u} \cup ({u} \X schools)
      /\ n.primary = {m \in d.primary : m[1] # u} \cup ({u} \X primary)
      /\ n.link = {l \in d.link : l[2] # u} \cup links
      /\ n.sender = d.sender /\ n.server = d.server /\ n.dn = d.dn
  BY DEF Kept, Database, PutUser
<1>2. n \in Database
  <2>1. n.member \subseteq User \X School /\ n.primary \subseteq User \X School
    BY <1>0, <1>1 DEF Kept, Database
  <2>2. n.link \subseteq Group \X User \X School
    BY <1>0, <1>1 DEF Kept, Database
  <2>3. n.user \in [User -> UserName \cup {NoRow}]
    BY <1>1 DEF Kept, Database
  <2> QED
    BY <1>1, <2>1, <2>2, <2>3 DEF Kept, Database, PutUser
<1> HIDE DEF n
<1>3. Groups(n) = Groups(d) /\ Users(n) = Users(d) \cup {u} /\ Schools(n) = Schools(d)
  BY <1>1 DEF Kept, Database, Schools, Groups, Users
<1>4. MembershipsHold(n)
  <2>1. n.member \subseteq Users(n) \X Schools(n) /\ n.primary \subseteq n.member
    BY <1>0, <1>1, <1>3 DEF Kept, Database, ReferencesHold, MembershipsHold
  <2>2. ASSUME NEW a \in n.primary, NEW b \in n.primary, a[1] = b[1] PROVE a = b
    BY <1>1, <2>2 DEF Kept, Database, ReferencesHold, MembershipsHold
  <2> QED
    BY <2>1, <2>2 DEF MembershipsHold
<1>5. LinksHold(n)
  <2>1. \A l \in links : l[1] \in Groups(n) /\ <<l[2], l[3]>> \in n.member
    BY <1>1, <1>3
  <2>2. \A l \in n.link : l[1] \in Groups(n) /\ <<l[2], l[3]>> \in n.member
    BY <1>1, <1>3, <2>1 DEF Kept, Database, ReferencesHold, LinksHold
  <2> QED
    BY <1>1, <1>3, <2>2 DEF Kept, ReferencesHold, LinksHold, Stored
<1>6. MappingHolds(n)
  BY <1>1, <1>3 DEF Kept, ReferencesHold, MappingHolds, Stored
<1> QED
  BY <1>2, <1>3, <1>4, <1>5, <1>6 DEF Kept, ReferencesHold, n

(***************************************************************************)
(* A group is written with links to memberships that exist and senders     *)
(* that are stored: what CreateGroup and ModifyGroup have in common        *)
(* (GroupManager.create, modify).                                          *)
(***************************************************************************)
LEMMA PutGroupKeeps ==
  ASSUME NEW d, Kept(d), NEW g \in Group, NEW row \in [name : GroupName, school : School],
         NEW link, link \subseteq Group \X User \X School,
         \A l \in link : (l[1] = g \/ l \in d.link) /\ <<l[2], l[3]>> \in d.member,
         NEW senders, senders \subseteq Users(d) \cup Groups(d)
  PROVE  /\ Kept(PutGroup(d, g, row, link, senders))
         /\ g \in Groups(PutGroup(d, g, row, link, senders))
<1> USE StoreAssumption DEF StoreAssumption
<1> DEFINE n == PutGroup(d, g, row, link, senders)
<1>0. senders \subseteq Group \cup User
  BY DEF Users, Groups
<1>1. /\ n.school = d.school /\ n.group = [d.group EXCEPT ![g] = row] /\ n.user = d.user
      /\ n.member = d.member /\ n.primary = d.primary /\ n.link = link
      /\ n.sender = WithoutSenders(d, g) \cup ({g} \X senders)
      /\ n.server = d.server /\ n.dn = d.dn
  BY DEF Kept, Database, PutGroup
<1>2. n \in Database
  <2>1. n.sender \subseteq Group \X (Group \cup User)
    BY <1>0, <1>1 DEF Kept, Database, WithoutSenders
  <2>2. n.group \in [Group -> [name : GroupName, school : School] \cup {NoRow}]
    BY <1>1 DEF Kept, Database
  <2> QED
    BY <1>1, <2>1, <2>2 DEF Kept, Database, PutGroup
<1> HIDE DEF n
<1>3. Groups(n) = Groups(d) \cup {g} /\ Users(n) = Users(d) /\ Schools(n) = Schools(d)
  BY <1>1 DEF Kept, Database, Schools, Groups, Users
<1>4. MembershipsHold(n)
  BY <1>1, <1>3 DEF Kept, ReferencesHold, MembershipsHold
<1>5. LinksHold(n)
  BY <1>1, <1>3 DEF Kept, Database, ReferencesHold, LinksHold, Stored, WithoutSenders
<1>6. MappingHolds(n)
  BY <1>1, <1>3 DEF Kept, ReferencesHold, MappingHolds, Stored
<1> QED
  BY <1>2, <1>3, <1>4, <1>5, <1>6 DEF Kept, ReferencesHold, n

(***************************************************************************)
(* A school is written; nothing refers to it yet, or still does            *)
(* (SchoolManager.create, modify).                                         *)
(***************************************************************************)
LEMMA PutSchoolKeeps ==
  ASSUME NEW d, Kept(d), NEW s \in School, NEW name \in SchoolName
  PROVE  Kept(PutSchool(d, s, name)) /\ s \in Schools(PutSchool(d, s, name))
<1> USE StoreAssumption DEF StoreAssumption
<1> DEFINE n == PutSchool(d, s, name)
<1>1. /\ n.school = [d.school EXCEPT ![s] = name] /\ n.group = d.group /\ n.user = d.user
      /\ n.member = d.member /\ n.primary = d.primary /\ n.link = d.link
      /\ n.sender = d.sender /\ n.server = d.server /\ n.dn = d.dn
      /\ n \in Database
  BY DEF Kept, Database, PutSchool
<1> HIDE DEF n
<1>2. Groups(n) = Groups(d) /\ Users(n) = Users(d) /\ Schools(n) = Schools(d) \cup {s}
  BY <1>1 DEF Kept, Database, Schools, Groups, Users
<1>3. MembershipsHold(n)
  BY <1>1, <1>2 DEF Kept, Database, ReferencesHold, MembershipsHold
<1>4. LinksHold(n)
  BY <1>1, <1>2 DEF Kept, ReferencesHold, LinksHold, Stored
<1>5. MappingHolds(n)
  BY <1>1, <1>2 DEF Kept, ReferencesHold, MappingHolds, Stored
<1> QED
  BY <1>1, <1>2, <1>3, <1>4, <1>5 DEF Kept, ReferencesHold, n

(***************************************************************************)
(* The servers of one kind of a stored school are replaced                 *)
(* (_set_school_servers).                                                  *)
(***************************************************************************)
LEMMA SetServersKeeps ==
  ASSUME NEW d, Kept(d), NEW s \in Schools(d), NEW kind \in HostKind, NEW hosts \in SUBSET Host
  PROVE  Kept(SetServers(d, s, kind, hosts))
<1> DEFINE n == SetServers(d, s, kind, hosts)
<1>0. s \in School
  BY DEF Schools
<1>1. /\ n.school = d.school /\ n.group = d.group /\ n.user = d.user
      /\ n.member = d.member /\ n.primary = d.primary /\ n.link = d.link
      /\ n.sender = d.sender /\ n.dn = d.dn
      /\ n.server = {v \in d.server : v[1] # s \/ v[2] # kind} \cup ({s} \X {kind} \X hosts)
  BY DEF Kept, Database, SetServers
<1>2. n \in Database
  <2>1. n.server \subseteq School \X HostKind \X Host
    BY <1>0, <1>1 DEF Kept, Database
  <2> QED
    BY <1>1, <2>1 DEF Kept, Database, SetServers
<1> HIDE DEF n
<1>3. MembershipsHold(n) /\ LinksHold(n)
  BY <1>1 DEF Kept, Database, ReferencesHold, MembershipsHold, LinksHold, Schools, Groups, Users, Stored
<1>4. MappingHolds(n)
  BY <1>1 DEF Kept, ReferencesHold, MappingHolds, Schools, Groups, Users, Stored
<1> QED
  BY <1>2, <1>3, <1>4 DEF Kept, ReferencesHold, n

----------------------------------------------------------------------------
(* The event handlers *)

(***************************************************************************)
(* A user event writes memberships in stored schools, one of them primary, *)
(* and links to groups of these schools (_build_school_memberships): the   *)
(* primary school is one because school names are unique.                  *)
(***************************************************************************)
LEMMA ApplyUserKeeps ==
  ASSUME NEW d, Kept(d), SchoolsUnique(d), NEW e \in UserEvent
  PROVE  Kept(ApplyUser(d, e)) /\ e.id \in Users(ApplyUser(d, e))
<1> USE StoreAssumption DEF StoreAssumption
<1> DEFINE schools == SchoolsNamed(d, e.schools)
<1>1. e.id \in User /\ e.name \in UserName /\ e.schools \subseteq SchoolName
  BY DEF UserEvent
<1>2. schools \subseteq Schools(d)
  BY <1>1 DEF SchoolsNamed, Schools
<1>3. PrimarySchools(d, e) \subseteq schools /\ \A s, t \in PrimarySchools(d, e) : s = t
  <2> DEFINE own == {s \in schools : d.school[s] = e.ou}
  <2>1. \A s, t \in own : s = t
    BY <1>2 DEF SchoolsUnique
  <2>2. CASE own # {}
    BY <2>1, <2>2 DEF PrimarySchools
  <2>3. CASE own = {} /\ schools # {}
    <3>1. PrimarySchools(d, e) = {CHOOSE s \in schools : TRUE}
      BY <2>3 DEF PrimarySchools
    <3> QED
      BY <2>3, <3>1
  <2>4. CASE schools = {}
    BY <2>4 DEF PrimarySchools
  <2> QED
    BY <2>2, <2>3, <2>4
<1>4. EventLinks(d, e) \subseteq Groups(d) \X {e.id} \X schools
  BY DEF EventLinks
<1> QED
  BY <1>1, <1>2, <1>3, <1>4, PutUserKeeps DEF ApplyUser

(***************************************************************************)
(* The DN of an event's object is the DN of a name of its type             *)
(* (set_mapping with event.dn).                                            *)
(***************************************************************************)
LEMMA UserDnTyped == \A e \in UserEvent : EventDn(e) \in Dn
BY DEF UserEvent, EventDn, Dn

\* The same for groups (set_mapping with event.dn).
LEMMA GroupDnTyped == \A e \in GroupEvent : EventDn(e) \in Dn
BY DEF GroupEvent, EventDn, Dn

\* The same for schools (set_mapping with event.dn).
LEMMA SchoolDnTyped == \A e \in SchoolEvent : EventDn(e) \in Dn
BY DEF SchoolEvent, EventDn, Dn

(***************************************************************************)
(* User create and modify events (_handle_user_create,                     *)
(* _handle_user_modify).                                                   *)
(***************************************************************************)
LEMMA UserEventKeeps ==
  ASSUME NEW d, Kept(d), SchoolsUnique(d), NEW e \in UserEvent
  PROVE  Kept(HandleUserCreate(d, e)) /\ Kept(HandleUserModify(d, e))
<1>1. e.id \in User /\ e.id \in Object /\ EventDn(e) \in Dn
  BY UserDnTyped DEF UserEvent, Object
<1>2. Kept(ApplyUser(d, e)) /\ e.id \in Users(ApplyUser(d, e))
  BY ApplyUserKeeps
<1>3. Kept(SetMapping(ApplyUser(d, e), e.id, EventDn(e)))
  BY <1>1, <1>2, SetMappingKeeps DEF Stored
<1>4. Kept(HandleUserCreate(d, e))
  BY <1>2, <1>3 DEF HandleUserCreate
<1>5. ASSUME e.id \in Users(d) PROVE Kept(HandleUserModify(d, e))
  <2> DEFINE n == SetMapping(d, e.id, EventDn(e))
  <2>1. Kept(n) /\ n.school = d.school
    BY <1>1, <1>5, SetMappingKeeps DEF Stored
  <2>2. SchoolsUnique(n)
    BY <2>1 DEF SchoolsUnique, Schools
  <2>3. Kept(ApplyUser(n, e))
    BY <2>1, <2>2, ApplyUserKeeps
  <2> QED
    BY <1>5, <2>3 DEF HandleUserModify
<1> QED
  BY <1>4, <1>5 DEF HandleUserModify

(***************************************************************************)
(* A group event finds the school, or keeps the one stored; members and    *)
(* senders are looked up (_fetch_members_by_dns, _fetch_users_by_dns).     *)
(***************************************************************************)
LEMMA EventReferences ==
  ASSUME NEW d, Kept(d), NEW e \in GroupEvent,
         SchoolsNamed(d, {e.school}) # {} \/ e.id \in Groups(d)
  PROVE  /\ TargetSchool(d, e) \in School
         /\ EventSenders(d, e) \subseteq Users(d) \cup Groups(d)
         /\ EventMembers(d, e, TargetSchool(d, e)) \subseteq User
<1>1. e.id \in Group
  BY DEF GroupEvent
<1>2. TargetSchool(d, e) \in School
  <2> DEFINE found == SchoolsNamed(d, {e.school})
  <2>1. CASE found # {}
    <3>1. TargetSchool(d, e) \in found
      BY <2>1 DEF TargetSchool
    <3> QED
      BY <3>1 DEF SchoolsNamed
  <2>2. CASE found = {}
    <3>1. d.group[e.id] \in [name : GroupName, school : School]
      BY <1>1, <2>2 DEF Kept, Database, Groups
    <3> QED
      BY <2>2, <3>1 DEF TargetSchool
  <2> QED
    BY <2>1, <2>2
<1>3. EventSenders(d, e) \subseteq Users(d) \cup Groups(d)
  BY DEF EventSenders
<1>4. EventMembers(d, e, TargetSchool(d, e)) \subseteq User
  BY DEF EventMembers, Users
<1> QED
  BY <1>2, <1>3, <1>4

(***************************************************************************)
(* The links a group can be given refer to stored memberships              *)
(* (_sync_group_members, resolve_group_create_relations).                  *)
(***************************************************************************)
LEMMA GroupLinks ==
  ASSUME NEW d, Kept(d), NEW g \in Group, NEW users, NEW s \in School,
         NEW l \in WithoutLinks(d, g) \cup LinksInSchool(d, g, users, s)
  PROVE  /\ l \in Group \X User \X School
         /\ l[1] = g \/ l \in d.link
         /\ <<l[2], l[3]>> \in d.member
<1>1. CASE l \in WithoutLinks(d, g)
  BY <1>1 DEF Kept, Database, ReferencesHold, LinksHold, WithoutLinks
<1>2. CASE l \in LinksInSchool(d, g, users, s)
  <2>1. PICK v \in users : <<v, s>> \in d.member /\ l = <<g, v, s>>
    BY <1>2 DEF LinksInSchool
  <2>2. v \in User
    BY <2>1 DEF Kept, Database
  <2> QED
    BY <2>1, <2>2
<1> QED
  BY <1>1, <1>2

(***************************************************************************)
(* A new group is linked to memberships in its school                      *)
(* (resolve_group_create_relations).                                       *)
(***************************************************************************)
LEMMA NewGroupKeeps ==
  ASSUME NEW d, Kept(d), NEW e \in GroupEvent, SchoolsNamed(d, {e.school}) # {}
  PROVE  Kept(NewGroup(d, e)) /\ e.id \in Groups(NewGroup(d, e))
<1> DEFINE s == TargetSchool(d, e)
           users == EventMembers(d, e, s)
           senders == EventSenders(d, e)
           link == WithoutLinks(d, e.id) \cup LinksInSchool(d, e.id, users, s)
           row == [name |-> e.name, school |-> s]
<1>1. e.id \in Group /\ e.name \in GroupName
  BY DEF GroupEvent
<1>2. s \in School /\ senders \subseteq Users(d) \cup Groups(d) /\ users \subseteq User
  BY EventReferences
<1>3. NewGroup(d, e) = PutGroup(d, e.id, row, link, senders)
  BY DEF NewGroup, CreateGroup, PutGroup
<1> HIDE DEF s, users, senders
<1>4. \A l \in link : /\ l \in Group \X User \X School
                      /\ l[1] = e.id \/ l \in d.link
                      /\ <<l[2], l[3]>> \in d.member
  BY <1>1, <1>2, GroupLinks
<1>5. row \in [name : GroupName, school : School]
  BY <1>1, <1>2
<1> HIDE DEF link, row
<1>6. link \subseteq Group \X User \X School
  BY <1>4
<1> QED
  BY <1>1, <1>2, <1>3, <1>4, <1>5, <1>6, PutGroupKeeps

(***************************************************************************)
(* A stored group keeps its links, or gets links to memberships in the     *)
(* school it had (_sync_group_members).                                    *)
(***************************************************************************)
LEMMA ApplyGroupKeeps ==
  ASSUME NEW d, Kept(d), NEW e \in GroupEvent, e.id \in Groups(d)
  PROVE  Kept(ApplyGroup(d, e)) /\ e.id \in Groups(ApplyGroup(d, e))
<1> DEFINE s == TargetSchool(d, e)
           old == d.group[e.id].school
           users == EventMembers(d, e, s)
           senders == EventSenders(d, e)
           link == IF users = Members(d, e.id) THEN d.link
                   ELSE WithoutLinks(d, e.id) \cup LinksInSchool(d, e.id, users, old)
           row == [name |-> e.name, school |-> s]
<1>1. e.id \in Group /\ e.name \in GroupName
  BY DEF GroupEvent
<1>2. s \in School /\ senders \subseteq Users(d) \cup Groups(d) /\ users \subseteq User
  BY EventReferences
<1>3. old \in School
  BY <1>1 DEF Kept, Database, Groups
<1>4. ApplyGroup(d, e) = PutGroup(d, e.id, row, link, senders)
  BY DEF ApplyGroup, ModifyGroup, PutGroup
<1> HIDE DEF s, old, users, senders
<1>5. \A l \in link : /\ l \in Group \X User \X School
                      /\ l[1] = e.id \/ l \in d.link
                      /\ <<l[2], l[3]>> \in d.member
  <2>1. CASE link = d.link
    BY <2>1 DEF Kept, Database, ReferencesHold, LinksHold
  <2>2. CASE link = WithoutLinks(d, e.id) \cup LinksInSchool(d, e.id, users, old)
    BY <1>1, <1>3, <2>2, GroupLinks
  <2> QED
    BY <2>1, <2>2
<1>6. row \in [name : GroupName, school : School]
  BY <1>1, <1>2
<1> HIDE DEF link, row
<1>7. link \subseteq Group \X User \X School
  BY <1>5
<1> QED
  BY <1>1, <1>2, <1>4, <1>5, <1>6, <1>7, PutGroupKeeps

(***************************************************************************)
(* Group create and modify events (_handle_group_create,                   *)
(* _handle_group_modify).                                                  *)
(***************************************************************************)
LEMMA GroupEventKeeps ==
  ASSUME NEW d, Kept(d), NEW e \in GroupEvent
  PROVE  Kept(HandleGroupCreate(d, e)) /\ Kept(HandleGroupModify(d, e))
<1>1. e.id \in Group /\ e.id \in Object /\ EventDn(e) \in Dn
  BY GroupDnTyped DEF GroupEvent, Object
<1>2. ASSUME e.id \in Groups(d) PROVE Kept(ApplyGroup(d, e))
  BY <1>2, ApplyGroupKeeps
<1>3. ASSUME SchoolsNamed(d, {e.school}) # {}
      PROVE  Kept(SetMapping(NewGroup(d, e), e.id, EventDn(e)))
  <2>1. Kept(NewGroup(d, e)) /\ e.id \in Groups(NewGroup(d, e))
    BY <1>3, NewGroupKeeps
  <2> QED
    BY <1>1, <2>1, SetMappingKeeps DEF Stored
<1>4. Kept(HandleGroupCreate(d, e))
  BY <1>2, <1>3 DEF HandleGroupCreate
<1>5. ASSUME e.id \in Groups(d) PROVE Kept(HandleGroupModify(d, e))
  <2> DEFINE n == Unmap(d, e.id, EventDn(e))
  <2>1. Kept(n) /\ n.group = d.group
    BY <1>1, UnmapKeeps
  <2>2. e.id \in Groups(n)
    BY <1>5, <2>1 DEF Groups
  <2> HIDE DEF n
  <2>3. Kept(ApplyGroup(n, e)) /\ e.id \in Groups(ApplyGroup(n, e))
    BY <2>1, <2>2, ApplyGroupKeeps
  <2>4. Kept(SetMapping(ApplyGroup(n, e), e.id, EventDn(e)))
    BY <1>1, <2>3, SetMappingKeeps DEF Stored
  <2> QED
    BY <1>5, <2>4 DEF HandleGroupModify, n
<1> QED
  BY <1>4, <1>5 DEF HandleGroupModify

(***************************************************************************)
(* School create and modify events (_handle_school_create,                 *)
(* _handle_school_modify).                                                 *)
(***************************************************************************)
LEMMA SchoolEventKeeps ==
  ASSUME NEW d, Kept(d), NEW e \in SchoolEvent
  PROVE  Kept(HandleSchoolCreate(d, e)) /\ Kept(HandleSchoolModify(d, e))
<1>1. e.id \in School /\ e.id \in Object /\ e.name \in SchoolName /\ EventDn(e) \in Dn
  BY SchoolDnTyped DEF SchoolEvent, Object
<1>2. Kept(PutSchool(d, e.id, e.name)) /\ e.id \in Schools(PutSchool(d, e.id, e.name))
  BY <1>1, PutSchoolKeeps
<1>3. Kept(SetMapping(PutSchool(d, e.id, e.name), e.id, EventDn(e)))
  BY <1>1, <1>2, SetMappingKeeps DEF Stored
<1>4. Kept(HandleSchoolCreate(d, e))
  BY <1>2, <1>3 DEF HandleSchoolCreate
<1>5. ASSUME e.id \in Schools(d) PROVE Kept(HandleSchoolModify(d, e))
  <2>1. Kept(SetMapping(d, e.id, EventDn(e)))
    BY <1>1, <1>5, SetMappingKeeps DEF Stored
  <2> QED
    BY <1>1, <1>5, <2>1, PutSchoolKeeps DEF HandleSchoolModify
<1> QED
  BY <1>4, <1>5 DEF HandleSchoolModify

(***************************************************************************)
(* Events of the host groups (handle_host_group_*, _set_school_servers).   *)
(***************************************************************************)
LEMMA HostEventKeeps ==
  ASSUME NEW d, Kept(d), NEW e \in HostEvent
  PROVE  Kept(HandleHostGroup(d, e))
<1> DEFINE found == SchoolsNamed(d, {e.school})
           hosts == IF e.op = "delete" THEN {} ELSE e.hosts
<1>1. e.host_kind \in HostKind /\ hosts \in SUBSET Host /\ e.school \in SchoolName
  BY DEF HostEvent
<1>2. CASE found # {}
  <2> DEFINE s == CHOOSE s \in found : TRUE
  <2>1. s \in found
    BY <1>2
  <2>2. s \in Schools(d)
    BY <1>1, <2>1, StoreAssumption DEF SchoolsNamed, Schools, StoreAssumption
  <2>3. HandleHostGroup(d, e) = SetServers(d, s, e.host_kind, hosts)
    BY <1>2 DEF HandleHostGroup
  <2> QED
    BY <1>1, <2>2, <2>3, SetServersKeeps
<1> QED
  BY <1>2 DEF HandleHostGroup

(***************************************************************************)
(* Whatever event is handled, and whatever DNs it names, the database that *)
(* its transaction would leave keeps every reference, one primary school   *)
(* per user and a one-to-one DN mapping (KelvinConnectorEventHandler).     *)
(***************************************************************************)
THEOREM EventKeepsReferences ==
  ASSUME NEW d \in Database, ConstraintsHold(d), ReferencesHold(d), NEW e \in SyncEvent
  PROVE  HandleEvent(d, e) \in Database /\ ReferencesHold(HandleEvent(d, e))
<1>1. Kept(d) /\ SchoolsUnique(d)
  BY DEF Kept, SchoolsUnique, ConstraintsHold
<1>2. CASE e \in SchoolEvent
  BY <1>1, <1>2, SchoolEventKeeps DEF SchoolEvent, HandleEvent, Kept
<1>3. CASE e \in GroupEvent
  BY <1>1, <1>3, GroupEventKeeps DEF GroupEvent, HandleEvent, Kept
<1>4. CASE e \in UserEvent
  BY <1>1, <1>4, UserEventKeeps DEF UserEvent, HandleEvent, Kept
<1>5. CASE e \in HostEvent
  BY <1>1, <1>5, HostEventKeeps DEF HostEvent, HandleEvent, Kept
<1>6. CASE e \in DeleteEvent
  BY <1>1, <1>6, DeleteSchoolKeeps, DeleteGroupKeeps, DeleteUserKeeps
     DEF DeleteEvent, HandleEvent, HandleDelete, Kept
<1> QED
  BY <1>2, <1>3, <1>4, <1>5, <1>6 DEF SyncEvent

----------------------------------------------------------------------------
(* What an event may store *)

\* At most one object becomes stored between d and n.
StoresOnly(d, n, x) == \A y \in Object : Stored(n, y) => Stored(d, y) \/ y = x

\* The DN mapping is no object (set_mapping).
LEMMA MappingStoresNothing ==
  ASSUME NEW d \in Database, NEW x, NEW dn
  PROVE  /\ \A y : Stored(Unmap(d, x, dn), y) <=> Stored(d, y)
         /\ \A y : Stored(SetMapping(d, x, dn), y) <=> Stored(d, y)
BY DEF Database, Unmap, SetMapping, Stored, Schools, Groups, Users

\* Writing a user, a group or a school stores no other object.
LEMMA WritesOneObject ==
  ASSUME NEW d \in Database
  PROVE  /\ \A e \in UserEvent : StoresOnly(d, ApplyUser(d, e), e.id)
         /\ \A e \in GroupEvent : StoresOnly(d, ApplyGroup(d, e), e.id)
         /\ \A e \in GroupEvent : StoresOnly(d, NewGroup(d, e), e.id)
         /\ \A s \in School, name \in SchoolName : StoresOnly(d, PutSchool(d, s, name), s)
<1>1. ASSUME NEW n, NEW x, n.school = d.school, n.group = d.group,
             NEW name, n.user = [d.user EXCEPT ![x] = name]
      PROVE  StoresOnly(d, n, x)
  BY <1>1 DEF Database, StoresOnly, Stored, Schools, Groups, Users
<1>2. ASSUME NEW n, NEW x, n.school = d.school, n.user = d.user,
             NEW row, n.group = [d.group EXCEPT ![x] = row]
      PROVE  StoresOnly(d, n, x)
  BY <1>2 DEF Database, StoresOnly, Stored, Schools, Groups, Users
<1>3. ASSUME NEW n, NEW x, n.group = d.group, n.user = d.user,
             NEW name, n.school = [d.school EXCEPT ![x] = name]
      PROVE  StoresOnly(d, n, x)
  BY <1>3 DEF Database, StoresOnly, Stored, Schools, Groups, Users
<1>4. ASSUME NEW e \in UserEvent PROVE StoresOnly(d, ApplyUser(d, e), e.id)
  <2> DEFINE n == ApplyUser(d, e)
  <2>1. n.school = d.school /\ n.group = d.group /\ n.user = [d.user EXCEPT ![e.id] = e.name]
    BY DEF Database, ApplyUser, PutUser
  <2> QED
    BY <1>1, <2>1
<1>5. ASSUME NEW e \in GroupEvent PROVE StoresOnly(d, ApplyGroup(d, e), e.id)
  <2> DEFINE n == ApplyGroup(d, e)
             row == [name |-> e.name, school |-> TargetSchool(d, e)]
  <2>1. n.school = d.school /\ n.user = d.user /\ n.group = [d.group EXCEPT ![e.id] = row]
    BY DEF Database, ApplyGroup, ModifyGroup
  <2> QED
    BY <1>2, <2>1
<1>6. ASSUME NEW e \in GroupEvent PROVE StoresOnly(d, NewGroup(d, e), e.id)
  <2> DEFINE n == NewGroup(d, e)
             row == [name |-> e.name, school |-> TargetSchool(d, e)]
  <2>1. n.school = d.school /\ n.user = d.user /\ n.group = [d.group EXCEPT ![e.id] = row]
    BY DEF Database, NewGroup, CreateGroup
  <2> QED
    BY <1>2, <2>1
<1>7. ASSUME NEW s \in School, NEW name \in SchoolName
      PROVE  StoresOnly(d, PutSchool(d, s, name), s)
  <2> DEFINE n == PutSchool(d, s, name)
  <2>1. n.group = d.group /\ n.user = d.user /\ n.school = [d.school EXCEPT ![s] = name]
    BY DEF Database, PutSchool
  <2> QED
    BY <1>3, <2>1
<1> QED
  BY <1>4, <1>5, <1>6, <1>7

\* User events (_handle_user_create, _handle_user_modify).
LEMMA UserEventStores ==
  ASSUME NEW d, Kept(d), SchoolsUnique(d), NEW e \in UserEvent
  PROVE  /\ StoresOnly(d, HandleUserCreate(d, e), e.id)
         /\ StoresOnly(d, HandleUserModify(d, e), e.id)
<1> DEFINE a == ApplyUser(d, e)
           m == SetMapping(d, e.id, EventDn(e))
<1>1. e.id \in Object /\ EventDn(e) \in Dn
  BY UserDnTyped DEF UserEvent, Object
<1>2. a \in Database /\ StoresOnly(d, a, e.id)
  BY ApplyUserKeeps, WritesOneObject DEF Kept
<1>3. StoresOnly(d, SetMapping(a, e.id, EventDn(e)), e.id)
  BY <1>2, MappingStoresNothing DEF StoresOnly
<1>4. StoresOnly(d, HandleUserCreate(d, e), e.id)
  BY <1>2, <1>3 DEF HandleUserCreate, StoresOnly
<1>5. ASSUME e.id \in Users(d) PROVE StoresOnly(d, ApplyUser(m, e), e.id)
  <2>1. m \in Database
    BY <1>1, <1>5, SetMappingKeeps DEF Kept, Stored
  <2>2. \A y : Stored(m, y) <=> Stored(d, y)
    BY MappingStoresNothing DEF Kept
  <2> HIDE DEF m
  <2> QED
    BY <2>1, <2>2, WritesOneObject DEF StoresOnly
<1> QED
  BY <1>4, <1>5 DEF HandleUserModify

\* Group events (_handle_group_create, _handle_group_modify).
LEMMA GroupEventStores ==
  ASSUME NEW d, Kept(d), NEW e \in GroupEvent
  PROVE  /\ StoresOnly(d, HandleGroupCreate(d, e), e.id)
         /\ StoresOnly(d, HandleGroupModify(d, e), e.id)
<1> DEFINE a == ApplyGroup(d, e)
           b == NewGroup(d, e)
           m == Unmap(d, e.id, EventDn(e))
<1>1. e.id \in Group /\ e.id \in Object /\ EventDn(e) \in Dn
  BY GroupDnTyped DEF GroupEvent, Object
<1>2. StoresOnly(d, a, e.id) /\ StoresOnly(d, b, e.id)
  BY WritesOneObject DEF Kept
<1>3. ASSUME SchoolsNamed(d, {e.school}) # {}
      PROVE  StoresOnly(d, SetMapping(b, e.id, EventDn(e)), e.id)
  <2>1. b \in Database
    BY <1>3, NewGroupKeeps DEF Kept
  <2> QED
    BY <1>2, <2>1, MappingStoresNothing DEF StoresOnly
<1>4. StoresOnly(d, HandleGroupCreate(d, e), e.id)
  BY <1>2, <1>3 DEF HandleGroupCreate, StoresOnly
<1>5. ASSUME e.id \in Groups(d)
      PROVE  StoresOnly(d, SetMapping(ApplyGroup(m, e), e.id, EventDn(e)), e.id)
  <2>1. Kept(m) /\ m.group = d.group
    BY <1>1, UnmapKeeps
  <2>2. \A y : Stored(m, y) <=> Stored(d, y)
    BY MappingStoresNothing DEF Kept
  <2> HIDE DEF m
  <2>3. e.id \in Groups(m)
    BY <1>5, <2>1 DEF Groups
  <2>4. ApplyGroup(m, e) \in Database /\ StoresOnly(m, ApplyGroup(m, e), e.id)
    BY <2>1, <2>3, ApplyGroupKeeps, WritesOneObject DEF Kept
  <2> QED
    BY <2>2, <2>4, MappingStoresNothing DEF StoresOnly
<1> QED
  BY <1>4, <1>5 DEF HandleGroupModify

\* School events (_handle_school_create, _handle_school_modify).
LEMMA SchoolEventStores ==
  ASSUME NEW d, Kept(d), NEW e \in SchoolEvent
  PROVE  /\ StoresOnly(d, HandleSchoolCreate(d, e), e.id)
         /\ StoresOnly(d, HandleSchoolModify(d, e), e.id)
<1> DEFINE a == PutSchool(d, e.id, e.name)
           m == SetMapping(d, e.id, EventDn(e))
<1>1. e.id \in School /\ e.id \in Object /\ e.name \in SchoolName /\ EventDn(e) \in Dn
  BY SchoolDnTyped DEF SchoolEvent, Object
<1>2. a \in Database /\ StoresOnly(d, a, e.id)
  BY <1>1, PutSchoolKeeps, WritesOneObject DEF Kept
<1>3. StoresOnly(d, SetMapping(a, e.id, EventDn(e)), e.id)
  BY <1>2, MappingStoresNothing DEF StoresOnly
<1>4. StoresOnly(d, HandleSchoolCreate(d, e), e.id)
  BY <1>2, <1>3 DEF HandleSchoolCreate
<1>5. ASSUME e.id \in Schools(d) PROVE StoresOnly(d, PutSchool(m, e.id, e.name), e.id)
  <2>1. m \in Database
    BY <1>1, <1>5, SetMappingKeeps DEF Kept, Stored
  <2>2. \A y : Stored(m, y) <=> Stored(d, y)
    BY MappingStoresNothing DEF Kept
  <2> HIDE DEF m
  <2> QED
    BY <1>1, <2>1, <2>2, WritesOneObject DEF StoresOnly
<1> QED
  BY <1>4, <1>5 DEF HandleSchoolModify

\* Removals (_handle_*_delete): the object is gone, no other appears.
LEMMA RemovalStores ==
  ASSUME NEW d, Kept(d), NEW e \in DeleteEvent
  PROVE  /\ StoresOnly(d, HandleDelete(d, e), e.id)
         /\ ~Stored(HandleDelete(d, e), e.id)
<1> USE StoreAssumption DEF StoreAssumption
<1>1. ASSUME NEW s \in School
      PROVE  StoresOnly(d, DeleteSchool(d, s), s) /\ ~Stored(DeleteSchool(d, s), s)
  BY DEF Kept, Database, DeleteSchool, StoresOnly, Stored, Schools, Groups, Users
<1>2. ASSUME NEW g \in Group
      PROVE  StoresOnly(d, DeleteGroup(d, g), g) /\ ~Stored(DeleteGroup(d, g), g)
  BY DEF Kept, Database, DeleteGroup, StoresOnly, Stored, Schools, Groups, Users
<1>3. ASSUME NEW u \in User
      PROVE  StoresOnly(d, DeleteUser(d, u), u) /\ ~Stored(DeleteUser(d, u), u)
  BY DEF Kept, Database, DeleteUser, StoresOnly, Stored, Schools, Groups, Users
<1> QED
  BY <1>1, <1>2, <1>3 DEF DeleteEvent, HandleDelete

(***************************************************************************)
(* An event stores no object but its own, and the removal of an object     *)
(* leaves it not stored (KelvinConnectorEventHandler).                     *)
(***************************************************************************)
THEOREM EventStoresOwnObject ==
  ASSUME NEW d \in Database, ConstraintsHold(d), ReferencesHold(d), NEW e \in SyncEvent
  PROVE  /\ e.kind = "host" => \A y : Stored(HandleEvent(d, e), y) => Stored(d, y)
         /\ e.kind # "host" => StoresOnly(d, HandleEvent(d, e), e.id)
         /\ e.kind # "host" /\ e.op = "delete" => ~Stored(HandleEvent(d, e), e.id)
<1>1. Kept(d) /\ SchoolsUnique(d)
  BY DEF Kept, SchoolsUnique, ConstraintsHold
<1>2. CASE e \in SchoolEvent
  BY <1>1, <1>2, SchoolEventStores DEF SchoolEvent, HandleEvent
<1>3. CASE e \in GroupEvent
  BY <1>1, <1>3, GroupEventStores DEF GroupEvent, HandleEvent
<1>4. CASE e \in UserEvent
  BY <1>1, <1>4, UserEventStores DEF UserEvent, HandleEvent
<1>5. CASE e \in HostEvent
  <2>1. e.kind = "host" /\ HandleEvent(d, e) = HandleHostGroup(d, e)
    BY <1>5 DEF HostEvent, HandleEvent
  <2>2. \A s, kind, hosts : \A y : Stored(SetServers(d, s, kind, hosts), y) => Stored(d, y)
    BY DEF Database, SetServers, Stored, Schools, Groups, Users
  <2> QED
    BY <2>1, <2>2 DEF HandleHostGroup
<1>6. CASE e \in DeleteEvent
  <2>1. e.kind # "host" /\ e.op = "delete"
    BY <1>6 DEF DeleteEvent
  <2>2. HandleEvent(d, e) = HandleDelete(d, e)
    BY <2>1 DEF HandleEvent
  <2> QED
    BY <1>1, <1>6, <2>1, <2>2, RemovalStores
<1> QED
  BY <1>2, <1>3, <1>4, <1>5, <1>6 DEF SyncEvent

----------------------------------------------------------------------------
(* The directory and its events *)

DirKept(d) == d \in DirectoryType /\ ReferencesIntact(d)
DirObjects(d) == DirSchools(d) \cup DirGroups(d) \cup DirUsers(d)

\* Events of objects that exist in d; the first may be the removal of one of X.
EventsFit(d, events, X) ==
  \A i \in DOMAIN events :
    \/ events[i].kind = "host"
    \/ events[i].op # "delete" /\ events[i].id \in DirObjects(d)
    \/ i = 1 /\ events[i].id \in X \ DirObjects(d)

\* A change of d that creates, writes or removes no object outside X.
ChangeKept(d, c, X) ==
  /\ DirKept(c.dir)
  /\ c.events \in Seq(SyncEvent)
  /\ EventsFit(c.dir, c.events, X)
  /\ DirObjects(c.dir) \subseteq DirObjects(d) \cup X

Created == {e \in SyncEvent : e.op = "create"}
Rewrites(d) == {e \in SyncEvent : e.kind = "group" /\ e.op = "modify" /\ e.id \in DirGroups(d)}

----------------------------------------------------------------------------
(* Events are snapshots *)

\* The DN of an object of the directory.
LEMMA DirDnTyped ==
  ASSUME NEW d, DirKept(d), NEW x \in DirUsers(d) \cup DirGroups(d)
  PROVE  DirDn(d, x) \in Dn
<1> USE StoreAssumption DEF StoreAssumption
<1>1. CASE x \in DirGroups(d)
  <2>1. d.group[x].name \in GroupName
    BY <1>1 DEF DirKept, DirectoryType, DirGroups
  <2> QED
    BY <1>1, <2>1 DEF DirDn, Dn, DirUsers, DirGroups
<1>2. CASE x \in DirUsers(d)
  <2>1. d.user[x].name \in UserName /\ d.user[x].ou \in SchoolName
    BY <1>2 DEF DirKept, DirectoryType, DirUsers
  <2> QED
    BY <1>2, <2>1 DEF DirDn, Dn, DirUsers, DirGroups
<1> QED
  BY <1>1, <1>2

\* The event of a school (UDM container/ou).
LEMMA SchoolSnapshotTyped ==
  ASSUME NEW d, DirKept(d), NEW s \in DirSchools(d), NEW op \in {"create", "modify"}
  PROVE  SchoolSnapshot(d, op, s) \in SyncEvent
BY DEF DirKept, DirectoryType, DirSchools, SchoolSnapshot, SyncEvent, SchoolEvent

\* The event of a group (UDM groups/group), which names its users by DN.
LEMMA GroupSnapshotTyped ==
  ASSUME NEW d, DirKept(d), NEW g \in DirGroups(d), NEW op \in {"create", "modify"}
  PROVE  GroupSnapshot(d, op, g) \in SyncEvent
<1> DEFINE group == d.group[g]
           users == {DirDn(d, u) : u \in group.members}
           senders == {DirDn(d, x) : x \in group.senders}
<1>1. /\ group.name \in GroupName /\ group.school \in SchoolName
      /\ group.scope \in BOOLEAN /\ g \in Group
  BY DEF DirKept, DirectoryType, DirGroups
<1>2. users \subseteq Dn
  BY DirDnTyped DEF DirKept, ReferencesIntact
<1>3. senders \subseteq Dn
  BY DirDnTyped DEF DirKept, ReferencesIntact
<1>4. GroupSnapshot(d, op, g) =
        [kind |-> "group", op |-> op, id |-> g, scope |-> group.scope, name |-> group.name,
         school |-> group.school, users |-> users, senders |-> senders]
  BY DEF GroupSnapshot
<1> HIDE DEF group, users, senders
<1>5. GroupSnapshot(d, op, g) \in GroupEvent
  BY <1>1, <1>2, <1>3, <1>4 DEF GroupEvent
<1> QED
  BY <1>5 DEF SyncEvent

\* The event of a user (UDM users/user), which names its groups by DN.
LEMMA UserSnapshotTyped ==
  ASSUME NEW d, DirKept(d), NEW u \in DirUsers(d), NEW op \in {"create", "modify"}
  PROVE  UserSnapshot(d, op, u) \in SyncEvent
<1> DEFINE user == d.user[u]
           groups == {DirDn(d, g) : g \in GroupsOf(d, u)}
<1>1. /\ user.name \in UserName /\ user.ou \in SchoolName
      /\ user.schools \subseteq SchoolName /\ u \in User
  BY DEF DirKept, DirectoryType, DirUsers
<1>2. groups \subseteq Dn
  BY DirDnTyped DEF GroupsOf
<1>3. UserSnapshot(d, op, u) =
        [kind |-> "user", op |-> op, id |-> u, scope |-> TRUE, name |-> user.name,
         ou |-> user.ou, schools |-> user.schools, groups |-> groups]
  BY DEF UserSnapshot
<1> HIDE DEF user, groups
<1>4. UserSnapshot(d, op, u) \in UserEvent
  BY <1>1, <1>2, <1>3 DEF UserEvent
<1> QED
  BY <1>4 DEF SyncEvent

\* The event of a DC host group.
LEMMA HostSnapshotTyped ==
  ASSUME NEW d, DirKept(d), NEW h \in SchoolName \X HostKind,
         NEW op \in {"create", "modify", "delete"}
  PROVE  HostSnapshot(d, op, h) \in SyncEvent
<1>1. d.hosts[h] \in (SUBSET Host) \cup {NoRow}
  BY DEF DirKept, DirectoryType
<1>2. h[1] \in SchoolName /\ h[2] \in HostKind
  OBVIOUS
<1> DEFINE hosts == IF d.hosts[h] = NoRow THEN {} ELSE d.hosts[h]
<1>3. hosts \in SUBSET Host
  BY <1>1
<1>4. HostSnapshot(d, op, h) =
        [kind |-> "host", op |-> op, scope |-> TRUE, school |-> h[1], host_kind |-> h[2],
         hosts |-> hosts]
  BY DEF HostSnapshot
<1> HIDE DEF hosts
<1>5. HostSnapshot(d, op, h) \in HostEvent
  BY <1>2, <1>3, <1>4 DEF HostEvent
<1> QED
  BY <1>5 DEF SyncEvent

\* The event of a removed object carries nothing but its identifier.
LEMMA RemovalTyped ==
  ASSUME NEW scope \in BOOLEAN
  PROVE  /\ \A s \in School : Removal("school", s, scope) \in SyncEvent
         /\ \A g \in Group : Removal("group", g, scope) \in SyncEvent
         /\ \A u \in User : Removal("user", u, scope) \in SyncEvent
BY DEF Removal, SyncEvent, DeleteEvent

----------------------------------------------------------------------------
(* Sequences of events *)

\* The objects of a finite set, in some order (Prefill).
LEMMA SetToSeqTyped ==
  ASSUME NEW S, IsFiniteSet(S)
  PROVE  SetToSeq(S) \in [1..Cardinality(S) -> S] /\ Cardinality(S) \in Nat
<1>1. Cardinality(S) \in Nat /\ ExistsBijection(1..Cardinality(S), S)
  BY FS_CardinalityType
<1>2. PICK f : f \in [1..Cardinality(S) -> S] /\ IsInjective(f)
  BY <1>1 DEF ExistsBijection, Bijection, Injection
<1> QED
  BY <1>1, <1>2 DEF SetToSeq

\* The directory holds finitely many objects.
LEMMA DirFinite ==
  ASSUME NEW d
  PROVE  /\ IsFiniteSet(DirSchools(d)) /\ IsFiniteSet(DirGroups(d))
         /\ IsFiniteSet(DirUsers(d)) /\ IsFiniteSet(DirHostGroups(d))
<1> USE DirectoryAssumption DEF DirectoryAssumption
<1>1. /\ DirSchools(d) \in SUBSET School /\ DirGroups(d) \in SUBSET Group
      /\ DirUsers(d) \in SUBSET User /\ DirHostGroups(d) \in SUBSET (SchoolName \X HostKind)
  BY DEF DirSchools, DirGroups, DirUsers, DirHostGroups
<1> QED
  BY <1>1, FS_Subset

\* refint: the events of the groups a change of a user rewrites.
LEMMA GroupSnapshotsTyped ==
  ASSUME NEW d, DirKept(d), NEW gs \in SUBSET DirGroups(d)
  PROVE  GroupSnapshots(d, gs) \in Seq(Rewrites(d))
<1>1. IsFiniteSet(gs)
  BY DirFinite, FS_Subset
<1> DEFINE n == Cardinality(gs)
<1>2. n \in Nat /\ \A i \in 1..n : SetToSeq(gs)[i] \in gs
  BY <1>1, SetToSeqTyped
<1>3. \A i \in 1..n : GroupSnapshot(d, "modify", SetToSeq(gs)[i]) \in Rewrites(d)
  <2>1. ASSUME NEW g \in DirGroups(d) PROVE GroupSnapshot(d, "modify", g) \in Rewrites(d)
    BY GroupSnapshotTyped DEF Rewrites, GroupSnapshot
  <2> QED
    BY <1>2, <2>1
<1>4. GroupSnapshots(d, gs) = [i \in 1..n |-> GroupSnapshot(d, "modify", SetToSeq(gs)[i])]
  BY DEF GroupSnapshots
<1> HIDE DEF n
<1> QED
  BY <1>2, <1>3, <1>4

\* A change of one object comes before the groups rewritten for it (EditUser, RemoveUser).
LEMMA Followed ==
  ASSUME NEW d, NEW e \in SyncEvent, NEW rest \in Seq(Rewrites(d)), NEW X,
         \/ e.op # "delete" /\ e.id \in DirObjects(d)
         \/ e.id \in X \ DirObjects(d)
  PROVE  <<e>> \o rest \in Seq(SyncEvent) /\ EventsFit(d, <<e>> \o rest, X)
<1>1. rest \in Seq(SyncEvent)
  BY DEF Rewrites
<1> DEFINE all == <<e>> \o rest
<1>2. all \in Seq(SyncEvent) /\ all[1] = e
  BY <1>1
<1>3. ASSUME NEW i \in DOMAIN all, i # 1 PROVE all[i] \in Rewrites(d)
  BY <1>3
<1> HIDE DEF all
<1>4. EventsFit(d, all, X)
  BY <1>2, <1>3 DEF EventsFit, Rewrites, DirObjects
<1> QED
  BY <1>2, <1>4 DEF all

\* A change with one event.
LEMMA Alone ==
  ASSUME NEW d, NEW e \in SyncEvent, NEW X,
         \/ e.kind = "host"
         \/ e.op # "delete" /\ e.id \in DirObjects(d)
         \/ e.id \in X \ DirObjects(d)
  PROVE  <<e>> \in Seq(SyncEvent) /\ EventsFit(d, <<e>>, X)
BY DEF EventsFit

\* A prefill publishes well-formed events of every object there is.
LEMMA PrefillTyped ==
  ASSUME NEW d, DirKept(d)
  PROVE  PrefillEvents(d) \in Seq(Created)
<1> DEFINE schools == SetToSeq(DirSchools(d))
           groups == SetToSeq(DirGroups(d))
           hosts == SetToSeq(DirHostGroups(d))
           users == SetToSeq(DirUsers(d))
           a == [i \in DOMAIN schools |-> SchoolSnapshot(d, "create", schools[i])]
           b == [i \in DOMAIN groups |-> GroupSnapshot(d, "create", groups[i])]
           c == [i \in DOMAIN hosts |-> HostSnapshot(d, "create", hosts[i])]
           f == [i \in DOMAIN users |-> UserSnapshot(d, "create", users[i])]
<1>1. a \in Seq(Created)
  <2>1. PICK n \in Nat : schools \in [1..n -> DirSchools(d)]
    BY DirFinite, SetToSeqTyped
  <2>2. \A i \in 1..n : SchoolSnapshot(d, "create", schools[i]) \in Created
    BY <2>1, SchoolSnapshotTyped DEF Created, SchoolSnapshot
  <2> QED
    BY <2>1, <2>2
<1>2. b \in Seq(Created)
  <2>1. PICK n \in Nat : groups \in [1..n -> DirGroups(d)]
    BY DirFinite, SetToSeqTyped
  <2>2. \A i \in 1..n : GroupSnapshot(d, "create", groups[i]) \in Created
    BY <2>1, GroupSnapshotTyped DEF Created, GroupSnapshot
  <2> QED
    BY <2>1, <2>2
<1>3. c \in Seq(Created)
  <2>1. PICK n \in Nat : hosts \in [1..n -> DirHostGroups(d)]
    BY DirFinite, SetToSeqTyped
  <2>2. \A i \in 1..n : hosts[i] \in SchoolName \X HostKind
    BY <2>1 DEF DirHostGroups
  <2>3. \A i \in 1..n : HostSnapshot(d, "create", hosts[i]) \in Created
    BY <2>2, HostSnapshotTyped DEF Created, HostSnapshot
  <2> QED
    BY <2>1, <2>3
<1>4. f \in Seq(Created)
  <2>1. PICK n \in Nat : users \in [1..n -> DirUsers(d)]
    BY DirFinite, SetToSeqTyped
  <2>2. \A i \in 1..n : UserSnapshot(d, "create", users[i]) \in Created
    BY <2>1, UserSnapshotTyped DEF Created, UserSnapshot
  <2> QED
    BY <2>1, <2>2
<1>5. PrefillEvents(d) = a \o b \o c \o f
  BY DEF PrefillEvents
<1> HIDE DEF a, b, c, f
<1> QED
  BY <1>1, <1>2, <1>3, <1>4, <1>5

\* Create events are events.
LEMMA CreatedTyped ==
  ASSUME NEW d, DirKept(d)
  PROVE  PrefillEvents(d) \in Seq(SyncEvent)
<1>1. PrefillEvents(d) \in Seq(Created) /\ Created \subseteq SyncEvent
  BY PrefillTyped DEF Created
<1> HIDE DEF Created
<1> QED
  BY <1>1

----------------------------------------------------------------------------
(* Changes of the directory *)

GroupRow == [name : GroupName, school : SchoolName, members : SUBSET User,
             senders : SUBSET (Group \cup User), scope : BOOLEAN]
UserRow == [name : UserName, ou : SchoolName, schools : SUBSET SchoolName]

(***************************************************************************)
(* Adding, changing and removing a school leaves the users and groups      *)
(* alone.                                                                  *)
(***************************************************************************)
LEMMA SchoolChanges ==
  ASSUME NEW d, DirKept(d), NEW s \in School
  PROVE  /\ \A name \in SchoolName : ChangeKept(d, AddSchool(d, s, name), {s})
         /\ s \in DirSchools(d) => ChangeKept(d, EditSchool(d, s), {s})
         /\ ChangeKept(d, RemoveSchool(d, s), {s})
<1> USE StoreAssumption DEF StoreAssumption
<1>1. ASSUME NEW name \in SchoolName PROVE ChangeKept(d, AddSchool(d, s, name), {s})
  <2> DEFINE n == [d EXCEPT !.school[s] = name]
             e == SchoolSnapshot(n, "create", s)
  <2>1. /\ n.group = d.group /\ n.user = d.user /\ n.school = [d.school EXCEPT ![s] = name]
        /\ n \in DirectoryType
    BY DEF DirKept, DirectoryType
  <2>2. AddSchool(d, s, name) = [dir |-> n, events |-> <<e>>]
    BY DEF AddSchool, Change
  <2> HIDE DEF n
  <2>3. /\ DirKept(n) /\ DirSchools(n) = DirSchools(d) \cup {s}
        /\ DirGroups(n) = DirGroups(d) /\ DirUsers(n) = DirUsers(d)
    BY <2>1 DEF DirKept, DirectoryType, ReferencesIntact, DirGroups, DirUsers, DirSchools
  <2>4. e \in SyncEvent /\ e.op = "create" /\ e.id = s
    BY <2>3, SchoolSnapshotTyped DEF SchoolSnapshot
  <2> HIDE DEF e
  <2>5. <<e>> \in Seq(SyncEvent) /\ EventsFit(n, <<e>>, {s})
    BY <2>3, <2>4, Alone DEF DirObjects
  <2> QED
    BY <2>2, <2>3, <2>5 DEF ChangeKept, DirObjects
<1>2. ASSUME s \in DirSchools(d) PROVE ChangeKept(d, EditSchool(d, s), {s})
  <2> DEFINE e == SchoolSnapshot(d, "modify", s)
  <2>1. EditSchool(d, s) = [dir |-> d, events |-> <<e>>]
    BY DEF EditSchool, Change
  <2>2. e \in SyncEvent /\ e.op = "modify" /\ e.id = s
    BY <1>2, SchoolSnapshotTyped DEF SchoolSnapshot
  <2> HIDE DEF e
  <2>3. <<e>> \in Seq(SyncEvent) /\ EventsFit(d, <<e>>, {s})
    BY <1>2, <2>2, Alone DEF DirObjects
  <2> QED
    BY <2>1, <2>3 DEF ChangeKept
<1>3. ChangeKept(d, RemoveSchool(d, s), {s})
  <2> DEFINE n == [d EXCEPT !.school[s] = NoRow]
             e == Removal("school", s, TRUE)
  <2>1. /\ n.group = d.group /\ n.user = d.user /\ n.school = [d.school EXCEPT ![s] = NoRow]
        /\ n \in DirectoryType
    BY DEF DirKept, DirectoryType
  <2>2. RemoveSchool(d, s) = [dir |-> n, events |-> <<e>>] /\ e \in SyncEvent /\ e.id = s
    BY RemovalTyped DEF RemoveSchool, Change, Removal
  <2> HIDE DEF n, e
  <2>3. /\ DirKept(n) /\ DirSchools(n) = DirSchools(d) \ {s}
        /\ DirGroups(n) = DirGroups(d) /\ DirUsers(n) = DirUsers(d)
    BY <2>1 DEF DirKept, DirectoryType, ReferencesIntact, DirGroups, DirUsers, DirSchools
  <2>4. s \notin DirObjects(n)
    BY <2>3 DEF DirObjects, DirGroups, DirUsers
  <2>5. <<e>> \in Seq(SyncEvent) /\ EventsFit(n, <<e>>, {s})
    BY <2>2, <2>4, Alone
  <2> QED
    BY <2>2, <2>3, <2>5 DEF ChangeKept, DirObjects
<1> QED
  BY <1>1, <1>2, <1>3

\* A group is written with a row that names existing objects only.
LEMMA GroupWritten ==
  ASSUME NEW d, DirKept(d), NEW g \in Group, NEW row \in GroupRow,
         row.members \subseteq DirUsers(d),
         row.senders \subseteq DirUsers(d) \cup DirGroups(d),
         NEW op \in {"create", "modify"}
  PROVE  LET n == [d EXCEPT !.group[g] = row]
         IN ChangeKept(d, Change(n, <<GroupSnapshot(n, op, g)>>), {g})
<1> USE DirectoryAssumption DEF DirectoryAssumption, GroupRow
<1> DEFINE n == [d EXCEPT !.group[g] = row]
           e == GroupSnapshot(n, op, g)
<1>1. /\ n.group = [d.group EXCEPT ![g] = row] /\ n.user = d.user /\ n.school = d.school
      /\ n \in DirectoryType
  BY DEF DirKept, DirectoryType
<1> HIDE DEF n
<1>2. /\ DirUsers(n) = DirUsers(d) /\ DirSchools(n) = DirSchools(d)
      /\ DirGroups(n) = DirGroups(d) \cup {g}
  BY <1>1 DEF DirKept, DirectoryType, DirUsers, DirGroups, DirSchools
<1>3. \A h \in Group : n.group[h] = IF h = g THEN row ELSE d.group[h]
  BY <1>1 DEF DirKept, DirectoryType
<1>4. ReferencesIntact(n)
  BY <1>2, <1>3 DEF DirKept, ReferencesIntact, DirGroups
<1>5. DirKept(n) /\ e \in SyncEvent /\ e.op = op /\ e.id = g
  <2>1. DirKept(n) /\ g \in DirGroups(n)
    BY <1>1, <1>2, <1>4 DEF DirKept
  <2>2. e \in SyncEvent
    BY <2>1, GroupSnapshotTyped
  <2>3. e.op = op /\ e.id = g
    BY DEF GroupSnapshot
  <2> QED
    BY <2>1, <2>2, <2>3
<1> HIDE DEF e
<1>6. <<e>> \in Seq(SyncEvent) /\ EventsFit(n, <<e>>, {g})
  BY <1>2, <1>5, Alone DEF DirObjects
<1>7. ChangeKept(d, Change(n, <<e>>), {g})
  BY <1>2, <1>5, <1>6 DEF ChangeKept, Change, DirObjects
<1> QED
  BY <1>7 DEF n, e

\* A removed group is no longer an allowed sender of any other.
LEMMA GroupRemovedKeeps ==
  ASSUME NEW d, DirKept(d), NEW g \in DirGroups(d)
  PROVE  ChangeKept(d, RemoveGroup(d, g), {g})
<1> USE DirectoryAssumption, StoreAssumption DEF DirectoryAssumption, StoreAssumption
<1> DEFINE Without(h) == [d.group[h] EXCEPT !.senders = @ \ {g}]
           group == [h \in Group |-> IF h = g \/ d.group[h] = NoRow THEN NoRow ELSE Without(h)]
           n == [d EXCEPT !.group = group]
           e == Removal("group", g, d.group[g].scope)
<1>0. \A h \in DirGroups(d) : d.group[h] \in GroupRow
  BY DEF DirKept, DirectoryType, DirGroups, GroupRow
<1>1. \A h \in DirGroups(d) : /\ Without(h) \in GroupRow
                              /\ Without(h).members = d.group[h].members
                              /\ Without(h).senders = d.group[h].senders \ {g}
  BY <1>0 DEF GroupRow
<1>2. RemoveGroup(d, g) = [dir |-> n, events |-> <<e>>]
  BY Zenon DEF RemoveGroup, Change
<1> HIDE DEF Without
<1>3. group \in [Group -> GroupRow \cup {NoRow}]
  BY <1>1 DEF DirGroups
<1>4. /\ n.group = group /\ n.user = d.user /\ n.school = d.school
      /\ n \in DirectoryType
  BY <1>3 DEF DirKept, DirectoryType, GroupRow
<1> HIDE DEF n
<1>5. /\ DirUsers(n) = DirUsers(d) /\ DirSchools(n) = DirSchools(d)
      /\ DirGroups(n) = DirGroups(d) \ {g}
  <2>1. NoRow \notin GroupRow
    BY DEF GroupRow
  <2> QED
    BY <1>1, <1>4, <2>1 DEF DirUsers, DirGroups, DirSchools
<1>6. \A h \in DirGroups(n) : /\ n.group[h].members = d.group[h].members
                              /\ n.group[h].senders = d.group[h].senders \ {g}
  BY <1>1, <1>4, <1>5 DEF DirGroups
<1>7. DirKept(n)
  BY <1>4, <1>5, <1>6 DEF DirKept, ReferencesIntact
<1>8. e \in SyncEvent /\ e.id = g /\ g \notin DirObjects(n)
  <2>1. g \in Group /\ d.group[g].scope \in BOOLEAN
    BY <1>0 DEF DirGroups, GroupRow
  <2>2. e \in SyncEvent
    BY <2>1, RemovalTyped
  <2> QED
    BY <1>5, <2>1, <2>2 DEF Removal, DirObjects, DirSchools, DirUsers
<1> HIDE DEF e
<1>9. <<e>> \in Seq(SyncEvent) /\ EventsFit(n, <<e>>, {g})
  BY <1>8, Alone
<1> QED
  BY <1>2, <1>5, <1>7, <1>9 DEF ChangeKept, DirObjects

\* A change of the hosts of a DC host group.
LEMMA HostsChangedKeeps ==
  ASSUME NEW d, DirKept(d), NEW h \in SchoolName \X HostKind, NEW hosts \in (SUBSET Host) \cup {NoRow}
  PROVE  ChangeKept(d, SetHosts(d, h, hosts), {})
<1> DEFINE n == [d EXCEPT !.hosts[h] = hosts]
           op == IF d.hosts[h] = NoRow THEN "create" ELSE IF hosts = NoRow THEN "delete" ELSE "modify"
           e == HostSnapshot(n, op, h)
<1>1. n.group = d.group /\ n.user = d.user /\ n.school = d.school /\ n \in DirectoryType
  BY DEF DirKept, DirectoryType
<1>2. SetHosts(d, h, hosts) = Change(n, <<e>>)
  BY DEF SetHosts
<1>3. op \in {"create", "modify", "delete"}
  OBVIOUS
<1> HIDE DEF n, op
<1>4. /\ DirKept(n) /\ DirSchools(n) = DirSchools(d)
      /\ DirGroups(n) = DirGroups(d) /\ DirUsers(n) = DirUsers(d)
  BY <1>1 DEF DirKept, ReferencesIntact, DirGroups, DirUsers, DirSchools
<1>5. e \in SyncEvent /\ e.kind = "host"
  BY <1>3, <1>4, HostSnapshotTyped DEF HostSnapshot
<1> HIDE DEF e
<1>6. <<e>> \in Seq(SyncEvent) /\ EventsFit(n, <<e>>, {})
  BY <1>5, Alone
<1> QED
  BY <1>2, <1>4, <1>6 DEF ChangeKept, Change, DirObjects

\* A new user is in no group yet.
LEMMA UserAddedKeeps ==
  ASSUME NEW d, DirKept(d), NEW u \in User, NEW name \in UserName, NEW ou \in SchoolName,
         NEW schools \in SUBSET SchoolName
  PROVE  ChangeKept(d, AddUser(d, u, name, ou, schools), {u})
<1> USE DirectoryAssumption DEF DirectoryAssumption
<1> DEFINE row == [name |-> name, ou |-> ou, schools |-> schools]
           n == [d EXCEPT !.user[u] = row]
           e == UserSnapshot(n, "create", u)
<1>1. /\ n.user = [d.user EXCEPT ![u] = row] /\ n.group = d.group /\ n.school = d.school
      /\ n \in DirectoryType /\ row # NoRow
  BY DEF DirKept, DirectoryType
<1>2. AddUser(d, u, name, ou, schools) = Change(n, <<e>>)
  BY DEF AddUser
<1> HIDE DEF row, n
<1>3. /\ DirGroups(n) = DirGroups(d) /\ DirSchools(n) = DirSchools(d)
      /\ DirUsers(n) = DirUsers(d) \cup {u}
  BY <1>1 DEF DirKept, DirectoryType, DirUsers, DirGroups, DirSchools
<1>4. DirKept(n)
  BY <1>1, <1>3 DEF DirKept, ReferencesIntact
<1>5. e \in SyncEvent /\ e.op = "create" /\ e.id = u
  BY <1>3, <1>4, UserSnapshotTyped DEF UserSnapshot
<1> HIDE DEF e
<1>6. <<e>> \in Seq(SyncEvent) /\ EventsFit(n, <<e>>, {u})
  BY <1>3, <1>5, Alone DEF DirObjects
<1> QED
  BY <1>2, <1>3, <1>4, <1>6 DEF ChangeKept, Change, DirObjects

\* A changed user stays in groups only, and the groups it leaves lose it.
LEMMA UserEditedKeeps ==
  ASSUME NEW d, DirKept(d), NEW u \in DirUsers(d), NEW row \in UserRow
  PROVE  ChangeKept(d, EditUser(d, u, row), {u})
<1> USE DirectoryAssumption DEF DirectoryAssumption
<1> DEFINE left == {g \in GroupsOf(d, u) : d.group[g].school \notin row.schools}
           Without(g) == [d.group[g] EXCEPT !.members = @ \ {u}]
           group == [g \in Group |-> IF g \in left THEN Without(g) ELSE d.group[g]]
           n == [d EXCEPT !.user[u] = row, !.group = group]
           gs == IF row.name # d.user[u].name \/ row.ou # d.user[u].ou THEN GroupsOf(d, u) ELSE left
           e == UserSnapshot(n, "modify", u)
<1>0. /\ \A g \in DirGroups(d) : d.group[g] \in GroupRow
      /\ left \subseteq DirGroups(d) /\ gs \subseteq DirGroups(d) /\ u \in User
  BY DEF DirKept, DirectoryType, DirGroups, DirUsers, GroupRow, GroupsOf
<1>1. \A g \in DirGroups(d) : /\ Without(g) \in GroupRow
                              /\ Without(g).members = d.group[g].members \ {u}
                              /\ Without(g).senders = d.group[g].senders
  BY <1>0 DEF GroupRow
<1>2. EditUser(d, u, row) = Change(n, <<e>> \o GroupSnapshots(n, gs))
  BY DEF EditUser
<1> HIDE DEF left, gs, Without
<1>3. group \in [Group -> GroupRow \cup {NoRow}]
  BY <1>0, <1>1 DEF DirKept, DirectoryType, GroupRow
<1>4. /\ n.group = group /\ n.user = [d.user EXCEPT ![u] = row] /\ n.school = d.school
      /\ n \in DirectoryType
  BY <1>0, <1>3 DEF DirKept, DirectoryType, GroupRow, UserRow
<1> HIDE DEF n
<1>5. /\ DirUsers(n) = DirUsers(d) /\ DirGroups(n) = DirGroups(d)
      /\ DirSchools(n) = DirSchools(d)
  <2>1. NoRow \notin GroupRow /\ NoRow \notin UserRow
    BY DEF GroupRow, UserRow
  <2>2. \A g \in Group : n.group[g] # NoRow <=> d.group[g] # NoRow
    BY <1>0, <1>1, <1>4, <2>1 DEF DirGroups
  <2>3. \A v \in User : n.user[v] # NoRow <=> d.user[v] # NoRow
    BY <1>4, <2>1 DEF DirUsers, DirKept, DirectoryType
  <2> QED
    BY <1>4, <2>2, <2>3 DEF DirUsers, DirGroups, DirSchools
<1>6. \A g \in DirGroups(n) : /\ n.group[g].members \subseteq d.group[g].members
                              /\ n.group[g].senders = d.group[g].senders
  BY <1>1, <1>4, <1>5 DEF DirGroups
<1>7. DirKept(n)
  BY <1>4, <1>5, <1>6 DEF DirKept, ReferencesIntact
<1>8. e \in SyncEvent /\ e.op = "modify" /\ e.id = u /\ GroupSnapshots(n, gs) \in Seq(Rewrites(n))
  BY <1>0, <1>5, <1>7, UserSnapshotTyped, GroupSnapshotsTyped DEF UserSnapshot
<1> DEFINE all == <<e>> \o GroupSnapshots(n, gs)
<1> HIDE DEF e
<1>9. all \in Seq(SyncEvent) /\ EventsFit(n, all, {u})
  BY <1>5, <1>8, Followed DEF DirObjects
<1> HIDE DEF all
<1> QED
  BY <1>2, <1>5, <1>7, <1>9 DEF ChangeKept, Change, DirObjects, all

\* A removed user is no longer a member or an allowed sender of any group.
LEMMA UserRemovedKeeps ==
  ASSUME NEW d, DirKept(d), NEW u \in DirUsers(d)
  PROVE  ChangeKept(d, RemoveUser(d, u), {u})
<1> USE DirectoryAssumption, StoreAssumption DEF DirectoryAssumption, StoreAssumption
<1> DEFINE Without(g) == [d.group[g] EXCEPT !.members = @ \ {u}, !.senders = @ \ {u}]
           group == [g \in Group |-> IF d.group[g] = NoRow THEN NoRow ELSE Without(g)]
           n == [d EXCEPT !.user[u] = NoRow, !.group = group]
           e == Removal("user", u, TRUE)
<1>0. /\ \A g \in DirGroups(d) : d.group[g] \in GroupRow
      /\ GroupsOf(d, u) \subseteq DirGroups(d) /\ u \in User
  BY DEF DirKept, DirectoryType, DirGroups, DirUsers, GroupRow, GroupsOf
<1>1. \A g \in DirGroups(d) : /\ Without(g) \in GroupRow
                              /\ Without(g).members = d.group[g].members \ {u}
                              /\ Without(g).senders = d.group[g].senders \ {u}
  BY <1>0 DEF GroupRow
<1>2. /\ RemoveUser(d, u) = Change(n, <<e>> \o GroupSnapshots(n, GroupsOf(d, u)))
      /\ e \in SyncEvent /\ e.id = u
  BY <1>0, RemovalTyped DEF RemoveUser, Removal
<1> HIDE DEF Without, e
<1>3. group \in [Group -> GroupRow \cup {NoRow}]
  BY <1>1 DEF DirGroups
<1>4. /\ n.group = group /\ n.user = [d.user EXCEPT ![u] = NoRow] /\ n.school = d.school
      /\ n \in DirectoryType
  BY <1>0, <1>3 DEF DirKept, DirectoryType, GroupRow
<1> HIDE DEF n
<1>5. /\ DirUsers(n) = DirUsers(d) \ {u} /\ DirGroups(n) = DirGroups(d)
      /\ DirSchools(n) = DirSchools(d)
  <2>1. NoRow \notin GroupRow
    BY DEF GroupRow
  <2>2. \A g \in Group : n.group[g] # NoRow <=> d.group[g] # NoRow
    BY <1>1, <1>4, <2>1 DEF DirGroups
  <2> QED
    BY <1>4, <2>2 DEF DirUsers, DirGroups, DirSchools, DirKept, DirectoryType
<1>6. \A g \in DirGroups(n) : /\ n.group[g].members = d.group[g].members \ {u}
                              /\ n.group[g].senders = d.group[g].senders \ {u}
  BY <1>1, <1>4, <1>5 DEF DirGroups
<1>7. DirKept(n)
  BY <1>4, <1>5, <1>6 DEF DirKept, ReferencesIntact
<1>8. GroupSnapshots(n, GroupsOf(d, u)) \in Seq(Rewrites(n)) /\ u \notin DirObjects(n)
  BY <1>0, <1>5, <1>7, GroupSnapshotsTyped DEF DirObjects, DirSchools, DirGroups
<1> DEFINE all == <<e>> \o GroupSnapshots(n, GroupsOf(d, u))
<1>9. all \in Seq(SyncEvent) /\ EventsFit(n, all, {u})
  BY <1>2, <1>8, Followed
<1> HIDE DEF all
<1> QED
  BY <1>2, <1>5, <1>7, <1>9 DEF ChangeKept, Change, DirObjects, all

----------------------------------------------------------------------------
(* The changes that happen *)

\* A change of objects of the directory, or of objects that never had an event.
ChangeSubmitted ==
  \E operation, c, X :
    /\ ChangeKept(dir, c, X)
    /\ Submit(operation, c)
    /\ \A x \in X : x \in DirObjects(dir) \/ EventsOf(x) = {}

\* The witnesses of ChangeSubmitted (Submit).
LEMMA Submits ==
  ASSUME NEW operation, NEW c, NEW X, ChangeKept(dir, c, X), Submit(operation, c),
         \A x \in X : x \in DirObjects(dir) \/ EventsOf(x) = {}
  PROVE  ChangeSubmitted
BY DEF ChangeSubmitted

\* Changes of schools and of DC host groups.
LEMMA SchoolChangeSubmits ==
  ASSUME DirKept(dir), SchoolChange
  PROVE  ChangeSubmitted
<1>1. ASSUME NEW s \in School, NEW name \in SchoolName, SchoolAdded(s, name) PROVE ChangeSubmitted
  BY <1>1, SchoolChanges, Submits DEF SchoolAdded, Unused
<1>2. ASSUME NEW s \in DirSchools(dir), SchoolRemoved(s) PROVE ChangeSubmitted
  <2>1. s \in School /\ s \in DirObjects(dir) /\ Submit("school", RemoveSchool(dir, s))
    BY <1>2 DEF SchoolRemoved, DirSchools, DirObjects
  <2> QED
    BY <2>1, SchoolChanges, Submits
<1>3. ASSUME NEW s \in DirSchools(dir), SchoolEdited(s) PROVE ChangeSubmitted
  <2>1. s \in School /\ s \in DirObjects(dir)
    BY DEF DirSchools, DirObjects
  <2> QED
    BY <1>3, <2>1, SchoolChanges, Submits DEF SchoolEdited
<1>4. ASSUME NEW h \in SchoolName \X HostKind, NEW hosts \in (SUBSET Host) \cup {NoRow},
             HostsChanged(h, hosts)
      PROVE  ChangeSubmitted
  BY <1>4, HostsChangedKeeps, Submits DEF HostsChanged
<1> QED
  BY <1>1, <1>2, <1>3, <1>4 DEF SchoolChange

\* The changes that write one group; its new row names existing objects.
LEMMA GroupChangeSubmits ==
  ASSUME DirKept(dir), GroupChange
  PROVE  ChangeSubmitted
<1>1. ASSUME NEW g \in Group, NEW row \in GroupRow, NEW op,
             row.members \subseteq DirUsers(dir),
             row.senders \subseteq DirUsers(dir) \cup DirGroups(dir),
             g \in DirObjects(dir), Submit(op, EditGroup(dir, g, row))
      PROVE  ChangeSubmitted
  BY <1>1, GroupWritten, Submits DEF EditGroup
<1>2. ASSUME NEW g \in Group, NEW name \in GroupName, NEW sn \in DirSchoolNames(dir),
             NEW members \in SUBSET User, GroupAdded(g, name, sn, members)
      PROVE  ChangeSubmitted
  <2> DEFINE row == [name |-> name, school |-> sn, members |-> members, senders |-> {},
                     scope |-> TRUE]
             n == [dir EXCEPT !.group[g] = row]
  <2>1. sn \in SchoolName
    BY DEF DirKept, DirectoryType, DirSchoolNames, DirSchools
  <2>2. /\ row \in GroupRow /\ row.members \subseteq DirUsers(dir)
        /\ row.senders \subseteq DirUsers(dir) \cup DirGroups(dir)
    BY <1>2, <2>1 DEF GroupRow, GroupAdded, UsersOfSchool
  <2>3. Submit("group", Change(n, <<GroupSnapshot(n, "create", g)>>))
    BY <1>2 DEF GroupAdded, AddGroup
  <2> HIDE DEF row
  <2> QED
    BY <1>2, <2>2, <2>3, GroupWritten, Submits DEF GroupAdded, Unused
<1>3. ASSUME NEW g \in DirGroups(dir)
      PROVE  /\ g \in Group /\ g \in DirObjects(dir) /\ dir.group[g] \in GroupRow
             /\ dir.group[g].members \subseteq DirUsers(dir)
             /\ dir.group[g].senders \subseteq DirUsers(dir) \cup DirGroups(dir)
  BY DEF DirKept, DirectoryType, ReferencesIntact, DirGroups, DirObjects, GroupRow
<1>4. ASSUME NEW g \in DirGroups(dir), NEW members \in SUBSET User, MembersChanged(g, members)
      PROVE  ChangeSubmitted
  <2> DEFINE row == [dir.group[g] EXCEPT !.members = members]
  <2>1. /\ row \in GroupRow /\ row.members = members /\ row.senders = dir.group[g].senders
        /\ members \subseteq DirUsers(dir)
    BY <1>3, <1>4 DEF GroupRow, MembersChanged, UsersOfSchool
  <2>2. Submit("members", EditGroup(dir, g, row))
    BY <1>4 DEF MembersChanged
  <2> HIDE DEF row
  <2> QED
    BY <1>1, <1>3, <2>1, <2>2
<1>5. ASSUME NEW g \in DirGroups(dir), NEW name \in GroupName, GroupRenamed(g, name)
      PROVE  ChangeSubmitted
  <2> DEFINE row == [dir.group[g] EXCEPT !.name = name]
  <2>1. /\ row \in GroupRow /\ row.members = dir.group[g].members
        /\ row.senders = dir.group[g].senders
    BY <1>3 DEF GroupRow
  <2>2. Submit("rename", EditGroup(dir, g, row))
    BY <1>5 DEF GroupRenamed
  <2> HIDE DEF row
  <2> QED
    BY <1>1, <1>3, <2>1, <2>2
<1>6. ASSUME NEW g \in DirGroups(dir), NEW sn \in DirSchoolNames(dir), GroupMoved(g, sn)
      PROVE  ChangeSubmitted
  <2> DEFINE members == dir.group[g].members \cap UsersOfSchool(sn)
             placed == [dir.group[g] EXCEPT !.school = sn]
             row == [placed EXCEPT !.members = members]
  <2>1. sn \in SchoolName
    BY DEF DirKept, DirectoryType, DirSchoolNames, DirSchools
  <2>2. members \in SUBSET User /\ members \subseteq dir.group[g].members
    BY <1>3 DEF GroupRow
  <2>3. Submit("regroup", EditGroup(dir, g, row))
    BY <1>6 DEF GroupMoved
  <2> HIDE DEF members
  <2>4. placed \in GroupRow /\ placed.senders = dir.group[g].senders
    BY <1>3, <2>1 DEF GroupRow
  <2> HIDE DEF placed
  <2>5. row \in GroupRow /\ row.senders = placed.senders /\ row.members = members
    BY <2>2, <2>4 DEF GroupRow
  <2> HIDE DEF row
  <2> QED
    BY <1>1, <1>3, <2>2, <2>3, <2>4, <2>5
<1>7. ASSUME NEW g \in DirGroups(dir), NEW senders \in SUBSET (User \cup Group),
             SendersChanged(g, senders)
      PROVE  ChangeSubmitted
  <2> DEFINE row == [dir.group[g] EXCEPT !.senders = senders]
  <2>1. /\ row \in GroupRow /\ row.members = dir.group[g].members /\ row.senders = senders
        /\ senders \subseteq DirUsers(dir) \cup DirGroups(dir)
    BY <1>3, <1>7 DEF GroupRow, SendersChanged
  <2>2. Submit("senders", EditGroup(dir, g, row))
    BY <1>7 DEF SendersChanged
  <2> HIDE DEF row
  <2> QED
    BY <1>1, <1>3, <2>1, <2>2
<1>8. ASSUME NEW g \in DirGroups(dir), RoleLost(g) PROVE ChangeSubmitted
  <2> DEFINE row == [dir.group[g] EXCEPT !.scope = FALSE]
  <2>1. /\ row \in GroupRow /\ row.members = dir.group[g].members
        /\ row.senders = dir.group[g].senders
    BY <1>3 DEF GroupRow
  <2>2. Submit("role", EditGroup(dir, g, row))
    BY <1>8 DEF RoleLost
  <2> HIDE DEF row
  <2> QED
    BY <1>1, <1>3, <2>1, <2>2
<1>9. ASSUME NEW g \in DirGroups(dir), GroupRemoved(g) PROVE ChangeSubmitted
  <2>1. g \in DirObjects(dir) /\ Submit("group", RemoveGroup(dir, g))
    BY <1>9 DEF GroupRemoved, DirObjects
  <2> QED
    BY <2>1, GroupRemovedKeeps, Submits
<1> QED
  BY <1>2, <1>4, <1>5, <1>6, <1>7, <1>8, <1>9 DEF GroupChange

\* The changes of users; the groups a user leaves are rewritten.
LEMMA UserChangeSubmits ==
  ASSUME DirKept(dir), UserChange
  PROVE  ChangeSubmitted
<1>0. DirSchoolNames(dir) \subseteq SchoolName
  BY DEF DirKept, DirectoryType, DirSchoolNames, DirSchools
<1>1. ASSUME NEW schools \in SUBSET DirSchoolNames(dir), NEW ou \in schools,
             NEW name \in UserName, NEW u \in User, UserAdded(u, name, ou, schools)
      PROVE  ChangeSubmitted
  <2>1. ou \in SchoolName /\ schools \in SUBSET SchoolName
    BY <1>0
  <2> QED
    BY <1>0, <1>1, <2>1, UserAddedKeeps, Submits DEF UserAdded, Unused
<1>2. ASSUME NEW u \in DirUsers(dir) PROVE dir.user[u] \in UserRow /\ u \in DirObjects(dir)
  BY <1>0 DEF DirKept, DirectoryType, DirUsers, DirObjects, UserRow
<1>3. ASSUME NEW u \in DirUsers(dir), NEW name \in UserName, UserRenamed(u, name)
      PROVE  ChangeSubmitted
  <2> DEFINE row == [dir.user[u] EXCEPT !.name = name]
  <2>1. row \in UserRow
    BY <1>2 DEF UserRow
  <2>2. Submit("rename", EditUser(dir, u, row))
    BY <1>3 DEF UserRenamed
  <2> HIDE DEF row
  <2> QED
    BY <1>2, <2>1, <2>2, UserEditedKeeps, Submits
<1>4. ASSUME NEW u \in DirUsers(dir), NEW schools \in SUBSET DirSchoolNames(dir),
             NEW ou \in schools, UserMoved(u, ou, schools)
      PROVE  ChangeSubmitted
  <2> DEFINE row == [dir.user[u] EXCEPT !.ou = ou, !.schools = schools]
  <2>1. row \in UserRow
    BY <1>0, <1>2 DEF UserRow
  <2>2. Submit("move", EditUser(dir, u, row))
    BY <1>4 DEF UserMoved
  <2> HIDE DEF row
  <2> QED
    BY <1>2, <2>1, <2>2, UserEditedKeeps, Submits
<1>5. ASSUME NEW u \in DirUsers(dir), UserRemoved(u) PROVE ChangeSubmitted
  <2>1. u \in DirObjects(dir) /\ Submit("user", RemoveUser(dir, u))
    BY <1>5 DEF UserRemoved, DirObjects
  <2> QED
    BY <2>1, UserRemovedKeeps, Submits
<1> QED
  BY <1>1, <1>3, <1>4, <1>5 DEF UserChange

----------------------------------------------------------------------------
(* The inductive invariant *)

\* The process works on an event of the queue.
CurrentExists == pc \in {"fetched"} \cup D!Verdict => cur \in D!Events

IInv ==
  /\ TypeOK
  /\ ReferencesIntact(dir)
  /\ CurrentExists
  /\ StoreConsistent

\* The queue of a prefill holds one record per event (Prefill).
LEMMA PrefilledTyped ==
  ASSUME NEW events \in Seq(SyncEvent)
  PROVE  Prefilled(events) \in Seq(D!EventRecord) /\ Len(Prefilled(events)) = Len(events)
<1> DEFINE n == Len(events)
<1>1. n \in Nat /\ DOMAIN events = 1..n /\ DOMAIN Classes(events) = 1..n
  BY DEF Classes
<1>2. \A i \in 1..n : Classes(events)[i] \in D!Class
  BY <1>1 DEF Classes, D!Class
<1>3. \A i \in 1..n : D!FreshEvent(Classes(events)[i]) \in D!EventRecord
  BY <1>2 DEF D!FreshEvent, D!EventRecord
<1>4. Prefilled(events) = [i \in 1..n |-> D!FreshEvent(Classes(events)[i])]
  BY <1>1 DEF Prefilled
<1> HIDE DEF n
<1>5. Prefilled(events) \in Seq(D!EventRecord) /\ Len(Prefilled(events)) = n
  BY <1>1, <1>3, <1>4
<1> QED
  BY <1>5 DEF n

\* Provisioning appends one record per event (Publish).
LEMMA Published ==
  ASSUME queue \in Seq(D!EventRecord), NEW events \in Seq(SyncEvent),
         D!Publish(Classes(events))
  PROVE  queue' = queue \o Prefilled(events)
<1>1. Len(Classes(events)) = Len(events) /\ DOMAIN events = 1..Len(events)
  BY DEF Classes
<1>2. Prefilled(events) = [i \in 1..Len(Classes(events)) |-> D!FreshEvent(Classes(events)[i])]
  BY <1>1 DEF Prefilled
<1> QED
  BY <1>2 DEF D!Publish

\* Appending keeps the type and adds the lengths.
LEMMA Appended ==
  ASSUME NEW S, NEW q \in Seq(S), NEW r \in Seq(S)
  PROVE  q \o r \in Seq(S) /\ Len(q \o r) = Len(q) + Len(r)
OBVIOUS

\* A change of the directory only adds to the queue (Submit).
LEMMA SubmitKeeps ==
  ASSUME IInv, ChangeSubmitted
  PROVE  IInv'
<1> USE ConnectorAssumption DEF ConnectorAssumption
<1> PICK operation, c, X : ChangeKept(dir, c, X) /\ Submit(operation, c)
  BY DEF ChangeSubmitted
<1>1. queue' = queue \o Prefilled(c.events)
  BY Published DEF IInv, TypeOK, D!TypeOK, Submit, ChangeKept
<1>2. /\ Prefilled(c.events) \in Seq(D!EventRecord) /\ c.events \in Seq(SyncEvent)
      /\ Len(Prefilled(c.events)) = Len(c.events)
  BY PrefilledTyped DEF ChangeKept
<1>3. /\ queue' \in Seq(D!EventRecord) /\ Len(queue') = Len(queue) + Len(c.events)
      /\ log' \in Seq(SyncEvent) /\ Len(log') = Len(log) + Len(c.events)
      /\ DOMAIN queue \subseteq DOMAIN queue'
  <2> DEFINE es == c.events
             new == Prefilled(es)
  <2>1. /\ queue \in Seq(D!EventRecord) /\ new \in Seq(D!EventRecord) /\ queue' = queue \o new
        /\ Len(new) = Len(es)
    BY <1>1, <1>2 DEF IInv, TypeOK, D!TypeOK
  <2>2. log \in Seq(SyncEvent) /\ es \in Seq(SyncEvent) /\ log' = log \o es
    BY <1>2 DEF IInv, TypeOK, Submit
  <2> HIDE DEF es, new
  <2>3. queue' \in Seq(D!EventRecord) /\ Len(queue') = Len(queue) + Len(es)
    BY <2>1, Appended
  <2>4. DOMAIN queue \subseteq DOMAIN queue'
    <3>1. Len(es) \in Nat /\ DOMAIN queue = 1..Len(queue) /\ DOMAIN queue' = 1..Len(queue')
      BY <2>1, <2>2, <2>3
    <3> QED
      BY <2>1, <2>3, <3>1
  <2>5. log' \in Seq(SyncEvent) /\ Len(log') = Len(log) + Len(es)
    BY <2>2
  <2> QED
    BY <2>3, <2>4, <2>5 DEF es
<1>4. UNCHANGED <<pc, cur, crashes, db>> /\ dir' = c.dir
  BY DEF Submit, D!Publish
<1>5. used' \in [changes : 0..MaxChanges, faults : 0..MaxFaults,
                resubscriptions : 0..MaxResubscriptions]
  <2>1. MaxChanges \in Nat
    OBVIOUS
  <2>2. /\ used \in [changes : 0..MaxChanges, faults : 0..MaxFaults,
                    resubscriptions : 0..MaxResubscriptions]
        /\ used.changes < MaxChanges /\ used' = [used EXCEPT !.changes = @ + 1]
    BY DEF IInv, TypeOK, Submit
  <2> QED
    BY <2>1, <2>2
<1>6. D!TypeOK' /\ CurrentExists'
  BY <1>3, <1>4 DEF IInv, TypeOK, D!TypeOK, CurrentExists, D!Events
<1>7. TypeOK'
  BY <1>3, <1>4, <1>5, <1>6 DEF IInv, TypeOK, ChangeKept, DirKept
<1> QED
  BY <1>4, <1>6, <1>7 DEF IInv, StoreConsistent, ChangeKept, DirKept

----------------------------------------------------------------------------
(* The steps of the connector process *)

\* One record of the queue is replaced (num_delivered, acknowledgement, commit).
LEMMA RecordReplaced ==
  ASSUME queue \in Seq(D!EventRecord), NEW i \in D!Events, NEW r \in D!EventRecord,
         queue' = [queue EXCEPT ![i] = r]
  PROVE  queue' \in Seq(D!EventRecord) /\ Len(queue') = Len(queue)
BY DEF D!Events

Attempt == D!Handle \/ \E committed \in BOOLEAN : D!HandlerError(committed)

QueueKept == D!TypeOK' /\ Len(queue') = Len(queue) /\ CurrentExists'

\* Handling the current event, successfully or not, only counts a commit.
LEMMA AttemptKeeps ==
  ASSUME IInv, Attempt
  PROVE  QueueKept /\ cur \in D!Events
<1>1. cur \in D!Events /\ pc = "fetched" /\ queue[cur] \in D!EventRecord
  BY DEF IInv, TypeOK, D!TypeOK, CurrentExists, Attempt, D!Handle, D!HandlerError, D!Events
<1> DEFINE r == [queue[cur] EXCEPT !.commits = @ + 1]
<1>2. r \in D!EventRecord
  BY <1>1 DEF D!EventRecord
<1>3. queue' = queue \/ queue' = [queue EXCEPT ![cur] = r]
  BY DEF Attempt, D!Handle, D!HandlerError
<1> HIDE DEF r
<1>4. queue' \in Seq(D!EventRecord) /\ Len(queue') = Len(queue)
  BY <1>1, <1>2, <1>3, RecordReplaced DEF IInv, TypeOK, D!TypeOK
<1>5. /\ crashes' = crashes
      /\ \/ pc' \in D!Verdict /\ cur' = cur
         \/ pc' = "down" /\ cur' = 0
  BY DEF Attempt, D!Handle, D!HandlerError, D!Crash, D!Verdict
<1> QED
  BY <1>1, <1>4, <1>5 DEF IInv, TypeOK, QueueKept, D!TypeOK, CurrentExists, D!Events, D!Verdict

\* Fetching, acknowledging, crashing and restarting.
LEMMA DeliveryKeeps ==
  ASSUME IInv,
         \/ \E i \in D!Events : D!Fetch(i)
         \/ D!SkipIrrelevant \/ D!Acknowledge \/ D!Restart \/ D!Kill
         \/ \E reached \in BOOLEAN : D!AcknowledgeFails(reached)
  PROVE  QueueKept
<1> USE ConnectorAssumption DEF ConnectorAssumption
<1>1. CASE \E i \in D!Events : D!Fetch(i)
  <2>1. PICK i \in D!Events : D!Fetch(i)
    BY <1>1
  <2> DEFINE r == [queue[i] EXCEPT !.delivered = D!OneMore(@)]
  <2>2. queue[i] \in D!EventRecord
    BY DEF IInv, TypeOK, D!TypeOK, D!Events
  <2>3. r \in D!EventRecord
    BY <2>2 DEF D!EventRecord, D!OneMore
  <2>4. queue' = [queue EXCEPT ![i] = r]
    BY <2>1 DEF D!Fetch
  <2> HIDE DEF r
  <2>5. queue' \in Seq(D!EventRecord) /\ Len(queue') = Len(queue)
    BY <2>3, <2>4, RecordReplaced DEF IInv, TypeOK, D!TypeOK
  <2> QED
    BY <2>1, <2>5 DEF IInv, TypeOK, QueueKept, D!TypeOK, CurrentExists, D!Events, D!Fetch
<1>2. ASSUME pc \in D!Verdict, D!SettleCurrent
      PROVE  queue' \in Seq(D!EventRecord) /\ Len(queue') = Len(queue)
  <2> DEFINE r == [queue[cur] EXCEPT !.outcome = pc]
  <2>1. cur \in D!Events /\ queue[cur] \in D!EventRecord
    BY <1>2 DEF IInv, TypeOK, D!TypeOK, D!Events, CurrentExists
  <2>2. r \in D!EventRecord
    BY <1>2, <2>1 DEF D!EventRecord
  <2>3. queue' = [queue EXCEPT ![cur] = r]
    BY <1>2 DEF D!SettleCurrent
  <2> HIDE DEF r
  <2> QED
    BY <2>1, <2>2, <2>3, RecordReplaced DEF IInv, TypeOK, D!TypeOK
<1>3. CASE D!Acknowledge
  BY <1>2, <1>3 DEF IInv, TypeOK, QueueKept, D!TypeOK, CurrentExists, D!Verdict, D!Acknowledge
<1>4. CASE \E reached \in BOOLEAN : D!AcknowledgeFails(reached)
  <2>1. queue' \in Seq(D!EventRecord) /\ Len(queue') = Len(queue)
    BY <1>2, <1>4 DEF IInv, TypeOK, D!TypeOK, D!AcknowledgeFails
  <2> QED
    BY <1>4, <2>1 DEF IInv, TypeOK, QueueKept, D!TypeOK, CurrentExists, D!Verdict,
                      D!AcknowledgeFails, D!Crash
<1>5. CASE D!Kill
  BY <1>5 DEF IInv, TypeOK, QueueKept, D!TypeOK, CurrentExists, D!Verdict, D!Kill, D!Crash
<1>6. CASE D!SkipIrrelevant \/ D!Restart
  BY <1>6 DEF IInv, TypeOK, QueueKept, D!TypeOK, CurrentExists, D!Verdict, D!Events,
              D!SkipIrrelevant, D!Restart
<1> QED
  BY <1>1, <1>3, <1>4, <1>5, <1>6

UsedType == [changes : 0..MaxChanges, faults : 0..MaxFaults,
             resubscriptions : 0..MaxResubscriptions]

\* Handling, failing and the other steps of the process, and crashes.
LEMMA ProcessKeeps ==
  ASSUME IInv, Process \/ Disturb \/ \E committed \in BOOLEAN : DatabaseFault(committed)
  PROVE  IInv'
<1>1. QueueKept
  BY AttemptKeeps, DeliveryKeeps
     DEF Process, Disturb, Deliver, HandleCurrent, HandlerRaises, DatabaseFault, Attempt
<1>2. log' = log /\ dir' = dir
  BY DEF Process, Disturb, Deliver, HandleCurrent, HandlerRaises, DatabaseFault, Others
<1>3. used' \in UsedType
  <2>1. MaxFaults \in Nat /\ used \in UsedType
    BY ConnectorAssumption DEF ConnectorAssumption, IInv, TypeOK, UsedType
  <2>2. CASE Process \/ Disturb
    BY <2>1, <2>2 DEF Process, Disturb, Deliver, HandleCurrent, HandlerRaises, Others
  <2>3. CASE \E committed \in BOOLEAN : DatabaseFault(committed)
    <3>1. used.faults < MaxFaults /\ used' = [used EXCEPT !.faults = @ + 1]
      BY <2>3 DEF DatabaseFault
    <3> QED
      BY <2>1, <3>1 DEF UsedType
  <2> QED
    BY <2>2, <2>3
<1>4. \/ db' = db
      \/ Attempt /\ ~HandlerFails(db, log[cur]) /\ db' = HandleEvent(db, log[cur])
  BY DEF Process, Disturb, Deliver, HandleCurrent, HandlerRaises, DatabaseFault, Attempt
<1>5. ASSUME Attempt, ~HandlerFails(db, log[cur]), db' = HandleEvent(db, log[cur])
      PROVE  db' \in Database /\ StoreConsistent'
  <2>1. log[cur] \in SyncEvent
    BY <1>5, AttemptKeeps DEF IInv, TypeOK, D!TypeOK, D!Events
  <2>2. db \in Database /\ ConstraintsHold(db) /\ ReferencesHold(db)
    BY DEF IInv, TypeOK, StoreConsistent
  <2>3. db' \in Database /\ ReferencesHold(db')
    BY <1>5, <2>1, <2>2, EventKeepsReferences
  <2>4. ConstraintsHold(db')
    BY <1>5 DEF HandlerFails
  <2> QED
    BY <2>3, <2>4 DEF StoreConsistent
<1>6. db' \in Database /\ StoreConsistent'
  BY <1>4, <1>5 DEF IInv, TypeOK, StoreConsistent
<1>7. TypeOK'
  BY <1>1, <1>2, <1>3, <1>6 DEF IInv, TypeOK, QueueKept, UsedType
<1> QED
  BY <1>1, <1>2, <1>6, <1>7 DEF IInv, QueueKept

\* A new subscription starts with the events of a prefill (Resubscribe).
LEMMA ResubscribeKeeps ==
  ASSUME IInv, Resubscribe
  PROVE  IInv'
<1>1. log' \in Seq(SyncEvent)
  <2>1. DirKept(dir) /\ log' = PrefillEvents(dir)
    BY DEF Resubscribe, IInv, TypeOK, DirKept
  <2> QED
    BY <2>1, CreatedTyped
<1>2. queue' \in Seq(D!EventRecord) /\ Len(log') = Len(queue')
  BY <1>1, PrefilledTyped DEF Resubscribe
<1>3. used' \in UsedType
  <2>1. MaxResubscriptions \in Nat /\ used \in UsedType
    BY ConnectorAssumption DEF ConnectorAssumption, IInv, TypeOK, UsedType
  <2>2. /\ used.resubscriptions < MaxResubscriptions
        /\ used' = [used EXCEPT !.resubscriptions = @ + 1]
    BY DEF Resubscribe
  <2> QED
    BY <2>1, <2>2 DEF UsedType
<1>4. /\ pc' = "down" /\ cur' = 0
      /\ crashes' = crashes /\ dir' = dir /\ db' = db
  BY DEF Resubscribe
<1>5. D!TypeOK' /\ CurrentExists'
  BY <1>2, <1>4 DEF IInv, TypeOK, D!TypeOK, CurrentExists, D!Verdict
<1>6. TypeOK'
  BY <1>1, <1>2, <1>3, <1>4, <1>5 DEF IInv, TypeOK, UsedType
<1> QED
  BY <1>4, <1>5, <1>6 DEF IInv, StoreConsistent

----------------------------------------------------------------------------
(* The theorems *)

\* A first prefill into an empty database.
LEMMA InitInv == Init => IInv
<1> SUFFICES ASSUME Init PROVE IInv
  OBVIOUS
<1> USE ConnectorAssumption DEF ConnectorAssumption
<1>1. DirKept(dir)
  BY DEF Init, DirKept
<1>2. log \in Seq(SyncEvent) /\ queue \in Seq(D!EventRecord) /\ Len(log) = Len(queue)
  <2>1. log \in Seq(SyncEvent)
    BY <1>1, CreatedTyped DEF Init
  <2> QED
    BY <2>1, PrefilledTyped DEF Init
<1>3. D!TypeOK /\ CurrentExists
  <2>1. MaxCrashes \in Nat
    OBVIOUS
  <2> QED
    BY <1>2, <2>1 DEF Init, D!TypeOK, CurrentExists, D!Verdict
<1>4. EmptyDatabase \in Database
  BY DEF EmptyDatabase, Database
<1>5. StoreConsistent
  BY DEF Init, EmptyDatabase, StoreConsistent, ConstraintsHold, ReferencesHold, MembershipsHold,
         LinksHold, MappingHolds, Schools, Groups, Users
<1>6. used \in UsedType
  <2>1. MaxChanges \in Nat /\ MaxFaults \in Nat /\ MaxResubscriptions \in Nat
    OBVIOUS
  <2> QED
    BY <2>1 DEF Init, UsedType
<1> QED
  BY <1>1, <1>2, <1>3, <1>4, <1>5, <1>6 DEF Init, IInv, TypeOK, DirKept, UsedType

\* One step, whoever takes it.
LEMMA NextInv == IInv /\ [Next]_vars => IInv'
<1>1. ASSUME IInv, UNCHANGED vars PROVE IInv'
  BY <1>1 DEF vars, IInv, TypeOK, D!TypeOK, CurrentExists, D!Events, StoreConsistent
<1>2. ASSUME IInv, SchoolChange \/ GroupChange \/ UserChange PROVE IInv'
  <2>1. DirKept(dir)
    BY <1>2 DEF IInv, TypeOK, DirKept
  <2> QED
    BY <1>2, <2>1, SchoolChangeSubmits, GroupChangeSubmits, UserChangeSubmits, SubmitKeeps
<1> QED
  BY <1>1, <1>2, ProcessKeeps, ResubscribeKeeps DEF Next

\* The inductive invariant holds in every reachable state of the connector.
LEMMA Invariance == Spec => []IInv
BY InitInv, NextInv, PTL DEF Spec

\* The types of the connector's state (KelvinConsumerModule, KelvinStore).
THEOREM TypeCorrect == Spec => []TypeOK
<1>1. IInv => TypeOK
  BY DEF IInv
<1> QED
  BY <1>1, Invariance, PTL

(***************************************************************************)
(* Whatever changes, crashes, faults, retries, drops and prefills occur,   *)
(* references never outlive what they refer to, a user has at most one     *)
(* primary school, and the DN mapping is one-to-one (KelvinStore).         *)
(***************************************************************************)
THEOREM StoreStaysConsistent == Spec => []StoreConsistent
<1>1. IInv => StoreConsistent
  BY DEF IInv
<1> QED
  BY <1>1, Invariance, PTL
----------------------------------------------------------------------------
(***************************************************************************)
(* RemovedStaysRemoved.  A modify event creates an object it does not find,*)
(* so a removed object stays removed for two reasons only: its removal is  *)
(* the last event about it that the directory publishes, and an event is   *)
(* committed when everything before it has been settled.  RInv says this.  *)
(***************************************************************************)

About(e, x) == e.kind # "host" /\ e.id = x
Removes(e) == e.kind # "host" /\ e.op = "delete"

\* No event behind the removal of an object is about it.
RemovalIsLast ==
  \A i, k \in DOMAIN log : i < k /\ Removes(log[i]) => ~About(log[k], log[i].id)

\* An object is published as removed only when it is gone, and does not return.
RemovedIsGone ==
  \A i \in DOMAIN log : Removes(log[i]) => log[i].id \notin DirObjects(dir)

\* An event is committed only when the events before it have been settled.
CommitsInOrder ==
  \A i, k \in D!Events : k < i /\ queue[i].commits > 0 => D!Acked(k)

CurrentIsOldest == pc \in {"fetched"} \cup D!Verdict => D!OldestPending(cur)

RInv ==
  /\ RemovalIsLast
  /\ RemovedIsGone
  /\ CommitsInOrder
  /\ CurrentIsOldest
  /\ RemovedStaysRemoved

----------------------------------------------------------------------------
(* What the directory publishes *)

\* Of the events a change publishes only the first may be a removal.
LEMMA ChangeIsFit ==
  ASSUME NEW c, NEW X, ChangeKept(dir, c, X), NEW j \in DOMAIN c.events
  PROVE  /\ Removes(c.events[j]) => j = 1 /\ c.events[j].id \in X \ DirObjects(c.dir)
         /\ c.events[j].kind # "host" => c.events[j].id \in DirObjects(c.dir) \cup X
         /\ c.events[j].kind # "host" /\ j # 1 => c.events[j].id \in DirObjects(c.dir)
BY DEF ChangeKept, EventsFit, Removes

\* A removed object is neither changed nor added again (Unused).
LEMMA RemovedIsNotChanged ==
  ASSUME RemovedIsGone, NEW X, NEW i \in DOMAIN log, Removes(log[i]),
         \A x \in X : x \in DirObjects(dir) \/ EventsOf(x) = {}
  PROVE  log[i].id \notin DirObjects(dir) \cup X
<1>1. log[i].id \notin DirObjects(dir)
  BY DEF RemovedIsGone
<1>2. i \in EventsOf(log[i].id)
  BY DEF EventsOf, Removes
<1> QED
  BY <1>1, <1>2

\* A change of the directory keeps removals final (Submit).
LEMMA SubmitKeepsRemovals ==
  ASSUME IInv, RemovalIsLast, RemovedIsGone, ChangeSubmitted
  PROVE  RemovalIsLast' /\ RemovedIsGone'
<1> PICK operation, c, X : /\ ChangeKept(dir, c, X) /\ Submit(operation, c)
                           /\ \A x \in X : x \in DirObjects(dir) \/ EventsOf(x) = {}
  BY DEF ChangeSubmitted
<1> DEFINE es == c.events
           n == Len(log)
<1>1. es \in Seq(SyncEvent) /\ log \in Seq(SyncEvent) /\ log' = log \o es /\ dir' = c.dir
  BY DEF ChangeKept, IInv, TypeOK, Submit
<1>2. DirObjects(dir') \subseteq DirObjects(dir) \cup X
  BY <1>1 DEF ChangeKept
<1>3. ASSUME NEW j \in DOMAIN es
      PROVE  /\ Removes(es[j]) => j = 1 /\ es[j].id \in X \ DirObjects(dir')
             /\ es[j].kind # "host" => es[j].id \in DirObjects(dir') \cup X
             /\ es[j].kind # "host" /\ j # 1 => es[j].id \in DirObjects(dir')
  BY <1>1, <1>3, ChangeIsFit
<1>4. \A i \in DOMAIN log : Removes(log[i]) => log[i].id \notin DirObjects(dir) \cup X
  BY RemovedIsNotChanged
<1> HIDE DEF es
<1>5. n \in Nat /\ Len(es) \in Nat /\ DOMAIN log = 1..n /\ DOMAIN es = 1..Len(es)
  BY <1>1
<1> HIDE DEF n
<1>6. ASSUME NEW i \in DOMAIN log'
      PROVE  /\ i \in Nat
             /\ \/ i \in DOMAIN log /\ log'[i] = log[i]
                \/ i > n /\ i - n \in DOMAIN es /\ log'[i] = es[i - n]
  BY <1>1, <1>5 DEF n
<1>7. RemovedIsGone'
  <2> SUFFICES ASSUME NEW i \in DOMAIN log', Removes(log'[i])
               PROVE  log'[i].id \notin DirObjects(dir')
    BY DEF RemovedIsGone, Removes
  <2>1. CASE i \in DOMAIN log /\ log'[i] = log[i]
    BY <1>2, <1>4, <2>1
  <2>2. CASE i - n \in DOMAIN es /\ log'[i] = es[i - n]
    BY <1>3, <2>2
  <2> QED
    BY <1>6, <2>1, <2>2
<1>8. RemovalIsLast'
  <2> SUFFICES ASSUME NEW i \in DOMAIN log', NEW k \in DOMAIN log', i < k, Removes(log'[i]),
                      log'[k].kind # "host", log'[k].id = log'[i].id
               PROVE  FALSE
    BY DEF RemovalIsLast, Removes, About
  <2>1. CASE k \in DOMAIN log /\ log'[k] = log[k]
    <3>1. i \in DOMAIN log /\ log'[i] = log[i]
      BY <1>5, <1>6, <2>1
    <3> QED
      BY <2>1, <3>1 DEF RemovalIsLast, About
  <2>2. CASE k > n /\ k - n \in DOMAIN es /\ log'[k] = es[k - n]
    <3>1. CASE i \in DOMAIN log /\ log'[i] = log[i]
      BY <1>2, <1>3, <1>4, <2>2, <3>1
    <3>2. CASE i > n /\ i - n \in DOMAIN es /\ log'[i] = es[i - n]
      <4>1. i - n = 1 /\ log'[i].id \notin DirObjects(dir')
        BY <1>3, <3>2
      <4>2. k - n # 1
        BY <1>5, <4>1
      <4> QED
        BY <1>3, <2>2, <4>1, <4>2
    <3> QED
      BY <1>6, <3>1, <3>2
  <2> QED
    BY <1>6, <2>1, <2>2
<1> QED
  BY <1>7, <1>8

\* A prefill publishes no removals.
LEMMA PrefillKeepsRemovals ==
  ASSUME NEW d, DirKept(d), log = PrefillEvents(d), D!Events = DOMAIN log
  PROVE  RemovalIsLast /\ RemovedIsGone /\ RemovedStaysRemoved
<1>1. log \in Seq(Created)
  BY PrefillTyped
<1>2. \A i \in DOMAIN log : log[i].op = "create"
  BY <1>1 DEF Created
<1> QED
  BY <1>2 DEF RemovalIsLast, RemovedIsGone, Removes, RemovedStaysRemoved
----------------------------------------------------------------------------
(* What the connector commits *)

\* Settled events stay settled and no event is committed, except the current one.
QueueGrows ==
  /\ DOMAIN queue' = D!Events
  /\ \A i \in D!Events : D!Acked(i) => queue'[i].outcome # "pending"

CommitsKept == \A i \in D!Events : queue'[i].commits = queue[i].commits

\* The queue after any step that leaves the commits alone.
LEMMA OrderKept ==
  ASSUME CommitsInOrder, QueueGrows, CommitsKept
  PROVE  CommitsInOrder'
BY DEF CommitsInOrder, QueueGrows, CommitsKept, D!Events, D!Acked

\* Fetching, skipping, acknowledging, crashing and restarting commit nothing.
LEMMA DeliveryCommitsNothing ==
  ASSUME IInv, CurrentIsOldest, Deliver \/ Disturb
  PROVE  QueueGrows /\ CommitsKept /\ CurrentIsOldest'
<1>0. queue \in Seq(D!EventRecord)
  BY DEF IInv, TypeOK, D!TypeOK
<1>1. CASE \E i \in D!Events : D!Fetch(i)
  <2>1. PICK i \in D!Events : D!Fetch(i)
    BY <1>1
  <2> DEFINE r == [queue[i] EXCEPT !.delivered = D!OneMore(@)]
  <2>2. queue' = [queue EXCEPT ![i] = r] /\ cur' = i /\ D!OldestPending(i)
    BY <2>1 DEF D!Fetch
  <2>3. r.commits = queue[i].commits /\ r.outcome = queue[i].outcome
    BY <1>0 DEF D!Events, D!EventRecord
  <2> HIDE DEF r
  <2>4. /\ DOMAIN queue' = D!Events
        /\ \A k \in D!Events : /\ queue'[k].commits = queue[k].commits
                               /\ queue'[k].outcome = queue[k].outcome
    BY <1>0, <2>2, <2>3 DEF D!Events
  <2>5. \A k \in 1..(i - 1) : k \in D!Events
    BY <1>0 DEF D!Events
  <2> QED
    BY <2>2, <2>4, <2>5 DEF QueueGrows, CommitsKept, CurrentIsOldest, D!OldestPending, D!Acked
<1>2. ASSUME pc \in D!Verdict, D!SettleCurrent PROVE QueueGrows /\ CommitsKept
  <2> DEFINE r == [queue[cur] EXCEPT !.outcome = pc]
  <2>1. cur \in D!Events /\ queue' = [queue EXCEPT ![cur] = r]
    BY <1>2 DEF IInv, CurrentExists, D!SettleCurrent
  <2>2. r.commits = queue[cur].commits /\ r.outcome # "pending"
    BY <1>0, <1>2, <2>1 DEF D!Events, D!EventRecord, D!Verdict
  <2> HIDE DEF r
  <2> QED
    BY <1>0, <2>1, <2>2 DEF D!Events, QueueGrows, CommitsKept, D!Acked
<1>3. ASSUME queue' = queue PROVE QueueGrows /\ CommitsKept
  BY <1>3 DEF QueueGrows, CommitsKept, D!Events, D!Acked
<1>4. CASE D!Acknowledge
  BY <1>2, <1>4 DEF D!Acknowledge, D!Verdict, CurrentIsOldest
<1>5. CASE \E reached \in BOOLEAN : D!AcknowledgeFails(reached)
  BY <1>2, <1>3, <1>5 DEF D!AcknowledgeFails, D!Crash, D!Verdict, CurrentIsOldest
<1>6. CASE D!Kill
  BY <1>3, <1>6 DEF D!Kill, D!Crash, D!Verdict, CurrentIsOldest
<1>7. CASE D!Restart
  BY <1>3, <1>7 DEF D!Restart, D!Verdict, CurrentIsOldest
<1>8. CASE D!SkipIrrelevant
  BY <1>3, <1>8 DEF D!SkipIrrelevant, D!Verdict, CurrentIsOldest, D!OldestPending, D!Acked
<1> QED
  BY <1>1, <1>4, <1>5, <1>6, <1>7, <1>8 DEF Deliver, Disturb

\* Handling the current event commits no other, and in order.
LEMMA AttemptCommits ==
  ASSUME IInv, CommitsInOrder, CurrentIsOldest, Attempt
  PROVE  /\ cur \in D!Events /\ D!OldestPending(cur)
         /\ DOMAIN queue' = D!Events
         /\ \A i \in D!Events : /\ queue'[i].outcome = queue[i].outcome
                                /\ i # cur => queue'[i].commits = queue[i].commits
         /\ CommitsInOrder' /\ CurrentIsOldest'
<1>1. cur \in D!Events /\ pc = "fetched" /\ queue \in Seq(D!EventRecord)
  BY DEF IInv, TypeOK, D!TypeOK, CurrentExists, Attempt, D!Handle, D!HandlerError
<1>2. D!OldestPending(cur)
  BY <1>1 DEF CurrentIsOldest
<1> DEFINE r == [queue[cur] EXCEPT !.commits = @ + 1]
<1>3. queue' = queue \/ queue' = [queue EXCEPT ![cur] = r]
  BY DEF Attempt, D!Handle, D!HandlerError
<1>4. r.outcome = queue[cur].outcome
  BY <1>1 DEF D!Events, D!EventRecord
<1> HIDE DEF r
<1>5. /\ DOMAIN queue' = D!Events
      /\ \A i \in D!Events : /\ queue'[i].outcome = queue[i].outcome
                             /\ i # cur => queue'[i].commits = queue[i].commits
  BY <1>1, <1>3, <1>4 DEF D!Events
<1>6. CommitsInOrder'
  <2> SUFFICES ASSUME NEW i \in D!Events, NEW k \in D!Events, k < i, queue'[i].commits > 0
               PROVE  queue[k].outcome # "pending"
    BY <1>5 DEF CommitsInOrder, D!Events, D!Acked
  <2>1. CASE i = cur
    <3>1. k \in 1..(cur - 1)
      BY <1>1, <2>1 DEF D!Events
    <3> QED
      BY <1>2, <3>1 DEF D!OldestPending, D!Acked
  <2>2. CASE i # cur
    BY <1>5, <2>2 DEF CommitsInOrder, D!Acked
  <2> QED
    BY <2>1, <2>2
<1>7. CurrentIsOldest'
  <2>1. \/ cur' = cur /\ pc' # "down"
        \/ pc' = "down"
    BY DEF Attempt, D!Handle, D!HandlerError, D!Crash
  <2>2. \A k \in 1..(cur - 1) : k \in D!Events
    BY <1>1 DEF D!Events
  <2> QED
    BY <1>1, <1>2, <1>5, <2>1, <2>2 DEF CurrentIsOldest, D!OldestPending, D!Acked, D!Verdict
<1> QED
  BY <1>1, <1>2, <1>5, <1>6, <1>7

(***************************************************************************)
(* What a committed handler leaves behind: the removed objects are the one *)
(* of this event, if it is a removal, and those of older events, which     *)
(* this event is not about.                                                *)
(***************************************************************************)
LEMMA CommitKeepsRemoved ==
  ASSUME IInv, RInv, Attempt, log' = log, db' = HandleEvent(db, log[cur])
  PROVE  RemovedStaysRemoved'
<1>1. /\ cur \in D!Events /\ D!OldestPending(cur) /\ DOMAIN queue' = D!Events
      /\ \A i \in D!Events : i # cur => queue'[i].commits = queue[i].commits
  <2>1. CommitsInOrder /\ CurrentIsOldest
    BY DEF RInv
  <2> QED
    BY <2>1, AttemptCommits
<1>2. log[cur] \in SyncEvent /\ D!Events = DOMAIN log /\ D!Events \subseteq Nat /\ cur \in Nat
  BY <1>1 DEF IInv, TypeOK, D!TypeOK, D!Events
<1>3. db \in Database /\ ConstraintsHold(db) /\ ReferencesHold(db)
  BY DEF IInv, TypeOK, StoreConsistent
<1>4. /\ log[cur].kind = "host" => \A y : Stored(db', y) => Stored(db, y)
      /\ log[cur].kind # "host" => StoresOnly(db, db', log[cur].id)
      /\ Removes(log[cur]) => ~Stored(db', log[cur].id)
  BY <1>2, <1>3, EventStoresOwnObject DEF Removes
<1> SUFFICES ASSUME NEW i \in D!Events, Removes(log[i]), queue'[i].commits > 0
             PROVE  ~Stored(db', log[i].id)
  BY <1>1 DEF RemovedStaysRemoved, Removes, D!Events
<1>5. CASE i = cur
  BY <1>4, <1>5
<1>6. CASE i # cur
  <2>1. queue[i].commits > 0
    BY <1>1, <1>6
  <2>2. ~(cur < i)
    BY <1>1, <2>1 DEF RInv, CommitsInOrder, D!OldestPending
  <2>3. i < cur
    BY <1>2, <1>6, <2>2
  <2>4. ~Stored(db, log[i].id)
    BY <2>1 DEF RInv, RemovedStaysRemoved, Removes
  <2>5. ~About(log[cur], log[i].id)
    BY <1>1, <1>2, <2>3 DEF RInv, RemovalIsLast
  <2> QED
    BY <1>4, <2>4, <2>5 DEF About, StoresOnly, Stored, Schools, Groups, Users, Object
<1> QED
  BY <1>5, <1>6

----------------------------------------------------------------------------
(* The steps *)

\* Handling, failing and the other steps of the process, and crashes.
LEMMA ProcessKeepsRemovals ==
  ASSUME IInv, RInv, Process \/ Disturb \/ \E committed \in BOOLEAN : DatabaseFault(committed)
  PROVE  RInv'
<1>1. log' = log /\ dir' = dir
  BY DEF Process, Disturb, Deliver, HandleCurrent, HandlerRaises, DatabaseFault, Others
<1>2. RemovalIsLast' /\ RemovedIsGone'
  BY <1>1 DEF RInv, RemovalIsLast, RemovedIsGone
<1>3. CASE Deliver \/ Disturb
  <2>1. QueueGrows /\ CommitsKept /\ CurrentIsOldest'
    BY <1>3, DeliveryCommitsNothing DEF RInv
  <2>2. CommitsInOrder'
    BY <2>1, OrderKept DEF RInv
  <2>3. db' = db
    BY <1>3 DEF Deliver, Disturb
  <2>4. RemovedStaysRemoved'
    BY <1>1, <2>1, <2>3 DEF RInv, RemovedStaysRemoved, QueueGrows, CommitsKept, D!Events
  <2> QED
    BY <1>2, <2>1, <2>2, <2>4 DEF RInv
<1>4. ASSUME Attempt, queue' = queue, db' = db PROVE RInv'
  <2>1. CommitsInOrder' /\ CurrentIsOldest'
    BY <1>4, AttemptCommits DEF RInv
  <2>2. RemovedStaysRemoved'
    BY <1>1, <1>4 DEF RInv, RemovedStaysRemoved, D!Events
  <2> QED
    BY <1>2, <2>1, <2>2 DEF RInv
<1>5. ASSUME Attempt, db' = HandleEvent(db, log[cur]) PROVE RInv'
  <2>1. CommitsInOrder' /\ CurrentIsOldest'
    BY <1>5, AttemptCommits DEF RInv
  <2> QED
    BY <1>1, <1>2, <1>5, <2>1, CommitKeepsRemoved DEF RInv
<1>6. CASE HandleCurrent
  BY <1>5, <1>6 DEF HandleCurrent, Attempt
<1>7. CASE HandlerRaises
  <2>1. D!HandlerError(FALSE) /\ db' = db
    BY <1>7 DEF HandlerRaises
  <2>2. Attempt /\ queue' = queue
    BY <2>1 DEF Attempt, D!HandlerError
  <2> QED
    BY <1>4, <2>1, <2>2
<1>8. ASSUME NEW committed \in BOOLEAN, DatabaseFault(committed) PROVE RInv'
  <2>1. Attempt
    BY <1>8 DEF DatabaseFault, Attempt
  <2>2. CASE committed
    BY <1>5, <1>8, <2>1, <2>2 DEF DatabaseFault
  <2>3. CASE ~committed
    BY <1>4, <1>8, <2>1, <2>3 DEF DatabaseFault, D!HandlerError
  <2> QED
    BY <2>2, <2>3
<1> QED
  BY <1>3, <1>6, <1>7, <1>8 DEF Process

\* The events of a prefill have not been committed (Prefill).
LEMMA PrefilledFresh ==
  ASSUME NEW events \in Seq(SyncEvent)
  PROVE  /\ DOMAIN Prefilled(events) = DOMAIN events
         /\ \A i \in DOMAIN events : Prefilled(events)[i].commits = 0
BY DEF Prefilled, D!FreshEvent

\* A change of the directory commits nothing.
LEMMA SubmitCommitsNothing ==
  ASSUME IInv, IInv', RInv, ChangeSubmitted
  PROVE  RInv'
<1> PICK operation, c, X : ChangeKept(dir, c, X) /\ Submit(operation, c)
  BY DEF ChangeSubmitted
<1> DEFINE es == c.events
           new == Prefilled(es)
           n == Len(queue)
<1>1. es \in Seq(SyncEvent) /\ log' = log \o es /\ pc' = pc /\ cur' = cur /\ db' = db
  BY DEF ChangeKept, Submit, D!Publish
<1>2. queue' = queue \o new
  BY Published DEF IInv, TypeOK, D!TypeOK, Submit, ChangeKept
<1>3. /\ new \in Seq(D!EventRecord) /\ Len(new) = Len(es)
      /\ \A j \in DOMAIN es : new[j].commits = 0
  BY <1>1, PrefilledTyped, PrefilledFresh
<1>4. queue \in Seq(D!EventRecord) /\ log \in Seq(SyncEvent) /\ Len(log) = n
  BY DEF IInv, TypeOK, D!TypeOK
<1> HIDE DEF es, new
<1>5. n \in Nat /\ DOMAIN queue = 1..n /\ DOMAIN log = 1..n /\ DOMAIN es = 1..Len(es)
  BY <1>1, <1>4
<1>6. ASSUME NEW i \in DOMAIN queue'
      PROVE  /\ i \in Nat
             /\ \/ i \in DOMAIN queue /\ queue'[i] = queue[i] /\ log'[i] = log[i]
                \/ i > n /\ queue'[i].commits = 0
  <2>1. /\ i \in Nat
        /\ \/ i \in DOMAIN queue /\ queue'[i] = queue[i]
           \/ i > n /\ i - n \in DOMAIN new /\ queue'[i] = new[i - n]
    BY <1>2, <1>3, <1>4
  <2>2. i \in 1..n => log'[i] = log[i]
    BY <1>1, <1>4
  <2>3. DOMAIN new = DOMAIN es
    BY <1>1, <1>3
  <2> QED
    BY <1>3, <1>5, <2>1, <2>2, <2>3
<1>7. \A i \in DOMAIN queue : i \in DOMAIN queue' /\ queue'[i] = queue[i]
  BY <1>2, <1>3, <1>4
<1> HIDE DEF n
<1>8. CommitsInOrder'
  <2> SUFFICES ASSUME NEW i \in DOMAIN queue', NEW k \in DOMAIN queue', k < i,
                      queue'[i].commits > 0
               PROVE  queue'[k].outcome # "pending"
    BY DEF CommitsInOrder, D!Events, D!Acked
  <2>1. i \in DOMAIN queue /\ queue'[i] = queue[i]
    BY <1>6
  <2>2. k \in DOMAIN queue /\ queue'[k] = queue[k]
    BY <1>5, <1>6, <2>1
  <2> QED
    BY <2>1, <2>2 DEF RInv, CommitsInOrder, D!Events, D!Acked
<1>9. CurrentIsOldest'
  <2>1. CASE pc \in {"fetched"} \cup D!Verdict
    <3>1. cur \in DOMAIN queue /\ D!OldestPending(cur)
      BY <2>1 DEF IInv, CurrentExists, RInv, CurrentIsOldest, D!Events
    <3>2. \A k \in 1..(cur - 1) : k \in DOMAIN queue
      BY <1>5, <3>1
    <3> QED
      BY <1>1, <1>7, <3>1, <3>2 DEF CurrentIsOldest, D!OldestPending, D!Acked
  <2>2. CASE pc \notin {"fetched"} \cup D!Verdict
    BY <1>1, <2>2 DEF CurrentIsOldest
  <2> QED
    BY <2>1, <2>2
<1>10. RemovedStaysRemoved'
  <2> SUFFICES ASSUME NEW i \in DOMAIN queue', log'[i].op = "delete", log'[i].kind # "host",
                      queue'[i].commits > 0
               PROVE  ~Stored(db, log'[i].id)
    BY <1>1 DEF RemovedStaysRemoved, D!Events
  <2>1. i \in DOMAIN queue /\ queue'[i] = queue[i] /\ log'[i] = log[i]
    BY <1>6
  <2> QED
    BY <2>1 DEF RInv, RemovedStaysRemoved, D!Events
<1> QED
  BY <1>8, <1>9, <1>10, SubmitKeepsRemovals DEF RInv

\* A first prefill, or that of a new subscription, starts with nothing committed.
LEMMA PrefillStarts ==
  ASSUME IInv, log = PrefillEvents(dir), queue = Prefilled(log), pc \in {"idle", "down"}
  PROVE  RInv
<1>1. log \in Seq(SyncEvent) /\ DirKept(dir)
  BY DEF IInv, TypeOK, DirKept
<1>2. D!Events = DOMAIN log /\ \A i \in D!Events : queue[i].commits = 0
  BY <1>1, PrefilledFresh DEF D!Events
<1>3. RemovalIsLast /\ RemovedIsGone /\ RemovedStaysRemoved
  BY <1>1, <1>2, PrefillKeepsRemovals
<1>4. CommitsInOrder
  BY <1>2 DEF CommitsInOrder
<1> QED
  BY <1>3, <1>4 DEF RInv, CurrentIsOldest, D!Verdict

\* A new subscription.
LEMMA ResubscribeKeepsRemovals ==
  ASSUME IInv', Resubscribe
  PROVE  RInv'
<1>1. log' = PrefillEvents(dir') /\ queue' = Prefilled(log') /\ pc' = "down"
  BY DEF Resubscribe
<1>2. /\ log' \in Seq(SyncEvent) /\ DirKept(dir')
  BY DEF IInv, TypeOK, DirKept
<1>3. DOMAIN queue' = DOMAIN log' /\ \A i \in DOMAIN queue' : queue'[i].commits = 0
  BY <1>1, <1>2, PrefilledFresh
<1>4. \A i \in DOMAIN log' : log'[i].op = "create"
  <2>1. log' \in Seq(Created)
    BY <1>1, <1>2, PrefillTyped
  <2> QED
    BY <2>1 DEF Created
<1>5. RemovalIsLast' /\ RemovedIsGone'
  BY <1>4 DEF RemovalIsLast, RemovedIsGone, Removes
<1>6. CommitsInOrder' /\ RemovedStaysRemoved'
  BY <1>3 DEF CommitsInOrder, RemovedStaysRemoved, D!Events
<1> QED
  BY <1>1, <1>5, <1>6 DEF RInv, CurrentIsOldest, D!Verdict

\* The second invariant is inductive relative to the first.
LEMMA NextKeepsRemovals == IInv /\ IInv' /\ RInv /\ [Next]_vars => RInv'
<1>1. ASSUME RInv, UNCHANGED vars PROVE RInv'
  BY <1>1 DEF vars, RInv, RemovalIsLast, RemovedIsGone, CommitsInOrder, CurrentIsOldest,
              RemovedStaysRemoved, D!Events, D!OldestPending, D!Acked
<1>2. ASSUME IInv, IInv', RInv, SchoolChange \/ GroupChange \/ UserChange PROVE RInv'
  <2>1. DirKept(dir)
    BY <1>2 DEF IInv, TypeOK, DirKept
  <2> QED
    BY <1>2, <2>1, SchoolChangeSubmits, GroupChangeSubmits, UserChangeSubmits,
       SubmitCommitsNothing
<1> QED
  BY <1>1, <1>2, ProcessKeepsRemovals, ResubscribeKeepsRemovals DEF Next

(***************************************************************************)
(* Once the handler of an object's removal has been committed, the object  *)
(* is gone for good, whatever is redelivered, retried, dropped or crashes, *)
(* although a modify event creates an object it does not find              *)
(* (KelvinConnectorEventHandler).                                          *)
(***************************************************************************)
THEOREM RemovedForGood == Spec => []RemovedStaysRemoved
<1>1. Init => RInv
  <2> SUFFICES ASSUME Init PROVE RInv
    OBVIOUS
  <2>1. IInv
    BY InitInv
  <2> QED
    BY <2>1, PrefillStarts DEF Init
<1>2. RInv => RemovedStaysRemoved
  BY DEF RInv
<1> QED
  BY <1>1, <1>2, Invariance, NextKeepsRemovals, PTL DEF Spec
=============================================================================
