---------------------------- MODULE KelvinStore ----------------------------
(***************************************************************************)
(* The tables of the Kelvin database and what the storage managers of      *)
(* ucsschool-objects do to them.  A database is a record; an operation is  *)
(* an operator from a database to a database.  Every operation runs inside *)
(* the transaction of the event handler that calls it, so its result only  *)
(* becomes the database if ConstraintsHold of it: a violated constraint    *)
(* fails the flush or the commit and rolls the transaction back.           *)
(*                                                                         *)
(*   school, group, user   the rows, by public_id; NoRow where there is    *)
(*                         none                                            *)
(*   member                school_membership: <<user, school>>             *)
(*   primary               those with is_primary                           *)
(*   link                  group_member_association: <<group, user,        *)
(*                         school>>, a group and the membership it holds   *)
(*   sender                the two e-mail sender associations: <<group,    *)
(*                         allowed sender>>                                *)
(*   server                <<school, kind, host>>, educational and         *)
(*                         administrative servers                          *)
(*   dn                    the three DN mapping tables, by public_id       *)
(*                                                                         *)
(* `name` stands for all the unique columns of a row; scalar columns that  *)
(* are only copied, roles and legal guardians are left out.                *)
(***************************************************************************)
EXTENDS Naturals, FiniteSets

CONSTANTS
  School, Group, User,                \* public ids
  SchoolName, GroupName, UserName,    \* names; DNs are made of them
  HostKind, Host,                     \* kinds of server group; server host names
  NoRow

Object == School \cup Group \cup User

\* Distinguished names, tagged by object type: one mapping table per type.
SchoolDn(name) == <<"ou", name>>
GroupDn(name) == <<"cn", name>>
UserDn(name, ou) == <<"uid", name, ou>>

Dn == {SchoolDn(n) : n \in SchoolName} \cup {GroupDn(n) : n \in GroupName}
        \cup {UserDn(n, ou) : n \in UserName, ou \in SchoolName}

Database ==
  [school  : [School -> SchoolName \cup {NoRow}],
   group   : [Group -> [name : GroupName, school : School] \cup {NoRow}],
   user    : [User -> UserName \cup {NoRow}],
   member  : SUBSET (User \X School),
   primary : SUBSET (User \X School),
   link    : SUBSET (Group \X User \X School),
   sender  : SUBSET (Group \X (Group \cup User)),
   server  : SUBSET (School \X HostKind \X Host),
   dn      : [Object -> Dn \cup {NoRow}]]

\* public ids are unique over all objects; NoRow is none of the values of a row.
ASSUME StoreAssumption ==
  /\ School \cap Group = {} /\ School \cap User = {} /\ Group \cap User = {}
  /\ NoRow \notin SchoolName \cup UserName \cup Dn
  /\ NoRow \notin [name : GroupName, school : School]

EmptyDatabase ==
  [school  |-> [s \in School |-> NoRow],
   group   |-> [g \in Group |-> NoRow],
   user    |-> [u \in User |-> NoRow],
   member  |-> {}, primary |-> {}, link |-> {}, sender |-> {}, server |-> {},
   dn      |-> [x \in Object |-> NoRow]]

Schools(db) == {s \in School : db.school[s] # NoRow}
Groups(db) == {g \in Group : db.group[g] # NoRow}
Users(db) == {u \in User : db.user[u] # NoRow}
Stored(db, x) == x \in Schools(db) \cup Groups(db) \cup Users(db)

\* Unique names, and group.school_id with ON DELETE NO ACTION.
ConstraintsHold(db) ==
  /\ \A s, t \in Schools(db) : db.school[s] = db.school[t] => s = t
  /\ \A g, h \in Groups(db) : db.group[g].name = db.group[h].name => g = h
  /\ \A u, v \in Users(db) : db.user[u] = db.user[v] => u = v
  /\ \A g \in Groups(db) : db.group[g].school \in Schools(db)

(***************************************************************************)
(* Foreign keys with ON DELETE CASCADE, the index on is_primary and the    *)
(* unique columns of the mapping tables.  The operators below are to keep  *)
(* them: a handler is not made to fail when they are violated.             *)
(***************************************************************************)
MembershipsHold(db) ==
  /\ db.member \subseteq Users(db) \X Schools(db)
  /\ db.primary \subseteq db.member
  /\ \A m, n \in db.primary : m[1] = n[1] => m = n

LinksHold(db) ==
  /\ \A l \in db.link : l[1] \in Groups(db) /\ <<l[2], l[3]>> \in db.member
  /\ \A x \in db.sender : x[1] \in Groups(db) /\ Stored(db, x[2])
  /\ \A v \in db.server : v[1] \in Schools(db)

MappingHolds(db) ==
  \A x, y \in Object :
    db.dn[x] # NoRow => Stored(db, x) /\ (db.dn[x] = db.dn[y] => x = y)

ReferencesHold(db) == MembershipsHold(db) /\ LinksHold(db) /\ MappingHolds(db)

----------------------------------------------------------------------------
(* DN mapping: SQLAlchemyDNIDMapper *)

\* The rows a new mapping displaces: any that holds the DN or the public_id.
Unmap(db, x, dn) ==
  [db EXCEPT !.dn = [y \in Object |-> IF y = x \/ @[y] = dn THEN NoRow ELSE @[y]]]

SetMapping(db, x, dn) == [Unmap(db, x, dn) EXCEPT !.dn[x] = dn]

Resolve(db, dns) == {x \in Object : db.dn[x] \in dns}

----------------------------------------------------------------------------
(* Deletes: single statements, the rest is ON DELETE CASCADE *)

DeleteSchool(db, s) ==
  [db EXCEPT !.school[s] = NoRow,
             !.member = {m \in @ : m[2] # s},
             !.primary = {m \in @ : m[2] # s},
             !.link = {l \in @ : l[3] # s},
             !.server = {v \in @ : v[1] # s},
             !.dn[s] = NoRow]

DeleteGroup(db, g) ==
  [db EXCEPT !.group[g] = NoRow,
             !.link = {l \in @ : l[1] # g},
             !.sender = {x \in @ : x[1] # g /\ x[2] # g},
             !.dn[g] = NoRow]

\* Faulty variant: the mapping of a deleted user survives.
DeleteUser_KeepsMapping(db, u) ==
  [db EXCEPT !.user[u] = NoRow,
             !.member = {m \in @ : m[1] # u},
             !.primary = {m \in @ : m[1] # u},
             !.link = {l \in @ : l[2] # u},
             !.sender = {x \in @ : x[2] # u}]

DeleteUser(db, u) ==
  [db EXCEPT !.user[u] = NoRow,
             !.member = {m \in @ : m[1] # u},
             !.primary = {m \in @ : m[1] # u},
             !.link = {l \in @ : l[2] # u},
             !.sender = {x \in @ : x[2] # u},
             !.dn[u] = NoRow]

----------------------------------------------------------------------------
(* Users: the row, its memberships and their group links *)

(***************************************************************************)
(* Create and modify leave the same rows: the memberships are exactly      *)
(* those of `schools`, and `links` are the group links they hold.          *)
(***************************************************************************)
PutUser(db, u, name, schools, primary, links) ==
  [db EXCEPT
     !.user[u] = name,
     !.member = {m \in @ : m[1] # u} \cup ({u} \X schools),
     !.primary = {m \in @ : m[1] # u} \cup ({u} \X primary),
     !.link = {l \in @ : l[2] # u} \cup links]

----------------------------------------------------------------------------
(* Groups *)

Members(db, g) == {u \in User : \E s \in School : <<g, u, s>> \in db.link}

\* The memberships of the wanted users in one school.
LinksInSchool(db, g, users, s) ==
  {<<g, u, s>> : u \in {v \in users : <<v, s>> \in db.member}}

WithoutLinks(db, g) == {l \in db.link : l[1] # g}
WithoutSenders(db, g) == {x \in db.sender : x[1] # g}

CreateGroup(db, g, name, s, users, senders) ==
  [db EXCEPT
     !.group[g] = [name |-> name, school |-> s],
     !.link = WithoutLinks(db, g) \cup LinksInSchool(db, g, users, s),
     !.sender = WithoutSenders(db, g) \cup ({g} \X senders)]

(***************************************************************************)
(* _apply_group_patch syncs the members before the school, so it looks the *)
(* memberships up in the school the group had; and it leaves the links     *)
(* alone when the set of member users stays the same.                      *)
(***************************************************************************)
ModifyGroup(db, g, name, s, users, senders) ==
  [db EXCEPT
     !.group[g] = [name |-> name, school |-> s],
     !.link = IF users = Members(db, g) THEN @
              ELSE WithoutLinks(db, g) \cup LinksInSchool(db, g, users, db.group[g].school),
     !.sender = WithoutSenders(db, g) \cup ({g} \X senders)]

----------------------------------------------------------------------------
(* Schools *)

PutSchool(db, s, name) == [db EXCEPT !.school[s] = name]

SetServers(db, s, kind, hosts) ==
  [db EXCEPT !.server = {v \in @ : v[1] # s \/ v[2] # kind} \cup ({s} \X {kind} \X hosts)]
=============================================================================
