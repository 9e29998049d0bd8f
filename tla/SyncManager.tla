---------------------------- MODULE SyncManager ----------------------------
(***************************************************************************)
(* SynchronizationManager: what one Provisioning event does to the Kelvin  *)
(* database, and KelvinConnectorEventHandler's choice of the handler.      *)
(*                                                                         *)
(* An event is a snapshot of one directory object.  It names schools by    *)
(* name and users and groups by DN; a DN that the mapping tables do not    *)
(* hold is skipped.                                                        *)
(*                                                                         *)
(*   kind   "school", "group", "user", or "host" (a DC host group)         *)
(*   op     "create", "modify" or "delete"                                 *)
(*   scope  a school object by its ucsschoolRole: _filter lets it through  *)
(***************************************************************************)
EXTENDS KelvinStore

SchoolEvent ==
  [kind : {"school"}, op : {"create", "modify"}, id : School, scope : BOOLEAN,
   name : SchoolName]
GroupEvent ==
  [kind : {"group"}, op : {"create", "modify"}, id : Group, scope : BOOLEAN,
   name : GroupName, school : SchoolName, users : SUBSET Dn, senders : SUBSET Dn]
UserEvent ==
  [kind : {"user"}, op : {"create", "modify"}, id : User, scope : BOOLEAN,
   name : UserName, ou : SchoolName, schools : SUBSET SchoolName, groups : SUBSET Dn]
HostEvent ==
  [kind : {"host"}, op : {"create", "modify", "delete"}, scope : {TRUE},
   school : SchoolName, host_kind : HostKind, hosts : SUBSET Host]
DeleteEvent ==
  [kind : {"school"}, op : {"delete"}, id : School, scope : BOOLEAN]
    \cup [kind : {"group"}, op : {"delete"}, id : Group, scope : BOOLEAN]
    \cup [kind : {"user"}, op : {"delete"}, id : User, scope : BOOLEAN]

SyncEvent == SchoolEvent \cup GroupEvent \cup UserEvent \cup HostEvent \cup DeleteEvent

EventDn(e) ==
  CASE e.kind = "school" -> SchoolDn(e.name)
    [] e.kind = "group" -> GroupDn(e.name)
    [] e.kind = "user" -> UserDn(e.name, e.ou)

\* is_relevant and _filter: an event out of scope is acknowledged unseen.
IsRelevant(e) == e.scope

SchoolsNamed(db, names) == {s \in School : db.school[s] \in names}

----------------------------------------------------------------------------
(* Users *)

\* Faulty variant: the name from the DN is taken for the school's identifier.
PrimarySchools_ByName(db, e) == {e.ou}

\* Faulty variant: the school of the DN is primary only if it comes first.
PrimarySchools_FirstOnly(db, e) ==
  {s \in SchoolsNamed(db, e.schools) :
     db.school[s] = e.ou /\ s = CHOOSE f \in SchoolsNamed(db, e.schools) : TRUE}

(***************************************************************************)
(* _build_school_memberships: the school of the DN's OU is primary; if it  *)
(* is not among the stored ones, the first in public_id order.             *)
(***************************************************************************)
PrimarySchools(db, e) ==
  LET schools == SchoolsNamed(db, e.schools)
      own == {s \in schools : db.school[s] = e.ou}
  IN IF own # {} THEN own
     ELSE IF schools # {} THEN {CHOOSE s \in schools : TRUE}
     ELSE {}

\* Faulty variant: the membership of every school is linked to every group.
EventLinks_AllSchools(db, e) ==
  {<<g, e.id, s>> : g \in Resolve(db, e.groups) \cap Groups(db), s \in SchoolsNamed(db, e.schools)}

\* Each membership is linked to the resolved groups of its own school.
EventLinks(db, e) ==
  LET schools == SchoolsNamed(db, e.schools)
      groups == {g \in Resolve(db, e.groups) \cap Groups(db) : db.group[g].school \in schools}
  IN {<<g, e.id, db.group[g].school>> : g \in groups}

ApplyUser(db, e) ==
  PutUser(db, e.id, e.name, SchoolsNamed(db, e.schools), PrimarySchools(db, e), EventLinks(db, e))

\* Faulty variant: the DN of a new user is not recorded.
HandleUserCreate_NoDn(db, e) ==
  IF SchoolsNamed(db, e.schools) = {} THEN db ELSE ApplyUser(db, e)

(***************************************************************************)
(* A user none of whose schools is stored is dropped without an error.  An *)
(* existing user is updated, and its DN mapping left as it is.             *)
(***************************************************************************)
HandleUserCreate(db, e) ==
  IF SchoolsNamed(db, e.schools) = {} THEN db
  ELSE IF e.id \in Users(db) THEN ApplyUser(db, e)
  ELSE SetMapping(ApplyUser(db, e), e.id, EventDn(e))

\* Faulty variant: a moved or renamed user keeps its old DN.
HandleUserModify_KeepsDn(db, e) ==
  IF e.id \in Users(db) THEN ApplyUser(db, e) ELSE HandleUserCreate(db, e)

\* Faulty variant: a modify event of an unknown user is ignored.
HandleUserModify_IgnoresMissing(db, e) ==
  IF e.id \in Users(db) THEN ApplyUser(SetMapping(db, e.id, EventDn(e)), e) ELSE db

\* A missing user is created; the DN of an existing one is refreshed.
HandleUserModify(db, e) ==
  IF e.id \in Users(db) THEN ApplyUser(SetMapping(db, e.id, EventDn(e)), e)
  ELSE HandleUserCreate(db, e)

----------------------------------------------------------------------------
(* Groups *)

\* _fetch_members_by_dns: only users with a membership in the school.
EventMembers(db, e, s) == {u \in Resolve(db, e.users) \cap Users(db) : <<u, s>> \in db.member}

EventSenders(db, e) == Resolve(db, e.senders) \cap (Users(db) \cup Groups(db))

\* The school found by name; the stored one while it is not in the database.
TargetSchool(db, e) ==
  LET found == SchoolsNamed(db, {e.school})
  IN IF found # {} THEN CHOOSE s \in found : TRUE ELSE db.group[e.id].school

ApplyGroup(db, e) ==
  LET s == TargetSchool(db, e)
  IN ModifyGroup(db, e.id, e.name, s, EventMembers(db, e, s), EventSenders(db, e))

NewGroup(db, e) ==
  LET s == TargetSchool(db, e)
  IN CreateGroup(db, e.id, e.name, s, EventMembers(db, e, s), EventSenders(db, e))

HandleGroupCreate(db, e) ==
  IF SchoolsNamed(db, {e.school}) = {} THEN db
  ELSE IF e.id \in Groups(db) THEN ApplyGroup(db, e)
  ELSE SetMapping(NewGroup(db, e), e.id, EventDn(e))

\* Faulty variant: a renamed group keeps its old DN.
HandleGroupModify_KeepsDn(db, e) ==
  IF e.id \in Groups(db) THEN ApplyGroup(db, e) ELSE HandleGroupCreate(db, e)

(***************************************************************************)
(* The session does not autoflush: between set_mapping and the flush of    *)
(* the group the displaced mapping rows are gone and the new one is not    *)
(* there yet, so the references of the event are resolved without it.      *)
(***************************************************************************)
HandleGroupModify(db, e) ==
  IF e.id \in Groups(db)
    THEN SetMapping(ApplyGroup(Unmap(db, e.id, EventDn(e)), e), e.id, EventDn(e))
    ELSE HandleGroupCreate(db, e)

----------------------------------------------------------------------------
(* Schools *)

HandleSchoolCreate(db, e) ==
  IF e.id \in Schools(db) THEN PutSchool(db, e.id, e.name)
  ELSE SetMapping(PutSchool(db, e.id, e.name), e.id, EventDn(e))

HandleSchoolModify(db, e) ==
  IF e.id \in Schools(db) THEN PutSchool(SetMapping(db, e.id, EventDn(e)), e.id, e.name)
  ELSE HandleSchoolCreate(db, e)

\* Creating or changing the host group of an unknown school raises.
SchoolMissing(db, e) ==
  e.kind = "host" /\ e.op # "delete" /\ SchoolsNamed(db, {e.school}) = {}

\* Deleting the host group clears the servers.
HandleHostGroup(db, e) ==
  LET found == SchoolsNamed(db, {e.school})
      hosts == IF e.op = "delete" THEN {} ELSE e.hosts
  IN IF found = {} THEN db ELSE SetServers(db, CHOOSE s \in found : TRUE, e.host_kind, hosts)

----------------------------------------------------------------------------
(* Dispatch *)

\* Deleting an object that is not stored is ignored.
HandleDelete(db, e) ==
  CASE e.kind = "school" -> DeleteSchool(db, e.id)
    [] e.kind = "group" -> DeleteGroup(db, e.id)
    [] e.kind = "user" -> DeleteUser(db, e.id)

\* The database the event's transaction would leave behind.
HandleEvent(db, e) ==
  CASE e.kind = "host" -> HandleHostGroup(db, e)
    [] e.kind # "host" /\ e.op = "delete" -> HandleDelete(db, e)
    [] e.kind = "school" /\ e.op = "create" -> HandleSchoolCreate(db, e)
    [] e.kind = "school" /\ e.op = "modify" -> HandleSchoolModify(db, e)
    [] e.kind = "group" /\ e.op = "create" -> HandleGroupCreate(db, e)
    [] e.kind = "group" /\ e.op = "modify" -> HandleGroupModify(db, e)
    [] e.kind = "user" /\ e.op = "create" -> HandleUserCreate(db, e)
    [] e.kind = "user" /\ e.op = "modify" -> HandleUserModify(db, e)

\* Faulty variant: a create event inserts without looking for the object first.
HandlerFails_OnExisting(db, e) ==
  \/ SchoolMissing(db, e)
  \/ e.kind # "host" /\ e.op = "create" /\ Stored(db, e.id)
  \/ ~ConstraintsHold(HandleEvent(db, e))

\* The handler raises whenever it sees this database.
HandlerFails(db, e) == SchoolMissing(db, e) \/ ~ConstraintsHold(HandleEvent(db, e))
=============================================================================
