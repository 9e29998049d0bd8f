----------------------------- MODULE Connector -----------------------------
(***************************************************************************)
(* The Kelvin connector end to end: the directory changes, Provisioning    *)
(* queues a snapshot of every changed object, KelvinConsumerModule         *)
(* delivers them (Delivery), SynchronizationManager writes them to the     *)
(* Kelvin database (SyncManager, KelvinStore).                             *)
(*                                                                         *)
(* Every event is one transaction: a step either replaces the database by  *)
(* what the handler leaves behind or leaves it untouched.                  *)
(***************************************************************************)
EXTENDS Directory

CONSTANTS
  InitialDirectory,     \* the directories a first prefill may find
  Operations,           \* the directory operations that happen, see Submit
  MaxDeliveries,        \* max_deliveries of KelvinConsumerModule
  MaxCrashes,           \* bound: crashes that are not the answer to a failed event
  MaxEvents,            \* bound: events ever published to one subscription
  MaxChanges,           \* bound: changes of the directory
  MaxFaults,            \* bound: failed events the database content does not explain
  MaxResubscriptions    \* bound: times the subscription is set up again

ASSUME ConnectorAssumption ==
  /\ \A d \in InitialDirectory : d \in DirectoryType /\ ReferencesIntact(d)
  /\ MaxDeliveries \in Nat \ {0}
  /\ {MaxCrashes, MaxEvents, MaxChanges, MaxFaults, MaxResubscriptions} \subseteq Nat

VARIABLES
  queue, pc, cur, crashes,  \* as in Delivery
  log,    \* log[i]: the payload of queue[i]
  dir,    \* the directory
  db,     \* the committed state of the Kelvin database
  used    \* how much of each bound has been used

delivery == <<queue, pc, cur, crashes>>
vars == <<queue, pc, cur, crashes, log, dir, db, used>>

D == INSTANCE Delivery

TypeOK ==
  /\ D!TypeOK
  /\ log \in Seq(SyncEvent)
  /\ Len(log) = Len(queue)
  /\ dir \in DirectoryType
  /\ db \in Database
  /\ used \in [changes : 0..MaxChanges, faults : 0..MaxFaults,
               resubscriptions : 0..MaxResubscriptions]

Classes(events) ==
  [i \in DOMAIN events |-> IF IsRelevant(events[i]) THEN "relevant" ELSE "irrelevant"]

\* The queue of a new subscription that requested a prefill.
Prefilled(events) == [i \in DOMAIN events |-> D!FreshEvent(Classes(events)[i])]

Init ==
  /\ dir \in InitialDirectory
  /\ log = PrefillEvents(dir)
  /\ queue = Prefilled(log)
  /\ pc = "idle"
  /\ cur = 0
  /\ crashes = 0
  /\ db = EmptyDatabase
  /\ used = [changes |-> 0, faults |-> 0, resubscriptions |-> 0]

----------------------------------------------------------------------------
(* Changes of the directory *)

Submit(operation, change) ==
  /\ operation \in Operations
  /\ used.changes < MaxChanges
  /\ D!Publish(Classes(change.events))
  /\ log' = log \o change.events
  /\ dir' = change.dir
  /\ used' = [used EXCEPT !.changes = @ + 1]
  /\ UNCHANGED db

\* The events of one object, without those of the host groups.
EventsOf(x) == {i \in DOMAIN log : log[i].kind # "host" /\ log[i].id = x}

\* Object identifiers are never used twice.
Unused(x) == EventsOf(x) = {} /\ ~Stored(db, x)

FreeUserName(name) == \A u \in DirUsers(dir) : dir.user[u].name # name
FreeGroupName(name) == \A g \in DirGroups(dir) : dir.group[g].name # name
UsersOfSchool(sn) == {u \in DirUsers(dir) : sn \in dir.user[u].schools}

SchoolAdded(s, name) ==
  /\ Unused(s) /\ s \notin DirSchools(dir)
  /\ name \notin DirSchoolNames(dir)
  /\ Submit("school", AddSchool(dir, s, name))

SchoolEdited(s) == Submit("edit", EditSchool(dir, s))

\* An OU is removed after everything that belongs to it.
SchoolRemoved(s) ==
  LET name == dir.school[s]
  IN /\ s \in DirSchools(dir)
     /\ UsersOfSchool(name) = {}
     /\ \A g \in DirGroups(dir) : dir.group[g].school # name
     /\ \A h \in DirHostGroups(dir) : h[1] # name
     /\ Submit("school", RemoveSchool(dir, s))

GroupAdded(g, name, sn, members) ==
  /\ Unused(g) /\ g \notin DirGroups(dir)
  /\ FreeGroupName(name)
  /\ members \subseteq UsersOfSchool(sn)
  /\ Submit("group", AddGroup(dir, g, name, sn, members))

MembersChanged(g, members) ==
  /\ members # dir.group[g].members
  /\ members \subseteq UsersOfSchool(dir.group[g].school)
  /\ Submit("members", EditGroup(dir, g, [dir.group[g] EXCEPT !.members = members]))

GroupRenamed(g, name) ==
  /\ FreeGroupName(name)
  /\ Submit("rename", EditGroup(dir, g, [dir.group[g] EXCEPT !.name = name]))

\* The members that do not belong to the new school leave the group.
GroupMoved(g, sn) ==
  /\ sn # dir.group[g].school
  /\ Submit("regroup", EditGroup(dir, g, [dir.group[g] EXCEPT !.school = sn,
                                                           !.members = @ \cap UsersOfSchool(sn)]))

SendersChanged(g, senders) ==
  /\ senders # dir.group[g].senders
  /\ senders \subseteq DirUsers(dir) \cup DirGroups(dir)
  /\ Submit("senders", EditGroup(dir, g, [dir.group[g] EXCEPT !.senders = senders]))

\* The group keeps existing but is no longer a school class or workgroup.
RoleLost(g) ==
  /\ dir.group[g].scope
  /\ Submit("role", EditGroup(dir, g, [dir.group[g] EXCEPT !.scope = FALSE]))

GroupRemoved(g) == Submit("group", RemoveGroup(dir, g))

UserAdded(u, name, ou, schools) ==
  /\ Unused(u) /\ u \notin DirUsers(dir)
  /\ FreeUserName(name)
  /\ Submit("user", AddUser(dir, u, name, ou, schools))

UserRenamed(u, name) ==
  /\ FreeUserName(name)
  /\ Submit("rename", EditUser(dir, u, [dir.user[u] EXCEPT !.name = name]))

UserMoved(u, ou, schools) ==
  /\ <<ou, schools>> # <<dir.user[u].ou, dir.user[u].schools>>
  /\ Submit("move", EditUser(dir, u, [dir.user[u] EXCEPT !.ou = ou, !.schools = schools]))

UserRemoved(u) == Submit("user", RemoveUser(dir, u))

HostsChanged(h, hosts) ==
  /\ h[1] \in DirSchoolNames(dir)
  /\ hosts # dir.hosts[h]
  /\ Submit("hosts", SetHosts(dir, h, hosts))

SchoolChange ==
  \/ \E s \in School, name \in SchoolName : SchoolAdded(s, name)
  \/ \E s \in DirSchools(dir) : SchoolRemoved(s) \/ SchoolEdited(s)
  \/ \E h \in SchoolName \X HostKind, hosts \in (SUBSET Host) \cup {NoRow} : HostsChanged(h, hosts)

GroupChange ==
  \/ \E g \in Group, name \in GroupName, sn \in DirSchoolNames(dir), members \in SUBSET User :
       GroupAdded(g, name, sn, members)
  \/ \E g \in DirGroups(dir) :
       \/ \E members \in SUBSET User : MembersChanged(g, members)
       \/ \E name \in GroupName : GroupRenamed(g, name)
       \/ \E sn \in DirSchoolNames(dir) : GroupMoved(g, sn)
       \/ \E senders \in SUBSET (User \cup Group) : SendersChanged(g, senders)
       \/ RoleLost(g)
       \/ GroupRemoved(g)

UserChange ==
  \/ \E schools \in SUBSET DirSchoolNames(dir) :
       \E ou \in schools, name \in UserName, u \in User : UserAdded(u, name, ou, schools)
  \/ \E u \in DirUsers(dir) :
       \/ \E name \in UserName : UserRenamed(u, name)
       \/ \E schools \in SUBSET DirSchoolNames(dir) :
            \E ou \in schools : UserMoved(u, ou, schools)
       \/ UserRemoved(u)

----------------------------------------------------------------------------
(* The connector *)

Others == UNCHANGED <<log, dir, used>>

\* The handler succeeds and its transaction is committed.
HandleCurrent ==
  /\ D!Handle
  /\ ~HandlerFails(db, log[cur])
  /\ db' = HandleEvent(db, log[cur])
  /\ Others

\* What the handler finds in the database makes it fail, at every delivery.
HandlerRaises ==
  /\ D!HandlerError(FALSE)
  /\ HandlerFails(db, log[cur])
  /\ UNCHANGED db
  /\ Others

(***************************************************************************)
(* The database is unreachable or the connection breaks.  If it breaks     *)
(* during the commit, the transaction may have taken effect.               *)
(***************************************************************************)
DatabaseFault(committed) ==
  /\ used.faults < MaxFaults
  /\ D!HandlerError(committed)
  /\ ~HandlerFails(db, log[cur])
  /\ db' = IF committed THEN HandleEvent(db, log[cur]) ELSE db
  /\ used' = [used EXCEPT !.faults = @ + 1]
  /\ UNCHANGED <<log, dir>>

\* The steps of the process that do not touch the database.
Deliver ==
  /\ \/ \E i \in D!Events : D!Fetch(i)
     \/ D!SkipIrrelevant
     \/ D!Acknowledge
     \/ D!Restart
  /\ UNCHANGED db
  /\ Others

Disturb ==
  /\ \/ \E reached \in BOOLEAN : D!AcknowledgeFails(reached)
     \/ D!Kill
  /\ UNCHANGED db
  /\ Others

(***************************************************************************)
(* setup-provisioning-subscription.sh with FORCE=true: the subscription is *)
(* deleted with what it still holds and set up again with a prefill; the   *)
(* connector restarts with the new password.  The database is kept.        *)
(***************************************************************************)
Resubscribe ==
  /\ used.resubscriptions < MaxResubscriptions
  /\ used' = [used EXCEPT !.resubscriptions = @ + 1]
  /\ log' = PrefillEvents(dir)
  /\ queue' = Prefilled(log')
  /\ pc' = "down"
  /\ cur' = 0
  /\ UNCHANGED <<crashes, dir, db>>

Process ==
  \/ HandleCurrent
  \/ HandlerRaises
  \/ Deliver

Next ==
  \/ SchoolChange
  \/ GroupChange
  \/ UserChange
  \/ Process
  \/ \E committed \in BOOLEAN : DatabaseFault(committed)
  \/ Disturb
  \/ Resubscribe

Spec == Init /\ [][Next]_vars

(***************************************************************************)
(* The process loop and the container's restart policy, as in Delivery.    *)
(* Nothing forces a fault, a crash, or a change of the directory.          *)
(***************************************************************************)
FairSpec == Spec /\ WF_vars(Process)

----------------------------------------------------------------------------
(* Properties *)

Drained == \A i \in D!Events : D!Acked(i)
Settled(i, verdict) == queue[i].outcome = verdict

(***************************************************************************)
(* Once the queue is empty the database is the projection of the directory *)
(* - every object, membership, group link, server list and DN mapping -    *)
(* although references arrive before the objects they name, handlers were  *)
(* retried and the process crashed in between (SynchronizationManager).    *)
(***************************************************************************)
StoreFollowsDirectory == Drained => db = Projection(dir)

(***************************************************************************)
(* When the directory stops changing, the database reaches its projection  *)
(* and stays there: "eventually consistent".                               *)
(***************************************************************************)
EventuallyConsistent == <>[](db = Projection(dir))

(***************************************************************************)
(* An event whose transaction was committed before the acknowledgement got *)
(* lost is delivered again, and handling it again neither fails nor        *)
(* changes anything.                                                       *)
(***************************************************************************)
RedeliveryIsHarmless ==
  pc = "fetched" /\ queue[cur].commits > 0
    => /\ ~HandlerFails(db, log[cur])
       /\ HandleEvent(db, log[cur]) = db

(***************************************************************************)
(* With fewer faults and crashes, all told, than an event has deliveries,  *)
(* no event is dropped (process_one_event): no handler fails because of    *)
(* what it finds in the database.  The schools it looks up are stored when *)
(* it does, and a name that changed hands is free again.                   *)
(***************************************************************************)
NothingDropped == \A i \in D!Events : ~Settled(i, "exhausted")

(***************************************************************************)
(* A group is linked only to memberships of its own school: members are    *)
(* resolved against the school, users against the school of each group.    *)
(***************************************************************************)
LinksWithinSchool == \A l \in db.link : db.group[l[1]].school = l[3]

(***************************************************************************)
(* References never outlive what they refer to, a user has at most one     *)
(* primary school, and the DN mapping is one-to-one between stored objects *)
(* and DNs - whatever events were dropped, and after a second prefill.     *)
(***************************************************************************)
StoreConsistent == ConstraintsHold(db) /\ ReferencesHold(db)

(***************************************************************************)
(* Once the handler of an object's removal has been committed, the object  *)
(* is gone for good: no redelivery, retry or late event brings it back,    *)
(* although a modify event creates an object it does not find.             *)
(***************************************************************************)
RemovedStaysRemoved ==
  \A i \in D!Events :
    /\ log[i].op = "delete" /\ log[i].kind # "host"
    /\ queue[i].commits > 0
    => ~Stored(db, log[i].id)

\* The columns of an object that only its own events write.
OwnColumns(d, x) ==
  CASE x \in School -> d.school[x]
    [] x \in Group -> d.group[x]
    [] x \in User -> <<d.user[x], {m \in d.member : m[1] = x}, {m \in d.primary : m[1] = x}>>

LastEvent(i) == \E x \in Object : i \in EventsOf(x) /\ \A k \in EventsOf(x) : k <= i

(***************************************************************************)
(* A dropped event harms only its own object: when the queue is empty and  *)
(* no school event was dropped, every object whose last event was applied  *)
(* has the row the directory calls for, whatever earlier events of the     *)
(* object, or any event of other objects, were dropped.  The reverse, that *)
(* the last event is applied, fails: see LaterEventRepairs.                *)
(***************************************************************************)
DropsStayLocal ==
  Drained /\ (\A i \in D!Events : log[i].kind = "school" => Settled(i, "applied"))
    => \A i \in D!Events :
         Settled(i, "applied") /\ LastEvent(i)
           => OwnColumns(db, log[i].id) = OwnColumns(Projection(dir), log[i].id)

----------------------------------------------------------------------------
(* Claims of the documentation that the code does not keep *)

(***************************************************************************)
(* "the link is established when the referenced object's own event         *)
(* arrives", of e-mail senders too: synchronisation.rst.                   *)
(***************************************************************************)
SendersEventuallyLinked == Drained => db.sender = Projection(dir).sender

(***************************************************************************)
(* "the next event touching the same object repairs the dropped state":    *)
(* KelvinConsumerModule.  Here: with at most one fault, an object one of   *)
(* whose events was dropped is as it should be once a later one is done.   *)
(***************************************************************************)
LaterEventRepairs ==
  Drained =>
    \A x \in Object : \A i, j \in EventsOf(x) :
      i < j /\ Settled(i, "exhausted") /\ LastEvent(j)
        => OwnColumns(db, x) = OwnColumns(Projection(dir), x)

(***************************************************************************)
(* "If a Kelvin DB row ever diverges from LDAP, the remedy is [...] a      *)
(* re-prefill of the subscription": synchronisation.rst.  Here: once a     *)
(* second prefill has been applied without a drop, the rows of the objects *)
(* in the directory and their DNs are right.                               *)
(***************************************************************************)
RePrefillRepairs ==
  Drained /\ used.resubscriptions = 1 /\ (\A i \in D!Events : Settled(i, "applied"))
    => \A x \in DirUsers(dir) :
         /\ OwnColumns(db, x) = OwnColumns(Projection(dir), x)
         /\ db.dn[x] = DirDn(dir, x)
=============================================================================
