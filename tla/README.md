# Kelvin: specifications, model checking and proofs

TLA+ modules for the parts of the UCS@school Kelvin REST API that are hard to
test: the connector that projects the LDAP directory into the Kelvin database,
event by event, through crashes, retries, drops and renames; the reads of
version 2 of the API while the connector writes; how a user's memberships are
written past a unique index; and how several API processes create users in LDAP
without a lock.

Paths below are relative to the repository; `connector/` stands for
`kelvin-connector/src/kelvin_connector/` and `objects/` for
`ucsschool-objects/src/ucsschool_objects/`.

## The system

LDAP is the source of truth. The v1 API, the importer and UMC write to it
through UDM. Version 2 of the API reads from a PostgreSQL database that a
companion process, the *Kelvin connector*, keeps up to date:

```
 v1 API, import, UMC --> UDM/LDAP --> Provisioning queue --> connector --> Kelvin DB --> v2 API
                                       (one event per        one event,
                                        changed object)      one transaction,
                                                             then acknowledge
```

| component | state | operations | what is hard | what makes it correct |
|---|---|---|---|---|
| Provisioning queue (external) | events, their order, `num_delivered`, acknowledgements | publish, deliver the oldest open event, acknowledge | redelivery, acknowledgements that do not arrive | - |
| delivery (`connector/consumer.py`, `connector.py`, `docker/start-connector.sh`) | the event being processed; nothing survives a crash | `process_one_event`: fetch, filter, handle, retry or drop, acknowledge; restart | crash between commit and acknowledgement, poison pills, failing acknowledgements | nothing lost before its budget is used, effects in order, bounded retries, progress |
| synchronisation manager (`connector/sync.py`) | none of its own | one handler per object type and operation | references that arrive before what they name, modify of a missing object, renames | once caught up, the database is the projection of the directory |
| event models (`connector/models.py`) | none | parse, validate | malformed objects | - |
| store (`objects/database_models.py`, `core/adapters/sqlalchemy/`) | school, group, user, membership, association and DN mapping tables | create, modify (JSON patch), delete, DN mapping, transactions | unique names, cascades, the primary-school index, no autoflush | references never dangle, one primary school, DN mapping one-to-one |
| subscription setup (`appcenter/includes/setup-provisioning-subscription.sh`) | the subscription and its password file | (re-)create the subscription with a prefill | second prefill into a filled database | a prefill brings the database up to date |
| v2 read API (`kelvin-api/.../routers/v2/`) | one session per request | get, search, in several statements | other commits between two statements | a request fails only if its own rows changed; once the directory rests, answers are right |
| v1 API, `ucs-school-lib` | LDAP | create, modify, move, delete through UDM | several LDAP writes per request, hooks | one user per record unless requests for it overlap, and a client that retries gets one |
| user import (`ucs-school-import`), as the v1 API uses it | name counters in LDAP | `get_and_raise`, the search for a user's record | processes that read the same counter; a process that dies while UDM works | a number is given out once unless an update of the counter is lost |

Hazards, with the lines where they bite and the properties that cover them, are
listed in `PROJECT.json`; those without a property carry the reason.

## Modules

| module | models | proved / checked |
|---|---|---|
| `OrderedDelivery` | abstract: events take effect in order, any number of times while they are the oldest open one, never afterwards | refined by `Delivery` |
| `Delivery` | the queue and `KelvinConsumerModule.process_one_event` with its process | run `delivery` |
| `KelvinStore` | the tables as a record; the managers as operators on it | through `Connector` |
| `SyncManager` | the event handlers as operators from a database and an event to a database | through `Connector` |
| `Directory` | external: the directory, its changes, the events they cause, and the *projection*: what a caught-up database holds | through `Connector` |
| `Connector` | all of them together | runs `converges`, `recovers`, `drops` and four violations |
| `ReadPath` | `Connector` with the requests of the v2 API, statement by statement | run `reads` and one violation |
| `UserWrites` | abstract: a call of the user manager changes one user's rows in one step | refined by `MembershipPatch` |
| `MembershipPatch` | the same call as a session, its flushes and their statements | run `memberships` |
| `UserCreation` | `POST /v1/users/` in several processes: name counter, search, UDM | run `accounts` |
| `MCConnector`, `MCReadPath`, `MCMembershipPatch`, `MCUserCreation` | constants for TLC | |
| `DeliveryProofs`, `ConnectorProofs`, `HandlerProofs`, `DropProofs`, `ConvergenceProofs`, `ReadProofs`, `MembershipProofs`, `UserCreationProofs` | theorems and their proofs | TLAPS |

Each of `ReadPath`, `Connector`, `Directory`, `SyncManager`, `KelvinStore`
extends the next one; `Connector` takes its queue and process from an
instance of `Delivery`. `UserWrites` and `MembershipPatch` stand on
`KelvinStore`: what they show is that `PutUser`, which the handlers of
`SyncManager` use for the user manager, is what the manager does.
`UserCreation` stands alone: it ends where LDAP has the user, and the connector
begins where LDAP publishes it. The proofs about the connector build on each
other: `ConnectorProofs`, `HandlerProofs`, `DropProofs` and `ConvergenceProofs`
each extend the one before, and `ReadProofs` extends `ConvergenceProofs` and
`ReadPath`.

### Delivery

`pc` is what the process is doing: `down`, `idle` (before `_fetch_event`),
`fetched`, or one of four verdicts reached on the event: `applied` (handler
committed), `skipped` (`is_relevant` false), `malformed` (ValidationError),
`exhausted` (failed with no deliveries left). A verdict is followed by
`Acknowledge`; after `exhausted` the exception is raised again and the process
ends. `HandlerError` is the `except Exception` branch, both arms. An event keeps
`delivered` (the queue's count), `commits` (how often its transaction took
effect; a ghost) and `outcome`. The environment publishes, kills the process at
any point, and lets acknowledgements fail before or after they reached the
queue. A commit whose answer is lost is `HandlerError(TRUE)`: the handler
failed, the effect stayed.

The class of an event is chosen by the environment here, and the handler may
fail at every delivery. "refused" events, for which the library's `handle_event`
answers False, are not acknowledged by the code and stay first in the queue:
`NoPoisonPill` names them as its exception.

### KelvinStore, SyncManager

A database is a record of relations over public ids; `name` stands for all
unique columns. A handler is an operator `HandleEvent(db, e)`; it fails
(`HandlerFails`) if it raises or if what it leaves behind violates a unique
column or `group.school_id`, as the flush or commit would. The operators follow
the code where the order of its steps shows:

- `ModifyGroup`: `_apply_group_patch` syncs members before the school, so the
  memberships are those of the old school, and only if the set of members changed;
- `HandleGroupModify`: without autoflush the new DN cannot be resolved before
  the flush;
- `HandleUserCreate`, `HandleGroupCreate`, `HandleSchoolCreate`: a create event
  of a stored object updates the row and leaves the DN mapping alone, and a
  modify event of an unknown object creates it.

Left out: legal wards and guardians, roles of all kinds, columns that are only
copied, the JSON patches between two snapshots (a modify replaces what it
changes; the code asks `track_changes` to do the same), and the statements of
group and school writes (those of user writes are in `MembershipPatch`).

### Directory and Connector

`Directory` is not the repository's code. It states what the code relies on:

- an event is a snapshot of one object taken when the change is made, and
  events are queued in the order of the changes;
- a prefill publishes a create event for every object, OUs first, then groups
  (host groups among them), then users, as the topics of the setup script are
  ordered; it is published in one step;
- renaming, moving or removing a user also changes the groups that list its DN,
  and they get modify events; changing the members of a group causes an event
  of the group only;
- an OU is removed after its users, groups and host groups; OUs are not
  renamed; `univentionObjectIdentifier`s are not used twice; members of a
  group belong to the group's school.

`Connector` gives every event of `Delivery` a payload and every handling of one
an effect on `db`. `HandleCurrent` commits. `HandlerRaises` is a failure that
the database explains and that will happen again at every delivery.
`DatabaseFault` is any other failure, with or without the transaction having
taken effect. `Resubscribe` is the setup script with `FORCE=true`: what the old
subscription still held is gone, the new one starts with a prefill, the database
is kept.

`Projection(dir)` says what the database should hold: every object in scope with
its own columns, the references between two stored objects, the DNs.

### ReadPath

A v2 request is a sequence of SELECT statements in one session. Nobody sets an
isolation level, so PostgreSQL runs them at READ COMMITTED and each sees what is
committed at that moment. An action is one statement: for users the users,
their memberships, the schools of these, the groups of the memberships, the
schools of these, the DNs; for a class the class, its members, their users, the
school, the DN. `view` collects what the statements found and has the shape of
a database, so that an answer can be compared with the projection. A reference
whose row is gone is loaded as `None`; reading it raises, and the request ends
`failed` (500), as does a user without a DN or without a primary membership.

Three fields observe what happens meanwhile. `lost` keeps memberships that were
deleted after they were read: a user who leaves a school and comes back gets a
new row, and the groups statement, which looks for the ids it has read, does
not find it. `disturbed` says that a row the request had found has changed.
`settled` says that the request began with at most one event open and that the
directory has not changed since. `Observe` updates them in every step of the
others and changes nothing else.

### UserWrites and MembershipPatch

A call of `create` or `modify` loads the user into a session, changes the
session and lets flushes turn the changes into statements.
`_apply_membership_relation_changes` first releases (removes memberships,
demotes the old primary one) and flushes, then adds and promotes; the commit
flushes again. Within a flush, SQLAlchemy orders the statements by kind, not by
what the unique index needs: the model sends inserts and updates in any order,
then deletes, then the links. The index on `is_primary` is checked after each,
and a refused one fails the transaction. `Wanted` are the rows a handler can
ask for: at most one primary membership, links only to groups of a school of
the user. Names that are taken by another user are refused in `ConstraintsHold`
of `SyncManager` and left out here.

### UserCreation

`request[c].at` is where the request of client `c` stands: `search` (is there a
user with this source and record id?), `retrieve` and `add` or `replace` (the
counter of the name scheme), `create` and `saving` (UDM REST works), and how it
ended. `AddCounter` fails if the entry has appeared meanwhile, because LDAP adds
an entry once. `ReplaceCounter` does not notice that the counter has moved: the
modification names the old value, but `uldap` sends MOD_REPLACE. A process may
die at any point; what it has asked of UDM stays in `udm`, with nobody waiting,
and its client repeats the request later.

Two simpler claims are false, which is why the properties are stated with the
ghosts `lost` and `overlapped`: numbers are given out twice after a lost update
of the counter, and two overlapping requests for one record create two users,
because the uniqueness tests of the import are switched off
(`kelvin_defaults.json`) and LDAP keeps only names unique. No document of the
repository promises otherwise.

## What the runs check

| run | properties | question |
|---|---|---|
| `delivery` | `TypeOK`, `NoSilentLoss`, `EffectsInOrder`, `BoundedDeliveries`, `NoPoisonPill`, `DeliversInOrder` | is the delivery policy right under failures, kills and lost acknowledgements? |
| `converges` | `StoreFollowsDirectory`, `LinksWithinSchool` | does every interleaving of changes and handlers lead to the projection? |
| `recovers` | `RedeliveryIsHarmless`, `NothingDropped`, `EventuallyConsistent` | the same with a crash and a failed transaction anywhere, with liveness |
| `drops` | `TypeOK`, `StoreConsistent`, `RemovedStaysRemoved`, `DropsStayLocal` | how much harm can a dropped event do? |
| `senders` | `SendersEventuallyLinked` (violated) | are unresolved e-mail senders linked later, as documented? |
| `repair` | `LaterEventRepairs` (violated) | does the next event of an object repair a drop, as documented? |
| `role` | `StoreFollowsDirectory` (violated) | does the database follow a group that leaves the scope? |
| `reprefill` | `RePrefillRepairs` (violated) | does a second prefill repair every row, as documented? |
| `reads` | `UsersShown`, `FailsOnlyWhenDisturbed`, `ClassesWithinSchools`, `AnswersConverge` | what may a request show or fail on while the connector writes, and does it become right? |
| `read_your_writes` | `ReadYourWrites` (violated) | does a v2 request show the v2 write before it, as documented? |
| `memberships` | `NeverRefused`, `WritesUsers` | can the order of statements break the primary-school index, and is the result the one asked for? |
| `accounts` | `NumbersIssuedOnce`, `OneUserPerRecord`, `ServedInTheEnd` | what do concurrent creations guarantee without a lock? |

Every property of a passing run has a mutant in `PROJECT.json`: a faulty variant
of one definition, next to it in the module, with which TLC finds it violated.

### What the violations show

- `senders`: `_handle_group_create` and `_handle_group_modify` skip senders they
  cannot resolve, and no event of the sender adds them. Since a prefill sends
  groups before users, a first prefill links no user as a sender.
- `repair`: a dropped delete leaves a row that holds a unique name. The events of
  the name's next owner fail and are dropped in turn. `connector/models.py`
  knows that a stale row cannot be repaired; `consumer.py` and
  `synchronisation.rst` say that a later event repairs.
- `role`: `is_relevant` looks at the new roles only, so the event that removes
  the role, and all later ones, are skipped.
- `reprefill`: a create event of a stored object does not refresh its DN, so a
  rename lost with the old subscription stays lost to everything that names the
  object by DN.
- `read_your_writes`: v2 writes through UDM and answers from what UDM returned;
  the database has the change only when the connector has handled the event.
  `overview.rst` says as much, `synchronisation.rst` promises the opposite.

`converges` and `recovers` hold because the first four cases are kept out by their
constants; so is moving a group to another school (`regroup`), after which
links join memberships of the old school (see the hazard at
`group_manager.py:72`).

### Bounds

| constant | delivery | converges | recovers | drops | why it is enough |
|---|---|---|---|---|---|
| `MaxEvents` | 3 | 10 | 8 | 7 | delivery: an older, a current and a younger event; others: the prefill and all events of the changes |
| `MaxDeliveries` | 3 | 3 | 3 | 1 | 3 is the default; with 1 every failure is a drop, which is the worst case of every larger budget (the proofs cover every budget) |
| `MaxCrashes` | 2 | 0 | 1 | 0 | a crash, and one more while recovering |
| `MaxFaults` | - | 0 | 1 | 1 | with `MaxCrashes` fewer than `MaxDeliveries` in `recovers`, so nothing is dropped there |
| `MaxChanges` | - | 3 | 2 | 2 | a rename, a move or a removal against a change of what refers to the object |
| `MaxResubscriptions` | - | 0 | 0 | 1 | one prefill into a filled database |
| objects | - | 2 schools, 2 groups, 2 users, 2 names each | 1 group | 1 group | an object of the wrong school, a name taken over from another object |

`delivered` stops counting one above the bound that `BoundedDeliveries` states
(`DeliveredBound`); nothing but a refused event gets there. Runs that reach
`MaxChanges` simply stop changing the directory, so deadlock is not checked: an
empty queue with an idle process is where the system waits.

`reads` has two schools, two groups and two users, two changes, `MaxEvents` 9
and no crashes: one directory in which a pupil of a class is in both schools,
and one with an empty class of the second school, so that a move, a removal or a
new link can fall between any two statements. `read_your_writes` needs one
change. `memberships` has one user (rows of different users do not meet), three
schools, so that a call can add, keep and remove at once, and two groups; the
number of calls is not bounded, and deadlock is checked. `accounts` has two
clients for the same record, one for another, and one that asks for the name a
counter will give out; one process may die. All end, so deadlock is not checked
there.

Symmetry is not used: the runs with liveness may not, and `PrimarySchools`
chooses a school by a fixed order, which is not symmetric.

### Fairness

`Delivery!Fairness` is weak fairness of fetching, of the process's own steps and
of the restart: `consume_loop` runs as long as the process does, and
`restart: unless-stopped` (`appcenter/compose.jinja`) starts it again.
`Connector!FairSpec` assumes the same of `Process`. Nothing is assumed about
success: in `delivery` the handler may fail at every delivery. Kills and faults
are bounded and never fair, and neither are changes of the directory;
`EventuallyConsistent` speaks of directories that stop changing because
`MaxChanges` bounds the changes.

`ReadPath!FairReadSpec` adds that a request which has begun is served to its
end; nobody is made to ask. `UserCreation!FairSpec` is weak fairness of each
client's request and of UDM. It includes that a client whose request failed
sends it again, which is an assumption about clients: without it
`ServedInTheEnd` says nothing. Crashes are bounded and never fair.

## What is proved

### Delivery

`DeliveryProofs`, for all values of `MaxDeliveries` > 0, `MaxCrashes` and
`MaxEvents` (`DeliveryAssumption`, the only assumption):

| theorem | statement |
|---|---|
| `TypeCorrect` | `Spec => []TypeOK` |
| `NothingLostSilently` | `Spec => []NoSilentLoss` |
| `TakesEffectInOrder` | `Spec => []EffectsInOrder` |
| `RetriesBounded` | `Spec => []BoundedDeliveries` |
| `Refinement` | `Spec => DeliversInOrder`: `Delivery` implements `OrderedDelivery` |

The safety properties are not inductive: whether an event is in order or within
its budget depends on which event the process works on, and why it is about to
acknowledge it. The inductive invariant `IInv` adds

- `CurrentIsOldest`: the process works on the oldest open event, if it works on
  one at all (otherwise a commit could overtake an older event);
- `AckedPrefix`: the acknowledged events form a prefix of the queue;
- `VerdictJustified`: a verdict on a relevant event is backed by a commit or a
  used-up budget (otherwise `Acknowledge` could lose the event);
- `BudgetLeft`: an event that the process has given up and that is not settled
  has a delivery left, counting the crashes (otherwise `Fetch` would exceed the
  bound).

One lemma per kind of step shows that `IInv` is preserved; the steps that only
reach a verdict, give an event up or settle it share one lemma each. The
refinement maps `commits` to `effects` and `outcome` to `status`: `Publish` is
an abstract publish, `Handle` and a failed handler with a commit are
`TakeEffect`, every acknowledgement that arrives is `Close`, and the other steps
are not seen. `IInv` supplies what the guards of `OrderedDelivery` ask for.

### The store, for any database and any event

The first part of `ConnectorProofs` is about the operators of `KelvinStore` and `SyncManager`, under
`StoreAssumption` (the kinds of objects are disjoint, `NoRow` is no row).
`EventKeepsReferences`: from a well-typed database with intact references, one
primary school per user and a one-to-one DN mapping, a well-formed event leaves
such a database. `EventStoresOwnObject`: an event stores no object but its
own, and a removal leaves its object not stored. There is one lemma per manager
and one per handler; the handlers are compositions of the managers, so most of
the work is in what each manager may remove or add.

### The connector

The second part carries this over to `Connector`: `TypeCorrect` and
`StoreStaysConsistent` (`Spec => []StoreConsistent`), for all directories,
operations and bounds. Beyond `StoreAssumption` it assumes `DirectoryAssumption`
(a finite directory) and `ConnectorAssumption` (the directories found at first
are well-typed, with references to objects that exist). The inductive invariant
is `TypeOK /\ ReferencesIntact(dir) /\ CurrentExists /\ StoreConsistent`. The
directory's references are needed because an event is a snapshot of it: only
from an intact directory is every event well-formed. One lemma per change of
the directory shows `ChangeKept`: what the change may create or remove and which
events it publishes.

`RemovedForGood`, in the third part: an object whose removal has been
committed is never stored again. `RInv` says why: the removal of an object is
the last event about it (`RemovalIsLast`) and its identifier is not in use any
more (`RemovedIsGone`), which rests on identifiers never being used twice; and
events are committed in their order (`CommitsInOrder`, `CurrentIsOldest`), so an
older event of the object cannot follow. That the events of other objects do not
store it is `EventStoresOwnObject`.

### Links and schools

`HandlerProofs` proves `LinksStayWithinSchool` (`Spec => []LinksWithinSchool`), for
all directories, faults, crashes, drops and prefills, if `"regroup"` is not among
the `Operations`. The hypothesis is needed: `_apply_group_patch` looks the
members of a moved group up in its old school, and with `regroup` TLC finds the
links. The property is not inductive, because a handler takes the school of a
group from the event and the memberships from the database, and either may be
behind. `LInv` says that there is nothing to disagree about: the place of a
school (its name) and of a group (the name of its school) is the same in the
directory, in every event still in the queue and in the database, since OUs are
not renamed, groups do not move and identifiers are not used twice.

### A second delivery

`HandlerProofs` also proves `RedeliveryDoesNoHarm`
(`Spec => []RedeliveryIsHarmless`). Events are committed in order, so between a
commit and the second delivery of the event nothing else was committed; `Redone`
says that the event, handled on the database it left, neither fails nor changes
anything. Most of the module shows that of every handler
(`HandleEvent(HandleEvent(db, e), e) = HandleEvent(db, e)`), from the managers
up: what `set_mapping` displaces, which DNs then resolve, which links
`ModifyGroup` leaves alone. Two cases are false and excluded by hypotheses:

- a group that changes its school (`regroup`): the second delivery finds other
  memberships than the first;
- a group that is an allowed sender of itself. Its create event cannot resolve
  its own DN, whose mapping is written last; the second delivery can. The
  directories found at first have no such group (`SendersDistinct`), and either
  senders do not change or there is no second prefill, the only other source of
  create events with senders.

### Dropped events

`DropProofs` proves `DroppedEventsStayLocal` (`Spec => []DropsStayLocal`), with
all operations, faults, crashes, drops and any number of prefills. The only
hypothesis, `SchoolsFound`, is about the directories found at first: OUs have
different names, and groups and users are in OUs that exist, users with the OU of
their DN among their schools. `WInv`, next to the two invariants above, says of
the events published so far (`DirTold`) and of those committed:

- `LatestCarries`: the last event of an object tells its own columns as the
  directory has them - also when other objects have changed since, which is why
  every operation needs its lemma;
- `SchoolsFirst`: the OUs that the last event of an object names were published
  before it, by a prefill (OUs first) or because an object is only put into an OU
  that exists;
- `SchoolsTold`: an OU that exists was never published under another name and
  never as removed;
- `Books`: an event settled as applied was committed, and only events in scope
  are;
- `SchoolsWritten`: an OU one of whose events was committed is stored;
- `RowsWritten`, as long as no event of an OU has been dropped: an object whose
  last event was committed has the row, and a user exactly the memberships and
  the primary school, that the directory calls for.

The last needs the condition: a user or group whose OU is not stored is dropped
in silence. That events of other objects leave a row alone is
`OthersKept`; an OU's removal takes its memberships along, but nobody is in a
removed OU.

### Convergence

`ConvergenceProofs` proves what `synchronisation.rst` calls eventual consistency,
as far as it is safety:

| theorem | statement | for |
|---|---|---|
| `NothingIsDropped` | `Spec => []NothingDropped` | fewer faults and crashes than deliveries per event, no `role` |
| `UndroppedEventsConverge` | `Spec => [](NothingDropped => StoreFollowsDirectory)` | no `role`, `regroup`, `senders` |
| `StoreConverges` | `Spec => []StoreFollowsDirectory` | both |

The hypotheses, and what fails without them:

- `FitDirectories`: in the directories found at first, OUs have different names,
  groups and users are in OUs that exist (`SchoolsFound`), group names and user
  names are unique, and DC host groups belong to an OU. UDM and
  `ucs-school-lib` see to it, and every change of `Directory` keeps it
  (`DirFits`).
- `MaxResubscriptions = 0`, one prefill: `reprefill` shows a database that a
  second one leaves behind the directory.
- `"role"` excluded: `role` shows the stale group. It would also hold a name that
  the directory gives away, so handlers would fail.
- no allowed senders, at first or later: `senders` shows the lost reference.
- `"regroup"` excluded: links join memberships of the old school, see above.
- `MaxFaults + MaxCrashes < MaxDeliveries`, for `NothingDropped`: a single event
  may meet all of them. `repair` shows what a drop can do. Without this
  hypothesis the second theorem still says that nothing *but* a drop keeps the
  database from the projection.

The configurations `converges` and `recovers` satisfy all of them. There is no
bound on changes, objects, events, schools of a user or members of a group.

`StoreFollowsDirectory` speaks of an empty queue, and nothing about the moment
before tells why it holds. The invariant says what the database is worth with
events still open:

1. What the queue tells (`CInv`: `History`). A change of the directory is told by
   its own event together with the events of the groups rewritten for it
   (`ToldBy`): the last events of two objects, read together, tell how one refers
   to the other (`RefsTold`, `HostsTold`). An object is created by its first
   event, an OU is published before what is in it and removed after it, and a
   name is given back before it is given again.
2. What the handlers write (`StoredAsTold`, `PlacedBy`). A stored object is
   stored as the last committed event about it tells; if nothing was dropped, that
   event has also placed it, with row, memberships, primary school and DN.
3. No handler fails (`BInv`). By 1 and 2 the OU a handler looks up is
   stored and the name it needs is free, so only a fault or a crash costs an
   event a delivery, and there are fewer of these than deliveries.
4. What references are written (`FInv`: `LinksWritten`, `ServersWritten`). For two
   stored objects the later of their last committed events has written the link
   between them, by the DN of the object that was there first; a link goes only
   with one of its objects. At the end the last committed event of every object
   is its last event, and 1 turns what is written into the projection.

### Reads

`ReadProofs` proves `ReadsKeepTheStore`: requests write nothing, so every theorem
about `Connector` holds of `ReadSpec`. On it rest

- `AnswersListClassesWithinSchools` (`ReadSpec => []ClassesWithinSchools`, if no
  group changes its school): an answer is put together from links and groups read
  at different times, each of which was within its school when it was read;
- `RequestsFailOnlyWhenDisturbed`: if `UsersShown` holds at all times, so does
  `FailsOnlyWhenDisturbed`;
- `UndroppedUsersShown` (`ReadSpec => [](NothingDropped => UsersShown)`, with one
  prefill) and `StoredUsersAreShown` (`ReadSpec => []UsersShown`, with fewer faults
  and crashes than deliveries and no `role`), from the invariant of
  `ConvergenceProofs`;
- `QuietRequestsSucceed` (`ReadSpec => []FailsOnlyWhenDisturbed`), which puts the
  last two together.

`UsersShown` needs its hypotheses: after a dropped event of an OU, a modify event
takes the last membership from a stored user; and after a rename that a second
prefill swallowed, another user takes the DN. Allowed senders and moved groups do
no harm here, so they are not excluded from it.

### Memberships

`MembershipProofs`, for all databases and calls: `NothingRefused` and
`WritesExactly` (`MembershipPatch` implements `UserWrites`). The invariant
`PatchInv` says that nobody else's rows have changed, and what the transaction
has done by each stage: while the first flush runs, the session asks only for
rows the table has; from `apply` on, the user's primary rows in the table are
wanted ones, of which there is at most one. So no statement can produce a
second one, in whatever order they come.

### User creation

`UserCreationProofs`, for any clients, records, names and crashes:
`TypeCorrect`, `NumbersUnique`, `RecordsUnique`. `CounterInv` adds that numbers
given out are below the counter unless an update was lost, and that the entry,
once there, stays. `RecordInv` adds, for a record no two requests
overlapped for: whoever works on it works alone (`WorksAlone`), UDM has at most
one job for it (`OneJob`), and once it has its user no job is left and no
request is beyond the search (`NothingOnTheWay`). `JobsAwaited` ties a job to
the request that waits for it.

### Only model-checked

Liveness is beyond the prover: `NoPoisonPill`, `EventuallyConsistent`,
`AnswersConverge`, `ServedInTheEnd`. Every invariant and the two refinements of
the passing runs are theorems, each under the hypotheses named above. What
`EventuallyConsistent` adds to `StoreConverges` is that the queue does become
empty and stays so.

## Not modelled

- Legal wards and guardians (one table that the events of both users rewrite),
  roles, and columns that are only copied, such as a group's mail address, which
  is never cleared.
- JSON patches (`patch.py`, `track_changes`) and the translation of search
  queries: pure functions of a snapshot, taken for what they compute.
- The statements of group and school writes, engine and pool settings.
- v2 requests for schools and roles (one statement each), filters and limits.
- The writes of v1 other than `POST /users/`: sequences of UDM calls without
  state of the API's own. Of `POST /users/`, the move to another school that
  `determine_add_modify_action` may make before the request is answered 409.
- The mass import and import jobs over HTTP: the image of the service starts
  neither of them, nor a Django server or a Celery worker.
- The single steps of the subscription setup script and its interruption.
- Authentication, configuration and start-up of the service; the one database
  migration beyond the tables it creates; installation scripts and images;
  documentation; the vendored `*-slim` packages and the bundled JavaScript
  that displays the OpenAPI pages.

## Plan

What would come next, in this order:

1. Legal wards and guardians in `KelvinStore`, `SyncManager` and `Directory`:
   one relation written by the events of both sides.
2. The steps of the subscription setup script, with an interruption anywhere.
3. The statements of group writes, after the pattern of `MembershipPatch`.

## Running

```
tlc -workers 2 -config Delivery.cfg Delivery
for r in converges recovers drops senders repair role reprefill; do
  tlc -workers 2 -config MCConnector_$r.cfg MCConnector
done
tlc -workers 2 -config MCReadPath.cfg MCReadPath
tlc -workers 2 -config MCReadPath_writes.cfg MCReadPath
tlc -workers 2 -config MCMembershipPatch.cfg MCMembershipPatch
tlc -workers 2 -config MCUserCreation.cfg MCUserCreation
for p in Delivery Connector Handler Drop Convergence Read Membership UserCreation; do
  tlapm ${p}Proofs.tla
done
```
