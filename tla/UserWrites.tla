----------------------------- MODULE UserWrites -----------------------------
(***************************************************************************)
(* What Manager.create and Manager.modify of users promise (the port in    *)
(* ucsschool-objects, domain/ports/manager.py): the rows of one user       *)
(* become the ones asked for, in one step.  SyncManager relies on this.    *)
(***************************************************************************)
EXTENDS KelvinStore

CONSTANTS
  Nothing,
  InitialDatabase    \* the databases a call may find at first

\* A user with the schools it belongs to, the primary one, and its group links.
UserRows ==
  [user : User, name : UserName, schools : SUBSET School, primary : SUBSET School,
   links : SUBSET (Group \X User \X School)]

\* References in the tables are complete, and a user has one primary school.
Consistent(d) ==
  /\ d.member \subseteq Users(d) \X Schools(d)
  /\ d.primary \subseteq d.member
  /\ \A m, n \in d.primary : m[1] = n[1] => m = n
  /\ \A l \in d.link : <<l[2], l[3]>> \in d.member

ASSUME UserWritesAssumption ==
  /\ Nothing \notin UserRows
  /\ \A d \in InitialDatabase : d \in Database /\ Consistent(d)

VARIABLES
  db,       \* the committed state of the Kelvin database
  wanted    \* the rows asked for; Nothing between two calls

\* Links of a user's memberships: to groups of the membership's own school.
OwnLinks(d, u, schools) ==
  {<<g, u, d.group[g].school>> : g \in {h \in Groups(d) : d.group[h].school \in schools}}

(***************************************************************************)
(* At most one membership is primary: SyncManager builds it so.  Names     *)
(* that are taken are left out here; see ConstraintsHold.                  *)
(***************************************************************************)
Wanted(d) ==
  {w \in UserRows :
     /\ w.schools \subseteq Schools(d)
     /\ w.primary \subseteq w.schools
     /\ \A s, t \in w.primary : s = t
     /\ w.links \subseteq OwnLinks(d, w.user, w.schools)
     /\ \A u \in Users(d) \ {w.user} : d.user[u] # w.name}

Put(d, w) == PutUser(d, w.user, w.name, w.schools, w.primary, w.links)

Init ==
  /\ db \in InitialDatabase
  /\ wanted = Nothing

Call ==
  /\ wanted = Nothing
  /\ wanted' \in Wanted(db)
  /\ UNCHANGED db

Write ==
  /\ wanted # Nothing
  /\ db' = Put(db, wanted)
  /\ wanted' = Nothing

Next == Call \/ Write

Spec == Init /\ [][Next]_<<db, wanted>>
=============================================================================
