--------------------------- MODULE MembershipPatch ---------------------------
(***************************************************************************)
(* SQLAlchemyUserManager.create and .modify, statement by statement: how   *)
(* the memberships of a user get from the rows in the database to the rows *)
(* of the patch.                                                           *)
(*                                                                         *)
(* The session collects changes in memory; a flush turns them into         *)
(* statements: inserts and updates first, in any order here, then deletes. *)
(* The database checks the unique index on is_primary after each of them,  *)
(* so a flush may fail half-way although its end result would be allowed.  *)
(***************************************************************************)
EXTENDS UserWrites

VARIABLES
  pc,        \* "idle", or what modify does: "release", "apply"; "flush" is the
             \* flush after release, "commit" the one at the end; "failed"
  table,     \* the database as the transaction sees it
  session    \* the user's rows as the session wants them

patchVars == <<db, wanted, pc, table, session>>

\* The rows of a user that a flush writes.
Rows(d, u) ==
  [name    |-> d.user[u],
   member  |-> {m \in d.member : m[1] = u},
   primary |-> {m \in d.primary : m[1] = u},
   link    |-> {l \in d.link : l[2] = u}]

NoSession == [name |-> NoRow, member |-> {}, primary |-> {}, link |-> {}]

PatchInit ==
  /\ db \in InitialDatabase
  /\ wanted = Nothing
  /\ pc = "idle"
  /\ table = db
  /\ session = NoSession

\* The transaction begins and loads the user.
Begin(w) ==
  /\ pc = "idle"
  /\ wanted' = w
  /\ table' = db
  /\ session' = Rows(db, w.user)
  /\ pc' = IF w.user \in Users(db) THEN "release" ELSE "apply"
  /\ UNCHANGED db

WantedMembers == {wanted.user} \X wanted.schools
WantedPrimary == {wanted.user} \X wanted.primary

\* Faulty variant: what is released is not flushed before the new rows are made.
Release_NoFlush ==
  /\ pc = "release"
  /\ session' = [name    |-> wanted.name,
                 member  |-> session.member \cap WantedMembers,
                 primary |-> session.primary \cap WantedPrimary,
                 link    |-> {l \in session.link : <<l[2], l[3]>> \in WantedMembers}]
  /\ pc' = "apply"
  /\ UNCHANGED <<db, wanted, table>>

(***************************************************************************)
(* _apply_membership_relation_changes releases the primary slot first:     *)
(* memberships that go are removed, a kept one that is no longer primary   *)
(* is demoted, and the session is flushed if there was any.                *)
(***************************************************************************)
Release ==
  LET kept == session.member \cap WantedMembers
      primary == session.primary \cap WantedPrimary
  IN /\ pc = "release"
     /\ session' = [name    |-> wanted.name,
                    member  |-> kept,
                    primary |-> primary,
                    link    |-> {l \in session.link : <<l[2], l[3]>> \in kept}]
     /\ pc' = IF kept # session.member \/ primary # session.primary THEN "flush" ELSE "apply"
     /\ UNCHANGED <<db, wanted, table>>

\* Faulty variant: a kept membership keeps its groups.
Apply_NewOnly ==
  /\ pc = "apply"
  /\ session' = [name    |-> wanted.name,
                 member  |-> WantedMembers,
                 primary |-> WantedPrimary,
                 link    |-> session.link \cup
                               {l \in wanted.links : <<l[2], l[3]>> \notin session.member}]
  /\ pc' = "commit"
  /\ UNCHANGED <<db, wanted, table>>

\* Memberships are created or promoted, and their groups synchronised.
Apply ==
  /\ pc = "apply"
  /\ session' = [name    |-> wanted.name,
                 member  |-> WantedMembers,
                 primary |-> WantedPrimary,
                 link    |-> wanted.links]
  /\ pc' = "commit"
  /\ UNCHANGED <<db, wanted, table>>

----------------------------------------------------------------------------
(* The statements of a flush *)

Flushing == pc \in {"flush", "commit"}
UserWritten == table.user[wanted.user] = session.name
ToInsert == session.member \ table.member
ToDelete == Rows(table, wanted.user).member \ session.member
ToUpdate == {m \in session.member \cap table.member :
               (m \in table.primary) # (m \in session.primary)}

\* primary_user_constraint: one primary membership per user.
OnePrimary(d) == \A m, n \in d.primary : m[1] = n[1] => m = n

\* A statement takes effect, or the index refuses it and the transaction fails.
Execute(d) ==
  /\ IF OnePrimary(d) THEN table' = d /\ pc' = pc
                      ELSE table' = table /\ pc' = "failed"
  /\ UNCHANGED <<db, wanted, session>>

WriteUser ==
  /\ Flushing /\ ~UserWritten
  /\ Execute([table EXCEPT !.user[wanted.user] = session.name])

InsertMembership(m) ==
  /\ Flushing /\ UserWritten
  /\ m \in ToInsert
  /\ Execute([table EXCEPT !.member = @ \cup {m},
                           !.primary = @ \cup ({m} \cap session.primary)])

UpdateMembership(m) ==
  /\ Flushing /\ UserWritten
  /\ m \in ToUpdate
  /\ Execute([table EXCEPT !.primary = IF m \in session.primary THEN @ \cup {m} ELSE @ \ {m}])

\* The links of a membership go with it: ON DELETE CASCADE.
DeleteMembership(m) ==
  /\ Flushing /\ UserWritten
  /\ ToInsert \cup ToUpdate = {}
  /\ m \in ToDelete
  /\ Execute([table EXCEPT !.member = @ \ {m}, !.primary = @ \ {m},
                           !.link = {l \in @ : <<l[2], l[3]>> # m}])

WriteLinks ==
  /\ Flushing /\ UserWritten
  /\ ToInsert \cup ToUpdate \cup ToDelete = {}
  /\ Rows(table, wanted.user).link # session.link
  /\ Execute([table EXCEPT !.link = {l \in @ : l[2] # wanted.user} \cup session.link])

Statement ==
  \/ WriteUser
  \/ \E m \in User \X School : InsertMembership(m) \/ UpdateMembership(m) \/ DeleteMembership(m)
  \/ WriteLinks

Flushed == Rows(table, wanted.user) = session

FlushEnds ==
  /\ pc = "flush" /\ Flushed
  /\ pc' = "apply"
  /\ UNCHANGED <<db, wanted, table, session>>

Commit ==
  /\ pc = "commit" /\ Flushed
  /\ db' = table
  /\ wanted' = Nothing
  /\ pc' = "idle"
  /\ session' = NoSession
  /\ UNCHANGED table

PatchNext ==
  \/ \E w \in Wanted(db) : Begin(w)
  \/ Release
  \/ Apply
  \/ Statement
  \/ FlushEnds
  \/ Commit

PatchSpec == PatchInit /\ [][PatchNext]_patchVars

----------------------------------------------------------------------------
(* Properties *)

(***************************************************************************)
(* No statement of a flush is refused, whichever memberships a call adds,  *)
(* removes, promotes and demotes: the old primary membership has given up  *)
(* its mark before another one gets it                                     *)
(* (_apply_membership_relation_changes).                                   *)
(***************************************************************************)
NeverRefused == pc # "failed"

(***************************************************************************)
(* A call writes the rows asked for, all at once, and no others: the       *)
(* manager implements UserWrites, so SyncManager may take PutUser for it.  *)
(***************************************************************************)
W == INSTANCE UserWrites
WritesUsers == W!Spec
=============================================================================
