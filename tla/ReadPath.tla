------------------------------ MODULE ReadPath ------------------------------
(***************************************************************************)
(* The reads of the v2 API: routers/v2/user.py and routers/v2/             *)
(* school_class.py (workgroup.py does the same), while the connector       *)
(* writes.                                                                 *)
(*                                                                         *)
(* A request runs several SELECT statements in one session at the default  *)
(* isolation level of PostgreSQL, READ COMMITTED: each statement sees what *)
(* is committed when it runs.  Every action is one statement.  Its answer  *)
(* is assembled from what the statements found; it is kept as a database   *)
(* that holds only that, `view`.                                           *)
(*                                                                         *)
(*   kind       "get" a user by name, "search" all users, get a "class"    *)
(*   name       the name asked for                                         *)
(*   stage      the statement that comes next, or how the request ended:   *)
(*              "answered", "notfound" (404), "failed" (500)               *)
(*   lost       membership rows read and deleted since: a new membership   *)
(*              in the same school is another row                          *)
(*   disturbed  a row the request had found was changed meanwhile          *)
(*   settled    it began with at most one event left to handle, and the    *)
(*              directory has not changed since                            *)
(***************************************************************************)
EXTENDS Connector

CONSTANT RequestKinds    \* the kinds of request clients send

VARIABLE request

readVars == <<queue, pc, cur, crashes, log, dir, db, used, request>>

Kind == {"get", "search", "class"}
Statement == {"users", "memberships", "schools", "groups", "group schools", "dns",
              "class", "class members", "member users", "class school", "class dn"}
Ended == {"answered", "notfound", "failed"}

Request ==
  [kind : Kind, name : UserName \cup GroupName \cup {NoRow},
   stage : {"idle"} \cup Statement \cup Ended,
   view : Database, lost : SUBSET (User \X School),
   disturbed : BOOLEAN, settled : BOOLEAN]

ReadTypeOK == request \in Request

NewRequest(kind, name, stage, settled) ==
  [kind |-> kind, name |-> name, stage |-> stage, view |-> EmptyDatabase, lost |-> {},
   disturbed |-> FALSE, settled |-> settled]

NoRequest == NewRequest("search", NoRow, "idle", FALSE)

ReadInit == Init /\ request = NoRequest

----------------------------------------------------------------------------
(* A request *)

Ask(kind, name, stage) ==
  /\ request.stage = "idle"
  /\ kind \in RequestKinds
  /\ request' = NewRequest(kind, name, stage,
                           Cardinality({i \in D!Events : ~D!Acked(i)}) <= 1)

Asked ==
  \/ \E name \in UserName : Ask("get", name, "users")
  \/ Ask("search", NoRow, "users")
  \/ \E name \in GroupName : Ask("class", name, "class")

\* One SELECT: what it adds to the answer, and what comes next.
Select(stage, view, next) ==
  /\ request.stage = stage
  /\ request' = [request EXCEPT !.view = view, !.stage = next]

\* A row that another row refers to is loaded as None, and reading it raises.
NextIf(found, next) == IF found THEN next ELSE "failed"

View == request.view
FoundUsers == Users(View)
FoundGroups == Groups(View)

ReadUsers ==
  LET found == {u \in Users(db) : request.kind = "search" \/ db.user[u] = request.name}
  IN Select("users",
            [View EXCEPT !.user = [u \in User |-> IF u \in found THEN db.user[u] ELSE NoRow]],
            IF found = {} THEN (IF request.kind = "get" THEN "notfound" ELSE "answered")
            ELSE "memberships")

ReadMemberships ==
  Select("memberships",
         [View EXCEPT !.member = {m \in db.member : m[1] \in FoundUsers},
                      !.primary = {m \in db.primary : m[1] \in FoundUsers}],
         "schools")

ReadSchools ==
  LET wanted == {m[2] : m \in View.member}
  IN Select("schools",
            [View EXCEPT !.school = [s \in School |-> IF s \in wanted THEN db.school[s] ELSE NoRow]],
            NextIf(wanted \subseteq Schools(db), "groups"))

\* Faulty variant: the groups are looked up by user, not by the memberships read.
ReadGroups_ByUser ==
  LET links == {l \in db.link : l[2] \in FoundUsers}
      wanted == {l[1] : l \in links}
  IN Select("groups",
            [View EXCEPT !.link = links,
                         !.group = [g \in Group |-> IF g \in wanted THEN db.group[g] ELSE NoRow]],
            "group schools")

ReadGroups ==
  LET links == {l \in db.link : <<l[2], l[3]>> \in View.member \ request.lost}
      wanted == {l[1] : l \in links}
  IN Select("groups",
            [View EXCEPT !.link = links,
                         !.group = [g \in Group |-> IF g \in wanted THEN db.group[g] ELSE NoRow]],
            "group schools")

ReadGroupSchools ==
  Select("group schools", View,
         NextIf({View.group[g].school : g \in FoundGroups} \subseteq Schools(db), "dns"))

(***************************************************************************)
(* public_ids_to_dns, then _user_to_model for every user: dn_map[...] and  *)
(* primary_school raise for a user without a DN or a primary membership.   *)
(***************************************************************************)
ReadDns ==
  Select("dns",
         [View EXCEPT !.dn = [x \in Object |-> IF x \in FoundUsers THEN db.dn[x] ELSE NoRow]],
         NextIf(\A u \in FoundUsers :
                  db.dn[u] # NoRow /\ \E s \in School : <<u, s>> \in View.primary,
                "answered"))

ReadClass ==
  LET found == {g \in Groups(db) : db.group[g].name = request.name}
  IN Select("class",
            [View EXCEPT !.group = [g \in Group |-> IF g \in found THEN db.group[g] ELSE NoRow]],
            IF found = {} THEN "notfound" ELSE "class members")

ReadClassMembers ==
  Select("class members", [View EXCEPT !.link = {l \in db.link : l[1] \in FoundGroups}],
         "member users")

ReadMemberUsers ==
  LET wanted == {l[2] : l \in View.link}
  IN Select("member users",
            [View EXCEPT !.user = [u \in User |-> IF u \in wanted THEN db.user[u] ELSE NoRow]],
            NextIf(wanted \subseteq Users(db), "class school"))

ReadClassSchool ==
  LET wanted == {View.group[g].school : g \in FoundGroups}
  IN Select("class school",
            [View EXCEPT !.school = [s \in School |-> IF s \in wanted THEN db.school[s] ELSE NoRow]],
            NextIf(wanted \subseteq Schools(db), "class dn"))

\* A class without a DN is answered with an empty one.
ReadClassDn ==
  Select("class dn",
         [View EXCEPT !.dn = [x \in Object |-> IF x \in FoundGroups THEN db.dn[x] ELSE NoRow]],
         "answered")

\* The response is sent and the session closed.
Respond ==
  /\ request.stage \in Ended
  /\ request' = NoRequest

Serve ==
  /\ \/ ReadUsers \/ ReadMemberships \/ ReadSchools
     \/ ReadGroups \/ ReadGroupSchools \/ ReadDns
     \/ ReadClass \/ ReadClassMembers \/ ReadMemberUsers
     \/ ReadClassSchool \/ ReadClassDn
     \/ Respond
  /\ UNCHANGED vars

----------------------------------------------------------------------------
(* The requests and the connector *)

\* The rows of the objects asked for, as far as the request has found them.
Footprint(d) ==
  IF request.kind = "class"
    THEN [row |-> [g \in FoundGroups |-> <<d.group[g], d.dn[g]>>],
          member |-> {l \in d.link : l[1] \in FoundGroups}]
    ELSE [row |-> [u \in FoundUsers |-> <<d.user[u], d.dn[u]>>],
          member |-> {<<m, m \in d.primary>> : m \in {n \in d.member : n[1] \in FoundUsers}}]

\* What a step of the others means for the request in progress.
Observe ==
  LET open == request.stage \in Statement
  IN request' = [request EXCEPT
                   !.lost = IF open THEN @ \cup (View.member \ db'.member) ELSE @,
                   !.disturbed = @ \/ (open /\ Footprint(db') # Footprint(db)),
                   !.settled = @ /\ dir' = dir]

Synchronise == Process /\ Observe

ReadNext ==
  \/ Next /\ Observe
  \/ Asked /\ UNCHANGED vars
  \/ Serve

ReadSpec == ReadInit /\ [][ReadNext]_readVars

(***************************************************************************)
(* As in Connector; and a request that was begun is served to its end.     *)
(* Nothing forces a client to ask.                                         *)
(***************************************************************************)
FairReadSpec == ReadSpec /\ WF_readVars(Synchronise) /\ WF_readVars(Serve)

----------------------------------------------------------------------------
(* Properties *)

(***************************************************************************)
(* Every stored user can be shown at any time: it has a DN and a primary   *)
(* school, although another user may take over its DN or its school may be *)
(* removed (primary_school of the domain model; routers/v2/user.py,        *)
(* _user_to_model).                                                        *)
(***************************************************************************)
UsersShown == \A u \in Users(db) : db.dn[u] # NoRow /\ \E s \in School : <<u, s>> \in db.primary

(***************************************************************************)
(* A request fails only if a row of what it had found changed between two  *)
(* of its statements: the user was changed or removed, the class lost a    *)
(* member.  So the same request, repeated in quiet, is answered: every     *)
(* stored user has a DN and a primary school at all times, and every row   *)
(* referred to exists (routers/v2/user.py, _user_to_model).                *)
(***************************************************************************)
FailsOnlyWhenDisturbed == request.stage = "failed" => request.disturbed

(***************************************************************************)
(* The classes and workgroups of a user are listed under schools of the    *)
(* user, although they are read after the memberships and the user may     *)
(* change schools in between (_school_classes_and_workgroups).             *)
(***************************************************************************)
ClassesWithinSchools ==
  request.stage = "answered" /\ request.kind # "class"
    => \A l \in View.link : <<l[2], View.group[l[1]].school>> \in View.member

\* What the statements find in a database that does not change.
UserView(d, users) ==
  LET member == {m \in d.member : m[1] \in users}
      link == {l \in d.link : l[2] \in users}
      groups == {l[1] : l \in link}
  IN [EmptyDatabase EXCEPT
        !.user = [u \in User |-> IF u \in users THEN d.user[u] ELSE NoRow],
        !.member = member,
        !.primary = {m \in d.primary : m[1] \in users},
        !.school = [s \in School |-> IF s \in {m[2] : m \in member} THEN d.school[s] ELSE NoRow],
        !.link = link,
        !.group = [g \in Group |-> IF g \in groups THEN d.group[g] ELSE NoRow],
        !.dn = [x \in Object |-> IF x \in users THEN d.dn[x] ELSE NoRow]]

ClassView(d, groups) ==
  LET link == {l \in d.link : l[1] \in groups}
      users == {l[2] : l \in link}
      schools == {d.group[g].school : g \in groups}
  IN [EmptyDatabase EXCEPT
        !.group = [g \in Group |-> IF g \in groups THEN d.group[g] ELSE NoRow],
        !.link = link,
        !.user = [u \in User |-> IF u \in users THEN d.user[u] ELSE NoRow],
        !.school = [s \in School |-> IF s \in schools THEN d.school[s] ELSE NoRow],
        !.dn = [x \in Object |-> IF x \in groups THEN d.dn[x] ELSE NoRow]]

\* The answer that shows the directory as it is.
RightAnswer ==
  LET d == Projection(dir)
      users == {u \in Users(d) : request.kind = "search" \/ d.user[u] = request.name}
      groups == {g \in Groups(d) : d.group[g].name = request.name}
      nothing == request.kind # "search"
                   /\ (IF request.kind = "class" THEN groups ELSE users) = {}
  IN /\ request.stage = (IF nothing THEN "notfound" ELSE "answered")
     /\ View = (IF request.kind = "class" THEN ClassView(d, groups) ELSE UserView(d, users))

(***************************************************************************)
(* When the directory stops changing, there is a time after which every    *)
(* request is answered, and answered with what the directory holds:        *)
(* "reads in version 2 are eventually consistent" (overview.rst).          *)
(***************************************************************************)
AnswersConverge == <>[](request.stage \in Ended => RightAnswer)

----------------------------------------------------------------------------
(* A claim of the documentation that the code does not keep *)

(***************************************************************************)
(* "read-your-writes within v2": synchronisation.rst.  Here: a request     *)
(* that begins after the last write, and during which nothing is written,  *)
(* shows the effect of that write - when at most the last event of that    *)
(* write is left to handle.                                                *)
(***************************************************************************)
ReadYourWrites ==
  request.stage \in Ended /\ request.settled /\ used.changes > 0 => RightAnswer
=============================================================================
