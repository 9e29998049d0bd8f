----------------------------- MODULE ReadProofs -----------------------------
(***************************************************************************)
(* Proofs about ReadPath, for every directory, any number of changes,      *)
(* crashes, faults and prefills, and any requests.  A read writes nothing, *)
(* so what is proved of Connector holds while requests are served.         *)
(***************************************************************************)
EXTENDS ConvergenceProofs, ReadPath

UserStatement == {"users", "memberships", "schools", "groups", "group schools", "dns"}
ClassStatement == {"class", "class members", "member users", "class school", "class dn"}

\* The statement that reads the group links has not run.
BeforeGroups == request.stage \in {"users", "memberships", "schools", "groups"}

\* The groups found hold memberships found, in the schools the groups had.
GroupsWithinMemberships ==
  \A l \in View.link : <<l[2], View.group[l[1]].school>> \in View.member

ViewInv ==
  /\ ReadTypeOK
  /\ request.stage \in UserStatement => request.kind # "class"
  /\ request.stage \in ClassStatement => request.kind = "class"
  /\ BeforeGroups => View.link = {}
  /\ request.kind # "class" => GroupsWithinMemberships

----------------------------------------------------------------------------
(* Reads are not writes *)

\* A statement of a request writes nothing, and a request may run at any time
\* between two steps of the connector (routers/v2/user.py, school_class.py).
LEMMA ReadsAreInvisible ==
  ASSUME [ReadNext]_readVars
  PROVE  [Next]_vars
BY DEF ReadNext, readVars, vars, Serve

\* What holds of the connector holds while requests are served (READ COMMITTED,
\* no statement of a read locks or writes a row).
THEOREM ReadsKeepTheStore == ReadSpec => Spec
<1>1. ReadInit => Init
  BY DEF ReadInit
<1>2. [ReadNext]_readVars => [Next]_vars
  BY ReadsAreInvisible
<1> QED
  BY <1>1, <1>2, PTL DEF ReadSpec, Spec

----------------------------------------------------------------------------
(* The statements of a request *)

\* One SELECT changes what was found and what comes next, nothing else
\* (the session of a request).
LEMMA SelectTyped ==
  ASSUME ReadTypeOK, NEW stage, NEW view \in Database, NEW next \in Statement \cup Ended,
         Select(stage, view, next)
  PROVE  /\ ReadTypeOK'
         /\ request.stage = stage
         /\ request'.stage = next
         /\ request'.view = view
         /\ request'.kind = request.kind
         /\ request'.disturbed = request.disturbed
         /\ request'.lost = request.lost
         /\ request'.name = request.name
<1>1. request \in Request
  BY DEF ReadTypeOK
<1>2. request' = [request EXCEPT !.view = view, !.stage = next]
  BY DEF Select
<1>3. request' \in Request
  BY <1>1, <1>2 DEF Request
<1>4. ReadTypeOK'
  BY <1>3 DEF ReadTypeOK
<1> QED
  BY <1>1, <1>2, <1>4 DEF Select, Request

\* Rows copied from the database are rows.
LEMMA CopiedRowsTyped ==
  ASSUME ReadTypeOK, TypeOK, NEW X
  PROVE  /\ [u \in User |-> IF u \in X THEN db.user[u] ELSE NoRow]
              \in [User -> UserName \cup {NoRow}]
         /\ [s \in School |-> IF s \in X THEN db.school[s] ELSE NoRow]
              \in [School -> SchoolName \cup {NoRow}]
         /\ [g \in Group |-> IF g \in X THEN db.group[g] ELSE NoRow]
              \in [Group -> [name : GroupName, school : School] \cup {NoRow}]
         /\ [x \in Object |-> IF x \in X THEN db.dn[x] ELSE NoRow]
              \in [Object -> Dn \cup {NoRow}]
BY DEF TypeOK, Database

LEMMA ViewTyped ==
  ASSUME ReadTypeOK
  PROVE  View \in Database
BY DEF ReadTypeOK, Request, View

\* The statements of a user request before the group links are read
\* (SQLAlchemyUserManager.search and its eager loads).
LEMMA UsersRead ==
  ASSUME ViewInv, TypeOK, ReadUsers \/ ReadMemberships \/ ReadSchools
  PROVE  ViewInv'
<1>0. ReadTypeOK /\ View \in Database
  BY ViewTyped DEF ViewInv
<1>1. CASE ReadUsers
  <2> DEFINE found == {u \in Users(db) : request.kind = "search" \/ db.user[u] = request.name}
             view == [View EXCEPT !.user = [u \in User |-> IF u \in found THEN db.user[u] ELSE NoRow]]
             next == IF found = {} THEN (IF request.kind = "get" THEN "notfound" ELSE "answered")
                     ELSE "memberships"
  <2>1. Select("users", view, next)
    BY <1>1 DEF ReadUsers
  <2>2. view \in Database /\ view.link = View.link
    BY <1>0, TypeOK, CopiedRowsTyped DEF Database
  <2>3. next \in {"notfound", "answered", "memberships"}
    OBVIOUS
  <2> HIDE DEF view, next
  <2>4. /\ ReadTypeOK' /\ request.stage = "users" /\ request'.stage = next
        /\ request'.view = view /\ request'.kind = request.kind
    BY <1>0, <2>1, <2>2, <2>3, SelectTyped DEF Statement, Ended
  <2>5. View.link = {} /\ request.kind # "class"
    BY <2>4 DEF ViewInv, BeforeGroups, UserStatement
  <2> QED
    BY <2>2, <2>3, <2>4, <2>5 DEF ViewInv, BeforeGroups, UserStatement, ClassStatement,
                                  GroupsWithinMemberships, View
<1>2. CASE ReadMemberships
  <2> DEFINE view == [View EXCEPT !.member = {m \in db.member : m[1] \in FoundUsers},
                                  !.primary = {m \in db.primary : m[1] \in FoundUsers}]
  <2>1. Select("memberships", view, "schools")
    BY <1>2 DEF ReadMemberships
  <2>2. view \in Database /\ view.link = View.link
    BY <1>0, TypeOK DEF TypeOK, Database
  <2> HIDE DEF view
  <2>4. /\ ReadTypeOK' /\ request.stage = "memberships" /\ request'.stage = "schools"
        /\ request'.view = view /\ request'.kind = request.kind
    BY <1>0, <2>1, <2>2, SelectTyped DEF Statement, Ended
  <2>5. View.link = {} /\ request.kind # "class"
    BY <2>4 DEF ViewInv, BeforeGroups, UserStatement
  <2> QED
    BY <2>2, <2>4, <2>5 DEF ViewInv, BeforeGroups, UserStatement, ClassStatement,
                            GroupsWithinMemberships, View
<1>3. CASE ReadSchools
  <2> DEFINE wanted == {m[2] : m \in View.member}
             view == [View EXCEPT !.school =
                        [s \in School |-> IF s \in wanted THEN db.school[s] ELSE NoRow]]
             next == NextIf(wanted \subseteq Schools(db), "groups")
  <2>1. Select("schools", view, next)
    BY <1>3 DEF ReadSchools
  <2>2. view \in Database /\ view.link = View.link
    BY <1>0, TypeOK, CopiedRowsTyped DEF Database
  <2>3. next \in {"groups", "failed"}
    BY DEF NextIf
  <2> HIDE DEF view, next
  <2>4. /\ ReadTypeOK' /\ request.stage = "schools" /\ request'.stage = next
        /\ request'.view = view /\ request'.kind = request.kind
    BY <1>0, <2>1, <2>2, <2>3, SelectTyped DEF Statement, Ended
  <2>5. View.link = {} /\ request.kind # "class"
    BY <2>4 DEF ViewInv, BeforeGroups, UserStatement
  <2> QED
    BY <2>2, <2>3, <2>4, <2>5 DEF ViewInv, BeforeGroups, UserStatement, ClassStatement,
                                  GroupsWithinMemberships, View
<1> QED
  BY <1>1, <1>2, <1>3

\* The groups are read with the memberships found before: a link is to a
\* membership in the school of the group (selectinload of the groups).
LEMMA GroupsRead ==
  ASSUME ViewInv, TypeOK, StoreConsistent, LinksWithinSchool, ReadGroups
  PROVE  ViewInv'
<1> DEFINE links == {l \in db.link : <<l[2], l[3]>> \in View.member \ request.lost}
           wanted == {l[1] : l \in links}
           view == [View EXCEPT !.link = links,
                      !.group = [g \in Group |-> IF g \in wanted THEN db.group[g] ELSE NoRow]]
<1>0. ReadTypeOK /\ View \in Database
  BY ViewTyped DEF ViewInv
<1>1. Select("groups", view, "group schools")
  BY DEF ReadGroups
<1>2. links \in SUBSET (Group \X User \X School)
  BY DEF TypeOK, Database
<1>3. [g \in Group |-> IF g \in wanted THEN db.group[g] ELSE NoRow]
        \in [Group -> [name : GroupName, school : School] \cup {NoRow}]
  BY <1>0, CopiedRowsTyped
<1>4. view \in Database
  BY <1>0, <1>2, <1>3 DEF Database
<1>5. view.link = links /\ view.member = View.member
  BY <1>0 DEF Database
<1>6. \A g \in wanted : g \in Group => view.group[g] = db.group[g]
  BY <1>0 DEF Database
<1>7. ASSUME NEW l \in view.link
      PROVE  <<l[2], view.group[l[1]].school>> \in view.member
  <2>1. l \in db.link /\ l[1] \in wanted /\ l[1] \in Group
    BY <1>5, <1>7 DEF TypeOK, Database
  <2>2. <<l[2], l[3]>> \in View.member
    BY <1>5, <1>7
  <2>3. db.group[l[1]].school = l[3]
    BY <2>1 DEF LinksWithinSchool
  <2>4. view.group[l[1]] = db.group[l[1]]
    BY <1>6, <2>1
  <2> HIDE DEF view, links, wanted
  <2> QED
    BY <1>5, <2>2, <2>3, <2>4
<1> HIDE DEF view, links, wanted
<1>8. /\ ReadTypeOK' /\ request.stage = "groups" /\ request'.stage = "group schools"
      /\ request'.view = view /\ request'.kind = request.kind
  BY <1>0, <1>1, <1>4, SelectTyped DEF Statement, Ended
<1>9. request.kind # "class"
  BY <1>8 DEF ViewInv, UserStatement
<1>10. View' = view
  BY <1>8 DEF View
<1>11. GroupsWithinMemberships'
  BY <1>7, <1>10 DEF GroupsWithinMemberships
<1> QED
  BY <1>8, <1>9, <1>11 DEF ViewInv, BeforeGroups, UserStatement, ClassStatement

\* What is read after the groups leaves links and memberships as they are
\* (_user_to_model).
LEMMA DnsRead ==
  ASSUME ViewInv, TypeOK, ReadGroupSchools \/ ReadDns
  PROVE  ViewInv'
<1>0. ReadTypeOK /\ View \in Database
  BY ViewTyped DEF ViewInv
<1>1. CASE ReadGroupSchools
  <2> DEFINE next == NextIf({View.group[g].school : g \in FoundGroups} \subseteq Schools(db), "dns")
  <2>1. Select("group schools", View, next)
    BY <1>1 DEF ReadGroupSchools
  <2>2. next \in {"dns", "failed"}
    BY DEF NextIf
  <2> HIDE DEF next
  <2>3. /\ ReadTypeOK' /\ request.stage = "group schools" /\ request'.stage = next
        /\ request'.view = View /\ request'.kind = request.kind
    BY <1>0, <2>1, <2>2, SelectTyped DEF Statement, Ended
  <2>4. request.kind # "class" /\ GroupsWithinMemberships
    BY <2>3 DEF ViewInv, UserStatement
  <2>5. View' = View
    BY <2>3 DEF View
  <2>6. GroupsWithinMemberships'
    BY <2>4, <2>5 DEF GroupsWithinMemberships
  <2> QED
    BY <2>2, <2>3, <2>4, <2>6 DEF ViewInv, BeforeGroups, UserStatement, ClassStatement
<1>2. CASE ReadDns
  <2> DEFINE dns == [x \in Object |-> IF x \in FoundUsers THEN db.dn[x] ELSE NoRow]
             view == [View EXCEPT !.dn = dns]
             next == NextIf(\A u \in FoundUsers :
                              db.dn[u] # NoRow /\ \E s \in School : <<u, s>> \in View.primary,
                            "answered")
  <2>1. Select("dns", view, next)
    BY <1>2 DEF ReadDns
  <2>2. next \in {"answered", "failed"}
    BY DEF NextIf
  <2>3. dns \in [Object -> Dn \cup {NoRow}]
    BY <1>0, CopiedRowsTyped
  <2> HIDE DEF next, dns
  <2>4. view \in Database
    BY <1>0, <2>3 DEF Database
  <2>5. view.link = View.link /\ view.member = View.member /\ view.group = View.group
    BY <1>0 DEF Database
  <2> HIDE DEF view
  <2>6. /\ ReadTypeOK' /\ request.stage = "dns" /\ request'.stage = next
        /\ request'.view = view /\ request'.kind = request.kind
    BY <1>0, <2>1, <2>2, <2>4, SelectTyped DEF Statement, Ended
  <2>7. request.kind # "class" /\ GroupsWithinMemberships
    BY <2>6 DEF ViewInv, UserStatement
  <2>8. View' = view
    BY <2>6 DEF View
  <2>9. GroupsWithinMemberships'
    BY <2>5, <2>7, <2>8 DEF GroupsWithinMemberships
  <2> QED
    BY <2>2, <2>6, <2>7, <2>9 DEF ViewInv, BeforeGroups, UserStatement, ClassStatement
<1> QED
  BY <1>1, <1>2

\* A request for a class runs its own statements (routers/v2/school_class.py).
LEMMA ClassRead ==
  ASSUME ViewInv, TypeOK,
         \/ ReadClass \/ ReadClassMembers \/ ReadMemberUsers
         \/ ReadClassSchool \/ ReadClassDn
  PROVE  ViewInv'
<1>0. ReadTypeOK /\ View \in Database
  BY ViewTyped DEF ViewInv
<1> DEFINE Done(stage, next) ==
             /\ stage \in ClassStatement
             /\ next \in ClassStatement \cup Ended
             /\ \E view \in Database : Select(stage, view, next)
<1>1. ASSUME NEW stage, NEW next, Done(stage, next) PROVE ViewInv'
  <2>1. PICK view \in Database : Select(stage, view, next)
    BY <1>1
  <2>2. ReadTypeOK' /\ request.stage = stage /\ request'.stage = next /\ request'.kind = request.kind
    BY <1>0, <1>1, <2>1, SelectTyped DEF Statement, ClassStatement
  <2>3. request.kind = "class"
    BY <1>1, <2>2 DEF ViewInv
  <2> QED
    BY <1>1, <2>2, <2>3 DEF ViewInv, BeforeGroups, UserStatement, ClassStatement, Ended
<1> HIDE DEF Done
<1>2. CASE ReadClass
  <2> DEFINE found == {g \in Groups(db) : db.group[g].name = request.name}
             rows == [g \in Group |-> IF g \in found THEN db.group[g] ELSE NoRow]
             view == [View EXCEPT !.group = rows]
             next == IF found = {} THEN "notfound" ELSE "class members"
  <2>1. Select("class", view, next)
    BY <1>2 DEF ReadClass
  <2>2. rows \in [Group -> [name : GroupName, school : School] \cup {NoRow}]
    BY <1>0, CopiedRowsTyped
  <2> HIDE DEF rows
  <2>3. view \in Database
    BY <1>0, <2>2 DEF Database
  <2>4. next \in {"notfound", "class members"}
    OBVIOUS
  <2> HIDE DEF view, next
  <2>5. Done("class", next)
    BY <2>1, <2>3, <2>4 DEF Done, ClassStatement, Ended
  <2> QED
    BY <1>1, <2>5
<1>3. CASE ReadClassMembers
  <2> DEFINE view == [View EXCEPT !.link = {l \in db.link : l[1] \in FoundGroups}]
  <2>1. Select("class members", view, "member users")
    BY <1>3 DEF ReadClassMembers
  <2>2. view \in Database
    BY <1>0 DEF Database, TypeOK
  <2> HIDE DEF view
  <2>3. Done("class members", "member users")
    BY <2>1, <2>2 DEF Done, ClassStatement, Ended
  <2> QED
    BY <1>1, <2>3
<1>4. CASE ReadMemberUsers
  <2> DEFINE wanted == {l[2] : l \in View.link}
             rows == [u \in User |-> IF u \in wanted THEN db.user[u] ELSE NoRow]
             view == [View EXCEPT !.user = rows]
             next == NextIf(wanted \subseteq Users(db), "class school")
  <2>1. Select("member users", view, next)
    BY <1>4 DEF ReadMemberUsers
  <2>2. rows \in [User -> UserName \cup {NoRow}]
    BY <1>0, CopiedRowsTyped
  <2>3. next \in {"class school", "failed"}
    BY DEF NextIf
  <2> HIDE DEF rows, next
  <2>4. view \in Database
    BY <1>0, <2>2 DEF Database
  <2> HIDE DEF view
  <2>5. Done("member users", next)
    BY <2>1, <2>3, <2>4 DEF Done, ClassStatement, Ended
  <2> QED
    BY <1>1, <2>5
<1>5. CASE ReadClassSchool
  <2> DEFINE wanted == {View.group[g].school : g \in FoundGroups}
             rows == [s \in School |-> IF s \in wanted THEN db.school[s] ELSE NoRow]
             view == [View EXCEPT !.school = rows]
             next == NextIf(wanted \subseteq Schools(db), "class dn")
  <2>1. Select("class school", view, next)
    BY <1>5 DEF ReadClassSchool
  <2>2. rows \in [School -> SchoolName \cup {NoRow}]
    BY <1>0, CopiedRowsTyped
  <2>3. next \in {"class dn", "failed"}
    BY DEF NextIf
  <2> HIDE DEF rows, next
  <2>4. view \in Database
    BY <1>0, <2>2 DEF Database
  <2> HIDE DEF view
  <2>5. Done("class school", next)
    BY <2>1, <2>3, <2>4 DEF Done, ClassStatement, Ended
  <2> QED
    BY <1>1, <2>5
<1>6. CASE ReadClassDn
  <2> DEFINE rows == [x \in Object |-> IF x \in FoundGroups THEN db.dn[x] ELSE NoRow]
             view == [View EXCEPT !.dn = rows]
  <2>1. Select("class dn", view, "answered")
    BY <1>6 DEF ReadClassDn
  <2>2. rows \in [Object -> Dn \cup {NoRow}]
    BY <1>0, CopiedRowsTyped
  <2> HIDE DEF rows
  <2>3. view \in Database
    BY <1>0, <2>2 DEF Database
  <2> HIDE DEF view
  <2>4. Done("class dn", "answered")
    BY <2>1, <2>3 DEF Done, ClassStatement, Ended
  <2> QED
    BY <1>1, <2>4
<1> QED
  BY <1>2, <1>3, <1>4, <1>5, <1>6

----------------------------------------------------------------------------
(* The life of a request *)

\* A request begins with nothing found (get, search).
LEMMA NewRequestFits ==
  ASSUME NEW kind \in Kind, NEW name \in UserName \cup GroupName \cup {NoRow},
         NEW stage \in {"idle"} \cup Statement, NEW settled \in BOOLEAN,
         stage \in UserStatement => kind # "class",
         stage \in ClassStatement => kind = "class",
         request' = NewRequest(kind, name, stage, settled)
  PROVE  ViewInv'
<1>1. EmptyDatabase \in Database
  BY DEF EmptyDatabase, Database
<1>2. /\ request'.kind = kind /\ request'.stage = stage
      /\ request'.view = EmptyDatabase
  BY DEF NewRequest
<1>3. NewRequest(kind, name, stage, settled) \in Request
  BY <1>1 DEF NewRequest, Request
<1>4. ReadTypeOK'
  BY <1>3 DEF ReadTypeOK
<1>5. View' = EmptyDatabase /\ EmptyDatabase.link = {}
  BY <1>2 DEF View, EmptyDatabase
<1>6. GroupsWithinMemberships'
  BY <1>5 DEF GroupsWithinMemberships
<1> QED
  BY <1>2, <1>4, <1>5, <1>6 DEF ViewInv, BeforeGroups, UserStatement, ClassStatement

\* A client asks, or has its answer.
LEMMA AskedFits ==
  ASSUME ViewInv, Asked \/ Respond
  PROVE  ViewInv'
<1> DEFINE settled == Cardinality({i \in D!Events : ~D!Acked(i)}) <= 1
<1>0. settled \in BOOLEAN
  OBVIOUS
<1> HIDE DEF settled
<1>1. ASSUME NEW name \in UserName, Ask("get", name, "users") PROVE ViewInv'
  <2>1. request' = NewRequest("get", name, "users", settled)
    BY <1>1 DEF Ask, settled
  <2> QED
    BY <1>0, <2>1, NewRequestFits DEF Kind, Statement, UserStatement, ClassStatement
<1>2. CASE Ask("search", NoRow, "users")
  <2>1. request' = NewRequest("search", NoRow, "users", settled)
    BY <1>2 DEF Ask, settled
  <2> QED
    BY <1>0, <2>1, NewRequestFits DEF Kind, Statement, UserStatement, ClassStatement
<1>3. ASSUME NEW name \in GroupName, Ask("class", name, "class") PROVE ViewInv'
  <2>1. request' = NewRequest("class", name, "class", settled)
    BY <1>3 DEF Ask, settled
  <2> QED
    BY <1>0, <2>1, NewRequestFits DEF Kind, Statement, UserStatement, ClassStatement
<1>4. CASE Respond
  <2>1. request' = NewRequest("search", NoRow, "idle", FALSE)
    BY <1>4 DEF Respond, NoRequest
  <2> QED
    BY <2>1, NewRequestFits DEF Kind, Statement, UserStatement, ClassStatement
<1> QED
  BY <1>1, <1>2, <1>3, <1>4 DEF Asked

\* What the connector writes changes nothing of what a request has found
\* (READ COMMITTED).
LEMMA ObserveFits ==
  ASSUME ViewInv, TypeOK, Observe
  PROVE  ViewInv'
<1> DEFINE lost == IF request.stage \in Statement
                   THEN request.lost \cup (View.member \ db'.member) ELSE request.lost
           disturbed == request.disturbed
                          \/ (request.stage \in Statement /\ Footprint(db') # Footprint(db))
           settled == request.settled /\ dir' = dir
<1>1. request' = [request EXCEPT !.lost = lost, !.disturbed = disturbed, !.settled = settled]
  BY DEF Observe
<1>2. request \in Request
  BY DEF ViewInv, ReadTypeOK
<1>3. View \in Database
  BY ViewTyped DEF ViewInv
<1>4. lost \in SUBSET (User \X School)
  BY <1>2, <1>3 DEF Request, Database
<1>5. disturbed \in BOOLEAN /\ settled \in BOOLEAN
  BY <1>2 DEF Request
<1> HIDE DEF lost, disturbed, settled
<1>6. request' \in Request
  BY <1>1, <1>2, <1>4, <1>5 DEF Request
<1>7. request'.stage = request.stage /\ request'.kind = request.kind /\ request'.view = request.view
  BY <1>1, <1>2 DEF Request
<1>8. View' = View
  BY <1>7 DEF View
<1> QED
  BY <1>6, <1>7, <1>8 DEF ViewInv, ReadTypeOK, BeforeGroups, GroupsWithinMemberships

\* Before the first request.
LEMMA ReadInitFits == ReadInit => ViewInv
<1> SUFFICES ASSUME ReadInit PROVE ViewInv
  OBVIOUS
<1>1. request = NewRequest("search", NoRow, "idle", FALSE)
  BY DEF ReadInit, NoRequest
<1>2. EmptyDatabase \in Database /\ EmptyDatabase.link = {}
  BY DEF EmptyDatabase, Database
<1>3. request \in Request
  BY <1>1, <1>2 DEF NewRequest, Request, Kind
<1>4. request.stage = "idle" /\ View.link = {}
  BY <1>1, <1>2 DEF NewRequest, View
<1> QED
  BY <1>3, <1>4 DEF ViewInv, ReadTypeOK, BeforeGroups, GroupsWithinMemberships,
                    UserStatement, ClassStatement

\* Every step of the connector or of a request.
LEMMA ReadStepFits ==
  ASSUME ViewInv, TypeOK, StoreConsistent, LinksWithinSchool, [ReadNext]_readVars
  PROVE  ViewInv'
<1>1. ASSUME UNCHANGED readVars PROVE ViewInv'
  BY <1>1 DEF readVars, ViewInv, ReadTypeOK, BeforeGroups, GroupsWithinMemberships, View
<1>2. ASSUME Next /\ Observe PROVE ViewInv'
  BY <1>2, ObserveFits
<1>3. ASSUME Asked PROVE ViewInv'
  BY <1>3, AskedFits
<1>4. ASSUME Serve PROVE ViewInv'
  BY <1>4, UsersRead, GroupsRead, DnsRead, ClassRead, AskedFits DEF Serve
<1> QED
  BY <1>1, <1>2, <1>3, <1>4 DEF ReadNext

(***************************************************************************)
(* The classes and workgroups in an answer belong to schools the answer    *)
(* lists for that user, although other transactions commit between the     *)
(* statements that read the memberships, the links and the groups          *)
(* (_school_classes_and_workgroups), as long as no group moves to another  *)
(* school.                                                                 *)
(***************************************************************************)
THEOREM AnswersListClassesWithinSchools ==
  ASSUME "regroup" \notin Operations
  PROVE  ReadSpec => []ClassesWithinSchools
<1>1. ReadInit => ViewInv
  BY ReadInitFits
<1>2. ViewInv /\ TypeOK /\ StoreConsistent /\ LinksWithinSchool /\ [ReadNext]_readVars => ViewInv'
  BY ReadStepFits
<1>3. ViewInv => ClassesWithinSchools
  BY DEF ViewInv, ClassesWithinSchools, GroupsWithinMemberships
<1>4. Spec => [](TypeOK /\ StoreConsistent /\ LinksWithinSchool)
  BY TypeCorrect, StoreStaysConsistent, LinksStayWithinSchool, PTL
<1> QED
  BY <1>1, <1>2, <1>3, <1>4, ReadsKeepTheStore, PTL DEF ReadSpec

----------------------------------------------------------------------------
(***************************************************************************)
(* FailsOnlyWhenDisturbed.  As long as none of its rows has changed, what  *)
(* a request has found is what the database holds, so what the next        *)
(* statement looks for is there.  FreshInv says this.                      *)
(***************************************************************************)

UsersAsFound == \A u \in FoundUsers : db.user[u] = View.user[u]

MembershipsAsFound ==
  /\ View.member = {m \in db.member : m[1] \in FoundUsers}
  /\ View.primary = {m \in db.primary : m[1] \in FoundUsers}

GroupsOfMemberships ==
  \A g \in FoundGroups : \E m \in View.member : m[2] = View.group[g].school

ClassAsFound == \A g \in FoundGroups : db.group[g] = View.group[g]
LinksAsFound == View.link = {l \in db.link : l[1] \in FoundGroups}

Undisturbed ==
  /\ request.stage \in UserStatement \ {"users"} => UsersAsFound
  /\ request.stage \in UserStatement \ {"users", "memberships"} => MembershipsAsFound
  /\ request.stage \in ClassStatement \ {"class"} => ClassAsFound
  /\ request.stage \in ClassStatement \ {"class", "class members"} => LinksAsFound

FreshInv ==
  /\ FailsOnlyWhenDisturbed
  /\ request.stage = "group schools" => GroupsOfMemberships
  /\ request.stage \in Statement /\ ~request.disturbed => Undisturbed

\* A request finds its users (SQLAlchemyUserManager.search).
LEMMA UsersFresh ==
  ASSUME ViewInv, FreshInv, TypeOK, UNCHANGED vars, ReadUsers
  PROVE  FreshInv'
<1> USE StoreAssumption DEF StoreAssumption
<1> DEFINE found == {u \in Users(db) : request.kind = "search" \/ db.user[u] = request.name}
           view == [View EXCEPT !.user = [u \in User |-> IF u \in found THEN db.user[u] ELSE NoRow]]
           next == IF found = {} THEN (IF request.kind = "get" THEN "notfound" ELSE "answered")
                   ELSE "memberships"
<1>0. ReadTypeOK /\ View \in Database
  BY ViewTyped DEF ViewInv
<1>1. Select("users", view, next)
  BY DEF ReadUsers
<1>2. view \in Database /\ \A u \in User : view.user[u] = IF u \in found THEN db.user[u] ELSE NoRow
  BY <1>0, TypeOK, CopiedRowsTyped DEF Database
<1>3. next \in {"notfound", "answered", "memberships"}
  OBVIOUS
<1>s. {"notfound", "answered", "memberships"} \subseteq Statement \cup Ended
  BY DEF Statement, Ended
<1>4. \A u \in Users(view) : db.user[u] = view.user[u]
  BY <1>2 DEF Users
<1> HIDE DEF view, next
<1>5. request'.stage = next /\ request'.view = view
  BY <1>0, <1>1, <1>2, <1>3, <1>s, SelectTyped
<1>6. UsersAsFound'
  BY <1>4, <1>5 DEF UsersAsFound, FoundUsers, View, vars
<1> QED
  BY <1>3, <1>5, <1>6 DEF FreshInv, Undisturbed, FailsOnlyWhenDisturbed, UserStatement,
                          ClassStatement, Statement

\* It finds their memberships, and the schools of these (selectinload).
LEMMA MembershipsFresh ==
  ASSUME ViewInv, FreshInv, TypeOK, StoreConsistent, UNCHANGED vars, ReadMemberships \/ ReadSchools
  PROVE  FreshInv'
<1>0. ReadTypeOK /\ View \in Database /\ db' = db
  BY ViewTyped DEF ViewInv, vars
<1>1. CASE ReadMemberships
  <2> DEFINE view == [View EXCEPT !.member = {m \in db.member : m[1] \in FoundUsers},
                                  !.primary = {m \in db.primary : m[1] \in FoundUsers}]
  <2>1. Select("memberships", view, "schools")
    BY <1>1 DEF ReadMemberships
  <2>2. /\ view \in Database /\ view.user = View.user
        /\ view.member = {m \in db.member : m[1] \in FoundUsers}
        /\ view.primary = {m \in db.primary : m[1] \in FoundUsers}
    BY <1>0, TypeOK DEF TypeOK, Database
  <2> HIDE DEF view
  <2>3. /\ request.stage = "memberships" /\ request'.stage = "schools"
        /\ request'.view = view /\ request'.disturbed = request.disturbed
    BY <1>0, <2>1, <2>2, SelectTyped DEF Statement, Ended
  <2>4. View' = view /\ FoundUsers' = FoundUsers
    BY <2>2, <2>3 DEF View, FoundUsers, Users
  <2>5. MembershipsAsFound'
    BY <1>0, <2>2, <2>4 DEF MembershipsAsFound
  <2>6. ASSUME ~request.disturbed PROVE UsersAsFound'
    BY <1>0, <2>2, <2>3, <2>4, <2>6 DEF FreshInv, Undisturbed, UsersAsFound, UserStatement, Statement
  <2> QED
    BY <2>3, <2>5, <2>6 DEF FreshInv, Undisturbed, FailsOnlyWhenDisturbed, UserStatement,
                            ClassStatement
<1>2. CASE ReadSchools
  <2> DEFINE wanted == {m[2] : m \in View.member}
             view == [View EXCEPT !.school =
                        [s \in School |-> IF s \in wanted THEN db.school[s] ELSE NoRow]]
             next == NextIf(wanted \subseteq Schools(db), "groups")
  <2>1. Select("schools", view, next)
    BY <1>2 DEF ReadSchools
  <2>2. /\ view \in Database /\ view.user = View.user
        /\ view.member = View.member /\ view.primary = View.primary
    BY <1>0, TypeOK, CopiedRowsTyped DEF Database
  <2>3. next \in {"groups", "failed"} /\ (wanted \subseteq Schools(db) => next = "groups")
    BY DEF NextIf
  <2>4. MembershipsAsFound => wanted \subseteq Schools(db)
    BY DEF MembershipsAsFound, StoreConsistent, ReferencesHold, MembershipsHold
  <2> HIDE DEF view, next, wanted
  <2>5. /\ request.stage = "schools" /\ request'.stage = next
        /\ request'.view = view /\ request'.disturbed = request.disturbed
    BY <1>0, <2>1, <2>2, <2>3, SelectTyped DEF Statement, Ended
  <2>6. View' = view /\ FoundUsers' = FoundUsers
    BY <2>2, <2>5 DEF View, FoundUsers, Users
  <2>7. ASSUME ~request.disturbed PROVE UsersAsFound /\ MembershipsAsFound
    BY <2>5, <2>7 DEF FreshInv, Undisturbed, UserStatement, Statement
  <2>8. ASSUME ~request.disturbed PROVE UsersAsFound' /\ MembershipsAsFound' /\ next = "groups"
    BY <1>0, <2>2, <2>3, <2>4, <2>6, <2>7, <2>8 DEF UsersAsFound, MembershipsAsFound
  <2> QED
    BY <2>3, <2>5, <2>8 DEF FreshInv, Undisturbed, FailsOnlyWhenDisturbed, UserStatement,
                            ClassStatement
<1> QED
  BY <1>1, <1>2

\* Every group found is a group of a school found with the user.
LEMMA GroupsFresh ==
  ASSUME ViewInv, FreshInv, TypeOK, StoreConsistent, LinksWithinSchool, UNCHANGED vars, ReadGroups
  PROVE  FreshInv'
<1> DEFINE links == {l \in db.link : <<l[2], l[3]>> \in View.member \ request.lost}
           wanted == {l[1] : l \in links}
           view == [View EXCEPT !.link = links,
                      !.group = [g \in Group |-> IF g \in wanted THEN db.group[g] ELSE NoRow]]
<1>0. ReadTypeOK /\ View \in Database /\ db' = db
  BY ViewTyped DEF ViewInv, vars
<1>1. Select("groups", view, "group schools")
  BY DEF ReadGroups
<1>2. links \in SUBSET (Group \X User \X School)
  BY DEF TypeOK, Database
<1>3. [g \in Group |-> IF g \in wanted THEN db.group[g] ELSE NoRow]
        \in [Group -> [name : GroupName, school : School] \cup {NoRow}]
  BY <1>0, CopiedRowsTyped
<1>4. view \in Database
  BY <1>0, <1>2, <1>3 DEF Database
<1>5. view.user = View.user /\ view.member = View.member /\ view.primary = View.primary
  BY <1>0 DEF Database
<1>6. \A g \in Group : view.group[g] = IF g \in wanted THEN db.group[g] ELSE NoRow
  BY <1>0 DEF Database
<1>7. ASSUME NEW g \in Groups(view)
      PROVE  \E m \in View.member : m[2] = view.group[g].school
  <2>1. g \in wanted /\ view.group[g] = db.group[g]
    BY <1>6, <1>7 DEF Groups
  <2>2. PICK l \in links : g = l[1]
    BY <2>1
  <2>3. db.group[g].school = l[3]
    BY <2>2 DEF LinksWithinSchool
  <2>4. <<l[2], l[3]>> \in View.member
    BY <2>2
  <2>5. <<l[2], l[3]>>[2] = l[3]
    OBVIOUS
  <2> HIDE DEF view, links, wanted
  <2> QED
    BY <2>1, <2>3, <2>4, <2>5
<1> HIDE DEF view, links, wanted
<1>8. /\ request.stage = "groups" /\ request'.stage = "group schools"
      /\ request'.view = view /\ request'.disturbed = request.disturbed
  BY <1>0, <1>1, <1>4, SelectTyped DEF Statement, Ended
<1>9. View' = view /\ FoundUsers' = FoundUsers
  BY <1>5, <1>8 DEF View, FoundUsers, Users
<1>10. GroupsOfMemberships'
  BY <1>5, <1>7, <1>9 DEF GroupsOfMemberships, FoundGroups
<1>11. ASSUME ~request.disturbed PROVE UsersAsFound' /\ MembershipsAsFound'
  <2>1. UsersAsFound /\ MembershipsAsFound
    BY <1>8, <1>11 DEF FreshInv, Undisturbed, UserStatement, Statement
  <2> QED
    BY <1>0, <1>5, <1>9, <2>1 DEF UsersAsFound, MembershipsAsFound
<1> QED
  BY <1>8, <1>10, <1>11 DEF FreshInv, Undisturbed, FailsOnlyWhenDisturbed, UserStatement,
                            ClassStatement

\* What the users refer to is there: schools, a DN, a primary school (_user_to_model).
LEMMA DnsFresh ==
  ASSUME ViewInv, FreshInv, TypeOK, StoreConsistent, UsersShown, UNCHANGED vars,
         ReadGroupSchools \/ ReadDns
  PROVE  FreshInv'
<1>0. ReadTypeOK /\ View \in Database /\ db' = db
  BY ViewTyped DEF ViewInv, vars
<1>1. CASE ReadGroupSchools
  <2> DEFINE wanted == {View.group[g].school : g \in FoundGroups}
             next == NextIf(wanted \subseteq Schools(db), "dns")
  <2>1. Select("group schools", View, next)
    BY <1>1 DEF ReadGroupSchools
  <2>2. next \in {"dns", "failed"} /\ (wanted \subseteq Schools(db) => next = "dns")
    BY DEF NextIf
  <2>3. ASSUME GroupsOfMemberships, MembershipsAsFound PROVE wanted \subseteq Schools(db)
    <3>1. \A m \in View.member : m[2] \in Schools(db)
      BY <2>3 DEF MembershipsAsFound, StoreConsistent, ReferencesHold, MembershipsHold
    <3> QED
      BY <2>3, <3>1 DEF GroupsOfMemberships
  <2> HIDE DEF next, wanted
  <2>4. /\ request.stage = "group schools" /\ request'.stage = next
        /\ request'.view = View /\ request'.disturbed = request.disturbed
    BY <1>0, <2>1, <2>2, SelectTyped DEF Statement, Ended
  <2>5. View' = View /\ FoundUsers' = FoundUsers
    BY <2>4 DEF View, FoundUsers, Users
  <2>6. ASSUME ~request.disturbed PROVE UsersAsFound' /\ MembershipsAsFound' /\ next = "dns"
    <3>1. UsersAsFound /\ MembershipsAsFound /\ GroupsOfMemberships
      BY <2>4, <2>6 DEF FreshInv, Undisturbed, UserStatement, Statement
    <3> QED
      BY <1>0, <2>2, <2>3, <2>5, <3>1 DEF UsersAsFound, MembershipsAsFound
  <2> QED
    BY <2>2, <2>4, <2>6 DEF FreshInv, Undisturbed, FailsOnlyWhenDisturbed, UserStatement,
                            ClassStatement
<1>2. CASE ReadDns
  <2> DEFINE dns == [x \in Object |-> IF x \in FoundUsers THEN db.dn[x] ELSE NoRow]
             view == [View EXCEPT !.dn = dns]
             shown == \A u \in FoundUsers :
                        db.dn[u] # NoRow /\ \E s \in School : <<u, s>> \in View.primary
             next == NextIf(shown, "answered")
  <2>1. Select("dns", view, next)
    BY <1>2 DEF ReadDns
  <2>2. next \in {"answered", "failed"} /\ (shown => next = "answered")
    BY DEF NextIf
  <2>3. dns \in [Object -> Dn \cup {NoRow}]
    BY <1>0, CopiedRowsTyped
  <2>4. ASSUME UsersAsFound, MembershipsAsFound PROVE shown
    <3>1. \A u \in FoundUsers : u \in Users(db)
      BY <2>4 DEF UsersAsFound, FoundUsers, Users
    <3>2. \A u \in FoundUsers, s \in School : <<u, s>> \in db.primary => <<u, s>> \in View.primary
      BY <2>4 DEF MembershipsAsFound
    <3> QED
      BY <3>1, <3>2 DEF UsersShown
  <2> HIDE DEF next, dns, shown
  <2>5. view \in Database
    BY <1>0, <2>3 DEF Database
  <2> HIDE DEF view
  <2>6. /\ request.stage = "dns" /\ request'.stage = next
        /\ request'.disturbed = request.disturbed
    BY <1>0, <2>1, <2>2, <2>5, SelectTyped DEF Statement, Ended
  <2>7. ASSUME ~request.disturbed PROVE next = "answered"
    BY <2>2, <2>4, <2>6, <2>7 DEF FreshInv, Undisturbed, UserStatement, Statement
  <2> QED
    BY <2>2, <2>6, <2>7 DEF FreshInv, FailsOnlyWhenDisturbed, Statement
<1> QED
  BY <1>1, <1>2

\* A class, its links and the users these refer to (routers/v2/school_class.py).
LEMMA ClassFresh ==
  ASSUME ViewInv, FreshInv, TypeOK, StoreConsistent, UNCHANGED vars,
         ReadClass \/ ReadClassMembers \/ ReadMemberUsers
  PROVE  FreshInv'
<1> USE StoreAssumption DEF StoreAssumption
<1>0. ReadTypeOK /\ View \in Database /\ db' = db
  BY ViewTyped DEF ViewInv, vars
<1>1. CASE ReadClass
  <2> DEFINE found == {g \in Groups(db) : db.group[g].name = request.name}
             rows == [g \in Group |-> IF g \in found THEN db.group[g] ELSE NoRow]
             view == [View EXCEPT !.group = rows]
             next == IF found = {} THEN "notfound" ELSE "class members"
  <2>1. Select("class", view, next)
    BY <1>1 DEF ReadClass
  <2>2. rows \in [Group -> [name : GroupName, school : School] \cup {NoRow}]
    BY <1>0, CopiedRowsTyped
  <2>3. \A g \in Group : rows[g] # NoRow => rows[g] = db.group[g]
    OBVIOUS
  <2>4. next \in {"notfound", "class members"}
    OBVIOUS
  <2> HIDE DEF rows, next
  <2>5. view \in Database /\ view.group = rows
    BY <1>0, <2>2 DEF Database
  <2> HIDE DEF view
  <2>6. request'.stage = next /\ request'.view = view
    BY <1>0, <2>1, <2>4, <2>5, SelectTyped DEF Statement, Ended
  <2>7. ClassAsFound'
    BY <1>0, <2>3, <2>5, <2>6 DEF ClassAsFound, FoundGroups, Groups, View
  <2> QED
    BY <2>4, <2>6, <2>7 DEF FreshInv, Undisturbed, FailsOnlyWhenDisturbed, UserStatement,
                            ClassStatement, Statement
<1>2. CASE ReadClassMembers
  <2> DEFINE view == [View EXCEPT !.link = {l \in db.link : l[1] \in FoundGroups}]
  <2>1. Select("class members", view, "member users")
    BY <1>2 DEF ReadClassMembers
  <2>2. /\ view \in Database /\ view.group = View.group
        /\ view.link = {l \in db.link : l[1] \in FoundGroups}
    BY <1>0 DEF Database, TypeOK
  <2> HIDE DEF view
  <2>3. /\ request.stage = "class members" /\ request'.stage = "member users"
        /\ request'.view = view /\ request'.disturbed = request.disturbed
    BY <1>0, <2>1, <2>2, SelectTyped DEF Statement, Ended
  <2>4. View' = view /\ FoundGroups' = FoundGroups
    BY <2>2, <2>3 DEF View, FoundGroups, Groups
  <2>5. LinksAsFound'
    BY <1>0, <2>2, <2>4 DEF LinksAsFound
  <2>6. ASSUME ~request.disturbed PROVE ClassAsFound'
    BY <1>0, <2>2, <2>3, <2>4, <2>6 DEF FreshInv, Undisturbed, ClassAsFound, ClassStatement,
                                        Statement
  <2> QED
    BY <2>3, <2>5, <2>6 DEF FreshInv, Undisturbed, FailsOnlyWhenDisturbed, UserStatement,
                            ClassStatement
<1>3. CASE ReadMemberUsers
  <2> DEFINE wanted == {l[2] : l \in View.link}
             rows == [u \in User |-> IF u \in wanted THEN db.user[u] ELSE NoRow]
             view == [View EXCEPT !.user = rows]
             next == NextIf(wanted \subseteq Users(db), "class school")
  <2>1. Select("member users", view, next)
    BY <1>3 DEF ReadMemberUsers
  <2>2. rows \in [User -> UserName \cup {NoRow}]
    BY <1>0, CopiedRowsTyped
  <2>3. next \in {"class school", "failed"} /\ (wanted \subseteq Users(db) => next = "class school")
    BY DEF NextIf
  <2>4. ASSUME LinksAsFound PROVE wanted \subseteq Users(db)
    <3>1. \A l \in View.link : <<l[2], l[3]>> \in db.member
      BY <2>4 DEF LinksAsFound, StoreConsistent, ReferencesHold, LinksHold
    <3>2. \A l \in View.link : l[2] \in Users(db)
      BY <3>1 DEF StoreConsistent, ReferencesHold, MembershipsHold
    <3> QED
      BY <3>2
  <2> HIDE DEF rows, next, wanted
  <2>5. view \in Database /\ view.group = View.group /\ view.link = View.link
    BY <1>0, <2>2 DEF Database
  <2> HIDE DEF view
  <2>6. /\ request.stage = "member users" /\ request'.stage = next
        /\ request'.view = view /\ request'.disturbed = request.disturbed
    BY <1>0, <2>1, <2>3, <2>5, SelectTyped DEF Statement, Ended
  <2>7. View' = view /\ FoundGroups' = FoundGroups
    BY <2>5, <2>6 DEF View, FoundGroups, Groups
  <2>8. ASSUME ~request.disturbed PROVE ClassAsFound' /\ LinksAsFound' /\ next = "class school"
    <3>1. ClassAsFound /\ LinksAsFound
      BY <2>6, <2>8 DEF FreshInv, Undisturbed, ClassStatement, Statement
    <3> QED
      BY <1>0, <2>3, <2>4, <2>5, <2>7, <3>1 DEF ClassAsFound, LinksAsFound
  <2> QED
    BY <2>3, <2>6, <2>8 DEF FreshInv, Undisturbed, FailsOnlyWhenDisturbed, UserStatement,
                            ClassStatement
<1> QED
  BY <1>1, <1>2, <1>3

\* The school of a class (routers/v2/school_class.py).
LEMMA ClassSchoolFresh ==
  ASSUME ViewInv, FreshInv, TypeOK, StoreConsistent, UNCHANGED vars, ReadClassSchool \/ ReadClassDn
  PROVE  FreshInv'
<1>0. ReadTypeOK /\ View \in Database /\ db' = db
  BY ViewTyped DEF ViewInv, vars
<1>1. CASE ReadClassSchool
  <2> DEFINE wanted == {View.group[g].school : g \in FoundGroups}
             rows == [s \in School |-> IF s \in wanted THEN db.school[s] ELSE NoRow]
             view == [View EXCEPT !.school = rows]
             next == NextIf(wanted \subseteq Schools(db), "class dn")
  <2>1. Select("class school", view, next)
    BY <1>1 DEF ReadClassSchool
  <2>2. rows \in [School -> SchoolName \cup {NoRow}]
    BY <1>0, CopiedRowsTyped
  <2>3. next \in {"class dn", "failed"} /\ (wanted \subseteq Schools(db) => next = "class dn")
    BY DEF NextIf
  <2>4. ASSUME ClassAsFound PROVE wanted \subseteq Schools(db)
    <3>1. \A g \in FoundGroups : g \in Groups(db) /\ db.group[g] = View.group[g]
      BY <2>4 DEF ClassAsFound, FoundGroups, Groups
    <3> QED
      BY <3>1 DEF StoreConsistent, ConstraintsHold
  <2> HIDE DEF rows, next, wanted
  <2>5. view \in Database /\ view.group = View.group /\ view.link = View.link
    BY <1>0, <2>2 DEF Database
  <2> HIDE DEF view
  <2>6. /\ request.stage = "class school" /\ request'.stage = next
        /\ request'.view = view /\ request'.disturbed = request.disturbed
    BY <1>0, <2>1, <2>3, <2>5, SelectTyped DEF Statement, Ended
  <2>7. View' = view /\ FoundGroups' = FoundGroups
    BY <2>5, <2>6 DEF View, FoundGroups, Groups
  <2>8. ASSUME ~request.disturbed PROVE ClassAsFound' /\ LinksAsFound' /\ next = "class dn"
    <3>1. ClassAsFound /\ LinksAsFound
      BY <2>6, <2>8 DEF FreshInv, Undisturbed, ClassStatement, Statement
    <3> QED
      BY <1>0, <2>3, <2>4, <2>5, <2>7, <3>1 DEF ClassAsFound, LinksAsFound
  <2> QED
    BY <2>3, <2>6, <2>8 DEF FreshInv, Undisturbed, FailsOnlyWhenDisturbed, UserStatement,
                            ClassStatement
<1>2. CASE ReadClassDn
  <2> DEFINE rows == [x \in Object |-> IF x \in FoundGroups THEN db.dn[x] ELSE NoRow]
             view == [View EXCEPT !.dn = rows]
  <2>1. Select("class dn", view, "answered")
    BY <1>2 DEF ReadClassDn
  <2>2. rows \in [Object -> Dn \cup {NoRow}]
    BY <1>0, CopiedRowsTyped
  <2> HIDE DEF rows
  <2>3. view \in Database
    BY <1>0, <2>2 DEF Database
  <2> HIDE DEF view
  <2>4. request'.stage = "answered"
    BY <1>0, <2>1, <2>3, SelectTyped DEF Statement, Ended
  <2> QED
    BY <2>4 DEF FreshInv, FailsOnlyWhenDisturbed, Statement
<1> QED
  BY <1>1, <1>2

\* Nothing has been found when a client asks, or has its answer.
LEMMA AskedFresh ==
  ASSUME Asked \/ Respond
  PROVE  FreshInv'
<1>1. request'.stage \in {"idle", "users", "class"}
  BY DEF Asked, Ask, Respond, NoRequest, NewRequest
<1> QED
  BY <1>1 DEF FreshInv, Undisturbed, FailsOnlyWhenDisturbed, UserStatement, ClassStatement, Statement

Flagged(M, P) == {<<m, m \in P>> : m \in M}

\* Rows with a flag tell the rows and the flags (is_primary).
LEMMA FlagsTell ==
  ASSUME NEW M, NEW N, NEW P, NEW Q, Flagged(M, P) = Flagged(N, Q)
  PROVE  M = N /\ \A m \in N : m \in P <=> m \in Q
<1>0. {<<m, m \in P>> : m \in M} = {<<m, m \in Q>> : m \in N}
  BY DEF Flagged
<1>1. ASSUME NEW m \in M PROVE m \in N /\ (m \in P <=> m \in Q)
  <2>1. <<m, m \in P>> \in {<<k, k \in P>> : k \in M}
    OBVIOUS
  <2>2. PICK k \in N : <<m, m \in P>> = <<k, k \in Q>>
    BY <1>0, <2>1
  <2>3. m = k
    BY <2>2
  <2>4. (m \in P) = (k \in Q)
    BY <2>2
  <2> QED
    BY <2>3, <2>4
<1>2. ASSUME NEW m \in N PROVE m \in M
  <2>1. <<m, m \in Q>> \in {<<k, k \in Q>> : k \in N}
    OBVIOUS
  <2>2. PICK k \in M : <<m, m \in Q>> = <<k, k \in P>>
    BY <1>0, <2>1
  <2> QED
    BY <2>2
<1> QED
  BY <1>1, <1>2

\* Rows of a request that stay the same are as they were found (READ COMMITTED).
LEMMA ObserveFresh ==
  ASSUME ViewInv, FreshInv, TypeOK, StoreConsistent, StoreConsistent', Observe
  PROVE  FreshInv'
<1> DEFINE lost == IF request.stage \in Statement
                   THEN request.lost \cup (View.member \ db'.member) ELSE request.lost
           moved == request.stage \in Statement /\ Footprint(db') # Footprint(db)
           disturbed == request.disturbed \/ moved
           settled == request.settled /\ dir' = dir
<1>1. request' = [request EXCEPT !.lost = lost, !.disturbed = disturbed, !.settled = settled]
  BY DEF Observe
<1>2. request \in Request
  BY DEF ViewInv, ReadTypeOK
<1> HIDE DEF lost, disturbed, settled
<1>3. /\ request'.stage = request.stage /\ request'.kind = request.kind /\ request'.view = request.view
      /\ request'.disturbed = disturbed
  BY <1>1, <1>2 DEF Request
<1>4. View' = View /\ FoundUsers' = FoundUsers /\ FoundGroups' = FoundGroups
  BY <1>3 DEF View, FoundUsers, FoundGroups, Users, Groups
<1>5. FailsOnlyWhenDisturbed'
  BY <1>2, <1>3 DEF FreshInv, FailsOnlyWhenDisturbed, disturbed, Request
<1>6. request'.stage = "group schools" => GroupsOfMemberships'
  BY <1>3, <1>4 DEF FreshInv, GroupsOfMemberships
<1>7. ASSUME request.stage \in Statement, ~disturbed PROVE Undisturbed'
  <2>1. Footprint(db') = Footprint(db) /\ ~request.disturbed /\ Undisturbed
    BY <1>7 DEF disturbed, FreshInv
  <2>2. CASE request.kind # "class"
    <3> DEFINE Rows(d) == [u \in FoundUsers |-> <<d.user[u], d.dn[u]>>]
               M == {n \in db.member : n[1] \in FoundUsers}
               N == {n \in db'.member : n[1] \in FoundUsers}
               P == db.primary
               Q == db'.primary
    <3>1. Rows(db') = Rows(db) /\ Flagged(N, Q) = Flagged(M, P)
      BY <2>1, <2>2 DEF Footprint, Flagged
    <3>2. \A u \in FoundUsers : db'.user[u] = db.user[u]
      <4>1. \A u \in FoundUsers : Rows(db')[u] = Rows(db)[u]
        BY <3>1
      <4> QED
        BY <4>1
    <3> HIDE DEF Rows, M, N, P, Q
    <3>3. N = M
      BY <3>1, FlagsTell
    <3>4. \A m \in M : m \in Q <=> m \in P
      BY <3>1, FlagsTell
    <3> USE DEF M, N, P, Q
    <3>5. db.primary \subseteq db.member /\ db'.primary \subseteq db'.member
      BY DEF StoreConsistent, ReferencesHold, MembershipsHold
    <3>6. {m \in db'.primary : m[1] \in FoundUsers} = {m \in db.primary : m[1] \in FoundUsers}
      BY <3>3, <3>4, <3>5
    <3>7. UsersAsFound => UsersAsFound'
      BY <1>4, <3>2 DEF UsersAsFound
    <3>8. MembershipsAsFound => MembershipsAsFound'
      BY <1>4, <3>3, <3>6 DEF MembershipsAsFound
    <3>9. request.stage \notin ClassStatement
      BY <2>2 DEF ViewInv
    <3> QED
      BY <1>3, <2>1, <3>7, <3>8, <3>9 DEF Undisturbed, ClassStatement, UserStatement
  <2>3. CASE request.kind = "class"
    <3> DEFINE Rows(d) == [g \in FoundGroups |-> <<d.group[g], d.dn[g]>>]
    <3>1. /\ Rows(db') = Rows(db)
          /\ {l \in db'.link : l[1] \in FoundGroups} = {l \in db.link : l[1] \in FoundGroups}
      BY <2>1, <2>3 DEF Footprint
    <3>2. \A g \in FoundGroups : db'.group[g] = db.group[g]
      <4>1. \A g \in FoundGroups : Rows(db')[g] = Rows(db)[g]
        BY <3>1
      <4> QED
        BY <4>1
    <3> HIDE DEF Rows
    <3>3. ClassAsFound => ClassAsFound'
      BY <1>4, <3>2 DEF ClassAsFound
    <3>4. LinksAsFound => LinksAsFound'
      BY <1>4, <3>1 DEF LinksAsFound
    <3>5. request.stage \notin UserStatement
      BY <2>3 DEF ViewInv
    <3> QED
      BY <1>3, <2>1, <3>3, <3>4, <3>5 DEF Undisturbed, ClassStatement, UserStatement
  <2> QED
    BY <2>2, <2>3
<1> QED
  BY <1>3, <1>5, <1>6, <1>7 DEF FreshInv

\* Every step of the connector or of a request.
LEMMA ReadStepFresh ==
  ASSUME ViewInv, FreshInv, TypeOK, StoreConsistent, StoreConsistent', LinksWithinSchool, UsersShown,
         [ReadNext]_readVars
  PROVE  FreshInv'
<1>1. ASSUME UNCHANGED readVars PROVE FreshInv'
  BY <1>1 DEF readVars, FreshInv, FailsOnlyWhenDisturbed, Undisturbed, UsersAsFound,
              MembershipsAsFound, GroupsOfMemberships, ClassAsFound, LinksAsFound, FoundUsers,
              FoundGroups, View
<1>2. ASSUME Next /\ Observe PROVE FreshInv'
  BY <1>2, ObserveFresh
<1>3. ASSUME Asked PROVE FreshInv'
  BY <1>3, AskedFresh
<1>4. ASSUME Serve PROVE FreshInv'
  BY <1>4, UsersFresh, MembershipsFresh, GroupsFresh, DnsFresh, ClassFresh, ClassSchoolFresh,
     AskedFresh DEF Serve
<1> QED
  BY <1>1, <1>2, <1>3, <1>4 DEF ReadNext

(***************************************************************************)
(* While every stored user can be shown, a request fails only if one of    *)
(* the rows it had found was changed by another transaction between two    *)
(* of its statements (routers/v2/user.py, routers/v2/school_class.py).     *)
(***************************************************************************)
THEOREM RequestsFailOnlyWhenDisturbed ==
  ASSUME "regroup" \notin Operations
  PROVE  ReadSpec /\ []UsersShown => []FailsOnlyWhenDisturbed
<1>1. ReadInit => ViewInv /\ FreshInv
  <2>1. ReadInit => ViewInv
    BY ReadInitFits
  <2>2. ReadInit => request.stage = "idle"
    BY DEF ReadInit, NoRequest, NewRequest
  <2> QED
    BY <2>1, <2>2 DEF FreshInv, FailsOnlyWhenDisturbed, Statement
<1>2. /\ ViewInv /\ FreshInv /\ UsersShown
      /\ TypeOK /\ StoreConsistent /\ StoreConsistent' /\ LinksWithinSchool
      /\ [ReadNext]_readVars
      => ViewInv' /\ FreshInv'
  BY ReadStepFits, ReadStepFresh
<1>3. FreshInv => FailsOnlyWhenDisturbed
  BY DEF FreshInv
<1>4. Spec => [](TypeOK /\ StoreConsistent /\ LinksWithinSchool)
  BY TypeCorrect, StoreStaysConsistent, LinksStayWithinSchool, PTL
<1> QED
  BY <1>1, <1>2, <1>3, <1>4, ReadsKeepTheStore, PTL DEF ReadSpec

----------------------------------------------------------------------------
(* Every stored user can be shown *)

(***************************************************************************)
(* A user is stored together with its DN and with a primary school, and    *)
(* loses the school only after an event has moved it elsewhere: as long as *)
(* no event is dropped, every stored user can be shown (_user_to_model,    *)
(* primary_school), while requests are served and the directory changes.   *)
(* The subscription is set up once.                                        *)
(***************************************************************************)
THEOREM UndroppedUsersShown ==
  ASSUME MaxResubscriptions = 0, FitDirectories
  PROVE  ReadSpec => [](NothingDropped => UsersShown)
<1>1. IInv /\ RInv /\ WInv /\ CInv => (NothingDropped => UsersShown)
  BY StoredUsers DEF UsersShown
<1> QED
  BY <1>1, OneSubscription, ReadsKeepTheStore, PTL

\* With fewer faults and crashes, all told, than an event has deliveries, none
\* is dropped, and every stored user can be shown at any time (_user_to_model).
THEOREM StoredUsersAreShown ==
  ASSUME MaxResubscriptions = 0, FitDirectories, "role" \notin Operations,
         MaxFaults + MaxCrashes < MaxDeliveries
  PROVE  ReadSpec => []UsersShown
<1>1. ReadSpec => []NothingDropped
  BY NothingIsDropped, ReadsKeepTheStore, PTL
<1> QED
  BY <1>1, UndroppedUsersShown, PTL

\* Then a request fails only if a row it had found was changed between two of
\* its statements (routers/v2/user.py, routers/v2/school_class.py).
THEOREM QuietRequestsSucceed ==
  ASSUME MaxResubscriptions = 0, FitDirectories, Operations \cap {"role", "regroup"} = {},
         MaxFaults + MaxCrashes < MaxDeliveries
  PROVE  ReadSpec => []FailsOnlyWhenDisturbed
<1>1. ReadSpec => []UsersShown
  BY StoredUsersAreShown
<1>2. ReadSpec /\ []UsersShown => []FailsOnlyWhenDisturbed
  BY RequestsFailOnlyWhenDisturbed
<1> QED
  BY <1>1, <1>2, PTL
=============================================================================
