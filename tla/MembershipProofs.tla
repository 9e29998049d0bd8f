-------------------------- MODULE MembershipProofs --------------------------
(***************************************************************************)
(* Proofs about MembershipPatch: no flush is refused, and every call       *)
(* writes exactly the rows asked for.                                      *)
(*                                                                         *)
(* The inductive invariant: outside the user's own rows the transaction    *)
(* sees the committed database; the first flush only takes away; and after *)
(* it every membership the table holds as primary is wanted as primary.    *)
(***************************************************************************)
EXTENDS MembershipPatch, TLAPS

Busy == pc \in {"release", "flush", "apply", "commit"}

\* The rows of everyone else, and the tables a call does not touch.
OthersKept(d, u) ==
  /\ d.school = db.school /\ d.group = db.group /\ d.sender = db.sender
  /\ d.server = db.server /\ d.dn = db.dn
  /\ \A v \in User \ {u} : d.user[v] = db.user[v]
  /\ {m \in d.member : m[1] # u} = {m \in db.member : m[1] # u}
  /\ {m \in d.primary : m[1] # u} = {m \in db.primary : m[1] # u}
  /\ {l \in d.link : l[2] # u} = {l \in db.link : l[2] # u}

SessionTypeOK ==
  session \in [name : UserName \cup {NoRow}, member : SUBSET (User \X School),
               primary : SUBSET (User \X School), link : SUBSET (Group \X User \X School)]

TablePrimary == {m \in table.primary : m[1] = wanted.user}

TypeInv ==
  /\ db \in Database /\ Consistent(db)
  /\ pc \in {"idle", "release", "flush", "apply", "commit"}
  /\ pc = "idle" => wanted = Nothing
  /\ Busy => /\ wanted \in Wanted(db)
             /\ wanted # Nothing
             /\ table \in Database
             /\ SessionTypeOK
             /\ OthersKept(table, wanted.user)
             /\ OnePrimary(table)

\* The session holds rows of the user only.
SessionInv ==
  Busy => /\ \A m \in session.member \cup session.primary : m[1] = wanted.user
          /\ \A l \in session.link : l[2] = wanted.user
          /\ session.primary \subseteq session.member

StageInv ==
  /\ pc = "release" => Flushed
  /\ pc = "flush" => /\ session.member \subseteq table.member
                     /\ session.primary \subseteq table.primary
                     /\ session.primary \subseteq WantedPrimary
  /\ pc \in {"apply", "commit"} => TablePrimary \subseteq WantedPrimary
  /\ pc = "commit" => /\ session = [name |-> wanted.name, member |-> WantedMembers,
                                    primary |-> WantedPrimary, link |-> wanted.links]

PatchInv == TypeInv /\ SessionInv /\ StageInv

----------------------------------------------------------------------------
(* The invariant *)

\* At the start no call is running and the database is consistent.
LEMMA InitEstablishes == PatchInit => PatchInv
BY UserWritesAssumption
   DEF PatchInit, PatchInv, TypeInv, SessionInv, StageInv, Busy

\* A call is begun: the old rows of the user are in the session (create, modify).
LEMMA BeginKeeps ==
  ASSUME PatchInv, NEW w \in Wanted(db), Begin(w)
  PROVE  PatchInv'
<1>1. db' = db /\ wanted' = w /\ table' = db /\ session' = Rows(db, w.user)
  BY DEF Begin
<1>2. w \in UserRows /\ w.user \in User /\ wanted' # Nothing
  BY <1>1, UserWritesAssumption DEF Wanted, UserRows
<1>3. pc' = IF w.user \in Users(db) THEN "release" ELSE "apply"
  BY DEF Begin
<1>4. db \in Database /\ Consistent(db)
  BY DEF PatchInv, TypeInv
<1>5. SessionTypeOK'
  BY <1>1, <1>2, <1>4 DEF SessionTypeOK, Rows, Database
<1>6. OthersKept(table, wanted.user)' /\ OnePrimary(table)'
  BY <1>1, <1>4 DEF OthersKept, OnePrimary, Consistent
<1>7. TypeInv'
  BY <1>1, <1>2, <1>3, <1>4, <1>5, <1>6 DEF TypeInv, Busy, Wanted, OwnLinks, Consistent
<1>8. SessionInv'
  BY <1>1, <1>4 DEF SessionInv, Rows, Consistent
<1>9. StageInv'
  <2>1. CASE w.user \in Users(db)
    BY <2>1, <1>1, <1>3 DEF StageInv, Flushed
  <2>2. CASE w.user \notin Users(db)
    <3>1. {m \in db.primary : m[1] = w.user} = {}
      BY <2>2, <1>4 DEF Consistent, Database
    <3>2. TablePrimary' = {}
      BY <3>1, <1>1 DEF TablePrimary
    <3>. QED BY <3>2, <2>2, <1>3 DEF StageInv
  <2>. QED BY <2>1, <2>2
<1>. QED BY <1>7, <1>8, <1>9 DEF PatchInv

\* The primary marks to be given up are flushed first (_apply_membership_relation_changes).
LEMMA ReleaseKeeps ==
  ASSUME PatchInv, Release
  PROVE  PatchInv'
<1>. DEFINE u == wanted.user
<1>1. pc = "release" /\ Busy
  BY DEF Release, Busy
<1>2. wanted \in Wanted(db) /\ SessionTypeOK /\ Flushed
  BY <1>1 DEF PatchInv, TypeInv, StageInv
<1>3. wanted \in UserRows
  BY <1>2 DEF Wanted
<1>4. UNCHANGED <<db, wanted, table>> /\ pc' \in {"flush", "apply"}
  BY DEF Release
<1>5. /\ session'.name = wanted.name
      /\ session'.member = session.member \cap WantedMembers
      /\ session'.primary = session.primary \cap WantedPrimary
      /\ session'.link \subseteq session.link
  BY DEF Release
<1>6. SessionTypeOK'
  BY <1>2, <1>3 DEF Release, SessionTypeOK, UserRows
<1>7. TypeInv'
  BY <1>1, <1>4, <1>6 DEF PatchInv, TypeInv, Busy, OthersKept, OnePrimary
<1>8. SessionInv'
  BY <1>1, <1>2, <1>4, <1>5
     DEF PatchInv, SessionInv, Busy, Wanted, WantedMembers, WantedPrimary
<1>9. session.member = {m \in table.member : m[1] = u} /\ session.primary = TablePrimary
  BY <1>2 DEF Flushed, Rows, TablePrimary
<1>10. StageInv'
  <2>1. CASE pc' = "flush"
    BY <2>1, <1>4, <1>5, <1>9 DEF StageInv, WantedPrimary, TablePrimary
  <2>2. CASE pc' = "apply"
    <3>1. session.primary \cap WantedPrimary = session.primary
      BY <2>2 DEF Release
    <3>. QED BY <3>1, <2>2, <1>4, <1>9 DEF StageInv, WantedPrimary, TablePrimary
  <2>. QED BY <2>1, <2>2, <1>4
<1>. QED BY <1>7, <1>8, <1>10 DEF PatchInv

\* The wanted memberships are put into the session, in any order.
LEMMA ApplyKeeps ==
  ASSUME PatchInv, Apply
  PROVE  PatchInv'
<1>1. pc = "apply" /\ pc' = "commit" /\ Busy
  BY DEF Apply, Busy
<1>2. UNCHANGED <<db, wanted, table>>
  BY DEF Apply
<1>3. wanted \in Wanted(db)
  BY <1>1 DEF PatchInv, TypeInv
<1>4. wanted \in UserRows /\ wanted.links \subseteq OwnLinks(db, wanted.user, wanted.schools)
  BY <1>3 DEF Wanted
<1>5. session' = [name |-> wanted.name, member |-> WantedMembers,
                  primary |-> WantedPrimary, link |-> wanted.links]
  BY DEF Apply
<1>6. SessionTypeOK'
  BY <1>4, <1>5 DEF SessionTypeOK, UserRows, WantedMembers, WantedPrimary
<1>7. TypeInv'
  BY <1>1, <1>2, <1>6 DEF PatchInv, TypeInv, Busy, OthersKept, OnePrimary
<1>8. SessionInv'
  BY <1>2, <1>3, <1>4, <1>5 DEF SessionInv, Wanted, WantedMembers, WantedPrimary, OwnLinks
<1>9. StageInv'
  BY <1>1, <1>2, <1>5 DEF PatchInv, StageInv, WantedPrimary, WantedMembers, TablePrimary
<1>. QED BY <1>7, <1>8, <1>9 DEF PatchInv

(***************************************************************************)
(* What a statement must do to the table for the invariant to hold on.     *)
(***************************************************************************)
LEMMA ExecuteKeeps ==
  ASSUME PatchInv, Flushing,
         NEW d \in Database,
         OthersKept(d, wanted.user), OnePrimary(d),
         pc = "flush" => /\ session.member \subseteq d.member
                         /\ session.primary \subseteq d.primary,
         pc = "commit" => {m \in d.primary : m[1] = wanted.user} \subseteq WantedPrimary,
         Execute(d)
  PROVE  PatchInv'
<1>1. table' = d /\ pc' = pc /\ UNCHANGED <<db, wanted, session>>
  BY DEF Execute
<1>2. Busy /\ pc \in {"flush", "commit"}
  BY DEF Flushing, Busy
<1>3. TypeInv'
  BY <1>1, <1>2 DEF PatchInv, TypeInv, Busy, SessionTypeOK, OthersKept, OnePrimary
<1>4. SessionInv'
  BY <1>1, <1>2 DEF PatchInv, SessionInv, Busy
<1>5. StageInv'
  BY <1>1, <1>2 DEF PatchInv, StageInv, WantedPrimary, WantedMembers, TablePrimary
<1>. QED BY <1>3, <1>4, <1>5 DEF PatchInv

\* What the invariant says while a flush is running.
LEMMA WhileFlushing ==
  ASSUME PatchInv, Flushing
  PROVE  /\ Busy /\ wanted \in Wanted(db) /\ wanted \in UserRows
         /\ table \in Database /\ SessionTypeOK
         /\ OthersKept(table, wanted.user) /\ OnePrimary(table)
         /\ pc = "flush" => /\ session.member \subseteq table.member
                            /\ session.primary \subseteq table.primary
         /\ pc = "commit" => /\ TablePrimary \subseteq WantedPrimary
                             /\ session.primary = WantedPrimary
BY DEF Flushing, PatchInv, TypeInv, StageInv, Busy, Wanted

\* Two wanted primary memberships are the same one.
LEMMA WantedPrimaryIsOne ==
  ASSUME wanted \in Wanted(db), NEW m \in WantedPrimary, NEW n \in WantedPrimary
  PROVE  m = n
BY DEF Wanted, WantedPrimary

(***************************************************************************)
(* A primary mark may be set while the final rows are written: whoever     *)
(* else the table holds as primary is wanted as primary too.               *)
(***************************************************************************)
LEMMA PromotionIsSafe ==
  ASSUME PatchInv, pc = "commit", NEW m \in session.primary
  PROVE  /\ \A n \in table.primary \cup {m}, k \in table.primary \cup {m} :
              n[1] = k[1] => n = k
         /\ {n \in table.primary \cup {m} : n[1] = wanted.user} \subseteq WantedPrimary
<1>1. Flushing
  BY DEF Flushing
<1>2. wanted \in Wanted(db) /\ OnePrimary(table)
      /\ TablePrimary \subseteq WantedPrimary /\ session.primary = WantedPrimary
  BY <1>1, WhileFlushing
<1>3. m[1] = wanted.user
  BY <1>2 DEF WantedPrimary
<1>4. \A n \in table.primary : n[1] = wanted.user => n = m
  BY <1>2, WantedPrimaryIsOne DEF TablePrimary
<1>. QED BY <1>2, <1>3, <1>4 DEF OnePrimary, TablePrimary

\* The statement for the row of the user.
LEMMA WriteUserKeeps ==
  ASSUME PatchInv, WriteUser
  PROVE  PatchInv'
<1>. DEFINE d == [table EXCEPT !.user[wanted.user] = session.name]
<1>1. Flushing /\ Execute(d)
  BY DEF WriteUser
<1>2. /\ table \in Database /\ SessionTypeOK /\ wanted \in UserRows
      /\ OthersKept(table, wanted.user) /\ OnePrimary(table)
  BY <1>1, WhileFlushing
<1>3. d \in Database
  BY <1>2 DEF Database, SessionTypeOK, UserRows
<1>4. d.primary = table.primary /\ d.member = table.member
  BY <1>2 DEF Database
<1>5. OthersKept(d, wanted.user)
  BY <1>2 DEF OthersKept, Database, UserRows
<1>6. OnePrimary(d)
  BY <1>2, <1>4 DEF OnePrimary
<1>. QED BY <1>1, <1>3, <1>4, <1>5, <1>6, ExecuteKeeps, WhileFlushing DEF TablePrimary

\* INSERT of one membership.
LEMMA InsertKeeps ==
  ASSUME PatchInv, NEW m \in User \X School, InsertMembership(m)
  PROVE  PatchInv'
<1>. DEFINE d == [table EXCEPT !.member = @ \cup {m},
                              !.primary = @ \cup ({m} \cap session.primary)]
<1>1. Flushing /\ Execute(d) /\ m \in session.member /\ m \notin table.member
  BY DEF InsertMembership, ToInsert
<1>2. /\ table \in Database /\ OthersKept(table, wanted.user) /\ OnePrimary(table)
      /\ Busy /\ (pc = "flush" => session.member \subseteq table.member)
      /\ (pc = "commit" => TablePrimary \subseteq WantedPrimary)
  BY <1>1, WhileFlushing
<1>3. pc = "commit"
  BY <1>1, <1>2 DEF Flushing
<1>4. m[1] = wanted.user
  BY <1>1, <1>2 DEF PatchInv, SessionInv
<1>5. d \in Database
  BY <1>2 DEF Database
<1>6. d.primary = table.primary \cup ({m} \cap session.primary)
  BY <1>2 DEF Database
<1>7. OthersKept(d, wanted.user)
  BY <1>2, <1>4 DEF OthersKept, Database
<1>8. OnePrimary(d) /\ {n \in d.primary : n[1] = wanted.user} \subseteq WantedPrimary
  <2>1. CASE m \in session.primary
    BY <2>1, <1>3, <1>6, PromotionIsSafe DEF OnePrimary
  <2>2. CASE m \notin session.primary
    BY <2>2, <1>2, <1>3, <1>6 DEF OnePrimary, TablePrimary
  <2>. QED BY <2>1, <2>2
<1>. QED BY <1>1, <1>3, <1>5, <1>7, <1>8, ExecuteKeeps

\* UPDATE of the primary mark of one membership.
LEMMA UpdateKeeps ==
  ASSUME PatchInv, NEW m \in User \X School, UpdateMembership(m)
  PROVE  PatchInv'
<1>. DEFINE d == [table EXCEPT !.primary = IF m \in session.primary THEN @ \cup {m} ELSE @ \ {m}]
<1>1. /\ Flushing /\ Execute(d)
      /\ m \in session.member /\ (m \in table.primary) # (m \in session.primary)
  BY DEF UpdateMembership, ToUpdate
<1>2. /\ table \in Database /\ OthersKept(table, wanted.user) /\ OnePrimary(table) /\ Busy
      /\ (pc = "flush" => /\ session.member \subseteq table.member
                          /\ session.primary \subseteq table.primary)
      /\ (pc = "commit" => TablePrimary \subseteq WantedPrimary)
  BY <1>1, WhileFlushing
<1>3. m[1] = wanted.user
  BY <1>1, <1>2 DEF PatchInv, SessionInv
<1>4. d \in Database /\ d.member = table.member
  BY <1>2 DEF Database
<1>5. OthersKept(d, wanted.user)
  BY <1>2, <1>3 DEF OthersKept, Database
<1>6. CASE m \in session.primary
  <2>1. pc = "commit" /\ d.primary = table.primary \cup {m}
    BY <1>1, <1>2, <1>6 DEF Flushing, Database
  <2>2. OnePrimary(d) /\ {n \in d.primary : n[1] = wanted.user} \subseteq WantedPrimary
    BY <1>6, <2>1, PromotionIsSafe DEF OnePrimary
  <2>. QED BY <1>1, <1>4, <1>5, <2>1, <2>2, ExecuteKeeps
<1>7. CASE m \notin session.primary
  <2>1. d.primary = table.primary \ {m}
    BY <1>2, <1>7 DEF Database
  <2>2. OnePrimary(d)
    BY <1>2, <2>1 DEF OnePrimary
  <2>3. pc = "commit" => {n \in d.primary : n[1] = wanted.user} \subseteq WantedPrimary
    BY <1>2, <2>1 DEF TablePrimary
  <2>4. pc = "flush" => session.primary \subseteq d.primary
    BY <1>2, <1>7, <2>1
  <2>. QED BY <1>1, <1>2, <1>4, <1>5, <2>2, <2>3, <2>4, ExecuteKeeps
<1>. QED BY <1>6, <1>7

\* DELETE of one membership, with its group links.
LEMMA DeleteKeeps ==
  ASSUME PatchInv, NEW m \in User \X School, DeleteMembership(m)
  PROVE  PatchInv'
<1>. DEFINE d == [table EXCEPT !.member = @ \ {m}, !.primary = @ \ {m},
                              !.link = {l \in @ : <<l[2], l[3]>> # m}]
<1>1. Flushing /\ Execute(d) /\ m \notin session.member /\ m[1] = wanted.user
  BY DEF DeleteMembership, ToDelete, Rows
<1>2. /\ table \in Database /\ OthersKept(table, wanted.user) /\ OnePrimary(table) /\ Busy
      /\ (pc = "flush" => /\ session.member \subseteq table.member
                          /\ session.primary \subseteq table.primary)
      /\ (pc = "commit" => TablePrimary \subseteq WantedPrimary)
  BY <1>1, WhileFlushing
<1>3. d \in Database
  BY <1>2 DEF Database
<1>4. /\ d.member = table.member \ {m} /\ d.primary = table.primary \ {m}
      /\ d.link = {l \in table.link : <<l[2], l[3]>> # m}
      /\ d.school = table.school /\ d.group = table.group /\ d.user = table.user
      /\ d.sender = table.sender /\ d.server = table.server /\ d.dn = table.dn
  BY <1>2 DEF Database
<1>5. OthersKept(d, wanted.user)
  <2>1. \A l \in table.link : l[2] # wanted.user => <<l[2], l[3]>> # m
    BY <1>1
  <2>2. {l \in d.link : l[2] # wanted.user} = {l \in table.link : l[2] # wanted.user}
    BY <2>1, <1>4
  <2>. QED BY <1>1, <1>2, <1>4, <2>2 DEF OthersKept
<1>6. OnePrimary(d)
  BY <1>2, <1>4 DEF OnePrimary
<1>7. pc = "commit" => {n \in d.primary : n[1] = wanted.user} \subseteq WantedPrimary
  BY <1>2, <1>4 DEF TablePrimary
<1>8. m \notin session.primary
  BY <1>1, <1>2 DEF PatchInv, SessionInv
<1>9. pc = "flush" => /\ session.member \subseteq d.member
                      /\ session.primary \subseteq d.primary
  BY <1>1, <1>2, <1>4, <1>8
<1>. QED BY <1>1, <1>3, <1>5, <1>6, <1>7, <1>9, ExecuteKeeps

\* The statements for the association table of groups and memberships.
LEMMA WriteLinksKeeps ==
  ASSUME PatchInv, WriteLinks
  PROVE  PatchInv'
<1>. DEFINE d == [table EXCEPT !.link = {l \in @ : l[2] # wanted.user} \cup session.link]
<1>1. Flushing /\ Execute(d)
  BY DEF WriteLinks
<1>2. /\ table \in Database /\ OthersKept(table, wanted.user) /\ OnePrimary(table)
      /\ Busy /\ SessionTypeOK
  BY <1>1, WhileFlushing
<1>3. d \in Database
  BY <1>2 DEF Database, SessionTypeOK
<1>4. /\ d.member = table.member /\ d.primary = table.primary
      /\ d.link = {l \in table.link : l[2] # wanted.user} \cup session.link
      /\ d.school = table.school /\ d.group = table.group /\ d.user = table.user
      /\ d.sender = table.sender /\ d.server = table.server /\ d.dn = table.dn
  BY <1>2 DEF Database
<1>5. \A l \in session.link : l[2] = wanted.user
  BY <1>2 DEF PatchInv, SessionInv
<1>6. OthersKept(d, wanted.user)
  BY <1>2, <1>4, <1>5 DEF OthersKept
<1>7. OnePrimary(d)
  BY <1>2, <1>4 DEF OnePrimary
<1>. QED BY <1>1, <1>3, <1>4, <1>6, <1>7, ExecuteKeeps, WhileFlushing DEF TablePrimary

\* Any statement of a flush.
LEMMA StatementKeeps ==
  ASSUME PatchInv, Statement
  PROVE  PatchInv'
BY WriteUserKeeps, InsertKeeps, UpdateKeeps, DeleteKeeps, WriteLinksKeeps DEF Statement

\* A flush ends when the table holds what the session holds.
LEMMA FlushEndsKeeps ==
  ASSUME PatchInv, FlushEnds
  PROVE  PatchInv'
<1>1. pc = "flush" /\ pc' = "apply" /\ UNCHANGED <<db, wanted, table, session>>
      /\ Busy /\ Busy'
  BY DEF FlushEnds, Busy
<1>2. TypeInv'
  BY <1>1 DEF PatchInv, TypeInv, SessionTypeOK, OthersKept, OnePrimary
<1>3. SessionInv'
  BY <1>1 DEF PatchInv, SessionInv
<1>4. TablePrimary = session.primary
  BY DEF FlushEnds, Flushed, Rows, TablePrimary
<1>5. StageInv'
  BY <1>1, <1>4 DEF PatchInv, StageInv, TablePrimary, WantedPrimary
<1>. QED BY <1>2, <1>3, <1>5 DEF PatchInv

(***************************************************************************)
(* When everything is flushed, the table is what PutUser makes of the      *)
(* committed database.                                                     *)
(***************************************************************************)
LEMMA CommitPuts ==
  ASSUME PatchInv, Commit
  PROVE  /\ wanted \in Wanted(db) /\ wanted # Nothing
         /\ db' = Put(db, wanted)
<1>. DEFINE u == wanted.user
            put == Put(db, wanted)
<1>1. pc = "commit" /\ Busy /\ Flushed /\ db' = table
  BY DEF Commit, Busy
<1>2. /\ wanted \in Wanted(db) /\ wanted # Nothing /\ wanted \in UserRows
      /\ db \in Database /\ table \in Database /\ OthersKept(table, u)
      /\ session = [name |-> wanted.name, member |-> WantedMembers,
                    primary |-> WantedPrimary, link |-> wanted.links]
  BY <1>1 DEF PatchInv, TypeInv, StageInv, Wanted
<1>3. /\ table.user[u] = wanted.name
      /\ {m \in table.member : m[1] = u} = {u} \X wanted.schools
      /\ {m \in table.primary : m[1] = u} = {u} \X wanted.primary
      /\ {l \in table.link : l[2] = u} = wanted.links
  BY <1>1, <1>2 DEF Flushed, Rows, WantedMembers, WantedPrimary
<1>4. table.user = [db.user EXCEPT ![u] = wanted.name]
  BY <1>2, <1>3 DEF OthersKept, Database, UserRows
<1>5. table.member = {m \in db.member : m[1] # u} \cup ({u} \X wanted.schools)
  <2>1. table.member = {m \in table.member : m[1] # u} \cup {m \in table.member : m[1] = u}
    OBVIOUS
  <2>. QED BY <2>1, <1>2, <1>3 DEF OthersKept
<1>6. table.primary = {m \in db.primary : m[1] # u} \cup ({u} \X wanted.primary)
  <2>1. table.primary = {m \in table.primary : m[1] # u} \cup {m \in table.primary : m[1] = u}
    OBVIOUS
  <2>. QED BY <2>1, <1>2, <1>3 DEF OthersKept
<1>7. table.link = {l \in db.link : l[2] # u} \cup wanted.links
  <2>1. table.link = {l \in table.link : l[2] # u} \cup {l \in table.link : l[2] = u}
    OBVIOUS
  <2>. QED BY <2>1, <1>2, <1>3 DEF OthersKept
<1>8. /\ put.school = db.school /\ put.group = db.group /\ put.sender = db.sender
      /\ put.server = db.server /\ put.dn = db.dn
      /\ put.user = [db.user EXCEPT ![u] = wanted.name]
      /\ put.member = {m \in db.member : m[1] # u} \cup ({u} \X wanted.schools)
      /\ put.primary = {m \in db.primary : m[1] # u} \cup ({u} \X wanted.primary)
      /\ put.link = {l \in db.link : l[2] # u} \cup wanted.links
  BY <1>2 DEF Put, PutUser, Database
<1>9. table = put
  <2>1. put \in [school : {db.school}, group : {db.group}, user : {put.user},
                 member : {put.member}, primary : {put.primary}, link : {put.link},
                 sender : {db.sender}, server : {db.server}, dn : {db.dn}]
    BY <1>2, <1>8 DEF Put, PutUser, Database
  <2>2. table \in [school : {db.school}, group : {db.group}, user : {put.user},
                   member : {put.member}, primary : {put.primary}, link : {put.link},
                   sender : {db.sender}, server : {db.server}, dn : {db.dn}]
    BY <1>2, <1>4, <1>5, <1>6, <1>7, <1>8 DEF Database, OthersKept
  <2>. QED BY <2>1, <2>2
<1>. QED BY <1>1, <1>2, <1>9

\* PutUser keeps the references complete and the primary school unique.
LEMMA PutKeepsConsistent ==
  ASSUME NEW d \in Database, Consistent(d), NEW w \in Wanted(d)
  PROVE  Put(d, w) \in Database /\ Consistent(Put(d, w))
<1>. DEFINE put == Put(d, w)
<1>1. /\ w \in UserRows /\ w.schools \subseteq Schools(d) /\ w.primary \subseteq w.schools
      /\ \A s, t \in w.primary : s = t
      /\ w.links \subseteq OwnLinks(d, w.user, w.schools)
  BY DEF Wanted
<1>2. put \in Database
  <2>1. w.user \in User /\ w.name \in UserName \cup {NoRow}
    BY <1>1 DEF UserRows
  <2>2. /\ {m \in d.member : m[1] # w.user} \cup ({w.user} \X w.schools) \subseteq User \X School
        /\ {m \in d.primary : m[1] # w.user} \cup ({w.user} \X w.primary) \subseteq User \X School
        /\ {l \in d.link : l[2] # w.user} \cup w.links \subseteq Group \X User \X School
    BY <1>1 DEF UserRows, Database
  <2>3. [d.user EXCEPT ![w.user] = w.name] \in [User -> UserName \cup {NoRow}]
    BY <2>1 DEF Database
  <2>. QED BY <2>2, <2>3 DEF Put, PutUser, Database
<1>3. /\ put.school = d.school
      /\ put.user = [d.user EXCEPT ![w.user] = w.name]
      /\ put.member = {m \in d.member : m[1] # w.user} \cup ({w.user} \X w.schools)
      /\ put.primary = {m \in d.primary : m[1] # w.user} \cup ({w.user} \X w.primary)
      /\ put.link = {l \in d.link : l[2] # w.user} \cup w.links
  BY DEF Put, PutUser, Database
<1>4. Schools(put) = Schools(d) /\ Users(d) \cup {w.user} \subseteq Users(put)
  BY <1>1, <1>3, StoreAssumption DEF Schools, Users, UserRows, Database
<1>5. put.member \subseteq Users(put) \X Schools(put)
  BY <1>1, <1>3, <1>4 DEF Consistent
<1>6. put.primary \subseteq put.member
  BY <1>1, <1>3 DEF Consistent
<1>7. \A m, n \in put.primary : m[1] = n[1] => m = n
  BY <1>1, <1>3 DEF Consistent
<1>8. \A l \in put.link : <<l[2], l[3]>> \in put.member
  <2>1. \A l \in w.links : l[2] = w.user /\ l[3] \in w.schools
    BY <1>1 DEF OwnLinks
  <2>. QED BY <2>1, <1>3 DEF Consistent
<1>. QED BY <1>2, <1>5, <1>6, <1>7, <1>8 DEF Consistent

\* The transaction is committed.
LEMMA CommitKeeps ==
  ASSUME PatchInv, Commit
  PROVE  PatchInv'
<1>1. db' = Put(db, wanted) /\ wanted \in Wanted(db)
  BY CommitPuts
<1>2. db \in Database /\ Consistent(db)
  BY DEF PatchInv, TypeInv
<1>3. db' \in Database /\ Consistent(db')
  BY <1>1, <1>2, PutKeepsConsistent
<1>4. pc' = "idle" /\ wanted' = Nothing
  BY DEF Commit
<1>. QED BY <1>3, <1>4 DEF PatchInv, TypeInv, SessionInv, StageInv, Busy, Consistent

\* One step, whichever it is.
LEMMA NextKeeps ==
  ASSUME PatchInv, [PatchNext]_patchVars
  PROVE  PatchInv'
<1>1. CASE PatchNext
  BY <1>1, BeginKeeps, ReleaseKeeps, ApplyKeeps, StatementKeeps, FlushEndsKeeps, CommitKeeps
     DEF PatchNext
<1>2. CASE UNCHANGED patchVars
  BY <1>2 DEF patchVars, PatchInv, TypeInv, SessionInv, StageInv, Busy, SessionTypeOK,
              OthersKept, OnePrimary, TablePrimary, WantedPrimary, WantedMembers, Flushed,
              Consistent, Wanted, Rows, OwnLinks, Schools, Users, Groups
<1>. QED BY <1>1, <1>2

\* The invariant of the membership patch holds throughout (SQLAlchemyUserManager).
THEOREM PatchInvariant == PatchSpec => []PatchInv
BY InitEstablishes, NextKeeps, PTL DEF PatchSpec

(***************************************************************************)
(* No statement of a create or modify of a user is refused by the unique   *)
(* index on primary memberships, for any schools, groups and memberships.  *)
(***************************************************************************)
THEOREM NothingRefused == PatchSpec => []NeverRefused
<1>1. PatchInv => NeverRefused
  BY DEF PatchInv, TypeInv, NeverRefused
<1>. QED BY <1>1, PatchInvariant, PTL

(***************************************************************************)
(* SQLAlchemyUserManager implements UserWrites: a call that was begun ends *)
(* with exactly the rows asked for, written in one step.                   *)
(***************************************************************************)
THEOREM WritesExactly == PatchSpec => WritesUsers
<1>. USE DEF W!OwnLinks, OwnLinks, W!UserRows, UserRows, W!Put, Put, W!PutUser, PutUser,
             W!Groups, Groups, W!Schools, Schools, W!Users, Users, W!Wanted, Wanted
<1>1. PatchInit => W!Init
  BY DEF PatchInit, W!Init
<1>2. ASSUME PatchInv, [PatchNext]_patchVars
      PROVE  [W!Next]_<<db, wanted>>
  <2>1. ASSUME NEW w \in Wanted(db), Begin(w)  PROVE W!Next
    BY <1>2, <2>1 DEF Begin, W!Next, W!Call, PatchInv, TypeInv
  <2>2. CASE Commit
    BY <1>2, <2>2, CommitPuts DEF Commit, W!Next, W!Write
  <2>3. CASE Release \/ Apply \/ FlushEnds \/ Statement
    BY <2>3 DEF Release, Apply, FlushEnds, Statement, Execute, WriteUser, InsertMembership,
                UpdateMembership, DeleteMembership, WriteLinks
  <2>4. CASE UNCHANGED patchVars
    BY <2>4 DEF patchVars
  <2>. QED BY <1>2, <2>1, <2>2, <2>3, <2>4 DEF PatchNext
<1>. QED BY <1>1, <1>2, PatchInvariant, PTL DEF PatchSpec, WritesUsers, W!Spec
=============================================================================
