----------------------------- MODULE MCReadPath -----------------------------
(***************************************************************************)
(* Small directories for model-checking ReadPath.                          *)
(***************************************************************************)
EXTENDS ReadPath

CONSTANTS s1, s2, g1, g2, u1, u2, ou1, ou2, c1, c2, n1, n2, edu, srv

\* Two schools; a class of the first with one pupil, who is in both schools.
MCDirectory ==
  [EmptyDirectory EXCEPT
     !.school = [s \in School |-> IF s = s1 THEN ou1 ELSE ou2],
     !.group[g1] = [name |-> c1, school |-> ou1, members |-> {u1}, senders |-> {},
                    scope |-> TRUE],
     !.user[u1] = [name |-> n1, ou |-> ou1, schools |-> {ou1, ou2}]]

\* The second school has a class instead, without pupils.
MCEmptyClass ==
  [MCDirectory EXCEPT
     !.group[g1] = [@ EXCEPT !.school = ou2, !.members = {}],
     !.user[u1].schools = {ou1}]

MCInitial == {MCDirectory, MCEmptyClass}
=============================================================================
