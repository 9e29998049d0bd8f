---------------------------- MODULE MCConnector ----------------------------
(***************************************************************************)
(* Small directories for model-checking Connector.                         *)
(***************************************************************************)
EXTENDS Connector

CONSTANTS s1, s2, g1, g2, u1, u2, ou1, ou2, c1, c2, n1, n2, edu, srv

\* Two schools; a class of the first with one pupil, who is in both schools.
MCTwoSchools ==
  [EmptyDirectory EXCEPT
     !.school = [s \in School |-> IF s = s1 THEN ou1 ELSE ou2],
     !.group[g1] = [name |-> c1, school |-> ou1, members |-> {u1}, senders |-> {},
                    scope |-> TRUE],
     !.user[u1] = [name |-> n1, ou |-> ou1, schools |-> {ou1, ou2}]]

\* One of them, to which the other may be added.
MCOneSchool ==
  [MCTwoSchools EXCEPT !.school[s2] = NoRow, !.user[u1].schools = {ou1}]

\* The pupil may send mail to the class.
MCWithSender == [MCOneSchool EXCEPT !.group[g1].senders = {u1}]

MCInitialDirectory == {MCTwoSchools, MCOneSchool}
MCTwoOnly == {MCTwoSchools}
MCOneOnly == {MCOneSchool}
MCSenderOnly == {MCWithSender}
=============================================================================
