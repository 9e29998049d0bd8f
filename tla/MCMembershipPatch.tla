-------------------------- MODULE MCMembershipPatch --------------------------
(***************************************************************************)
(* A small database for model-checking MembershipPatch: every school and   *)
(* group exists, nobody is a member yet.                                   *)
(***************************************************************************)
EXTENDS MembershipPatch, TLC

CONSTANTS s1, s2, s3, g1, g2, ou1, ou2, ou3, c1, c2

MCDatabase ==
  [EmptyDatabase EXCEPT
     !.school = (s1 :> ou1 @@ s2 :> ou2 @@ s3 :> ou3),
     !.group = (g1 :> [name |-> c1, school |-> s1] @@ g2 :> [name |-> c2, school |-> s2])]

MCInitial == {MCDatabase}
=============================================================================
