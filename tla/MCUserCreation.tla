--------------------------- MODULE MCUserCreation ---------------------------
(* Values of the constants of UserCreation for TLC. *)
EXTENDS UserCreation, TLC

CONSTANTS c1, c2, c3, c4, anna, ben, cleo

\* Two clients for the same person, one for another, and one that asks for the name "2".
MCRecordOf == (c1 :> anna @@ c2 :> anna @@ c3 :> ben @@ c4 :> cleo)
MCNameOf == (c1 :> NoName @@ c2 :> NoName @@ c3 :> NoName @@ c4 :> 2)
=============================================================================
