------------------------------ MODULE MCSchemas ------------------------------
(* A plugin below the root of all, and two below directories that begin     *)
(* alike.                                                                   *)
EXTENDS Schemas

A == <<"a">>
B == <<"b">>
RootList == << <<"/", "a", "/">>, <<"/", "b", "/", "b", "/">>, <<"/", "b", "b", "/", "b", "/">> >>
NameSet == {<<>>, A, B, <<"b", "b">>}
Accounts == (<<>> :> Dir(TRUE)) @@ (<<<<>>>> :> Dir(TRUE)) @@ (<<<<>>, A>> :> Setting("string", FALSE, TRUE))
=============================================================================
