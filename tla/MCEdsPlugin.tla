----------------------------- MODULE MCEdsPlugin -----------------------------
(* An account of others, one of which nothing is listed, and one that       *)
(* clients may create.                                                      *)
EXTENDS EdsPlugin

Full == (<<"name">> :> "v1") @@ (<<"incoming", "type">> :> "v1") @@ (<<"incoming", "host">> :> "v1")
Nameless == <<"outgoing", "host">> :> "v1"

UidSet == {"uid1", "uid2", "uid3"}
ConfigOf == ("uid1" :> Full) @@ ("uid2" :> Nameless)
EditSet ==
    (<<"uid1", <<"incoming", "host">>>> :> "v2") @@ (<<"work", <<"name">>>> :> "v2")
    @@ (<<"work", <<"incoming", "type">>>> :> "v1") @@ (<<"work", <<"incoming", "host">>>> :> "v2")
=============================================================================
