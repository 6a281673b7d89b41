---------------------------- MODULE MCSyncePlugin ----------------------------
(* One account that has a peer and one for local synchronisation; others    *)
(* make an account with all there is and one for ActiveSync.                *)
EXTENDS SyncePlugin

Peer == "account"
Local1 == "target-config@local"

Full ==
    (<<"username">> :> "v1") @@ (<<"syncURL">> :> "v1") @@ (<<"WebURL">> :> "v3")
    @@ (<<"addressbook", "backend">> :> "addressbook") @@ (<<"addressbook", "uri">> :> "v1")

ActiveSync ==
    (<<"addressbook", "backend">> :> "ActiveSync Address Book") @@ (<<"addressbook", "sync">> :> "v2")

Proposed ==
    (<<"username">> :> "v2") @@ (<<"syncURL">> :> "v2")
    @@ (<<"addressbook", "backend">> :> "addressbook") @@ (<<"addressbook", "sync">> :> "v1")

AccountSet == {Peer, Local1}
LocalSet == {Local1}
ConfigOf == (Peer :> Full) @@ (Local1 :> ActiveSync)
EditSet ==
    (<<Peer, <<"url">>>> :> "v2") @@ (<<Peer, <<"contacts", "uri">>>> :> "v2")
    @@ (<<Local1, <<"contacts", "uri">>>> :> "v1") @@ (<<Local1, <<"eas-contacts", "uri">>>> :> "v2")
=============================================================================
