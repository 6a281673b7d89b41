------------------------------ MODULE EdsPlugin ------------------------------
(***************************************************************************)
(* The plugin for mail accounts (src/plugins/eds.c).  It keeps what it has  *)
(* read of accounts from session to session, calls accounts by the names    *)
(* that clients gave them, and reads and writes them at once; only its      *)
(* callbacks come later.                                                    *)
(*                                                                          *)
(* An account is a function from those of its properties that have a value. *)
(* The properties of a server are kept in one URL, of which the type is the *)
(* scheme.  Settings that are treated alike (address as name is; port, user *)
(* name and others as host) are not told apart.  Libraries that read and    *)
(* write accounts are external: their list of accounts follows GConf.       *)
(***************************************************************************)
EXTENDS MapFile, FiniteSets

CONSTANTS Uids,       \* EDS's names of accounts
          ClientIds,  \* the names that clients give to accounts they create
          Values,     \* values of settings
          Configs,    \* bound: the account that other programs make
          Edits,      \* bound: the values that clients give to settings
          MaxEdits,   \* bound: how many of them in a session
          CanOmitType \* whether clients give settings of a server without its type

Servers == {"incoming", "outgoing"}
ServerProps == {"type", "host", "authtype"}
Props == {<<"name">>} \cup Servers \X ServerProps
Ids == Uids \cup ClientIds

ASSUME AccountsAssumption ==
    /\ IsFiniteSet(Uids) /\ Uids \cap ClientIds = {}
    /\ DOMAIN Configs \subseteq Uids
    /\ \A c \in Range(Configs) : DOMAIN c \subseteq Props /\ Range(c) \subseteq Values
ASSUME LimitsAssumption ==
    /\ DOMAIN Edits \subseteq Ids \X Props /\ Range(Edits) \subseteq Values
    /\ MaxEdits \in Nat /\ CanOmitType \in BOOLEAN

VARIABLES
    accounts,  \* EDS's accounts: plugin_instance->account_list
    settings,  \* plugin_instance->settings
    cached,    \* plugin_instance->cached_accounts
    map,       \* plugin_instance->map_file
    file,      \* the same on disk
    wanted,    \* history: the settings passed to sync_out
    err,       \* plugin_instance->err
    phase, owed, cancelled, result, \* as provman sees the plugin: see module Plugin
    given,     \* history: the names that clients have given to accounts
    unseen     \* history: accounts that others have changed since they were read

pluginVars == <<settings, cached, map, err>>
apiVars == <<phase, owed, cancelled, result>>
vars == <<accounts, pluginVars, file, wanted, apiVars, given, unseen>>

Empty == [x \in {} |-> x]

IdsIn(s) == {k[1] : k \in DOMAIN s}
Of(s, id) == [p \in {q \in Props : <<id, q>> \in DOMAIN s} |-> s[<<id, p>>]]
Without(s, ids) == Restrict(s, {k \in DOMAIN s : k[1] \notin ids})

Init ==
    /\ accounts \in {Restrict(Configs, us) : us \in SUBSET DOMAIN Configs}
    /\ file = <<>> /\ map = Load(file)
    /\ settings = Empty /\ cached = {} /\ wanted = Empty /\ err = "none"
    /\ phase = "closed" /\ owed = 0 /\ cancelled = FALSE /\ result = "none"
    /\ given = Empty /\ unseen = {}

-----------------------------------------------------------------------------
(* eds_plugin_sync_in *)

(* prv_add_url_incoming_params, prv_add_url_outgoing_params: what is said   *)
(* of a server of no known type is not listed.                              *)
View(c) == Restrict(c, {p \in DOMAIN c : p \in Servers \X ServerProps => <<p[1], "type">> \in DOMAIN c})

NameAccount(m, uid) == IF HasPlugin(m, uid) THEN m ELSE StoreMap(m, uid, uid)

SyncIn ==
    /\ phase = "closed" /\ owed = 0 /\ ~cancelled
    /\ phase' = "syncing in" /\ owed' = 1 /\ result' = "none" /\ err' = "none"
    /\ LET named == FoldLeft(NameAccount, map, SetToSeq(DOMAIN accounts))
           read == DOMAIN accounts \ cached
           name(uid) == FindClientId(named, uid)
           keys == UNION {{name(uid)} \X DOMAIN View(accounts[uid]) : uid \in read}
           kept == RemoveUnused(named, cached \cup read)
       IN  /\ cached' = cached \cup read
           /\ settings' = [k \in keys |-> accounts[CHOOSE uid \in read : name(uid) = k[1]][k[2]]] @@ settings
           /\ map' = Saved(kept, FALSE) /\ file' = SavedFile(kept, FALSE, file)
    /\ unseen' = unseen \cap cached
    /\ UNCHANGED <<accounts, wanted, cancelled, given>>

(* There is no list of accounts, or no iterator of it. *)
SyncInRefused ==
    /\ phase = "closed" /\ owed = 0 /\ ~cancelled
    /\ result' = "io" /\ err' = "none"
    /\ UNCHANGED <<accounts, settings, cached, map, file, wanted, phase, owed, cancelled, given, unseen>>

(* Fault: what was cancelled is not answered. *)
CompleteIfHeard ==
    /\ owed = 1 /\ phase = "syncing in" /\ err = "none"
    /\ owed' = 0 /\ result' = err /\ phase' = "open"
    /\ UNCHANGED <<accounts, pluginVars, file, wanted, cancelled, given, unseen>>

(* prv_complete_sync_in *)
CompleteSyncIn ==
    /\ owed = 1 /\ phase = "syncing in"
    /\ owed' = 0 /\ result' = err
    /\ phase' = IF err = "none" THEN "open" ELSE "closed"
    /\ UNCHANGED <<accounts, pluginVars, file, wanted, cancelled, given, unseen>>

-----------------------------------------------------------------------------
(* eds_plugin_sync_out *)

(* A client removes accounts, changes settings of others, and creates some. *)
Edited(s) ==
    {e @@ Without(s, gone) :
        gone \in SUBSET IdsIn(s),
        e \in {Restrict(Edits, ks) : ks \in {x \in SUBSET DOMAIN Edits : Cardinality(x) <= MaxEdits}}}

Typed(s) ==
    \A k \in DOMAIN s : k[2] \in Servers \X ServerProps => <<k[1], <<k[2][1], "type">>>> \in DOMAIN s

(* What prv_eds_plugin_analyse works on; touched is its table of accounts.  *)
Before == [accounts |-> accounts, settings |-> settings, cached |-> cached, map |-> map, touched |-> {}]

(* prv_remove_account: an account without a name is passed over.            *)
RemoveAccount(st, id) ==
    LET uid == FindPluginId(st.map, id)
    IN  IF ~HasClient(st.map, id) THEN st
        ELSE [st EXCEPT !.accounts = Restrict(@, DOMAIN @ \ {uid}), !.settings = Without(@, {id}),
                        !.cached = @ \ {uid}, !.map = DeleteMap(@, id)]

(* prv_add_account *)
AddAccount(st, id, uid) ==
    [st EXCEPT !.accounts = (uid :> Empty) @@ @, !.map = StoreMap(@, id, uid), !.touched = @ \cup {uid}]

(* prv_update_setting: of an outgoing server the way to authenticate is not *)
(* stored.                                                                  *)
UpdateSettings(c, s) == Restrict(s, DOMAIN s \ {<<"outgoing", "authtype">>}) @@ c

(* Fault: settings that were not there are not looked at. *)
UpdateOld(st, id, s) ==
    LET uid == FindPluginId(st.map, id)
        old == Of(st.settings, id)
        changed == {p \in DOMAIN s \cap DOMAIN old : old[p] # s[p]}
    IN  IF changed = {} \/ ~HasClient(st.map, id) \/ uid \notin DOMAIN st.accounts THEN st
        ELSE [st EXCEPT !.accounts[uid] = UpdateSettings(@, Restrict(s, changed)), !.touched = @ \cup {uid}]

(* prv_update_account, with all that has changed in an account; settings    *)
(* that are gone from one that is still there are not noticed.              *)
UpdateAccount(st, id, s) ==
    LET uid == FindPluginId(st.map, id)
        old == Of(st.settings, id)
        changed == {p \in DOMAIN s : p \notin DOMAIN old \/ old[p] # s[p]}
    IN  IF changed = {} \/ ~HasClient(st.map, id) \/ uid \notin DOMAIN st.accounts THEN st
        ELSE [st EXCEPT !.accounts[uid] = UpdateSettings(@, Restrict(s, changed)), !.touched = @ \cup {uid}]

(* Fault: the account is still taken for read. *)
ForgetSettings(st) ==
    [st EXCEPT !.settings = Without(@, {FindClientId(st.map, uid) : uid \in st.touched})]

(* Accounts that have been written are read again in the next session. *)
Forget(st) ==
    [st EXCEPT !.settings = Without(@, {FindClientId(st.map, uid) : uid \in st.touched}),
               !.cached = @ \ st.touched]

(* prv_eds_plugin_analyse *)
Analyse(new, uidOf) ==
    LET removed == FoldLeft(RemoveAccount, Before, SetToSeq(IdsIn(settings) \ IdsIn(new)))
        added == FoldLeft(LAMBDA st, id : AddAccount(st, id, uidOf[id]), removed, SetToSeq(DOMAIN uidOf))
    IN  Forget(FoldLeft(LAMBDA st, id : UpdateAccount(st, id, Of(new, id)), added, SetToSeq(IdsIn(new))))

(* The library makes a uid that nobody uses for each new account.        *)
NewUids(ids) ==
    {f \in [ids -> Uids \ (DOMAIN Configs \cup DOMAIN accounts \cup cached \cup DOMAIN map.reverse)] : IsInjective(f)}

(* What a client may ask for, with the uids of the accounts that it makes.  *)
Requests ==
    UNION {{[new |-> new, uidOf |-> f] : f \in NewUids(IdsIn(new) \ IdsIn(settings))} :
             new \in {s \in Edited(settings) : CanOmitType \/ Typed(s)}}

MayStore == phase = "open" /\ owed = 0 /\ ~cancelled

SyncOut ==
    /\ MayStore
    /\ \E request \in Requests :
          LET uidOf == request.uidOf
              st == Analyse(request.new, uidOf)
          IN  /\ accounts' = st.accounts /\ settings' = st.settings /\ cached' = st.cached
              /\ map' = Saved(st.map, FALSE) /\ file' = SavedFile(st.map, FALSE, file)
              /\ wanted' = request.new
              /\ given' = [uid \in Range(uidOf) |-> CHOOSE id \in DOMAIN uidOf : uidOf[id] = uid] @@ given
    /\ phase' = "syncing out" /\ owed' = 1 /\ result' = "none" /\ err' = "none"
    /\ UNCHANGED <<cancelled, unseen>>

(* prv_complete_sync_out *)
CompleteSyncOut ==
    /\ owed = 1 /\ phase = "syncing out"
    /\ owed' = 0 /\ result' = err /\ phase' = "closed"
    /\ wanted' = Empty
    /\ UNCHANGED <<accounts, pluginVars, file, cancelled, given, unseen>>

-----------------------------------------------------------------------------
(* provman and the rest of the world. *)

(* eds_plugin_sync_in_cancel, eds_plugin_sync_out_cancel: what was done     *)
(* stays done.                                                              *)
Cancel ==
    /\ owed = 1 /\ ~cancelled /\ cancelled' = TRUE
    /\ err' = "cancelled"
    /\ UNCHANGED <<accounts, settings, cached, map, file, wanted, phase, owed, result, given, unseen>>

(* A session is aborted; the plugin has no function for it. *)
Abort ==
    /\ phase = "open" /\ owed = 0 /\ phase' = "closed"
    /\ UNCHANGED <<accounts, pluginVars, file, wanted, owed, cancelled, result, given, unseen>>

OthersSet ==
    /\ \E uid \in DOMAIN Configs :
          /\ accounts' = (uid :> Configs[uid]) @@ accounts /\ accounts' # accounts
          /\ unseen' = unseen \cup {uid}
    /\ UNCHANGED <<pluginVars, file, wanted, apiVars, given>>

OthersRemove ==
    /\ \E uid \in DOMAIN accounts :
          /\ accounts' = Restrict(accounts, DOMAIN accounts \ {uid})
          /\ unseen' = unseen \cup {uid}
    /\ UNCHANGED <<pluginVars, file, wanted, apiVars, given>>

Reset ==
    /\ map' = Load(file') /\ settings' = Empty /\ cached' = {} /\ wanted' = Empty /\ err' = "none"
    /\ phase' = "closed" /\ owed' = 0 /\ cancelled' = FALSE /\ result' = "none"
    /\ unseen' = {}

(* provman leaves, or is killed, and is started again. *)
Restart == UNCHANGED <<accounts, file, given>> /\ Reset

(* It is killed after the names have been saved and before the accounts are.*)
DieStoring ==
    /\ MayStore
    /\ \E request \in Requests :
          file' = SavedFile(Analyse(request.new, request.uidOf).map, FALSE, file)
    /\ given' = Restrict(given, {e.plugin : e \in Range(file')} \cap DOMAIN given)
    /\ Reset
    /\ UNCHANGED accounts

Next ==
    \/ SyncIn \/ SyncInRefused \/ CompleteSyncIn \/ SyncOut \/ CompleteSyncOut
    \/ Cancel \/ Abort \/ Restart \/ DieStoring \/ OthersSet \/ OthersRemove

(* The main loop dispatches idle sources. *)
Fairness == WF_vars(CompleteSyncIn) /\ WF_vars(CompleteSyncOut)

Spec == Init /\ [][Next]_vars /\ Fairness

-----------------------------------------------------------------------------
Name(uid) == IF uid \in DOMAIN given THEN given[uid] ELSE uid

(* Each operation is answered, once, though it is done before it is         *)
(* answered, and may be cancelled in between.                               *)
Contract == INSTANCE Plugin
Answers == Contract!Spec

(* sync_in "must create a set of settings ... that represent the current    *)
(* state of the data managed by the plugin": although accounts are read     *)
(* once and kept, what is listed is what there is, under the names clients  *)
(* gave, after cancelled and aborted operations and restarts too, for all   *)
(* accounts that have not been changed behind the plugin's back.            *)
ListsWhatIsThere ==
    [][CompleteSyncIn /\ result' = "none" =>
          /\ \A uid \in DOMAIN accounts \ unseen : Of(settings, Name(uid)) = View(accounts[uid])
          /\ IdsIn(settings) \subseteq {Name(uid) : uid \in DOMAIN accounts \cup unseen}]_vars

(* sync_out "needs to modify the middleware data store so that it           *)
(* corresponds to the settings": the accounts are those the client wants,   *)
(* and will be listed with the values it wants.                             *)
StoredAsWanted ==
    [][CompleteSyncOut =>
          /\ IdsIn(wanted) \subseteq {Name(uid) : uid \in DOMAIN accounts \cup unseen}
          /\ \A uid \in DOMAIN accounts \ unseen :
                LET there == View(accounts[uid])
                IN  /\ Name(uid) \notin IdsIn(wanted) => there = Empty
                    /\ \A p \in DOMAIN Of(wanted, Name(uid)) : p \in DOMAIN there /\ there[p] = Of(wanted, Name(uid))[p]]_vars
=============================================================================
