----------------------------- MODULE SyncePlugin -----------------------------
(***************************************************************************)
(* The plugin for synchronisation accounts (src/plugins/synce.c), which     *)
(* keeps what it has read of SyncEvolution's configurations from session to *)
(* session, and reads and writes them by chains of asynchronous calls.      *)
(*                                                                          *)
(* A step is a callback of the main loop.  A call may fail, and may fail    *)
(* though SyncEvolution has done what it asked; provman may be told to quit *)
(* while it is under way, or be killed; and other programs change           *)
(* configurations at any time.                                              *)
(*                                                                          *)
(* A client's setting is named by its path below the account, one of        *)
(* SyncEvolution's by its path in the configuration.  Settings that are     *)
(* treated alike (name, password, client as username is; format as sync;    *)
(* calendars, memos and todos as contacts) are not told apart.              *)
(***************************************************************************)
EXTENDS Integers, FiniteSets, Functions

CONSTANTS Accounts,    \* identifiers of accounts
          LocalSync,   \* those that begin with "target-config@"
          Values,      \* values of settings
          Configs,     \* bound: the configuration that other programs make for an account
          Template,    \* the configuration that SyncEvolution proposes for new accounts
          LastUrl,     \* which of syncURL and WebURL comes last in a configuration
          Edits,       \* bound: the values that clients give to settings
          MaxEdits,    \* bound: how many of them in a session
          CanVanish,   \* whether others remove accounts that the plugin is about to read
          CanMix       \* whether clients put ActiveSync and other contacts into one account

VARIABLES
    configs,     \* SyncEvolution's configurations
    settings,    \* plugin_instance->settings
    accounts,    \* plugin_instance->accounts: the accounts that have been read
    newAccounts, \* plugin_instance->new_accounts from updated on
    plan,        \* to_remove, to_add and to_update, from removed and iter on
    wanted,      \* the settings passed to sync_out
    current,     \* session_command and current_context
    call,        \* the call under way, or the idle source that will complete the operation
    cancellable, \* plugin_instance->cancellable: none, set, or cancelled
    completion,  \* completion_source # 0
    cbErr,       \* plugin_instance->cb_err
    phase, owed, cancelled, result, \* as provman sees the plugin: see module Plugin
    unseen,      \* history: accounts that have changed without the plugin's knowledge
    failed       \* history: whether a call of this sync_out has failed

cacheVars == <<settings, accounts>>
outVars == <<plan, wanted, current, failed>>
apiVars == <<phase, owed, cancelled, result>>
vars == <<configs, cacheVars, newAccounts, outVars, call, cancellable, completion, cbErr, apiVars, unseen>>

Empty == [x \in {} |-> x]

(* The operators of module TLC, of which the prover knows no definition.    *)
x :> y == [z \in {x} |-> y]
f @@ g == [x \in DOMAIN f \cup DOMAIN g |-> IF x \in DOMAIN f THEN f[x] ELSE g[x]]

ClientProps == {<<"username">>, <<"url">>}
               \cup {"contacts", "eas-contacts"} \X {"uri", "sync"}

(* g_synce_source_map: the source and backend behind a client's source. *)
PluginSource == [s \in {"contacts", "eas-contacts"} |-> "addressbook"]
Backend == ("contacts" :> "addressbook") @@ ("eas-contacts" :> "ActiveSync Address Book")

Backends == Range(Backend)
PluginProps == {<<"username">>, <<"syncURL">>, <<"WebURL">>}
               \cup {"addressbook"} \X {"backend", "uri", "sync"}

ASSUME AccountsAssumption == LocalSync \subseteq Accounts /\ IsFiniteSet(Accounts)
ASSUME ConfigsAssumption ==
    /\ Backends \subseteq Values /\ DOMAIN Configs = Accounts
    /\ \A c \in Range(Configs) \cup {Template} : DOMAIN c \subseteq PluginProps /\ Range(c) \subseteq Values
ASSUME LimitsAssumption ==
    DOMAIN Edits \subseteq Accounts \X ClientProps /\ Range(Edits) \subseteq Values /\ MaxEdits \in Nat /\ LastUrl \in {"syncURL", "WebURL"}

AccountsIn(s) == {k[1] : k \in DOMAIN s}
Of(s, a) == [p \in {q \in ClientProps : <<a, q>> \in DOMAIN s} |-> s[<<a, p>>]]
Without(s, a) == Restrict(s, {k \in DOMAIN s : k[1] # a})
NobodyAt == [job |-> "none", account |-> "none"]
Nothing == [remove |-> {}, add |-> {}, update |-> {}]

Calls == {"none", "server proxy", "get configs", "get config",
          "start session", "session proxy", "get template", "set config", "detach",
          "complete sync in", "complete sync out"}

TypeOK ==
    /\ DOMAIN configs \subseteq Accounts
    /\ \A a \in DOMAIN configs : DOMAIN configs[a] \subseteq PluginProps /\ Range(configs[a]) \subseteq Values
    /\ \A s \in {settings, wanted} :
          DOMAIN s \subseteq Accounts \X ClientProps /\ Range(s) \subseteq Values
    /\ accounts \subseteq Accounts /\ newAccounts \subseteq Accounts \ accounts
    /\ plan \in [{"remove", "add", "update"} -> SUBSET Accounts]
    /\ call \in Calls /\ cancellable \in {"none", "set", "cancelled"} /\ completion \in BOOLEAN
    /\ current # NobodyAt <=> call \in {"start session", "session proxy", "get template", "set config", "detach"}
    /\ cbErr \in {"none", "io", "cancelled"}
    /\ owed \in {0, 1} /\ (owed = 1 <=> call # "none")
    /\ unseen \subseteq Accounts /\ failed \in BOOLEAN

Init ==
    /\ configs \in {Restrict(Configs, present) : present \in SUBSET Accounts}
    /\ settings = Empty /\ accounts = {} /\ newAccounts = {}
    /\ plan = Nothing /\ wanted = Empty /\ current = NobodyAt /\ failed = FALSE
    /\ call = "none" /\ cancellable = "none" /\ completion = FALSE /\ cbErr = "none"
    /\ phase = "closed" /\ owed = 0 /\ cancelled = FALSE /\ result = "none"
    /\ unseen = {}

-----------------------------------------------------------------------------
(* What a client and SyncEvolution call things. *)

(* prv_map_general_settings, prv_map_source_settings: the client's setting  *)
(* that shows the value of q; q itself for what is not shown.               *)
ShownAs(c, q) ==
    LET backend == <<q[1], "backend">>
        sources == {s \in DOMAIN Backend : /\ backend \in DOMAIN c /\ c[backend] = Backend[s]
                                           /\ PluginSource[s] = q[1]}
    IN  CASE q \in {<<"syncURL">>, <<"WebURL">>} -> <<"url">>
          [] q \in {"addressbook"} \X {"uri", "sync"} /\ sources # {} ->
                <<CHOOSE s \in sources : TRUE, q[2]>>
          [] OTHER -> q

(* prv_get_account: the settings of an account.  syncURL and WebURL are the *)
(* same setting, and the later one counts.                                  *)
View(c) ==
    LET shows(p) == {q \in DOMAIN c : ShownAs(c, q) = p}
    IN  [p \in {q \in ClientProps : shows(q) # {}} |->
            IF <<LastUrl>> \in shows(p) THEN c[<<LastUrl>>] ELSE c[CHOOSE q \in shows(p) : TRUE]]

(* prv_map_prop *)
PluginProp(p) ==
    CASE p = <<"username">> -> <<"username">>
      [] p = <<"url">>      -> <<"syncURL">>
      [] OTHER              -> <<PluginSource[p[1]], p[2]>>

(* prv_make_context.  When two settings become one, the order of a hash     *)
(* table decides which.                                                     *)
MakeContext(s) ==
    LET sources == {p \in DOMAIN s : p[1] \in DOMAIN Backend}
        kept == [q \in {PluginProp(p) : p \in DOMAIN s} |->
                    s[CHOOSE p \in DOMAIN s : PluginProp(p) = q]]
        backends == [q \in {<<PluginSource[p[1]], "backend">> : p \in sources} |->
                        Backend[(CHOOSE p \in sources : PluginSource[p[1]] = q[1])[1]]]
    IN  kept @@ backends

(* prv_context_add_cb: what the client wants, and of the template what it   *)
(* does not speak of, except for the sources that it does not want.         *)
NewContext(a, s) ==
    LET own == MakeContext(s)
        inherited == {q \in DOMAIN Template \ {<<"username">>} :
                         \/ q \in {<<"syncURL">>, <<"WebURL">>}
                         \/ a \notin LocalSync /\ \E p \in DOMAIN own : p[1] = q[1]}
    IN  own @@ Restrict(Template, inherited)

-----------------------------------------------------------------------------
(* Steps that actions are made of. *)

(* An asynchronous call; g_cancellable_reset comes before all of them. *)
Await(c) == call' = c /\ cancellable' = "set"

CompleteSyncInLater(err) ==
    /\ call' = "complete sync in" /\ cbErr' = err /\ completion' = TRUE
    /\ UNCHANGED cancellable

(* prv_get_config *)
GetConfig(todo) ==
    /\ newAccounts' = todo
    /\ IF todo # {} THEN Await("get config") /\ UNCHANGED <<cbErr, completion>>
       ELSE CompleteSyncInLater("none")

(* prv_step_sync_out: accounts are removed, then others added, then others  *)
(* updated.  The idle source at the end is not remembered.                  *)
StepSyncOut(p) ==
    IF p = Nothing
    THEN Await("complete sync out") /\ current' = NobodyAt /\ plan' = p
    ELSE LET job == IF p.remove # {} THEN "remove" ELSE IF p.add # {} THEN "add" ELSE "update"
         IN  \E a \in p[job] :
                /\ plan' = [p EXCEPT ![job] = @ \ {a}]
                /\ current' = [job |-> job, account |-> a]
                /\ Await("start session")

(* What SyncEvolution makes of the SetConfig that is under way: without     *)
(* update the configuration is replaced, or removed if there is nothing in  *)
(* it, and with update what is named is replaced.                           *)
Applied ==
    LET a == current.account
    IN  CASE current.job = "remove" -> Restrict(configs, DOMAIN configs \ {a})
          [] current.job = "add"    -> (a :> NewContext(a, Of(wanted, a))) @@ configs
          [] current.job = "update" -> (a :> (MakeContext(Of(wanted, a)) @@ configs[a])) @@ configs

CanApply ==
    /\ call = "set config"
    /\ current.job = "add" \/ current.account \in DOMAIN configs

(* The answer to SetConfig is not seen, whether or not it was carried out.  *)
Unheard ==
    \/ UNCHANGED <<configs, unseen>>
    \/ CanApply /\ configs' = Applied /\ unseen' = unseen \cup {current.account}

-----------------------------------------------------------------------------
(* synce_plugin_sync_in and what follows it. *)

SyncIn ==
    /\ phase = "closed" /\ owed = 0 /\ ~cancelled
    /\ phase' = "syncing in" /\ owed' = 1
    /\ Await("server proxy") /\ result' = "none"
    /\ UNCHANGED <<configs, cacheVars, newAccounts, outVars, completion, cbErr, cancelled, unseen>>

Replied(c) == call = c /\ cancellable = "set"

ServerProxyCreated ==
    /\ Replied("server proxy")
    /\ Await("get configs")
    /\ UNCHANGED <<configs, cacheVars, newAccounts, outVars, completion, cbErr, apiVars, unseen>>

(* prv_get_configs_cb: accounts that have been read are not read again. *)
GetConfigsDone ==
    /\ Replied("get configs")
    /\ GetConfig(DOMAIN configs \ accounts)
    /\ unseen' = unseen \cap accounts
    /\ UNCHANGED <<configs, cacheVars, outVars, apiVars>>

(* prv_get_config_cb, for the accounts in any order *)
GetConfigDone ==
    /\ Replied("get config")
    /\ \E a \in newAccounts \cap DOMAIN configs :
          /\ accounts' = accounts \cup {a}
          /\ settings' = [k \in {<<a, p>> : p \in DOMAIN View(configs[a])} |-> View(configs[a])[k[2]]]
                         @@ settings
          /\ GetConfig(newAccounts \ {a})
          /\ unseen' = unseen \ {a}
    /\ UNCHANGED <<configs, outVars, apiVars>>

(* Of an account that could not be read the plugin asks again, at once and  *)
(* for ever, which changes nothing; other failures end the operation.       *)
SyncInFailed ==
    /\ Replied("server proxy") \/ Replied("get configs")
    /\ CompleteSyncInLater("io")
    /\ UNCHANGED <<configs, cacheVars, newAccounts, outVars, apiVars, unseen>>

SyncInCancelled ==
    /\ call \in {"server proxy", "get configs", "get config"} /\ cancellable = "cancelled"
    /\ CompleteSyncInLater("cancelled")
    /\ UNCHANGED <<configs, cacheVars, newAccounts, outVars, apiVars, unseen>>

(* prv_complete_sync_in *)
CompleteSyncIn ==
    /\ call = "complete sync in" /\ call' = "none"
    /\ cancellable' = "none" /\ completion' = FALSE /\ newAccounts' = {}
    /\ owed' = owed - 1 /\ result' = cbErr
    /\ phase' = IF cbErr = "none" THEN "open" ELSE "closed"
    /\ UNCHANGED <<configs, cacheVars, outVars, cbErr, cancelled, unseen>>

-----------------------------------------------------------------------------
(* synce_plugin_sync_out and what follows it. *)

(* A client removes accounts and changes settings, those of accounts that   *)
(* it has removed too.                                                      *)
Edited(s) ==
    {e @@ Restrict(s, {k \in DOMAIN s : k[1] \notin gone}) :
        gone \in SUBSET AccountsIn(s),
        e \in {Restrict(Edits, ks) : ks \in {x \in SUBSET DOMAIN Edits : Cardinality(x) <= MaxEdits}}}

Mixes(s) ==
    \E a \in AccountsIn(s), i, j \in {"uri", "sync"} :
        <<a, <<"contacts", i>>>> \in DOMAIN s /\ <<a, <<"eas-contacts", j>>>> \in DOMAIN s

(* Fault: settings that were not there are not looked at. *)
AnalyseOld(new) ==
    [remove |-> AccountsIn(settings) \ AccountsIn(new),
     add    |-> AccountsIn(new) \ AccountsIn(settings),
     update |-> {a \in AccountsIn(new) \cap AccountsIn(settings) :
                    \E p \in DOMAIN Of(new, a) \cap DOMAIN Of(settings, a) : Of(new, a)[p] # Of(settings, a)[p]}]

(* prv_analyse: settings that are gone from an account that is still there  *)
(* are not noticed.                                                         *)
Analyse(new) ==
    [remove |-> AccountsIn(settings) \ AccountsIn(new),
     add    |-> AccountsIn(new) \ AccountsIn(settings),
     update |-> {a \in AccountsIn(new) \cap AccountsIn(settings) :
                    \E p \in DOMAIN Of(new, a) :
                       p \notin DOMAIN Of(settings, a) \/ Of(new, a)[p] # Of(settings, a)[p]}]

SyncOut ==
    /\ phase = "open" /\ owed = 0 /\ ~cancelled
    /\ phase' = "syncing out" /\ owed' = 1 /\ result' = "none"
    /\ \E new \in Edited(settings) :
          /\ CanMix \/ ~Mixes(new)
          /\ wanted' = new
          /\ StepSyncOut(Analyse(new))
    /\ UNCHANGED <<configs, cacheVars, newAccounts, completion, cbErr, cancelled, unseen, failed>>

inVars == <<newAccounts, completion, cbErr, apiVars>>

(* prv_session_proxy_cb *)
SessionStarted ==
    /\ Replied("start session")
    /\ Await("session proxy")
    /\ UNCHANGED <<configs, cacheVars, inVars, outVars, unseen>>

(* prv_session_proxy_created_cb runs the command: an account that is to be  *)
(* added needs the template first.                                          *)
SessionProxyCreated ==
    /\ Replied("session proxy")
    /\ Await(IF current.job = "add" THEN "get template" ELSE "set config")
    /\ UNCHANGED <<configs, cacheVars, inVars, outVars, unseen>>

(* prv_context_add_cb *)
TemplateRead ==
    /\ Replied("get template")
    /\ Await("set config")
    /\ UNCHANGED <<configs, cacheVars, inVars, outVars, unseen>>

(* Fault: the account is still taken for read. *)
ForgetSettings == settings' = Without(settings, current.account) /\ UNCHANGED accounts

(* The account is read again in the next session. *)
Forget ==
    /\ settings' = Without(settings, current.account)
    /\ accounts' = accounts \ {current.account}

(* prv_context_set_cb, prv_context_removed_cb *)
ConfigSet ==
    /\ Replied("set config") /\ CanApply
    /\ configs' = Applied
    /\ Forget
    /\ Await("detach")
    /\ UNCHANGED <<inVars, outVars, unseen>>

(* The session is left, and what was read of the account is kept. *)
ConfigNotSet ==
    /\ Replied("get template") \/ Replied("set config")
    /\ Unheard
    /\ failed' = TRUE
    /\ Await("detach")
    /\ UNCHANGED <<cacheVars, inVars, plan, wanted, current>>

(* prv_detach_cb, whether or not the session could be left. *)
Detached ==
    /\ Replied("detach")
    /\ StepSyncOut(plan)
    /\ UNCHANGED <<configs, cacheVars, inVars, wanted, unseen, failed>>

(* Without a session the account is passed over. *)
NoSession ==
    /\ Replied("start session") \/ Replied("session proxy")
    /\ StepSyncOut(plan)
    /\ failed' = TRUE
    /\ UNCHANGED <<configs, cacheVars, inVars, wanted, unseen>>

(* Fault: the command is not cleaned up. *)
CancelledInCommand ==
    /\ call \in {"start session", "session proxy", "get template", "set config", "detach"}
    /\ cancellable = "cancelled"
    /\ Unheard
    /\ call' = "complete sync out" /\ cbErr' = "cancelled" /\ completion' = TRUE
    /\ UNCHANGED <<cacheVars, newAccounts, outVars, cancellable, apiVars>>

SyncOutCancelled ==
    /\ call \in {"start session", "session proxy", "get template", "set config", "detach"}
    /\ cancellable = "cancelled"
    /\ Unheard
    /\ call' = "complete sync out" /\ cbErr' = "cancelled" /\ completion' = TRUE
    /\ current' = NobodyAt
    /\ UNCHANGED <<cacheVars, newAccounts, plan, wanted, failed, cancellable, apiVars>>

(* prv_complete_sync_out.  completion_source is left as it is, and so is    *)
(* cb_err when nothing was cancelled: failures are not reported.            *)
CompleteSyncOut ==
    /\ call = "complete sync out" /\ call' = "none"
    /\ cancellable' = "none"
    /\ plan' = Nothing /\ wanted' = Empty /\ failed' = FALSE
    /\ owed' = owed - 1 /\ result' = cbErr
    /\ phase' = "closed"
    /\ UNCHANGED <<configs, cacheVars, newAccounts, current, completion, cbErr, cancelled, unseen>>

-----------------------------------------------------------------------------
(* provman and the rest of the world. *)

(* Fault: it is looked whether an idle source is there, not whether none is. *)
CancelCompleted ==
    /\ owed = 1 /\ ~cancelled /\ cancelled' = TRUE
    /\ cancellable' = IF completion THEN "cancelled" ELSE cancellable
    /\ UNCHANGED <<configs, cacheVars, newAccounts, outVars, call, completion, cbErr, phase, owed, result, unseen>>

(* synce_plugin_sync_in_cancel, synce_plugin_sync_out_cancel *)
Cancel ==
    /\ owed = 1 /\ ~cancelled /\ cancelled' = TRUE
    /\ cancellable' = IF ~completion /\ cancellable # "none" THEN "cancelled" ELSE cancellable
    /\ UNCHANGED <<configs, cacheVars, newAccounts, outVars, call, completion, cbErr, phase, owed, result, unseen>>

(* A session is aborted; the plugin has no function for it. *)
Abort ==
    /\ phase = "open" /\ owed = 0 /\ phase' = "closed"
    /\ UNCHANGED <<configs, cacheVars, newAccounts, outVars, call, cancellable, completion, cbErr,
                   owed, cancelled, result, unseen>>

Others(a) ==
    /\ unseen' = unseen \cup {a}
    /\ UNCHANGED <<cacheVars, newAccounts, outVars, call, cancellable, completion, cbErr, apiVars>>

OthersSet ==
    \E a \in Accounts :
        /\ a \in DOMAIN configs => configs[a] # Configs[a]
        /\ configs' = (a :> Configs[a]) @@ configs
        /\ Others(a)

OthersRemove ==
    \E a \in DOMAIN configs :
        /\ CanVanish \/ a \notin newAccounts
        /\ configs' = Restrict(configs, DOMAIN configs \ {a})
        /\ Others(a)

(* provman leaves, or is killed, and is started again. *)
Restart ==
    /\ UNCHANGED configs \/ (CanApply /\ configs' = Applied)
    /\ settings' = Empty /\ accounts' = {} /\ newAccounts' = {}
    /\ plan' = Nothing /\ wanted' = Empty /\ current' = NobodyAt /\ failed' = FALSE
    /\ call' = "none" /\ cancellable' = "none" /\ completion' = FALSE /\ cbErr' = "none"
    /\ phase' = "closed" /\ owed' = 0 /\ cancelled' = FALSE /\ result' = "none"
    /\ unseen' = {}

Chain ==
    \/ ServerProxyCreated \/ GetConfigsDone \/ GetConfigDone \/ SyncInFailed
    \/ SessionStarted \/ SessionProxyCreated \/ TemplateRead \/ ConfigSet \/ ConfigNotSet
    \/ Detached \/ NoSession

Local == SyncInCancelled \/ SyncOutCancelled \/ CompleteSyncIn \/ CompleteSyncOut

Next ==
    \/ SyncIn \/ SyncOut \/ Abort \/ Cancel \/ Restart \/ Chain \/ Local
    \/ OthersSet \/ OthersRemove

(* The main loop dispatches what is ready, cancelled calls among it; and as *)
(* long as nothing is cancelled SyncEvolution replies, if only with an      *)
(* error, and does not for ever refuse to tell of an account that is there. *)
Fairness == WF_vars(Local) /\ WF_vars(~cancelled /\ Chain)

Spec == Init /\ [][Next]_vars /\ Fairness

-----------------------------------------------------------------------------
(* Each operation is answered, once, whatever fails, and a cancelled one    *)
(* without any help of SyncEvolution.                                       *)
Contract == INSTANCE Plugin
Answers == Contract!Spec

(* sync_in "must create a set of settings ... that represent the current    *)
(* state of the data managed by the plugin": although accounts are read     *)
(* once and kept, what is listed is what there is, after failed, cancelled  *)
(* and aborted operations too, for all accounts that have not been changed  *)
(* behind the plugin's back.                                                *)
ListsWhatIsThere ==
    [][CompleteSyncIn /\ result' = "none" => \A a \in Accounts \ unseen :
          Of(settings, a) = IF a \in DOMAIN configs THEN View(configs[a]) ELSE Empty]_vars

(* sync_out "needs to modify the middleware data store so that it           *)
(* corresponds to the settings": when no call has failed, the accounts are  *)
(* those the client wants, and have the values it wants under the names     *)
(* that SyncEvolution has for them.                                         *)
StoredAsWanted ==
    [][CompleteSyncOut /\ result' = "none" /\ ~failed => \A a \in Accounts \ unseen :
          LET there == IF a \in DOMAIN configs THEN View(configs[a]) ELSE Empty
          IN  /\ a \notin AccountsIn(wanted) => there = Empty
              /\ \A p \in DOMAIN Of(wanted, a) : p \in DOMAIN there /\ there[p] = Of(wanted, a)[p]]_vars
=============================================================================
