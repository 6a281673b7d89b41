---------------------------- MODULE PluginManager ----------------------------
(***************************************************************************)
(* The plugin manager: it synchronises a plugin when a command first needs  *)
(* its settings, carries commands out on a cache, and gives the cached      *)
(* settings back to the plugins one after the other at the end of the       *)
(* session (src/plugin-manager.c, with the operations of src/cache.c it     *)
(* uses).                                                                   *)
(*                                                                          *)
(* A key stands for a leaf of the tree of settings; a command names a leaf  *)
(* or a directory by the set of leaves below it.  Commands refused because  *)
(* of their key or value alone leave no trace and are left out, and so is   *)
(* meta data.  Commands come one at a time, while a session is open: that   *)
(* is the business of Provman.tla.  The middleware is changed by nobody     *)
(* else during a session.                                                   *)
(*                                                                          *)
(* A definition whose comment begins with "Fault" is no part of the model:  *)
(* it is the one after it with a bug in it, which a property must detect.   *)
(***************************************************************************)
EXTENDS Naturals, Sequences, Functions

CONSTANTS NPlugins,  \* the number of plugins
          Keys,      \* the settings
          Owner,     \* the plugin under whose root each setting is
          Values,    \* the values a setting can have
          Missing,   \* stands for the absence of a setting
          ReadOnly,  \* settings whose schema lets nobody set or delete them
          Leaves,    \* bound: the keys that commands name
          FailsIn,   \* the commands for which a plugin may not synchronise
          CancelIn   \* the commands during which provman may be told to quit

Plugins == 1..NPlugins

Ops == {"get", "get_all", "get_multiple", "set", "set_multiple", "remove", "remove_multiple"}

ASSUME PluginsAssumption == NPlugins \in Nat \ {0} /\ Owner \in [Keys -> Plugins]
ASSUME OwnerAssumption == \A p \in Plugins : \E k \in Keys : Owner[k] = p
ASSUME ValuesAssumption == Missing \notin Values
ASSUME KeysAssumption == ReadOnly \subseteq Keys /\ Leaves \subseteq Keys
ASSUME OpsAssumption == FailsIn \subseteq Ops /\ CancelIn \subseteq Ops \cup {"none", "end"}

VARIABLES
    stored,      \* the settings the middleware holds
    cache,       \* manager->cache
    synced,      \* manager->plugin_synced
    at,          \* manager->synced: the plugin at work
    state,       \* manager->state
    completion,  \* manager->completion_source # 0
    cmd,         \* manager->cb
    open,        \* manager->imsi # NULL
    quitting,    \* plugin_manager_cancel has returned true
    unavailable, \* history: plugins that did not synchronise when last asked
    failed       \* history: plugins that failed to store their settings

vars == <<stored, cache, synced, at, state, completion, cmd, open, quitting, unavailable, failed>>

Contents == [Keys -> Values \cup {Missing}]
Empty == [k \in Keys |-> Missing]
NoneSynced == [p \in Plugins |-> FALSE]

(* plugin_manager_cmd_t: the command, the plugins it needs and how far it   *)
(* has come with them, and its result.                                      *)
Nothing == [k \in {} |-> Missing]
Command(op, args, value, indicies) ==
    [op |-> op, args |-> args, value |-> value, indicies |-> indicies, current |-> 1,
     err |-> "pending", values |-> Nothing, refused |-> {}]
NoCommand == Command("none", <<>>, Missing, <<>>)

CommandType ==
    [op : Ops \cup {"none", "end"}, args : Seq(SUBSET Keys), value : Values \cup {Missing},
     indicies : Seq(Plugins), current : Nat, err : {"pending", "none", "not_found", "cancelled"},
     values : UNION {[ks -> Values] : ks \in SUBSET Keys}, refused : SUBSET Keys]

TypeOK ==
    /\ stored \in Contents /\ cache \in Contents
    /\ synced \in [Plugins -> BOOLEAN] /\ at \in 0..NPlugins + 1
    /\ state \in {"IDLE", "SYNC_IN", "SYNC_OUT"}
    /\ completion \in BOOLEAN /\ open \in BOOLEAN /\ quitting \in BOOLEAN
    /\ cmd \in CommandType /\ cmd.current \in 1..Len(cmd.indicies) + 1
    /\ unavailable \subseteq Plugins /\ failed \subseteq Plugins

Init ==
    /\ stored \in Contents
    /\ cache = Empty /\ synced = NoneSynced /\ at = 0
    /\ state = "IDLE" /\ completion = FALSE /\ cmd = NoCommand
    /\ open = FALSE /\ quitting = FALSE
    /\ unavailable = {} /\ failed = {}

-----------------------------------------------------------------------------
(* What a command does to the cache once its plugins are synchronised: its  *)
(* error, the values it returns, the keys it could not do, and the cache.   *)

Present(ca, ks) == {k \in ks : ca[k] # Missing}

(* The root of the cache is never removed. *)
Exists(ca, ks) == ks = Keys \/ Present(ca, ks) # {}

Valued(ca, ks) == [k \in Present(ca, ks) |-> ca[k]]

Assign(ca, ks, value) == [k \in Keys |-> IF k \in ks THEN value ELSE ca[k]]

Outcome(err, values, refused, ca) == [err |-> err, values |-> values, refused |-> refused, cache |-> ca]

Named(c) == UNION Range(c.args)

GetCb(c, ca) ==
    IF Exists(ca, Named(c)) THEN Outcome("none", Valued(ca, Named(c)), {}, ca)
    ELSE Outcome("not_found", Nothing, {}, ca)

GetAllCb(c, ca) == GetCb(c, ca)

GetMultipleCb(c, ca) == Outcome("none", Valued(ca, Named(c)), {}, ca)

(* It is not looked whether the plugin is synchronised. *)
SetCb(c, ca) == Outcome("none", Nothing, {}, Assign(ca, Named(c), c.value))

(* Fault: SetMultiple does as Set does. *)
SetMultipleUnsynced(c, ca, syn) ==
    LET set == Named(c) \ ReadOnly
    IN  Outcome("none", Nothing, Named(c) \ set, Assign(ca, set, c.value))

SetMultipleCb(c, ca, syn) ==
    LET set == {k \in Named(c) \ ReadOnly : syn[Owner[k]]}
    IN  Outcome("none", Nothing, Named(c) \ set, Assign(ca, set, c.value))

RemoveCb(c, ca) ==
    IF Exists(ca, Named(c)) THEN Outcome("none", Nothing, {}, Assign(ca, Named(c), Missing))
    ELSE Outcome("not_found", Nothing, {}, ca)

RemoveMultipleCb(c, ca) ==
    LET gone == Present(ca, Named(c) \ ReadOnly)
    IN  Outcome("none", Nothing, Named(c) \ gone, Assign(ca, gone, Missing))

(* cmd->sync_finished, which plugin_manager_get and the others set. *)
SyncFinished(c, ca, syn) ==
    CASE c.op = "get"              -> GetCb(c, ca)
      [] c.op = "get_all"          -> GetAllCb(c, ca)
      [] c.op = "get_multiple"     -> GetMultipleCb(c, ca)
      [] c.op = "set"              -> SetCb(c, ca)
      [] c.op = "set_multiple"     -> SetMultipleCb(c, ca, syn)
      [] c.op = "remove"           -> RemoveCb(c, ca)
      [] c.op = "remove_multiple"  -> RemoveMultipleCb(c, ca)

-----------------------------------------------------------------------------
(* Commands.  The cache and the plugins synchronised so far are parameters: *)
(* the callback that adds to them goes on to the next plugin at once.       *)

Run(c, ca, syn) ==
    LET out == SyncFinished(c, ca, syn)
    IN  /\ cmd' = [c EXCEPT !.current = Len(c.indicies) + 1,
                            !.err = out.err, !.values = out.values, !.refused = out.refused]
        /\ cache' = out.cache
        /\ completion' = TRUE

(* Of the plugins from the i-th on that are not synchronised, those before  *)
(* the j-th refuse, and the j-th agrees or there is no j-th.  Plugins in    *)
(* lost did not synchronise when they were last asked.                      *)
SyncPlugins(c, i, ca, syn, lost) ==
    \E j \in i..Len(c.indicies) + 1 :
        LET refusing == {p \in {c.indicies[n] : n \in i..j - 1} : ~syn[p]}
        IN  /\ refusing = {} \/ c.op \in FailsIn
            /\ unavailable' = lost \cup refusing
            /\ synced' = syn
            /\ IF j > Len(c.indicies)
               THEN Run(c, ca, syn) /\ UNCHANGED <<at, state>>
               ELSE /\ ~syn[c.indicies[j]]
                    /\ at' = c.indicies[j] /\ state' = "SYNC_IN"
                    /\ cmd' = [c EXCEPT !.current = j]
                    /\ cache' = ca
                    /\ UNCHANGED completion

(* plugin_manager_sync_in remembers the IMSI, and nothing more. *)
SyncIn ==
    /\ state = "IDLE" /\ ~completion /\ ~quitting
    /\ ~open /\ open' = TRUE
    /\ failed' = {}
    /\ UNCHANGED <<stored, cache, synced, at, state, completion, cmd, quitting, unavailable>>

(* A command that has been accepted. *)
Accept(op, args, value, indicies) ==
    /\ state = "IDLE" /\ ~completion /\ ~quitting /\ open
    /\ SyncPlugins(Command(op, args, value, indicies), 1, cache, synced, unavailable)
    /\ UNCHANGED <<stored, open, quitting, failed>>

KeysOf(p) == {k \in Keys : Owner[k] = p}

(* Directories are the roots of plugins and the root of the tree. *)
Dirs == {KeysOf(p) : p \in Plugins} \cup {Keys}

(* prv_add_plugin_index: the owner of a key, or all plugins below it. *)
IndiciesOf(ks) == IF ks = Keys /\ NPlugins > 1 THEN [p \in Plugins |-> p]
                  ELSE <<Owner[CHOOSE k \in ks : TRUE]>>

Get(k) == Accept("get", <<{k}>>, Missing, IndiciesOf({k}))

GetAll(d) == Accept("get_all", <<d>>, Missing, IndiciesOf(d))

Set(k, v) == k \notin ReadOnly /\ Accept("set", <<{k}>>, v, IndiciesOf({k}))

(* A key or a whole directory, whatever it holds. *)
Remove(ks) == Accept("remove", <<ks>>, Missing, IndiciesOf(ks))

(* Duplicate indicies are allowed. *)
GetMultiple(k, l) == Accept("get_multiple", <<{k}, {l}>>, Missing, <<Owner[k], Owner[l]>>)

SetMultiple(k, l, v) == Accept("set_multiple", <<{k}, {l}>>, v, <<Owner[k], Owner[l]>>)

RemoveMultiple(k, l) == Accept("remove_multiple", <<{k}, {l}>>, Missing, <<Owner[k], Owner[l]>>)

Commands ==
    \/ \E k \in Leaves : Get(k)
    \/ \E k \in Leaves, v \in Values : Set(k, v)
    \/ \E d \in Dirs : GetAll(d)
    \/ \E ks \in Dirs \cup {{k} : k \in Leaves \ ReadOnly} : Remove(ks)
    \/ \E k, l \in Leaves :
          /\ k # l
          /\ GetMultiple(k, l) \/ RemoveMultiple(k, l) \/ \E v \in Values : SetMultiple(k, l, v)

-----------------------------------------------------------------------------
(* Synchronising a plugin. *)

SyncingIn == state = "SYNC_IN" /\ ~completion

(* provman_cache_add_settings, with the settings under the plugin's root. *)
WithSettings(p) == [k \in Keys |-> IF Owner[k] = p /\ stored[k] # Missing THEN stored[k] ELSE cache[k]]

PluginSynced ==
    /\ SyncingIn
    /\ SyncPlugins(cmd, cmd.current + 1, WithSettings(at), [synced EXCEPT ![at] = TRUE],
                   unavailable \ {at})
    /\ UNCHANGED <<stored, open, quitting, failed>>

(* Fault: the error of a plugin is the error of the command. *)
NotSyncedEnds ==
    /\ SyncingIn /\ cmd.op \in FailsIn
    /\ cmd' = [cmd EXCEPT !.err = "unknown"] /\ completion' = TRUE
    /\ unavailable' = unavailable \cup {at}
    /\ UNCHANGED <<stored, cache, synced, at, state, open, quitting, failed>>

(* An error is not the end of the command, unless it says cancelled. *)
PluginNotSynced ==
    /\ SyncingIn /\ cmd.op \in FailsIn
    /\ SyncPlugins(cmd, cmd.current + 1, cache, synced, unavailable \cup {at})
    /\ UNCHANGED <<stored, open, quitting, failed>>

(* GetMultiple does not say that it was cancelled. *)
PluginSyncCancelled ==
    /\ SyncingIn /\ quitting
    /\ cmd' = [cmd EXCEPT !.err = IF cmd.op = "get_multiple" THEN "none" ELSE "cancelled"]
    /\ completion' = TRUE
    /\ UNCHANGED <<stored, cache, synced, at, state, open, quitting, unavailable, failed>>

-----------------------------------------------------------------------------
(* The end of a session. *)

(* Fault: plugins are taken for synchronised in the next session. *)
ClearSettings == cache' = Empty /\ UNCHANGED synced

ClearCache == cache' = Empty /\ synced' = NoneSynced

(* The cache is cleared and the IMSI forgotten. *)
SessionOver ==
    /\ ClearCache
    /\ open' = FALSE
    /\ unavailable' = {}

(* Of the synchronised plugins from the i-th on, those before the j-th      *)
(* refuse to store anything, and the j-th agrees or there is no j-th.       *)
SyncOutFrom(i, c, lost) ==
    \E j \in i..NPlugins + 1 :
        /\ failed' = lost \cup {p \in i..j - 1 : synced[p]}
        /\ at' = j /\ state' = "SYNC_OUT"
        /\ IF j > NPlugins
           THEN /\ SessionOver
                /\ cmd' = [c EXCEPT !.err = "none"] /\ completion' = TRUE
           ELSE /\ synced[j]
                /\ cmd' = c
                /\ UNCHANGED <<cache, synced, completion, open, unavailable>>

SyncOut ==
    /\ state = "IDLE" /\ ~completion /\ ~quitting /\ open
    /\ SyncOutFrom(1, Command("end", <<>>, Missing, <<>>), failed)
    /\ UNCHANGED <<stored, quitting>>

SyncingOut == state = "SYNC_OUT" /\ ~completion

(* The plugin has made the middleware agree with the cache for keys ks. *)
Store(ks) == stored' = [k \in Keys |-> IF k \in ks THEN cache[k] ELSE stored[k]]

PluginStored ==
    /\ SyncingOut
    /\ Store(KeysOf(at))
    /\ SyncOutFrom(at + 1, cmd, failed)
    /\ UNCHANGED quitting

(* Fault: no other plugin is asked once one has failed. *)
NotStoredEnds ==
    /\ SyncingOut
    /\ \E ks \in SUBSET KeysOf(at) : Store(ks)
    /\ SyncOutFrom(NPlugins + 1, cmd, failed \cup {at})
    /\ UNCHANGED quitting

(* The error of a plugin goes unnoticed; the next one is asked. *)
PluginNotStored ==
    /\ SyncingOut
    /\ \E ks \in SUBSET KeysOf(at) : Store(ks)
    /\ SyncOutFrom(at + 1, cmd, failed \cup {at})
    /\ UNCHANGED quitting

PluginStoreCancelled ==
    /\ SyncingOut /\ quitting
    /\ \E ks \in SUBSET KeysOf(at) : Store(ks)
    /\ SessionOver
    /\ cmd' = [cmd EXCEPT !.err = "cancelled"] /\ completion' = TRUE
    /\ UNCHANGED <<at, state, quitting, failed>>

Abort ==
    /\ state = "IDLE" /\ ~completion /\ ~quitting /\ open
    /\ SessionOver
    /\ UNCHANGED <<stored, at, state, completion, cmd, quitting, failed>>

-----------------------------------------------------------------------------
(* Fault: the manager stays busy. *)
CompleteBusy ==
    /\ completion /\ completion' = FALSE
    /\ cmd' = NoCommand
    /\ UNCHANGED <<stored, cache, synced, at, state, open, quitting, unavailable, failed>>

(* prv_complete_callback answers the command. *)
Complete ==
    /\ completion /\ completion' = FALSE
    /\ state' = "IDLE" /\ cmd' = NoCommand
    /\ UNCHANGED <<stored, cache, synced, at, open, quitting, unavailable, failed>>

(* plugin_manager_cancel, when there is something to wait for. *)
Cancel ==
    /\ ~quitting /\ (completion \/ state # "IDLE")
    /\ completion \/ cmd.op \in CancelIn
    /\ quitting' = TRUE
    /\ UNCHANGED <<stored, cache, synced, at, state, completion, cmd, open, unavailable, failed>>

(* The process leaves, or is killed, and is started again. *)
Restart ==
    /\ cache' = Empty /\ synced' = NoneSynced /\ at' = 0
    /\ state' = "IDLE" /\ completion' = FALSE /\ cmd' = NoCommand
    /\ open' = FALSE /\ quitting' = FALSE
    /\ unavailable' = {} /\ failed' = {}
    /\ UNCHANGED stored

PluginAnswers ==
    \/ PluginSynced \/ PluginNotSynced \/ PluginSyncCancelled
    \/ PluginStored \/ PluginNotStored \/ PluginStoreCancelled

Next ==
    \/ SyncIn \/ SyncOut \/ Abort \/ Complete \/ Cancel \/ Restart
    \/ Commands \/ PluginAnswers

(* Plugins answer, and the main loop dispatches the completion. *)
Fairness == WF_vars(PluginAnswers) /\ WF_vars(Complete)

Spec == Init /\ [][Next]_vars /\ Fairness

-----------------------------------------------------------------------------
(* What is in the cache was put there by its plugin, or after its plugin:   *)
(* no plugin that is synchronised later overwrites what a client has set,   *)
(* and what is set is given to its plugin at the end.                       *)
CacheIsSynced == \A k \in Keys : cache[k] # Missing => synced[Owner[k]]

(* "A successful call to #Set means that the setting is supported by        *)
(* provman and will be be passed to the relevant plugin for storage": when  *)
(* End is called the plugins of all the settings in the cache are given     *)
(* them by prv_sync_out_next_plugin.                                        *)
SetIsPassedOn ==
    [][cmd.op = "none" /\ cmd'.op = "end" => \A k \in Keys : cache[k] # Missing => synced[Owner[k]]]_vars

(* When no session is open the next one has nothing left to it. *)
NothingLeft == ~open => cache = Empty /\ synced = NoneSynced

(* A command that was accepted completes, whatever plugins answer and       *)
(* whether or not it is cancelled, and then another one can be accepted.    *)
CommandsComplete == cmd.op # "none" ~> cmd.op = "none" /\ state = "IDLE"

(* The client works on a draft that is stored at End or not at all, however *)
(* late plugins are synchronised, and whether or not they are.              *)
Promise == INSTANCE Settings WITH
    draft  <- [k \in Keys |-> IF synced[Owner[k]] THEN cache[k] ELSE stored[k]],
    phase  <- IF SyncingOut THEN "ending" ELSE IF open THEN "open" ELSE "closed",
    call   <- [op |-> cmd.op, args |-> cmd.args, value |-> cmd.value],
    result <- [err |-> cmd.err, values |-> cmd.values, refused |-> cmd.refused]
Transactional == Promise!Spec
=============================================================================
