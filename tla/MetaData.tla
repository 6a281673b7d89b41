------------------------------- MODULE MetaData -------------------------------
(***************************************************************************)
(* The cache and the meta data files over the sessions: what clients say    *)
(* about settings (SetMeta) is kept in a key file per plugin                *)
(* (src/meta-data.c), added to the cache when the plugin is synchronised    *)
(* and taken from it when the plugin is told to store its settings          *)
(* (src/plugin-manager.c).                                                  *)
(*                                                                          *)
(* PluginManager.tla has the order in which plugins and callbacks come.     *)
(* Here a plugin is synchronised at some time in the session, or not at     *)
(* all, and a command is one step.  A SIM has files of its own; one SIM is  *)
(* modelled.  Definitions marked "Fault" are as in PluginManager.tla.       *)
(***************************************************************************)
EXTENDS Cache

CONSTANTS Keys,        \* the settings: paths of leaves
          Roots,       \* the roots of the plugins, a sequence of paths
          Values,      \* the values of settings
          Props,       \* the properties that meta data consists of
          PropValues,  \* the values of properties
          Named,       \* bound: the nodes that Remove names
          Spoken,      \* bound: the sets of nodes that SetMeta and SetMultipleMeta name
          CanFill,     \* whether the disk may be full
          CanFail,     \* whether a plugin may fail to store its settings
          CanDie       \* whether the process may die during a session

Plugins == DOMAIN Roots
Nodes == (UNION {Prefixes(k) : k \in Keys}) \ {<<>>}

(* A schema says of each node whether it is a key or a directory, and no    *)
(* two plugins own the same node (provman_plugin_check).                    *)
ASSUME KeysAssumption ==
    /\ IsFiniteSet(Keys) /\ Keys \subseteq Seq(STRING) \ {<<>>}
    /\ \A k, l \in Keys : IsPrefix(k, l) => k = l
ASSUME RootsAssumption ==
    /\ Roots \in Seq(Seq(STRING))
    /\ \A k \in Keys : \E p \in Plugins : \A q \in Plugins : IsPrefix(Roots[q], k) <=> q = p
ASSUME NamedAssumption == Named \subseteq Nodes /\ \A ns \in Spoken : IsFiniteSet(ns) /\ ns \subseteq Nodes
ASSUME ValuesAssumption == NoValue \notin Values \cup PropValues

VARIABLES
    tree,      \* manager->cache
    synced,    \* manager->plugin_synced
    phase,     \* no session, a session, or the end of one
    at,        \* manager->synced, at the end of a session
    keyfile,   \* meta_data->key_file of each plugin
    file,      \* the same on disk
    full,      \* whether the disk is full
    stored,    \* the settings the middleware holds
    promised,  \* history: what was said of each plugin's settings at the last End
    doubtful   \* history: plugins whose file this process once found the disk too full for

vars == <<tree, synced, phase, at, keyfile, file, full, stored, promised, doubtful>>

Owner(n) == CHOOSE p \in Plugins : IsPrefix(Roots[p], n)
Owned(n) == \E p \in Plugins : IsPrefix(Roots[p], n)
Under(p, f) == Restrict(f, {n \in DOMAIN f : IsPrefix(Roots[p], n)})

NoGroups == [n \in {} |-> NoMeta]

Init ==
    /\ tree = NewCache /\ synced = [p \in Plugins |-> FALSE]
    /\ phase = "closed" /\ at = 0
    /\ keyfile = [p \in Plugins |-> NoGroups] /\ file = keyfile
    /\ full = FALSE
    /\ stored \in UNION {[ks -> Values] : ks \in SUBSET Keys}
    /\ promised = keyfile /\ doubtful = {}

-----------------------------------------------------------------------------
(* A session. *)

SyncIn ==
    /\ phase = "closed" /\ phase' = "open"
    /\ UNCHANGED <<tree, synced, at, keyfile, file, full, stored, promised, doubtful>>

(* prv_plugin_sync_cb, for a command that needs the plugin. *)
PluginSynced(p) ==
    /\ phase = "open" /\ ~synced[p]
    /\ synced' = [synced EXCEPT ![p] = TRUE]
    /\ tree' = AddMetaData(AddSettings(tree, Under(p, stored)), keyfile[p])
    /\ UNCHANGED <<phase, at, keyfile, file, full, stored, promised, doubtful>>

Set(k, v) ==
    /\ phase = "open" /\ synced[Owner(k)]
    /\ tree' = CacheSet(tree, k, v)
    /\ UNCHANGED <<synced, phase, at, keyfile, file, full, stored, promised, doubtful>>

(* SetMultipleMeta on these nodes; on one of them it is SetMeta.  A node    *)
(* that is not there is an error of the command, or of the item.            *)
SetMultipleMeta(ns, prop, value) ==
    /\ phase = "open" /\ \A n \in ns : Owned(n)
    /\ tree' = FoldSet(LAMBDA n, t : CacheSetMeta(t, n, prop, value), tree, ns)
    /\ UNCHANGED <<synced, phase, at, keyfile, file, full, stored, promised, doubtful>>

RemoveKey(n) ==
    /\ phase = "open"
    /\ tree' = CacheRemove(tree, n)
    /\ UNCHANGED <<synced, phase, at, keyfile, file, full, stored, promised, doubtful>>

-----------------------------------------------------------------------------
(* The end of a session. *)

SessionOver ==
    /\ tree' = CacheRemove(tree, <<>>) /\ synced' = [p \in Plugins |-> FALSE]
    /\ phase' = "closed" /\ at' = 0

Abort ==
    /\ phase = "open"
    /\ SessionOver
    /\ UNCHANGED <<keyfile, file, full, stored, promised, doubtful>>

(* Properties are set in a group that exists and never removed from it;     *)
(* groups of nodes nothing is said about are removed.                       *)
Updated(groups, given) ==
    [n \in DOMAIN given |-> Over(given[n], IF n \in DOMAIN groups THEN groups[n] ELSE NoMeta)]

(* Fault: only groups that come or go make the file dirty. *)
DirtyByGroups(old, new) == DOMAIN old # DOMAIN new

Dirty(old, new) == old # new

(* provman_meta_data_update, with the cached meta data of a plugin.  The    *)
(* key file is not asked again whether it was ever written.                 *)
Update(p) ==
    LET given == GetMetaData(tree, Roots[p])
        new == Updated(keyfile[p], given)
    IN  /\ keyfile' = [keyfile EXCEPT ![p] = new]
        /\ file' = IF Dirty(keyfile[p], new) /\ ~full THEN [file EXCEPT ![p] = new] ELSE file
        /\ promised' = [promised EXCEPT ![p] = given]
        /\ doubtful' = IF full THEN doubtful \cup {p} ELSE doubtful

(* prv_sync_out_next_plugin: the next plugin from the i-th on that is       *)
(* synchronised begins to store its settings, and its meta data is saved.   *)
SyncOutFrom(i) ==
    LET left == {p \in i..Len(Roots) : synced[p]}
    IN  IF left = {} THEN SessionOver /\ UNCHANGED <<keyfile, file, promised, doubtful>>
        ELSE \E p \in left :
                /\ \A q \in left : p <= q
                /\ phase' = "ending" /\ at' = p
                /\ Update(p)
                /\ UNCHANGED <<tree, synced>>

SyncOut ==
    /\ phase = "open"
    /\ SyncOutFrom(1)
    /\ UNCHANGED <<full, stored>>

(* The plugin has made the middleware agree with the cache for keys ks. *)
Store(ks) ==
    stored' = [k \in (DOMAIN stored \ ks) \cup (ks \cap DOMAIN tree) |->
                  IF k \in ks THEN tree[k].value ELSE stored[k]]

(* The plugin has stored its settings, or some of them, and the next one    *)
(* follows, or else End was cancelled.                                      *)
PluginStored ==
    /\ phase = "ending"
    /\ LET owned == {k \in Keys : Owner(k) = at}
       IN  \E ks \in IF CanFail THEN SUBSET owned ELSE {owned} : Store(ks)
    /\ SyncOutFrom(at + 1) \/ (SessionOver /\ UNCHANGED <<keyfile, file, promised, doubtful>>)
    /\ UNCHANGED full

(* The process leaves, or is killed, and reads its files when it is back.   *)
Restart ==
    /\ CanDie \/ phase = "closed"
    /\ tree' = NewCache /\ synced' = [p \in Plugins |-> FALSE]
    /\ phase' = "closed" /\ at' = 0
    /\ keyfile' = file
    /\ promised' = [p \in Plugins |-> IF p \in doubtful THEN NoGroups ELSE promised[p]]
    /\ doubtful' = {}
    /\ UNCHANGED <<file, full, stored>>

(* The disk fills up, or is cleared. *)
Disk ==
    /\ CanFill /\ full' = ~full
    /\ UNCHANGED <<tree, synced, phase, at, keyfile, file, stored, promised, doubtful>>

Next ==
    \/ SyncIn \/ SyncOut \/ PluginStored \/ Abort \/ Restart \/ Disk
    \/ \E p \in Plugins : PluginSynced(p)
    \/ \E k \in Keys, v \in Values : Set(k, v)
    \/ \E ns \in Spoken, prop \in Props, value \in PropValues : SetMultipleMeta(ns, prop, value)
    \/ \E n \in Named : RemoveKey(n)

Spec == Init /\ [][Next]_vars

-----------------------------------------------------------------------------
(* A directory is there only for the settings below it: whatever is removed *)
(* and in whatever order, provman_cache_remove leaves none empty, so that   *)
(* Get lists no child that GetAll knows nothing of; and none is taken away  *)
(* under the nodes that it still holds.                                     *)
TreeIsWhole ==
    /\ IsTree(tree)
    /\ \A n \in DOMAIN tree \ {<<>>} : tree[n].dir => \E k \in DOMAIN GetSettings(tree, n) : TRUE

(* The tree is the map it is taken for: each operation does to the settings *)
(* and meta data below the root what it would do to a map.  Creating nodes  *)
(* on the way to a key, unlinking ancestors, and adding what a plugin has   *)
(* change no other setting, and no meta data but that of the nodes that go. *)
Map == INSTANCE SettingsMap WITH
    settings <- GetSettings(tree, <<>>),
    meta     <- GetMetaData(tree, <<>>)
CacheIsMap ==
    [][/\ \A k \in Keys, v \in Values : Set(k, v) => Map!Set(k, v)
       /\ \A ns \in Spoken, prop \in Props, value \in PropValues :
             SetMultipleMeta(ns, prop, value) => Map!SetMeta(ns, prop, value)
       /\ \A n \in Named : RemoveKey(n) => Map!RemoveBelow(n)
       /\ \A p \in Plugins : PluginSynced(p) => Map!Add(Under(p, stored), Under(p, keyfile[p]))
       /\ SessionOver => Map!Clear]_vars

FreshlySynced(p) == ~synced[p] /\ synced'[p]

(* What a client said about a setting before End is there in the next       *)
(* session that meets the setting, in this process, or in a later one if    *)
(* this one could write its file.                                           *)
NothingLost ==
    [][\A p \in Plugins : FreshlySynced(p) =>
          \A n \in DOMAIN promised[p] \cap DOMAIN tree' : IsRestriction(promised[p][n], tree'[n].meta)]_vars

(* "Meta data properties are bound to a key and are deleted if the key is   *)
(* deleted": a session finds nothing but what there was at the last End.    *)
NothingReturns ==
    [][\A p \in Plugins : FreshlySynced(p) =>
          \A n \in DOMAIN GetMetaData(tree', Roots[p]) :
             n \in DOMAIN promised[p] /\ IsRestriction(tree'[n].meta, promised[p][n])]_vars
=============================================================================
