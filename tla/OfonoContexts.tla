---------------------------- MODULE OfonoContexts ----------------------------
(***************************************************************************)
(* How the oFono plugin (src/plugins/ofono.c) names internet contexts: a    *)
(* client calls one by a name of its own, oFono by a path, and the map file *)
(* knows which is which, over sessions, restarts, a full disk, and while    *)
(* others create and remove contexts too.                                   *)
(*                                                                          *)
(* A SIM, its MMS context and the values of settings are left out.  The     *)
(* chain of calls that ends a session is there, one step for a call and its *)
(* reply: the program does nothing between the two, and what others do in   *)
(* between they might have done before.                                     *)
(***************************************************************************)
EXTENDS MapFile, FiniteSets

CONSTANTS Contexts,   \* the paths that oFono gives to contexts
          ClientIds,  \* the names that clients give to contexts they create
          DefaultId,  \* from contexts to the names of those without one: the last part of the path
          CanReuse,   \* whether oFono gives a new context a path that the map file still knows
          CanHaunt    \* whether contexts go that an aborted session has left in the plugin's settings

ASSUME NamesAssumption == IsFiniteSet(Contexts) /\ IsFiniteSet(ClientIds) /\ DOMAIN DefaultId = Contexts

VARIABLES
    contexts,  \* the contexts in oFono
    map,       \* plugin_instance->map_file
    file,      \* the same on disk
    full,      \* whether the disk is full
    phase,     \* no session, a session, or the end of one
    settings,  \* modem->settings: which names are there, and what context they are from
    cmds,      \* plugin_instance->cmds from current_cmd on
    given,     \* history: the names that clients have given to contexts that are there
    kept       \* history: those that there was a chance to save

vars == <<contexts, map, file, full, phase, settings, cmds, given, kept>>

Ids == ClientIds \cup Range(DefaultId)
IdsIn(s) == {e.client : e \in s}
Commands == [type : {"add", "delete"}, client : Ids]

Nobody == [p \in {} |-> {}]

Init ==
    /\ contexts \in SUBSET Contexts
    /\ file = <<>> /\ map = Load(file) /\ full = FALSE
    /\ phase = "closed" /\ settings = {} /\ cmds = <<>>
    /\ given = Nobody /\ kept = Nobody

Save(m) ==
    /\ map' = Saved(m, full) /\ file' = SavedFile(m, full, file)
    /\ kept' = IF full THEN kept ELSE given

-----------------------------------------------------------------------------
(* The plugin. *)

NameContext(m, p) == IF HasPlugin(m, p) THEN m ELSE StoreMap(m, DefaultId[p], p)

(* prv_ofono_plugin_update_contexts, with oFono's list in any order.  What  *)
(* an earlier session has left in the settings stays there.                 *)
SyncIn ==
    /\ phase = "closed" /\ phase' = "open"
    /\ \E list \in SetToSeqs(contexts) :
          LET name(i) == FindClientId(FoldLeft(NameContext, map, SubSeq(list, 1, i)), list[i])
          IN  /\ settings' = settings \cup {Entry(name(i), list[i]) : i \in DOMAIN list}
              /\ Save(RemoveUnused(FoldLeft(NameContext, map, list), contexts))
    /\ UNCHANGED <<contexts, full, cmds, given>>

(* ofono_plugin_abort; or what follows in sync_in fails. *)
Abort ==
    /\ phase = "open" /\ phase' = "closed"
    /\ CanHaunt \/ \A e \in settings : e.plugin \in contexts
    /\ UNCHANGED <<contexts, map, file, full, settings, cmds, given, kept>>

(* prv_ofono_plugin_anaylse, for the contexts the client wants: it has      *)
(* removed some of those there were, and created some.                      *)
SyncOut ==
    /\ phase = "open" /\ phase' = "storing"
    /\ \E wanted \in SUBSET (IdsIn(settings) \cup ClientIds) :
          \E old \in SetToSeqs(IdsIn(settings) \ wanted), new \in SetToSeqs(wanted \ IdsIn(settings)) :
             cmds' = [i \in DOMAIN old |-> [type |-> "delete", client |-> old[i]]]
                     \o [i \in DOMAIN new |-> [type |-> "add", client |-> new[i]]]
    /\ UNCHANGED <<contexts, map, file, full, settings, given, kept>>

Current(type) == phase = "storing" /\ cmds # <<>> /\ Head(cmds).type = type
Client == Head(cmds).client

(* Without a mapping prv_sync_out_step is called again with the same        *)
(* command, for ever: there is no step at all.                              *)
Stuck == Current("delete") /\ ~HasClient(map, Client)

Gone(p) ==
    /\ contexts' = contexts \ {p}
    /\ given' = Restrict(given, DOMAIN given \ {p})

ContextDeleted ==
    /\ Current("delete") /\ ~Stuck /\ FindPluginId(map, Client) \in contexts
    /\ Gone(FindPluginId(map, Client))
    /\ cmds' = Tail(cmds)
    /\ UNCHANGED <<map, file, full, phase, settings, kept>>

ContextAdded ==
    /\ Current("add")
    /\ \E p \in Contexts \ contexts :
          /\ CanReuse \/ \A e \in Range(map.entries) : e.plugin # p
          /\ contexts' = contexts \cup {p}
          /\ map' = StoreMap(map, Client, p)
          /\ given' = IF Client \in ClientIds THEN Put(given, p, Client) ELSE given
    /\ cmds' = Tail(cmds)
    /\ UNCHANGED <<file, full, phase, settings, kept>>

(* Fault: current_cmd does not move on when a call fails. *)
CommandRepeated ==
    /\ phase = "storing" /\ cmds # <<>> /\ ~Stuck
    /\ UNCHANGED vars

CommandFailed ==
    /\ phase = "storing" /\ cmds # <<>> /\ ~Stuck
    /\ cmds' = Tail(cmds)
    /\ UNCHANGED <<contexts, map, file, full, phase, settings, given, kept>>

(* prv_complete_sync_out *)
StoreDone ==
    /\ phase' = "closed" /\ settings' = {} /\ cmds' = <<>>
    /\ Save(map)
    /\ UNCHANGED <<contexts, full, given>>

CompleteSyncOut == phase = "storing" /\ cmds = <<>> /\ StoreDone

(* provman is told to quit, and the call under way is cancelled.            *)
SyncOutCancelled == phase = "storing" /\ cmds # <<>> /\ ~Stuck /\ StoreDone

-----------------------------------------------------------------------------
(* The rest of the world. *)

OthersAdd ==
    /\ contexts' \in {contexts \cup {p} : p \in Contexts \ contexts}
    /\ UNCHANGED <<map, file, full, phase, settings, cmds, given, kept>>

OthersRemove ==
    /\ \E p \in contexts :
          /\ phase = "closed" => CanHaunt \/ \A e \in settings : e.plugin # p
          /\ Gone(p)
    /\ UNCHANGED <<map, file, full, phase, settings, cmds, kept>>

Disk ==
    /\ full' = ~full
    /\ UNCHANGED <<contexts, map, file, phase, settings, cmds, given, kept>>

(* provman leaves, or dies, and is started again. *)
Restart ==
    /\ map' = Load(file)
    /\ phase' = "closed" /\ settings' = {} /\ cmds' = <<>>
    /\ given' = [p \in {q \in DOMAIN given \cap DOMAIN kept : given[q] = kept[q]} |-> given[p]]
    /\ UNCHANGED <<contexts, file, full, kept>>

StoreStep == ContextDeleted \/ ContextAdded \/ CommandFailed \/ CompleteSyncOut

Next ==
    \/ SyncIn \/ Abort \/ SyncOut \/ StoreStep \/ SyncOutCancelled
    \/ OthersAdd \/ OthersRemove \/ Disk \/ Restart

(* oFono replies, if only with an error, and the plugin goes on. *)
Fairness == WF_vars(StoreStep)

Spec == Init /\ [][Next]_vars /\ Fairness

-----------------------------------------------------------------------------
(* "If he wishes to modify or access the settings in the future he would    *)
(* expect to be able to do so using the same identifier": a context that a  *)
(* client created is listed by the name it gave it, in the process that     *)
(* created it and, if there was a chance to save its name, in later ones.   *)
NamesKept ==
    [][SyncIn => \A p \in contexts \cap DOMAIN given :
          {e \in settings' : e.plugin = p} = {Entry(given[p], p)}]_vars

(* Contexts differ by their names: the settings of two of them are never    *)
(* listed as those of one, whatever others create and remove, and however   *)
(* often paths are used again.                                              *)
NamesDiffer == \A d, e \in settings : d.client = e.client => d = e

(* A restart makes no difference: the reverse map that is kept up to date   *)
(* is the one that is built from the entries.                               *)
ReverseIsBuilt == map.reverse = ReverseOf(map.entries)

(* "it will invoke callback at some point in the future": the end of a      *)
(* session comes to an end.                                                 *)
StoreCompletes == phase = "storing" ~> phase = "closed"
=============================================================================
