----------------------------- MODULE OfonoPlugin -----------------------------
(***************************************************************************)
(* The plugin for internet and MMS contexts (src/plugins/ofono.c and        *)
(* utils-ofono.c): how it finds the modem of a SIM, lists the contexts of   *)
(* that and makes them what a client wants, by chains of asynchronous       *)
(* calls.                                                                   *)
(*                                                                          *)
(* A step is a callback of the main loop.  A call may fail, and may fail    *)
(* though oFono has done what it asked; provman may be told to quit while   *)
(* it is under way; SIMs come and go, and other programs change contexts.   *)
(*                                                                          *)
(* A context has one value, which stands for all its properties, and is     *)
(* called by its path: OfonoContexts.tla is about its name.  The setting    *)
(* imsis and the spare MMS contexts, which are put aside and never looked   *)
(* at again, are left out.                                                  *)
(***************************************************************************)
EXTENDS Integers, Sequences, FiniteSets, Functions

CONSTANTS Modems,     \* the paths of modems, in oFono's order
          Imsis,      \* of SIMs
          NoImsi,     \* stands for the absence of a SIM, and for the default one in Start
          SimsIn,     \* bound: what SIMs there are in the modems, from time to time
          Sim,        \* from the paths of contexts to the SIM they belong to
          MmsPaths,   \* the paths of MMS contexts, in oFono's order
          Unset,      \* the value of a context that nobody has given any
          Ours,       \* bound: the value clients give contexts
          Theirs,     \* bound: the value other programs give contexts
          OthersMake, \* bound: the paths of contexts that they make
          Requests,   \* bound: the SIMs that clients ask for
          FailIn,     \* the calls that may fail
          CancelIn,   \* during which provman may be told to quit
          CanSwap     \* whether SIMs move during sessions, and clients ask for one that has moved

Paths == DOMAIN Sim
Mms == Range(MmsPaths)
Internet == Paths \ Mms
Values == {Unset, Ours, Theirs}

TaskCalls == {"manager proxy", "get modems", "sim proxy", "sim properties"}
InCalls == TaskCalls \cup {"connman proxy", "get contexts", "context proxy"}
Commands == <<"delete", "delete mms", "add", "add mms", "set", "clear">>
OutCalls == Range(Commands) \cup {"new proxy"}
IdleSources == {"modems done", "complete sync in", "complete sync out"}

ASSUME SimsAssumption ==
    /\ Modems \in Seq(Range(Modems)) /\ IsInjective(Modems) /\ "none" \notin Range(Modems)
    /\ MmsPaths \in Seq(Mms) /\ IsInjective(MmsPaths) /\ Mms \subseteq Paths /\ {"mms", "none"} \cap Paths = {}
    /\ NoImsi \notin Imsis /\ SimsIn \subseteq [Range(Modems) -> Imsis \cup {NoImsi}] /\ Range(Sim) \subseteq Imsis
    /\ Requests \subseteq Imsis \cup {NoImsi} /\ OthersMake \subseteq Paths
ASSUME CallsAssumption ==
    /\ FailIn \subseteq InCalls \cup OutCalls /\ CancelIn \subseteq InCalls \cup OutCalls \cup IdleSources
    /\ CanSwap \in BOOLEAN

VARIABLES
    sims,        \* the SIM in each modem
    contexts,    \* oFono's contexts with their values
    modems,      \* plugin_instance->modems
    default,     \* plugin_instance->default_imsi
    imsi,        \* plugin_instance->imsi
    list, found, \* of utils_ofono_get_modems: modem_paths from current_modem on, and modems
    cmds,        \* plugin_instance->cmds from current_cmd on
    wanted,      \* the settings passed to sync_out
    call,        \* the call under way, or the idle source that goes on in its place
    at,          \* the context that the call is about
    quit,        \* whether the call has been cancelled
    completions, \* how many idle sources will complete the operation
    cbErr,       \* plugin_instance->cb_err or the result of utils_ofono_get_modems, until it is reported
    phase, owed, cancelled, result, \* as provman sees the plugin: see module Plugin
    unseen,      \* history: SIMs of which others have changed what is listed or being changed
    failed       \* history: whether a call of this sync_out has failed that need not have

world == <<sims, contexts>>
taskVars == <<list, found>>
outVars == <<cmds, wanted, failed>>
callVars == <<call, at, quit, completions, cbErr>>
apiVars == <<phase, owed, cancelled, result>>
vars == <<world, modems, default, imsi, taskVars, outVars, callVars, apiVars, unseen>>

Empty == [x \in {} |-> x]

(* The operators of module TLC, of which the prover knows no definition.    *)
x :> y == [z \in {x} |-> y]
f @@ g == [x \in DOMAIN f \cup DOMAIN g |-> IF x \in DOMAIN f THEN f[x] ELSE g[x]]

None == "none"
Keys == Internet \cup {"mms"}
Settings == UNION {[ks -> Values] : ks \in SUBSET Keys}

(* ofono_plugin_modem_t: knows is the keys of ctxt_proxies, proxies those   *)
(* of them that have a proxy.                                               *)
NewModem(path) == [path |-> path, cmProxy |-> FALSE, knows |-> {}, proxies |-> {},
                   settings |-> Empty, mms |-> None]

TypeOK ==
    /\ sims \in SimsIn /\ DOMAIN contexts \subseteq Paths /\ Range(contexts) \subseteq Values
    /\ DOMAIN modems \subseteq Imsis
    /\ \A i \in DOMAIN modems :
          /\ modems[i] \in [path : Range(Modems), cmProxy : BOOLEAN, knows : SUBSET Paths,
                            proxies : SUBSET Paths, settings : Settings, mms : Mms \cup {None}]
          /\ modems[i].proxies \subseteq modems[i].knows
    /\ default \in DOMAIN modems \cup {NoImsi} /\ imsi \in Imsis \cup {NoImsi}
    /\ list \in Seq(Range(Modems)) /\ DOMAIN found \subseteq Imsis /\ Range(found) \subseteq Range(Modems)
    /\ cmds \subseteq [type : Range(Commands), key : Keys] /\ wanted \in Settings
    /\ call \in InCalls \cup OutCalls \cup IdleSources \cup {None, "forgotten", "crashed"}
    /\ at \in Paths \cup Keys \cup {None} /\ quit \in BOOLEAN
    /\ completions = (IF call \in {"complete sync in", "complete sync out"} THEN 1 ELSE 0)
    /\ owed = (IF call = None THEN 0 ELSE 1)
    /\ phase \in {"open", "syncing out"} => imsi \in DOMAIN modems
    /\ cbErr \in {"none", "io", "not_found", "cancelled"}
    /\ unseen \subseteq DOMAIN modems /\ failed \in BOOLEAN

Init ==
    /\ sims \in SimsIn
    /\ contexts \in {[p \in ps |-> Theirs] : ps \in SUBSET OthersMake}
    /\ modems = Empty /\ default = NoImsi /\ imsi = NoImsi
    /\ list = <<>> /\ found = Empty
    /\ cmds = {} /\ wanted = Empty /\ failed = FALSE
    /\ call = None /\ at = None /\ quit = FALSE /\ completions = 0 /\ cbErr = "none"
    /\ phase = "closed" /\ owed = 0 /\ cancelled = FALSE /\ result = "none"
    /\ unseen = {}

-----------------------------------------------------------------------------
(* What there is, and what is listed of it. *)

Modem == modems[imsi]

Of(i) == {p \in DOMAIN contexts : Sim[p] = i}

First(paths, ps) ==
    LET there == {i \in DOMAIN paths : paths[i] \in ps}
    IN  IF there = {} THEN None ELSE paths[CHOOSE i \in there : \A j \in there : i <= j]

View(i) ==
    LET mms == First(MmsPaths, Of(i))
    IN  [k \in (Of(i) \cap Internet) \cup (IF mms = None THEN {} ELSE {"mms"}) |->
            contexts[IF k = "mms" THEN mms ELSE k]]

(* prv_ofono_plugin_update_contexts: what was listed stays listed; the      *)
(* first MMS context counts, unless one is still known from an earlier      *)
(* listing.                                                                 *)
UpdateContexts(m) ==
    LET there == Of(sims[m.path])
        view == View(sims[m.path])
    IN  [m EXCEPT !.knows = @ \cup there,
                  !.mms = IF @ = None THEN First(MmsPaths, there) ELSE @,
                  !.settings = (IF m.mms = None THEN view ELSE [k \in there \cap Internet |-> view[k]]) @@ @]

-----------------------------------------------------------------------------
(* Steps that actions are made of. *)

Await(c, x) == call' = c /\ at' = x /\ quit' = FALSE /\ UNCHANGED <<completions, cbErr>>

Replied(c) == call = c /\ ~quit

CompleteLater(how, err, times) ==
    /\ call' = how /\ at' = None /\ quit' = FALSE
    /\ cbErr' = err /\ completions' = times

(* prv_imsi_task_finished is an idle source of its own.                     *)
FinishTask(err) == CompleteLater("modems done", err, 0)

(* An error that is passed over: no callback will ever be called.           *)
Forget == call' = "forgotten" /\ UNCHANGED <<at, quit, completions, cbErr>>

(* prv_get_imsi_numbers *)
GetImsiNumbers(paths) ==
    /\ list' = paths
    /\ IF paths = <<>> THEN FinishTask("none") ELSE Await("sim proxy", None)

(* prv_sync_in_step, when it has a modem, and when it has its contexts.     *)
GetContexts(m) == Await(IF m.cmProxy THEN "get contexts" ELSE "connman proxy", None)

GetProxies(m) ==
    IF m.knows = m.proxies
    THEN CompleteLater("complete sync in", "none", 1)
    ELSE \E p \in m.knows \ m.proxies : Await("context proxy", p)

(* The context whose property a command sets. *)
Target(m, c) == IF c.key = "mms" THEN m.mms ELSE c.key

IsSet(c) == c.type \in {"set", "clear"}

(* prv_sync_context_set_prop passes over contexts that have no proxy.       *)
Skipped(m, c) == IsSet(c) /\ Target(m, c) \notin m.proxies \cup {None}

(* prv_sync_out_step takes the commands in the order of their types.  To    *)
(* set a property of an MMS context that could not be created is to look up *)
(* a null pointer, which ends the process.                                  *)
SyncOutStep(m, cs) ==
    LET left == IF \E c \in cs : ~IsSet(c) THEN cs ELSE {c \in cs : ~Skipped(m, c)}
        type == First(Commands, {c.type : c \in left})
    IN  IF left = {}
        THEN CompleteLater("complete sync out", "none", 1) /\ cmds' = {}
        ELSE \E c \in {d \in left : d.type = type} :
                /\ cmds' = left \ {c}
                /\ IF IsSet(c) /\ Target(m, c) = None
                   THEN call' = "crashed" /\ UNCHANGED <<at, quit, completions, cbErr>>
                   ELSE Await(type, c.key)

-----------------------------------------------------------------------------
(* ofono_plugin_sync_in and what follows it. *)

inRest == <<world, outVars, cancelled>>

(* prv_have_imsi: the modem of a SIM is looked for if it is not known.      *)
SyncIn ==
    /\ phase = "closed" /\ owed = 0 /\ ~cancelled
    /\ phase' = "syncing in" /\ owed' = 1
    /\ \E request \in Requests : imsi' = IF request = NoImsi THEN default ELSE request
    /\ CanSwap \/ (imsi' \in DOMAIN modems => sims[modems[imsi'].path] = imsi')
    /\ IF imsi' \in DOMAIN modems THEN GetContexts(modems[imsi']) ELSE Await("manager proxy", None)
    /\ result' = "none"
    /\ UNCHANGED <<inRest, modems, default, taskVars, unseen>>

taskRest == <<inRest, modems, default, imsi, phase, owed, result, unseen>>

(* prv_ofono_proxy_created *)
ManagerProxyCreated ==
    /\ Replied("manager proxy")
    /\ Await("get modems", None)
    /\ UNCHANGED <<taskRest, taskVars>>

(* prv_get_modems_cb of utils-ofono.c *)
GetModemsDone ==
    /\ Replied("get modems")
    /\ GetImsiNumbers(Modems)
    /\ UNCHANGED <<taskRest, found>>

SimProxyCreated ==
    /\ Replied("sim proxy")
    /\ Await("sim properties", None)
    /\ UNCHANGED <<taskRest, taskVars>>

(* prv_get_sim_properties_cb *)
GetSimPropertiesDone ==
    /\ Replied("sim properties")
    /\ LET i == sims[Head(list)]
       IN  found' = IF i = NoImsi THEN found ELSE (i :> Head(list)) @@ found
    /\ GetImsiNumbers(Tail(list))
    /\ UNCHANGED taskRest

(* Fault: the search ends with the modem that did not answer. *)
SimPropertiesForgotten ==
    /\ Replied("sim properties") /\ call \in FailIn
    /\ Forget
    /\ UNCHANGED <<taskRest, taskVars>>

SimPropertiesFailed ==
    /\ Replied("sim properties") /\ call \in FailIn
    /\ GetImsiNumbers(Tail(list))
    /\ UNCHANGED <<taskRest, found>>

TaskFailed ==
    /\ \E c \in TaskCalls \ {"sim properties"} : Replied(c) /\ c \in FailIn
    /\ FinishTask("io")
    /\ UNCHANGED <<taskRest, taskVars>>

TaskCancelled ==
    /\ call \in TaskCalls /\ quit
    /\ FinishTask("cancelled")
    /\ UNCHANGED <<taskRest, taskVars>>

(* Fault: a default that has gone is kept when there is no other. *)
DefaultKept ==
    LET default0 == First(Modems, Range(found))
    IN  default' = IF default0 = None THEN default ELSE CHOOSE i \in DOMAIN found : found[i] = default0

(* prv_imsi_task_finished: the first modem with a SIM is the default.       *)
FindDefault ==
    LET default0 == First(Modems, Range(found))
    IN  default' = IF default0 = None THEN NoImsi ELSE CHOOSE i \in DOMAIN found : found[i] = default0

(* prv_get_modems_cb: what is known of a SIM that is still there is kept,   *)
(* the modem it was in too.                                                 *)
ModemsDone ==
    /\ call = "modems done"
    /\ list' = <<>> /\ found' = Empty
    /\ \/ /\ cbErr # "none"
          /\ CompleteLater("complete sync in", cbErr, 1)
          /\ UNCHANGED <<modems, default, imsi, unseen>>
       \/ /\ cbErr = "none"
          /\ modems' = [i \in DOMAIN found |-> IF i \in DOMAIN modems THEN modems[i] ELSE NewModem(found[i])]
          /\ unseen' = unseen \cap DOMAIN found
          /\ FindDefault
          /\ imsi' = IF imsi = NoImsi THEN default' ELSE imsi
          /\ IF imsi' \in DOMAIN found THEN GetContexts(modems'[imsi'])
             ELSE CompleteLater("complete sync in", "not_found", 1)
    /\ UNCHANGED <<inRest, phase, owed, result>>

stepRest == <<inRest, default, imsi, taskVars, phase, owed, result>>

ConnmanProxyCreated ==
    /\ Replied("connman proxy")
    /\ modems' = [modems EXCEPT ![imsi].cmProxy = TRUE]
    /\ Await("get contexts", None)
    /\ UNCHANGED <<stepRest, unseen>>

GetContextsDone ==
    /\ Replied("get contexts") /\ sims[Modem.path] # NoImsi
    /\ modems' = [modems EXCEPT ![imsi] = UpdateContexts(@)]
    /\ GetProxies(modems'[imsi])
    /\ UNCHANGED <<stepRest, unseen>>

ContextProxyCreated ==
    /\ Replied("context proxy")
    /\ modems' = [modems EXCEPT ![imsi].proxies = @ \cup {at}]
    /\ GetProxies(modems'[imsi])
    /\ UNCHANGED <<stepRest, unseen>>

(* A proxy that cannot be created is not noticed by anybody.                *)
SyncInFailed ==
    /\ \/ /\ Replied("get contexts") /\ (call \in FailIn \/ sims[Modem.path] = NoImsi)
          /\ CompleteLater("complete sync in", "io", 1)
       \/ /\ Replied("connman proxy") \/ Replied("context proxy")
          /\ call \in FailIn
          /\ Forget
    /\ UNCHANGED <<stepRest, modems, unseen>>

(* When GetContexts is cancelled both prv_complete_results_call and         *)
(* prv_get_contexts_cb see to the completion.                               *)
SyncInCancelled ==
    /\ call \in InCalls \ TaskCalls /\ quit
    /\ CompleteLater("complete sync in", "cancelled", IF call = "get contexts" THEN 2 ELSE 1)
    /\ UNCHANGED <<stepRest, modems, unseen>>

(* prv_complete_sync_in *)
CompleteSyncIn ==
    /\ call = "complete sync in"
    /\ completions' = completions - 1
    /\ call' = IF completions = 1 THEN None ELSE call
    /\ owed' = owed - 1 /\ result' = cbErr
    /\ cbErr' = IF completions = 1 THEN "none" ELSE cbErr
    /\ phase' = IF cbErr = "none" THEN "open" ELSE "closed"
    /\ UNCHANGED <<world, modems, default, imsi, taskVars, outVars, at, quit, cancelled, unseen>>

-----------------------------------------------------------------------------
(* ofono_plugin_sync_out and what follows it. *)

(* A client removes contexts, changes the values of others, and makes new   *)
(* ones; a new context is called by the path that it will get.              *)
Edited(old) ==
    LET mine == {IF p \in Mms THEN "mms" ELSE p : p \in {q \in Paths : Sim[q] = imsi}}
    IN  {new \in UNION {[ks -> Values] : ks \in SUBSET (DOMAIN old \cup mine)} :
            \A k \in DOMAIN new : IF k \in DOMAIN old THEN new[k] \in {old[k], Ours, Unset} ELSE new[k] = Ours}

All(type, keys) == [type : {type}, key : keys]

(* Fault: what a new context is to be is not looked at. *)
AnalyseOld(m, new) ==
    LET old == m.settings
    IN  All("delete", (DOMAIN old \cap Internet) \ DOMAIN new)
        \cup All("delete mms", IF m.mms = None THEN {} ELSE {"mms"} \ DOMAIN new)
        \cup All("add", (DOMAIN new \cap Internet) \ DOMAIN old)
        \cup All("add mms", IF m.mms = None THEN {"mms"} \cap DOMAIN new ELSE {})
        \cup All("set", {k \in DOMAIN new \cap DOMAIN old : new[k] # Unset /\ old[k] # new[k]})
        \cup All("clear", {k \in DOMAIN old : IF k \in DOMAIN new THEN new[k] = Unset /\ old[k] # Unset ELSE TRUE})

(* prv_ofono_plugin_anaylse.  Whether there is an MMS context is asked of   *)
(* the modem, not of the settings.  Values of what is removed are cleared   *)
(* as well.                                                                 *)
Analyse(m, new) ==
    LET old == m.settings
    IN  All("delete", (DOMAIN old \cap Internet) \ DOMAIN new)
        \cup All("delete mms", IF m.mms = None THEN {} ELSE {"mms"} \ DOMAIN new)
        \cup All("add", (DOMAIN new \cap Internet) \ DOMAIN old)
        \cup All("add mms", IF m.mms = None THEN {"mms"} \cap DOMAIN new ELSE {})
        \cup All("set", {k \in DOMAIN new : new[k] # Unset /\ (k \in DOMAIN old => old[k] # new[k])})
        \cup All("clear", {k \in DOMAIN old : IF k \in DOMAIN new THEN new[k] = Unset /\ old[k] # Unset ELSE TRUE})

SyncOut ==
    /\ phase = "open" /\ owed = 0 /\ ~cancelled
    /\ phase' = "syncing out" /\ owed' = 1 /\ result' = "none"
    /\ wanted' \in Edited(Modem.settings)
    /\ SyncOutStep(Modem, Analyse(Modem, wanted'))
    /\ UNCHANGED <<world, modems, default, imsi, taskVars, cancelled, unseen, failed>>

(* What oFono makes of the call that is under way, if it can: contexts can  *)
(* be reached while their SIM is there.                                     *)
Here(p) == Sim[p] = sims[Modem.path]

CommandPath ==
    IF call = "add mms" THEN First(MmsPaths, {p \in Mms \ DOMAIN contexts : Here(p)})
    ELSE IF at = "mms" THEN Modem.mms
    ELSE at

CanApply ==
    /\ CommandPath \in Paths /\ Here(CommandPath)
    /\ (CommandPath \in DOMAIN contexts <=> call \notin {"add", "add mms"})

Applied ==
    CASE call \in {"delete", "delete mms"} -> [p \in DOMAIN contexts \ {CommandPath} |-> contexts[p]]
      [] call \in {"add", "add mms"}       -> (CommandPath :> Unset) @@ contexts
      [] call = "set"                      -> (CommandPath :> wanted[at]) @@ contexts
      [] call = "clear"                    -> (CommandPath :> Unset) @@ contexts

Unheard == UNCHANGED contexts \/ (call \in Range(Commands) /\ CanApply /\ contexts' = Applied)

outRest == <<sims, default, imsi, taskVars, wanted, apiVars, unseen>>

(* prv_context_deleted_cb, prv_prop_set_cb *)
CommandDone ==
    /\ \E c \in {"delete", "delete mms", "set", "clear"} : Replied(c)
    /\ CanApply /\ contexts' = Applied
    /\ SyncOutStep(Modem, cmds)
    /\ UNCHANGED <<outRest, modems, failed>>

(* prv_context_added_cb, prv_mms_context_added_cb *)
ContextAdded ==
    /\ Replied("add") \/ Replied("add mms")
    /\ CanApply /\ contexts' = Applied
    /\ modems' = IF call = "add mms" THEN [modems EXCEPT ![imsi].mms = CommandPath] ELSE modems
    /\ Await("new proxy", CommandPath)
    /\ UNCHANGED <<outRest, cmds, failed>>

(* prv_context_added_complete_cb *)
NewProxyCreated ==
    /\ Replied("new proxy")
    /\ modems' = [modems EXCEPT ![imsi].knows = @ \cup {at}, ![imsi].proxies = @ \cup {at}]
    /\ SyncOutStep(modems'[imsi], cmds)
    /\ UNCHANGED <<outRest, contexts, failed>>

(* The next command is run all the same. *)
CommandFailed ==
    /\ call \in OutCalls /\ ~quit
    /\ call \in FailIn \/ (call # "new proxy" /\ ~CanApply)
    /\ Unheard
    /\ failed' = (failed \/ call = "new proxy" \/ CanApply)
    /\ SyncOutStep(Modem, cmds)
    /\ UNCHANGED <<outRest, modems>>

SyncOutCancelled ==
    /\ call \in OutCalls /\ quit
    /\ Unheard
    /\ CompleteLater("complete sync out", "cancelled", 1)
    /\ UNCHANGED <<outRest, modems, cmds, failed>>

(* Fault: the MMS context stays known. *)
ClearSettings == modems' = [modems EXCEPT ![imsi].settings = Empty]

ClearModem == modems' = [modems EXCEPT ![imsi].settings = Empty, ![imsi].mms = None]

(* prv_complete_sync_out *)
CompleteSyncOut ==
    /\ call = "complete sync out" /\ call' = None /\ completions' = 0
    /\ ClearModem
    /\ imsi' = NoImsi /\ cmds' = {} /\ wanted' = Empty /\ failed' = FALSE
    /\ owed' = owed - 1 /\ result' = cbErr /\ cbErr' = "none"
    /\ phase' = "closed"
    /\ unseen' = unseen \ {imsi}
    /\ UNCHANGED <<world, default, taskVars, at, quit, cancelled>>

-----------------------------------------------------------------------------
(* provman and the rest of the world. *)

(* ofono_plugin_sync_in_cancel, ofono_plugin_sync_out_cancel: in an idle    *)
(* source there is nothing to cancel.                                       *)
Cancel ==
    /\ owed = 1 /\ ~cancelled /\ cancelled' = TRUE
    /\ call \in CancelIn
    /\ quit' = (call \in InCalls \cup OutCalls)
    /\ UNCHANGED <<world, modems, default, imsi, taskVars, outVars, call, at, completions, cbErr,
                   phase, owed, result, unseen>>

(* ofono_plugin_abort: what was listed stays in the modem's settings.       *)
Abort ==
    /\ phase = "open" /\ owed = 0 /\ phase' = "closed"
    /\ imsi' = NoImsi
    /\ UNCHANGED <<world, modems, default, taskVars, outVars, callVars, owed, cancelled, result, unseen>>

(* SIMs whose contexts are listed, or that are being worked on.             *)
Watched == {i \in DOMAIN modems : modems[i].settings # Empty \/ (i = imsi /\ phase # "closed")}

otherRest == <<modems, default, imsi, taskVars, outVars, callVars, apiVars>>

(* What others do once provman has been told to quit they do after it has   *)
(* left.                                                                    *)
OthersChange ==
    /\ ~cancelled
    /\ \E p \in Paths :
          /\ \/ /\ p \in DOMAIN contexts
                /\ contexts' = [q \in DOMAIN contexts \ {p} |-> contexts[q]]
             \/ /\ p \in DOMAIN contexts \cup OthersMake
                /\ contexts' = (p :> Theirs) @@ contexts /\ contexts' # contexts
          /\ unseen' = unseen \cup (Watched \cap {Sim[p]})
    /\ UNCHANGED <<sims, otherRest>>

SwapSims ==
    /\ ~cancelled
    /\ sims' \in SimsIn \ {sims}
    /\ CanSwap \/ phase = "closed"
    /\ UNCHANGED <<contexts, otherRest, unseen>>

(* provman leaves, or dies, and is started again. *)
Restart ==
    /\ sims' = sims
    /\ Unheard
    /\ modems' = Empty /\ default' = NoImsi /\ imsi' = NoImsi
    /\ list' = <<>> /\ found' = Empty
    /\ cmds' = {} /\ wanted' = Empty /\ failed' = FALSE
    /\ call' = None /\ at' = None /\ quit' = FALSE /\ completions' = 0 /\ cbErr' = "none"
    /\ phase' = "closed" /\ owed' = 0 /\ cancelled' = FALSE /\ result' = "none"
    /\ unseen' = {}

Chain ==
    \/ ManagerProxyCreated \/ GetModemsDone \/ SimProxyCreated
    \/ GetSimPropertiesDone \/ SimPropertiesFailed \/ TaskFailed
    \/ ConnmanProxyCreated \/ GetContextsDone \/ ContextProxyCreated \/ SyncInFailed
    \/ CommandDone \/ ContextAdded \/ NewProxyCreated \/ CommandFailed

Local == TaskCancelled \/ ModemsDone \/ SyncInCancelled \/ CompleteSyncIn \/ SyncOutCancelled \/ CompleteSyncOut

Next ==
    \/ SyncIn \/ SyncOut \/ Abort \/ Cancel \/ Restart \/ Chain \/ Local
    \/ OthersChange \/ SwapSims

(* The main loop dispatches what is ready, cancelled calls among it; as     *)
(* long as nothing is cancelled oFono replies, if only with an error.       *)
Fairness == WF_vars(Local) /\ WF_vars(~cancelled /\ Chain)

Spec == Init /\ [][Next]_vars /\ Fairness

-----------------------------------------------------------------------------
(* Each operation is answered, once, whatever fails, and a cancelled one    *)
(* without any help of oFono.                                               *)
Contract == INSTANCE Plugin
Answers == Contract!Spec

(* sync_in "must create a set of settings ... that represent the current    *)
(* state of the data managed by the plugin": those of the SIM that was      *)
(* asked for, or of the default one, after other sessions of its own and of *)
(* other SIMs that were stored, aborted, refused or cut short, as long as   *)
(* others leave alone what is listed.                                       *)
ListsWhatIsThere ==
    [][CompleteSyncIn /\ result' = "none" /\ imsi \notin unseen => Modem.settings = View(imsi)]_vars

(* sync_out "needs to modify the middleware data store so that it           *)
(* corresponds to the settings": when no call has failed, the contexts of   *)
(* the SIM are those the client wants, with the values that it wants; but   *)
(* of MMS contexts it sees only one at a time.                              *)
StoredAsWanted ==
    [][CompleteSyncOut /\ result' = "none" /\ ~failed /\ imsi \notin unseen =>
          /\ \A k \in DOMAIN wanted :
                LET p == IF k = "mms" THEN Modem.mms ELSE k
                IN  p \in DOMAIN contexts /\ contexts[p] = wanted[k]
          /\ Of(imsi) \cap Internet \subseteq DOMAIN wanted
          /\ "mms" \notin DOMAIN wanted => Modem.mms \notin DOMAIN contexts]_vars
=============================================================================
