------------------------------- MODULE Provman -------------------------------
(***************************************************************************)
(* The provman daemon: one GLib main loop that takes D-Bus calls, queues    *)
(* tasks, runs them one at a time from an idle source, and lets one client  *)
(* at a time hold the management session (src/provman.c, src/tasks.c and    *)
(* the control state of src/plugin-manager.c).                              *)
(*                                                                          *)
(* Clients are asynchronous D-Bus peers: they may call again before they    *)
(* are answered, call at any time, and die at any time.  A client stands    *)
(* for a unique bus name, and for the IMSI it passes to Start.  What a      *)
(* command does to settings is the subject of PluginManager.tla; here a     *)
(* command either fails at once, completes at once, or has plugins to wait  *)
(* for.                                                                     *)
(*                                                                          *)
(* GLib: an iteration of the loop dispatches the sources of the highest     *)
(* ready priority.  D-Bus calls, lost names, signals and timers come before *)
(* the idle sources, which are dispatched in the order they were attached,  *)
(* all that were attached when the iteration began and no other.            *)
(*                                                                          *)
(* A definition whose comment begins with "Fault" is no part of the model:  *)
(* it is the one after it with a bug in it, which a property must detect.   *)
(***************************************************************************)
EXTENDS Naturals, Sequences, FiniteSets, Functions

CONSTANTS Clients,    \* the D-Bus names that may call provman
          NoClient,   \* stands for the absence of a client
          MaxCalls,   \* bound: the calls a client may have unanswered
          MaxPlugins  \* bound: the plugins one command or End waits for

ASSUME NoClientAssumption == NoClient \notin Clients
ASSUME BoundsAssumption == MaxCalls \in [Clients -> Nat \ {0}] /\ MaxPlugins \in Nat \ {0}

VARIABLES
    holder,     \* context->holder: whose session it is
    watcher,    \* context->holder_watcher # 0: the holder's name is watched
    queue,      \* context->queued_clients: the senders of queued Start calls
    tasks,      \* context->tasks
    idleId,     \* context->idle_id # 0
    timer,      \* context->timeout_id # 0: a timer is armed and recorded
    quitting,   \* context->quitting
    sigId,      \* context->sig_id # 0: SIGTERM and SIGINT are handled
    idle,       \* the attached idle sources, in the order of attachment
    batch,      \* those the current iteration has yet to dispatch
    stray,      \* a timer is armed whose id has been overwritten
    running,    \* g_main_loop_quit has not been called
    exited,     \* prv_provman_context_free has run
    mstate,     \* manager->state
    completion, \* manager->completion_source # 0
    slot,       \* manager->cb: the command or End whose callback it holds
    todo,       \* the plugin operations it waits for, the running one included
    imsi,       \* manager->imsi: whose settings the cache is for
    overlap,    \* a callback was made while its plugin operation was running
    alive,      \* the clients still on the bus
    connected,  \* the bus connection is there
    pending,    \* how many calls of each client are unanswered
    ending      \* history: the holder has called End or Abort

session == <<holder, watcher, queue, ending>>
timers  == <<timer, stray>>
manager == <<mstate, completion, slot, todo, imsi, overlap>>
process == <<quitting, sigId, running, exited, connected>>
vars == <<session, tasks, idleId, timers, idle, batch, manager, process, alive, pending>>

Perhaps == Clients \cup {NoClient}

(* provman_task: its type, the sender of the invocation it must answer, and *)
(* for SYNC_IN the IMSI.  COMMAND stands for Set, SetMultiple,              *)
(* SetMultipleMeta, SetMeta, Get, GetMultiple, GetAll, GetAllMeta, GetMeta, *)
(* Delete and DeleteMultiple; INFO for GetTypeInfo, GetChildrenTypeInfo and *)
(* GetVersion.                                                              *)
Task == [type : {"SYNC_IN", "SYNC_OUT", "ABORT", "COMMAND", "INFO"},
         from : Perhaps, imsi : Perhaps]

SyncInTask(c)  == [type |-> "SYNC_IN", from |-> NoClient, imsi |-> c]
CallTask(t, c) == [type |-> t, from |-> c, imsi |-> NoClient]

(* plugin_manager_cmd_t, and the task context behind its user_data. *)
NoSlot == [type |-> "none", from |-> NoClient]
Slot   == [type : {"none", "command", "out"}, from : Perhaps]

(* What an idle source calls: prv_process_task or prv_complete_callback. *)
Sources == {"process", "complete"}

TypeOK ==
    /\ holder \in Perhaps /\ watcher \in BOOLEAN /\ ending \in BOOLEAN
    /\ queue \in Seq(Clients) /\ tasks \in Seq(Task)
    /\ idle \in Seq(Sources) /\ batch \in Seq(Sources)
    /\ idleId \in BOOLEAN /\ timer \in BOOLEAN /\ stray \in BOOLEAN
    /\ mstate \in {"IDLE", "SYNC_IN", "SYNC_OUT"} /\ completion \in BOOLEAN
    /\ slot \in Slot /\ todo \in 0..MaxPlugins /\ imsi \in Perhaps
    /\ overlap \in BOOLEAN /\ quitting \in BOOLEAN /\ sigId \in BOOLEAN
    /\ running \in BOOLEAN /\ exited \in BOOLEAN /\ connected \in BOOLEAN
    /\ alive \in SUBSET Clients /\ pending \in [Clients -> Int]

Init ==
    /\ holder = NoClient /\ watcher = FALSE /\ queue = <<>> /\ ending = FALSE
    /\ tasks = <<>> /\ idleId = FALSE /\ idle = <<>> /\ batch = <<>>
    /\ timer = TRUE /\ stray = FALSE
    /\ mstate = "IDLE" /\ completion = FALSE /\ slot = NoSlot /\ todo = 0
    /\ imsi = NoClient /\ overlap = FALSE
    /\ quitting = FALSE /\ sigId = TRUE /\ running = TRUE /\ exited = FALSE
    /\ alive = Clients /\ connected = TRUE
    /\ pending = [c \in Clients |-> 0]

(* Once a callback has been made under a running plugin operation, the      *)
(* program reads a command that was freed; nothing is claimed from there on.*)
Live == ~exited /\ ~overlap

(* Between two dispatches of idle sources no event of higher priority fits. *)
BetweenIterations == Live /\ batch = <<>>

Busy == mstate # "IDLE"

(* The calls of c answered when one of x and one of y are. *)
Answered(c, x, y) == (IF c = x THEN 1 ELSE 0) + (IF c = y THEN 1 ELSE 0)

Answer(x, y) == pending' = [c \in Clients |-> pending[c] - Answered(c, x, y)]

-----------------------------------------------------------------------------
(* Adding tasks. *)

(* The idle sources once a task has been added. *)
Woken == IF idleId \/ Busy THEN idle ELSE Append(idle, "process")

AddTask(t) ==
    /\ tasks' = Append(tasks, t)
    /\ idle' = Woken
    /\ idleId' = (idleId \/ ~Busy)

(* Fault: the client that has waited least is served next. *)
LastInLine == IF queue = <<>> THEN NoClient ELSE queue[Len(queue)]

(* The client whose Start is served next. *)
NextInLine == IF queue = <<>> THEN NoClient ELSE Head(queue)

(* Fault: a session that is handed over is not synchronised. *)
GrantedUnsynced == <<>>

(* The task that comes of the grant, and what becomes of the idle sources. *)
Granted == IF queue = <<>> THEN <<>> ELSE <<SyncInTask(Head(queue))>>
WokenByGrant == IF queue = <<>> THEN idle ELSE Woken

(* Fault: the client that is served stays in the queue. *)
SessionFinishedInQueue ==
    /\ holder' = NextInLine
    /\ watcher' = (queue # <<>>)
    /\ ending' = FALSE
    /\ UNCHANGED queue

SessionFinished ==
    /\ holder' = NextInLine
    /\ watcher' = (queue # <<>>)
    /\ queue' = IF queue = <<>> THEN <<>> ELSE Tail(queue)
    /\ ending' = FALSE

-----------------------------------------------------------------------------
(* D-Bus calls, and the loss of the holder. *)

Calls(c) ==
    /\ BetweenIterations /\ connected
    /\ c \in alive
    /\ pending[c] < MaxCalls[c]

(* Fault: the timer is left to run. *)
LeaveTimer == UNCHANGED timer

ResetTimer == timer' = FALSE

(* Start with no session open. *)
StartFirst(c) ==
    /\ Calls(c) /\ holder = NoClient
    /\ ResetTimer
    /\ holder' = c /\ watcher' = TRUE /\ ending' = FALSE
    /\ AddTask(SyncInTask(c))
    /\ UNCHANGED <<queue, stray, batch, manager, process, alive, pending>>

Known(c) == c = holder \/ c \in Range(queue)

(* Start while another holds the session: the answer comes with the grant. *)
StartQueued(c) ==
    /\ Calls(c) /\ holder # NoClient /\ ~Known(c)
    /\ queue' = Append(queue, c)
    /\ pending' = [pending EXCEPT ![c] = @ + 1]
    /\ UNCHANGED <<holder, watcher, ending, tasks, idleId, timers, idle, batch, manager, process, alive>>

(* GetTypeInfo, GetChildrenTypeInfo, GetVersion: open to everybody. *)
Info(c) ==
    /\ Calls(c)
    /\ ResetTimer
    /\ AddTask(CallTask("INFO", c))
    /\ pending' = [pending EXCEPT ![c] = @ + 1]
    /\ UNCHANGED <<session, stray, batch, manager, process, alive>>

(* The methods of the session, for its holder. *)
SessionCall(c, t) ==
    /\ Calls(c) /\ holder = c
    /\ AddTask(CallTask(t, c))
    /\ pending' = [pending EXCEPT ![c] = @ + 1]
    /\ ending' = (ending \/ t \in {"SYNC_OUT", "ABORT"})
    /\ UNCHANGED <<holder, watcher, queue, timers, batch, manager, process, alive>>

(* A repeated Start, and a session method called by another client than the *)
(* holder, are answered "unexpected" and change nothing.                    *)

(* Fault: the loss of any client is taken for that of the holder. *)
SomebodyLost == watcher /\ (alive # Clients \/ ~connected)

HolderLost == watcher /\ (holder \notin alive \/ ~connected)

(* Fault: the session of a lost client is not ended if the manager is busy. *)
EndIfNotBusy ==
    IF Busy \/ \E t \in Range(tasks) : t.type = "SYNC_OUT"
    THEN UNCHANGED <<tasks, idle, idleId>>
    ELSE AddTask(CallTask("SYNC_OUT", NoClient))

(* End the session for the holder, unless the call to End is queued. *)
EndForHolder ==
    IF \E t \in Range(tasks) : t.type = "SYNC_OUT"
    THEN UNCHANGED <<tasks, idle, idleId>>
    ELSE AddTask(CallTask("SYNC_OUT", NoClient))

LostClient ==
    /\ BetweenIterations
    /\ HolderLost
    /\ EndForHolder
    /\ watcher' = FALSE
    /\ UNCHANGED <<holder, queue, ending, timers, batch, manager, process, alive, pending>>

-----------------------------------------------------------------------------
(* The process source: runs the first task. *)

(* An iteration of the loop that finds only idle sources ready. *)
Iterate ==
    /\ BetweenIterations /\ running
    /\ idle # <<>>
    /\ batch' = idle /\ idle' = <<>>
    /\ UNCHANGED <<session, tasks, idleId, timers, manager, process, alive, pending>>

Dispatching(source) ==
    /\ Live /\ batch # <<>>
    /\ Head(batch) = source
    /\ batch' = Tail(batch)

Running(type) ==
    /\ Dispatching("process") /\ ~quitting
    /\ tasks # <<>> /\ Head(tasks).type = type

(* Fault: a pending quit does not make provman leave. *)
UnusedOnly(ts, h) == ts = <<>> /\ h = NoClient

(* With tasks ts and holder h left, provman has nothing to stay for. *)
MayLeave(ts, h) == quitting \/ (ts = <<>> /\ h = NoClient)

(* Fault: the timer is armed for a pending quit only. *)
ArmTimerToQuit ==
    /\ timer' = (timer \/ quitting)
    /\ UNCHANGED stray

(* A timer that is armed already goes on without its id. *)
ArmTimer ==
    /\ timer' = TRUE
    /\ stray' = (stray \/ timer)

(* How prv_process_task ends when no task runs on: with ts the tasks left,  *)
(* h the holder, i the idle sources and id whether idle_id is set.  A       *)
(* process source that is kept precedes those attached after it.            *)
Settle(ts, h, i, id) ==
    /\ tasks' = ts
    /\ \/ /\ MayLeave(ts, h)
          /\ ArmTimer
          /\ idleId' = FALSE /\ idle' = i
       \/ /\ ~MayLeave(ts, h) /\ h # NoClient
          /\ idleId' = FALSE /\ idle' = i
          /\ UNCHANGED timers
       \/ /\ ~MayLeave(ts, h) /\ h = NoClient
          /\ idleId' = id /\ idle' = <<"process">> \o i
          /\ UNCHANGED timers

(* How it ends when a task runs on, the manager having attached sources i. *)
RunsOn(i) ==
    /\ tasks' = Tail(tasks)
    /\ idleId' = FALSE /\ idle' = i
    /\ UNCHANGED timers

ProcessNone ==
    /\ Dispatching("process")
    /\ quitting \/ tasks = <<>>
    /\ Settle(tasks, holder, idle, idleId)
    /\ UNCHANGED <<session, manager, process, alive, pending>>

ProcessSyncIn ==
    /\ Running("SYNC_IN")
    /\ imsi' = IF Busy THEN imsi ELSE Head(tasks).imsi
    /\ Settle(Tail(tasks), holder, idle, idleId)
    /\ UNCHANGED <<session, mstate, completion, slot, todo, overlap, process, alive, pending>>

(* The session is over whether or not the manager agreed to abort. *)
ProcessAbort ==
    /\ Running("ABORT")
    /\ imsi' = IF Busy THEN imsi ELSE NoClient
    /\ Answer(Head(tasks).from, NextInLine)
    /\ SessionFinished
    /\ Settle(Tail(tasks) \o Granted, NextInLine, WokenByGrant, idleId)
    /\ UNCHANGED <<mstate, completion, slot, todo, overlap, process, alive>>

ProcessInfo ==
    /\ Running("INFO")
    /\ Answer(Head(tasks).from, NoClient)
    /\ Settle(Tail(tasks), holder, idle, idleId)
    /\ UNCHANGED <<session, manager, process, alive>>

(* Fault: a task that fails at once is not answered. *)
RefusedSilently ==
    /\ Running("COMMAND") \/ (Running("SYNC_OUT") /\ Busy)
    /\ Settle(Tail(tasks), holder, idle, idleId)
    /\ UNCHANGED <<session, manager, process, alive, pending>>

(* Denied by a busy manager; a command may also be refused for its key. *)
ProcessRefused ==
    /\ Running("COMMAND") \/ (Running("SYNC_OUT") /\ Busy)
    /\ Answer(Head(tasks).from, NoClient)
    /\ Settle(Tail(tasks), holder, idle, idleId)
    /\ UNCHANGED <<session, manager, process, alive>>

(* The idle sources once a completion has been scheduled. *)
Scheduled == IF completion THEN idle ELSE Append(idle, "complete")

(* Every plugin the command needs is synchronised, or has refused to be. *)
ProcessCommandNow ==
    /\ Running("COMMAND") /\ ~Busy
    /\ slot' = [type |-> "command", from |-> Head(tasks).from]
    /\ completion' = TRUE
    /\ RunsOn(Scheduled)
    /\ UNCHANGED <<session, mstate, todo, imsi, overlap, process, alive, pending>>

ProcessCommandAfterSync ==
    /\ Running("COMMAND") /\ ~Busy
    /\ slot' = [type |-> "command", from |-> Head(tasks).from]
    /\ mstate' = "SYNC_IN" /\ todo' \in 1..MaxPlugins
    /\ RunsOn(idle)
    /\ UNCHANGED <<session, completion, imsi, overlap, process, alive, pending>>

(* Fault: End is answered as soon as it is begun. *)
SyncOutNowAnswered ==
    /\ Running("SYNC_OUT") /\ ~Busy
    /\ slot' = [type |-> "out", from |-> Head(tasks).from]
    /\ mstate' = "SYNC_OUT" /\ imsi' = NoClient
    /\ completion' = TRUE
    /\ Answer(Head(tasks).from, NoClient)
    /\ RunsOn(Scheduled)
    /\ UNCHANGED <<session, todo, overlap, process, alive>>

(* End, when no plugin has anything to store. *)
ProcessSyncOutNow ==
    /\ Running("SYNC_OUT") /\ ~Busy
    /\ slot' = [type |-> "out", from |-> Head(tasks).from]
    /\ mstate' = "SYNC_OUT" /\ imsi' = NoClient
    /\ completion' = TRUE
    /\ RunsOn(Scheduled)
    /\ UNCHANGED <<session, todo, overlap, process, alive, pending>>

(* Fault: the completion does not wait for the plugins. *)
SyncOutUnawaited ==
    /\ Running("SYNC_OUT") /\ ~Busy
    /\ slot' = [type |-> "out", from |-> Head(tasks).from]
    /\ mstate' = "SYNC_OUT" /\ todo' \in 1..MaxPlugins
    /\ completion' = TRUE
    /\ RunsOn(Scheduled)
    /\ UNCHANGED <<session, imsi, overlap, process, alive, pending>>

(* End, when there are plugins to call one after the other. *)
ProcessSyncOut ==
    /\ Running("SYNC_OUT") /\ ~Busy
    /\ slot' = [type |-> "out", from |-> Head(tasks).from]
    /\ mstate' = "SYNC_OUT" /\ todo' \in 1..MaxPlugins
    /\ RunsOn(idle)
    /\ UNCHANGED <<session, completion, imsi, overlap, process, alive, pending>>

-----------------------------------------------------------------------------
(* Plugins and the complete source. *)

(* Fault: the number of plugins to wait for is not looked at. *)
PluginNextUnbounded ==
    /\ Live
    /\ todo' = todo - 1
    /\ UNCHANGED <<session, tasks, idleId, timers, idle, batch, mstate, completion, slot, imsi,
                   overlap, process, alive, pending>>

(* A plugin is done and another one follows. *)
PluginNext ==
    /\ Live /\ todo > 1
    /\ todo' = todo - 1
    /\ UNCHANGED <<session, tasks, idleId, timers, idle, batch, mstate, completion, slot, imsi,
                   overlap, process, alive, pending>>

(* Fault: the cache outlives the session. *)
Uncleared == imsi

(* Whose settings are cached once the last plugin is done. *)
Cleared == IF mstate = "SYNC_OUT" THEN NoClient ELSE imsi

(* The last plugin is done, or the running one reports it was cancelled. *)
PluginLast ==
    /\ Live /\ todo > 0
    /\ todo = 1 \/ quitting
    /\ todo' = 0
    /\ imsi' = Cleared
    /\ completion' = TRUE /\ idle' = Scheduled
    /\ UNCHANGED <<session, tasks, idleId, timers, batch, mstate, slot, overlap, process, alive, pending>>

Completing ==
    /\ Dispatching("complete")
    /\ completion' = FALSE /\ mstate' = "IDLE" /\ slot' = NoSlot
    /\ overlap' = (todo > 0)
    /\ idleId' = TRUE
    /\ UNCHANGED <<timers, todo, imsi, process, alive>>

(* Fault: prv_process_task is not called again. *)
CompleteCommandUnwoken ==
    /\ Completing /\ slot.type = "command"
    /\ Answer(slot.from, NoClient)
    /\ UNCHANGED <<session, tasks, idle>>

CompleteCommand ==
    /\ Completing /\ slot.type = "command"
    /\ Answer(slot.from, NoClient)
    /\ idle' = Append(idle, "process")
    /\ UNCHANGED <<session, tasks>>

CompleteSyncOut ==
    /\ Completing /\ slot.type = "out"
    /\ Answer(slot.from, NextInLine)
    /\ SessionFinished
    /\ tasks' = tasks \o Granted
    /\ idle' = Append(WokenByGrant, "process")

-----------------------------------------------------------------------------
(* Leaving. *)

Timeout ==
    /\ BetweenIterations /\ running
    /\ timer \/ stray
    /\ timer' = FALSE /\ running' = FALSE
    /\ UNCHANGED <<session, tasks, idleId, stray, idle, batch, manager, quitting, sigId, exited,
                   connected, alive, pending>>

(* Leave when the operation in progress is over, or at once if there is none. *)
Quit ==
    /\ quitting' = (completion \/ Busy)
    /\ running' = (running /\ quitting')
    /\ UNCHANGED <<session, tasks, idleId, timers, idle, batch, manager, exited, alive, pending>>

Signal ==
    /\ BetweenIterations /\ sigId
    /\ sigId' = FALSE
    /\ Quit
    /\ UNCHANGED connected

NameLost ==
    /\ BetweenIterations /\ connected
    /\ connected' = FALSE
    /\ Quit
    /\ UNCHANGED sigId

(* The calls of c that wait in a queue. *)
Waiting(c) ==
    Cardinality({i \in DOMAIN tasks : tasks[i].from = c}) + Cardinality({i \in DOMAIN queue : queue[i] = c})

(* Out of the loop: whoever waits is answered that provman died. *)
Exit ==
    /\ BetweenIterations /\ ~running
    /\ exited' = TRUE
    /\ holder' = NoClient /\ watcher' = FALSE /\ queue' = <<>> /\ ending' = FALSE
    /\ tasks' = <<>>
    /\ pending' = [c \in Clients |-> pending[c] - Waiting(c)]
    /\ UNCHANGED <<idleId, timers, idle, batch, manager, quitting, sigId, running, connected, alive>>

Die(c) ==
    /\ Live /\ c \in alive
    /\ alive' = alive \ {c}
    /\ UNCHANGED <<session, tasks, idleId, timers, idle, batch, manager, process, pending>>

-----------------------------------------------------------------------------
(* What provman does by itself, given an answer from plugins. *)
Loop ==
    \/ Iterate
    \/ ProcessNone \/ ProcessSyncIn \/ ProcessAbort \/ ProcessInfo \/ ProcessRefused
    \/ ProcessCommandNow \/ ProcessCommandAfterSync \/ ProcessSyncOutNow \/ ProcessSyncOut
    \/ CompleteCommand \/ CompleteSyncOut
    \/ Exit

Plugins == PluginNext \/ PluginLast

Leave == Signal \/ NameLost

SessionTasks == {"SYNC_OUT", "ABORT", "COMMAND"}

Next ==
    \/ \E c \in Clients : StartFirst(c) \/ StartQueued(c) \/ Info(c) \/ Die(c)
    \/ \E c \in Clients, t \in SessionTasks : SessionCall(c, t)
    \/ Loop \/ LostClient \/ Plugins \/ Timeout \/ Leave

Spec == Init /\ [][Next]_vars

-----------------------------------------------------------------------------
(* What holds however clients behave. *)

(* The session is had in turn: whoever calls Start is given the session if  *)
(* it is free and queued once if it is not, and prv_session_finished hands  *)
(* it to the one that has waited longest.                                   *)
Lock == INSTANCE SessionLock
SessionsInTurn == Lock!Spec

(* prv_provman_method_call looks for a free session before it queues, and   *)
(* prv_find_connection before it queues again: nobody waits for a free      *)
(* session, for its own, or twice.                                          *)
WaitersHaveHolder ==
    /\ holder = NoClient => queue = <<>>
    /\ holder \notin Range(queue)
    /\ \A i, j \in DOMAIN queue : queue[i] = queue[j] => i = j

(* Provman is started by the bus and is to leave when it is not needed:     *)
(* when no session is open and no source or plugin is left to wait for, a   *)
(* timer is armed, whatever interleaving of prv_reset_startup_timer and     *)
(* prv_process_task led there.                                              *)
UnusedHasTimer ==
    BetweenIterations /\ running /\ holder = NoClient /\ idle = <<>> /\ todo = 0
        => timer \/ stray

(* The invocations of c that provman keeps, and has to answer. *)
Kept(c) == Waiting(c) + (IF slot.from = c THEN 1 ELSE 0)

(* An invocation is in one task, in the queue or behind the manager's       *)
(* callback: it moves from task to context and is never answered twice.     *)
AnsweredAtMostOnce == \A c \in Clients : Kept(c) <= pending[c]
=============================================================================
