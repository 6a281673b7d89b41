---------------------------- MODULE ProvmanProofs ----------------------------
(***************************************************************************)
(* What Provman.tla promises for every set of clients, every bound on their *)
(* calls and every number of plugins: its type invariant, the invariant of  *)
(* the queue of clients, that it implements SessionLock, that a provman     *)
(* nobody needs leaves, and that no call is answered twice.                 *)
(*                                                                          *)
(* The second half is about polite clients: each has one call at a time and *)
(* none of the habits of ProvmanClients.tla.  Then a session is always at   *)
(* one of a few stages, and the inductive invariant is that it is: no       *)
(* property of that module is inductive, because each needs to know which   *)
(* sources the main loop has yet to dispatch when a task is queued, runs or *)
(* completes.                                                               *)
(***************************************************************************)
EXTENDS ProvmanClients, SequenceTheorems, FiniteSetTheorems, FunctionTheorems, TLAPS

-----------------------------------------------------------------------------
(* Types of the operators the actions are built from. *)

(* The task that CallTask and SyncInTask build is a provman_task. *)
LEMMA TaskTypes ==
    ASSUME NEW c \in Perhaps
    PROVE  /\ \A t \in {"SYNC_IN", "SYNC_OUT", "ABORT", "COMMAND", "INFO"} : CallTask(t, c) \in Task
           /\ SyncInTask(c) \in Task
BY DEF CallTask, SyncInTask, Task, Perhaps

(* g_idle_add appends one source. *)
LEMMA AppendSource ==
    ASSUME NEW s \in Seq(Sources), NEW x \in Sources
    PROVE  Append(s, x) \in Seq(Sources)
OBVIOUS

(* The idle sources after a task was added, or a completion scheduled. *)
LEMMA IdleTypes ==
    ASSUME TypeOK
    PROVE  /\ Woken \in Seq(Sources)
           /\ WokenByGrant \in Seq(Sources)
           /\ Scheduled \in Seq(Sources)
<1>1. idle \in Seq(Sources) /\ "process" \in Sources /\ "complete" \in Sources
  BY DEF TypeOK, Sources
<1>2. Append(idle, "process") \in Seq(Sources) /\ Append(idle, "complete") \in Seq(Sources)
  BY <1>1, AppendSource
<1> QED BY <1>1, <1>2 DEF Woken, WokenByGrant, Scheduled

(* prv_add_task leaves a list of tasks and a list of sources. *)
LEMMA AddTaskType ==
    ASSUME TypeOK, NEW t \in Task, AddTask(t)
    PROVE  tasks' \in Seq(Task) /\ idle' \in Seq(Sources) /\ idleId' \in BOOLEAN
<1>1. tasks' \in Seq(Task)
  BY DEF TypeOK, AddTask
<1>2. idle' \in Seq(Sources)
  BY IdleTypes DEF AddTask
<1>3. idleId' \in BOOLEAN
  BY DEF AddTask
<1> QED BY <1>1, <1>2, <1>3

(* prv_session_finished takes the head of the queue, if there is one. *)
LEMMA GrantTypes ==
    ASSUME TypeOK
    PROVE  NextInLine \in Perhaps /\ Granted \in Seq(Task)
<1>1. CASE queue = <<>>
  BY <1>1 DEF NextInLine, Granted, Perhaps
<1>2. CASE queue # <<>>
  <2>1. Head(queue) \in Clients
    BY <1>2, HeadTailProperties DEF TypeOK
  <2>2. SyncInTask(Head(queue)) \in Task
    BY <2>1, TaskTypes DEF Perhaps
  <2> QED BY <1>2, <2>1, <2>2 DEF NextInLine, Granted, Perhaps
<1> QED BY <1>1, <1>2

LEMMA SessionFinishedType ==
    ASSUME TypeOK, SessionFinished
    PROVE  holder' \in Perhaps /\ watcher' \in BOOLEAN /\ queue' \in Seq(Clients) /\ ending' \in BOOLEAN
<1>1. holder' \in Perhaps
  BY GrantTypes DEF SessionFinished
<1>2. watcher' \in BOOLEAN /\ ending' \in BOOLEAN
  BY DEF SessionFinished
<1>3. queue' \in Seq(Clients)
  BY HeadTailProperties, EmptySeq DEF SessionFinished, TypeOK
<1> QED BY <1>1, <1>2, <1>3

(* Whatever is answered, the number of unanswered calls is a number. *)
LEMMA AnswerType ==
    ASSUME TypeOK, NEW x, NEW y, Answer(x, y)
    PROVE  pending' \in [Clients -> Int]
<1>1. \A c \in Clients : Answered(c, x, y) \in Int
  BY DEF Answered
<1> QED BY <1>1 DEF Answer, TypeOK

(* The three ends of prv_process_task. *)
LEMMA SettleType ==
    ASSUME TypeOK,
           NEW ts \in Seq(Task), NEW h, NEW i \in Seq(Sources), NEW id \in BOOLEAN,
           Settle(ts, h, i, id)
    PROVE  /\ tasks' \in Seq(Task) /\ idle' \in Seq(Sources) /\ idleId' \in BOOLEAN
           /\ timer' \in BOOLEAN /\ stray' \in BOOLEAN
<1>1. tasks' \in Seq(Task)
  BY DEF Settle
<1>2. <<"process">> \o i \in Seq(Sources)
  <2>1. <<"process">> \in Seq(Sources)
    BY DEF Sources
  <2> QED BY <2>1, ConcatProperties
<1>3. idle' \in Seq(Sources)
  BY <1>2 DEF Settle
<1>4. idleId' \in BOOLEAN
  BY DEF Settle
<1>5. timer' \in BOOLEAN /\ stray' \in BOOLEAN
  BY DEF Settle, ArmTimer, timers, TypeOK
<1> QED BY <1>1, <1>3, <1>4, <1>5

(* A source that is dispatched leaves the batch. *)
LEMMA DispatchType ==
    ASSUME TypeOK, NEW source, Dispatching(source)
    PROVE  batch' \in Seq(Sources)
BY HeadTailProperties DEF TypeOK, Dispatching

(* prv_process_task takes the first task off the list. *)
LEMMA RunningType ==
    ASSUME TypeOK, NEW type, Running(type)
    PROVE  /\ batch' \in Seq(Sources)
           /\ Head(tasks) \in Task /\ Tail(tasks) \in Seq(Task)
           /\ Head(tasks).from \in Perhaps /\ Head(tasks).imsi \in Perhaps
<1>1. batch' \in Seq(Sources)
  BY DispatchType DEF Running
<1>2. Head(tasks) \in Task /\ Tail(tasks) \in Seq(Task)
  BY HeadTailProperties DEF TypeOK, Running
<1> QED BY <1>1, <1>2 DEF Task

-----------------------------------------------------------------------------
(* The variables that no conjunct of a step mentions. *)
LEMMA UnchangedTypes ==
    ASSUME TypeOK
    PROVE  /\ UNCHANGED session =>
                holder' \in Perhaps /\ watcher' \in BOOLEAN /\ queue' \in Seq(Clients) /\ ending' \in BOOLEAN
           /\ UNCHANGED timers => timer' \in BOOLEAN /\ stray' \in BOOLEAN
           /\ UNCHANGED process =>
                /\ quitting' \in BOOLEAN /\ sigId' \in BOOLEAN /\ running' \in BOOLEAN
                /\ exited' \in BOOLEAN /\ connected' \in BOOLEAN
           /\ UNCHANGED manager =>
                /\ mstate' \in {"IDLE", "SYNC_IN", "SYNC_OUT"} /\ completion' \in BOOLEAN
                /\ slot' \in Slot /\ todo' \in 0..MaxPlugins /\ imsi' \in Perhaps
                /\ overlap' \in BOOLEAN
BY DEF TypeOK, session, timers, process, manager

(* TypeOK is an invariant: the type invariant of provman_context, its tasks *)
(* and the state of the plugin manager.                                     *)
THEOREM TypeCorrect == Spec => []TypeOK
<1>1. Init => TypeOK
  <2> SUFFICES ASSUME Init PROVE TypeOK
    OBVIOUS
  <2>1. NoSlot \in Slot /\ NoClient \in Perhaps
    BY DEF NoSlot, Slot, Perhaps
  <2>2. 0 \in 0..MaxPlugins
    BY BoundsAssumption
  <2>3. pending \in [Clients -> Int]
    BY DEF Init
  <2>4. <<>> \in Seq(Clients) /\ <<>> \in Seq(Task) /\ <<>> \in Seq(Sources)
    OBVIOUS
  <2>5. alive \in SUBSET Clients
    BY DEF Init
  <2> QED BY <2>1, <2>2, <2>3, <2>4, <2>5 DEF Init, TypeOK
<1>2. TypeOK /\ [Next]_vars => TypeOK'
  <2> SUFFICES ASSUME TypeOK, [Next]_vars PROVE TypeOK'
    OBVIOUS
  <2> USE DEF TypeOK
  <2>1. CASE UNCHANGED vars
    BY <2>1 DEF vars, session, timers, manager, process
  <2>2. ASSUME NEW c \in Clients, StartFirst(c) PROVE TypeOK'
    <3>1. SyncInTask(c) \in Task /\ c \in Perhaps
      BY TaskTypes DEF Perhaps
    <3>2. tasks' \in Seq(Task) /\ idle' \in Seq(Sources) /\ idleId' \in BOOLEAN
      BY <2>2, <3>1, AddTaskType DEF StartFirst
    <3> QED BY <2>2, <3>1, <3>2, UnchangedTypes DEF StartFirst, ResetTimer
  <2>3. ASSUME NEW c \in Clients, StartQueued(c) PROVE TypeOK'
    <3>1. queue' \in Seq(Clients) /\ pending' \in [Clients -> Int]
      BY <2>3 DEF StartQueued
    <3> QED BY <2>3, <3>1, UnchangedTypes DEF StartQueued
  <2>4. ASSUME NEW c \in Clients, Info(c) PROVE TypeOK'
    <3>1. CallTask("INFO", c) \in Task
      BY TaskTypes DEF Perhaps
    <3>2. tasks' \in Seq(Task) /\ idle' \in Seq(Sources) /\ idleId' \in BOOLEAN
      BY <2>4, <3>1, AddTaskType DEF Info
    <3>3. pending' \in [Clients -> Int]
      BY <2>4 DEF Info
    <3> QED BY <2>4, <3>2, <3>3, UnchangedTypes DEF Info, ResetTimer
  <2>5. ASSUME NEW c \in Clients, Die(c) PROVE TypeOK'
    BY <2>5, UnchangedTypes DEF Die
  <2>6. ASSUME NEW c \in Clients, NEW t \in SessionTasks, SessionCall(c, t) PROVE TypeOK'
    <3>1. CallTask(t, c) \in Task
      BY TaskTypes DEF Perhaps, SessionTasks
    <3>2. tasks' \in Seq(Task) /\ idle' \in Seq(Sources) /\ idleId' \in BOOLEAN
      BY <2>6, <3>1, AddTaskType DEF SessionCall
    <3>3. pending' \in [Clients -> Int] /\ ending' \in BOOLEAN
      BY <2>6 DEF SessionCall
    <3> QED BY <2>6, <3>2, <3>3, UnchangedTypes DEF SessionCall
  <2>7. CASE LostClient
    <3>1. CallTask("SYNC_OUT", NoClient) \in Task
      BY TaskTypes DEF Perhaps
    <3>2. tasks' \in Seq(Task) /\ idle' \in Seq(Sources) /\ idleId' \in BOOLEAN
      BY <2>7, <3>1, AddTaskType DEF LostClient, EndForHolder
    <3> QED BY <2>7, <3>2, UnchangedTypes DEF LostClient
  <2>8. CASE Iterate
    <3>1. <<>> \in Seq(Sources)
      OBVIOUS
    <3> QED BY <2>8, <3>1, UnchangedTypes DEF Iterate
  <2>9. CASE ProcessNone
    BY <2>9, DispatchType, SettleType, UnchangedTypes DEF ProcessNone
  <2>10. CASE ProcessSyncIn
    BY <2>10, RunningType, SettleType, UnchangedTypes DEF ProcessSyncIn
  <2>11. CASE ProcessAbort
    <3>1. Tail(tasks) \o Granted \in Seq(Task)
      BY <2>11, RunningType, GrantTypes, ConcatProperties DEF ProcessAbort
    <3>2. /\ tasks' \in Seq(Task) /\ idle' \in Seq(Sources) /\ idleId' \in BOOLEAN
          /\ timer' \in BOOLEAN /\ stray' \in BOOLEAN
      BY <2>11, <3>1, IdleTypes, SettleType DEF ProcessAbort
    <3>3. batch' \in Seq(Sources) /\ imsi' \in Perhaps
      BY <2>11, RunningType DEF ProcessAbort, Perhaps
    <3> QED BY <2>11, <3>2, <3>3, SessionFinishedType, AnswerType, UnchangedTypes DEF ProcessAbort
  <2>12. CASE ProcessInfo
    <3>1. batch' \in Seq(Sources) /\ Tail(tasks) \in Seq(Task)
      BY <2>12, RunningType DEF ProcessInfo
    <3>2. /\ tasks' \in Seq(Task) /\ idle' \in Seq(Sources) /\ idleId' \in BOOLEAN
          /\ timer' \in BOOLEAN /\ stray' \in BOOLEAN
      BY <2>12, <3>1, SettleType DEF ProcessInfo
    <3>3. pending' \in [Clients -> Int]
      BY <2>12, AnswerType DEF ProcessInfo
    <3> QED BY <2>12, <3>1, <3>2, <3>3, UnchangedTypes DEF ProcessInfo
  <2>13. CASE ProcessRefused
    <3>1. batch' \in Seq(Sources) /\ Tail(tasks) \in Seq(Task)
      BY <2>13, RunningType DEF ProcessRefused
    <3>2. /\ tasks' \in Seq(Task) /\ idle' \in Seq(Sources) /\ idleId' \in BOOLEAN
          /\ timer' \in BOOLEAN /\ stray' \in BOOLEAN
      BY <2>13, <3>1, SettleType DEF ProcessRefused
    <3>3. pending' \in [Clients -> Int]
      BY <2>13, AnswerType DEF ProcessRefused
    <3> QED BY <2>13, <3>1, <3>2, <3>3, UnchangedTypes DEF ProcessRefused
  <2>14. CASE ProcessCommandNow
    <3>1. slot' \in Slot /\ batch' \in Seq(Sources)
      BY <2>14, RunningType DEF ProcessCommandNow, Slot
    <3> QED BY <2>14, <3>1, RunningType, IdleTypes, UnchangedTypes DEF ProcessCommandNow, RunsOn
  <2>15. CASE ProcessCommandAfterSync
    <3>1. slot' \in Slot /\ batch' \in Seq(Sources)
      BY <2>15, RunningType DEF ProcessCommandAfterSync, Slot
    <3>2. todo' \in 0..MaxPlugins
      BY <2>15, BoundsAssumption DEF ProcessCommandAfterSync
    <3> QED BY <2>15, <3>1, <3>2, RunningType, UnchangedTypes DEF ProcessCommandAfterSync, RunsOn
  <2>16. CASE ProcessSyncOutNow
    <3>1. slot' \in Slot /\ batch' \in Seq(Sources) /\ imsi' \in Perhaps
      BY <2>16, RunningType DEF ProcessSyncOutNow, Slot, Perhaps
    <3> QED BY <2>16, <3>1, RunningType, IdleTypes, UnchangedTypes DEF ProcessSyncOutNow, RunsOn
  <2>17. CASE ProcessSyncOut
    <3>1. slot' \in Slot /\ batch' \in Seq(Sources)
      BY <2>17, RunningType DEF ProcessSyncOut, Slot
    <3>2. todo' \in 0..MaxPlugins
      BY <2>17, BoundsAssumption DEF ProcessSyncOut
    <3> QED BY <2>17, <3>1, <3>2, RunningType, UnchangedTypes DEF ProcessSyncOut, RunsOn
  <2>18. CASE CompleteCommand
    <3>1. idle' \in Seq(Sources) /\ batch' \in Seq(Sources)
      BY <2>18, AppendSource, DispatchType DEF CompleteCommand, Completing, Sources
    <3>2. slot' \in Slot /\ overlap' \in BOOLEAN
      BY <2>18 DEF CompleteCommand, Completing, NoSlot, Slot, Perhaps
    <3> QED BY <2>18, <3>1, <3>2, AnswerType, UnchangedTypes DEF CompleteCommand, Completing
  <2>19. CASE CompleteSyncOut
    <3>1. idle' \in Seq(Sources) /\ batch' \in Seq(Sources)
      BY <2>19, IdleTypes, AppendSource, DispatchType DEF CompleteSyncOut, Completing, Sources
    <3>2. slot' \in Slot /\ overlap' \in BOOLEAN
      BY <2>19 DEF CompleteSyncOut, Completing, NoSlot, Slot, Perhaps
    <3>3. tasks' \in Seq(Task)
      BY <2>19, GrantTypes, ConcatProperties DEF CompleteSyncOut
    <3> QED
      BY <2>19, <3>1, <3>2, <3>3, SessionFinishedType, AnswerType, UnchangedTypes
      DEF CompleteSyncOut, Completing
  <2>20. CASE Exit
    <3>1. \A c \in Clients : Waiting(c) \in Int
      <4> TAKE c \in Clients
      <4>1. IsFiniteSet(DOMAIN tasks) /\ IsFiniteSet(DOMAIN queue)
        <5>1. DOMAIN tasks = 1..Len(tasks) /\ DOMAIN queue = 1..Len(queue)
          OBVIOUS
        <5>2. Len(tasks) \in Int /\ Len(queue) \in Int
          OBVIOUS
        <5> QED BY <5>1, <5>2, FS_Interval
      <4>2. IsFiniteSet({i \in DOMAIN tasks : tasks[i].from = c})
        BY <4>1, FS_Subset, {i \in DOMAIN tasks : tasks[i].from = c} \subseteq DOMAIN tasks
      <4>3. IsFiniteSet({i \in DOMAIN queue : queue[i] = c})
        BY <4>1, FS_Subset, {i \in DOMAIN queue : queue[i] = c} \subseteq DOMAIN queue
      <4> QED BY <4>2, <4>3, FS_CardinalityType DEF Waiting
    <3>2. pending' \in [Clients -> Int]
      BY <2>20, <3>1 DEF Exit
    <3>3. <<>> \in Seq(Clients) /\ <<>> \in Seq(Task)
      OBVIOUS
    <3> QED BY <2>20, <3>2, <3>3, UnchangedTypes DEF Exit, Perhaps
  <2>21. CASE PluginNext
    BY <2>21, UnchangedTypes, BoundsAssumption DEF PluginNext
  <2>22. CASE PluginLast
    <3>1. todo' \in 0..MaxPlugins
      BY <2>22, BoundsAssumption DEF PluginLast
    <3>2. imsi' \in Perhaps
      BY <2>22 DEF PluginLast, Cleared, Perhaps
    <3> QED BY <2>22, <3>1, <3>2, IdleTypes, UnchangedTypes DEF PluginLast
  <2>23. CASE Timeout
    BY <2>23, UnchangedTypes DEF Timeout
  <2>24. CASE Signal
    BY <2>24, UnchangedTypes DEF Signal, Quit
  <2>25. CASE NameLost
    BY <2>25, UnchangedTypes DEF NameLost, Quit
  <2> QED
    BY <2>1, <2>2, <2>3, <2>4, <2>5, <2>6, <2>7, <2>8, <2>9, <2>10, <2>11, <2>12, <2>13, <2>14,
       <2>15, <2>16, <2>17, <2>18, <2>19, <2>20, <2>21, <2>22, <2>23, <2>24, <2>25
    DEF Next, Loop, Plugins, Leave
<1> QED BY <1>1, <1>2, PTL DEF Spec

-----------------------------------------------------------------------------
(* Sessions.  A step of provman that moves the holder or the queue is one   *)
(* of the four steps of SessionLock; SessionLock keeps the queue in order.  *)

(* prv_session_finished is HandOver.  It may also be called when nobody has *)
(* the session; then nobody waits for it, and it changes nothing.           *)
LEMMA FinishedHandsOver ==
    ASSUME TypeOK, WaitersHaveHolder, SessionFinished
    PROVE  Lock!HandOver \/ UNCHANGED <<holder, queue>>
<1>1. CASE holder = NoClient
  BY <1>1 DEF SessionFinished, NextInLine, WaitersHaveHolder
<1>2. CASE holder # NoClient
  BY <1>2 DEF SessionFinished, NextInLine, Lock!HandOver
<1> QED BY <1>1, <1>2

(* What a step does to the holder and the queue. *)
LEMMA StepOfLock ==
    ASSUME TypeOK, WaitersHaveHolder, [Next]_vars
    PROVE  [Lock!Next]_<<holder, queue>>
<1>1. CASE UNCHANGED vars
  BY <1>1 DEF vars, session
<1>2. ASSUME NEW c \in Clients, StartFirst(c) PROVE Lock!Next
  <2>1. Lock!Acquire(c)
    BY <1>2 DEF StartFirst, Lock!Acquire
  <2> QED BY <2>1 DEF Lock!Next
<1>3. ASSUME NEW c \in Clients, StartQueued(c) PROVE Lock!Next
  <2>1. Lock!Wait(c)
    BY <1>3 DEF StartQueued, Known, Range, Lock!Range, Lock!Wait
  <2> QED BY <2>1 DEF Lock!Next
<1>4. CASE ProcessAbort \/ CompleteSyncOut
  BY <1>4, FinishedHandsOver DEF ProcessAbort, CompleteSyncOut, Lock!Next
<1>5. CASE Exit
  BY <1>5 DEF Exit, Lock!Shutdown, Lock!Next
<1>6. ASSUME NEW c \in Clients, Info(c) \/ Die(c) PROVE UNCHANGED <<holder, queue>>
  BY <1>6 DEF Info, Die, session
<1>7. ASSUME NEW c \in Clients, NEW t \in SessionTasks, SessionCall(c, t)
      PROVE  UNCHANGED <<holder, queue>>
  BY <1>7 DEF SessionCall
<1>8. CASE LostClient \/ Iterate \/ Plugins \/ Timeout \/ Leave
  BY <1>8 DEF LostClient, Iterate, Plugins, PluginNext, PluginLast, Timeout, Leave, Signal,
              NameLost, Quit, session
<1>9. CASE ProcessNone \/ ProcessSyncIn \/ ProcessInfo \/ ProcessRefused
  BY <1>9 DEF ProcessNone, ProcessSyncIn, ProcessInfo, ProcessRefused, session
<1>10. CASE ProcessCommandNow \/ ProcessCommandAfterSync \/ ProcessSyncOutNow \/ ProcessSyncOut
  BY <1>10 DEF ProcessCommandNow, ProcessCommandAfterSync, ProcessSyncOutNow, ProcessSyncOut, session
<1>11. CASE CompleteCommand
  BY <1>11 DEF CompleteCommand, session
<1> QED
  BY <1>1, <1>2, <1>3, <1>4, <1>5, <1>6, <1>7, <1>8, <1>9, <1>10, <1>11 DEF Next, Loop

NoneTwice(q) == \A i, j \in DOMAIN q : q[i] = q[j] => i = j

(* A client that is appended to a queue it is not in is in it once. *)
LEMMA AppendKeepsOrder ==
    ASSUME NEW q \in Seq(Clients), NEW c, c \notin Range(q), NoneTwice(q)
    PROVE  NoneTwice(Append(q, c)) /\ \A d : d \in Range(Append(q, c)) => d \in Range(q) \/ d = c
<1>1. /\ DOMAIN q = 1..Len(q) /\ Len(q) \in Nat
      /\ DOMAIN Append(q, c) = 1..(Len(q) + 1)
  OBVIOUS
<1>2. /\ \A i \in 1..Len(q) : Append(q, c)[i] = q[i]
      /\ Append(q, c)[Len(q) + 1] = c
  OBVIOUS
<1> DEFINE new == Append(q, c)
<1> HIDE DEF new
<1>3. DOMAIN new = 1..(Len(q) + 1) /\ (\A i \in 1..Len(q) : new[i] = q[i]) /\ new[Len(q) + 1] = c
  BY <1>1, <1>2 DEF new
<1>4. \A i \in 1..Len(q) : q[i] # c /\ q[i] \in Range(q)
  BY <1>1 DEF Range
<1>5. \A i \in 1..(Len(q) + 1) : i \in 1..Len(q) \/ i = Len(q) + 1
  BY <1>1
<1>6. ASSUME NEW i \in DOMAIN new, NEW j \in DOMAIN new, new[i] = new[j] PROVE i = j
  <2>1. CASE i \in 1..Len(q) /\ j \in 1..Len(q)
    <3>1. q[i] = q[j]
      BY <1>3, <1>6, <2>1
    <3> QED BY <1>1, <2>1, <3>1 DEF NoneTwice
  <2>2. CASE i = Len(q) + 1 \/ j = Len(q) + 1
    BY <1>3, <1>4, <1>5, <1>6, <2>2
  <2> QED BY <1>3, <1>5, <2>1, <2>2
<1>7. ASSUME NEW i \in DOMAIN new PROVE new[i] \in Range(q) \/ new[i] = c
  BY <1>3, <1>4, <1>5
<1>8. \A d : d \in Range(new) => d \in Range(q) \/ d = c
  BY <1>7 DEF Range
<1> QED BY <1>6, <1>8 DEF NoneTwice, new

(* The first of a queue nobody is in twice is not in the rest of it. *)
LEMMA TailKeepsOrder ==
    ASSUME NEW q \in Seq(Clients), q # <<>>, NoneTwice(q)
    PROVE  NoneTwice(Tail(q)) /\ Head(q) \notin Range(Tail(q)) /\ Head(q) \in Clients
<1>1. /\ DOMAIN q = 1..Len(q) /\ Len(q) \in Nat \ {0}
      /\ DOMAIN Tail(q) = 1..(Len(q) - 1)
      /\ \A i \in 1..(Len(q) - 1) : Tail(q)[i] = q[i + 1]
      /\ Head(q) = q[1] /\ Head(q) \in Clients
  BY HeadTailProperties, LenProperties, EmptySeq
<1> DEFINE rest == Tail(q)
<1> HIDE DEF rest
<1>2. DOMAIN rest = 1..(Len(q) - 1) /\ \A i \in 1..(Len(q) - 1) : rest[i] = q[i + 1] /\ i + 1 \in DOMAIN q /\ i + 1 # 1
  BY <1>1 DEF rest
<1>3. ASSUME NEW i \in DOMAIN rest PROVE rest[i] # Head(q)
  <2>1. i + 1 \in DOMAIN q /\ 1 \in DOMAIN q /\ i + 1 # 1 /\ rest[i] = q[i + 1]
    BY <1>1, <1>2
  <2>2. q[i + 1] # q[1]
    BY <2>1 DEF NoneTwice
  <2> QED BY <1>1, <2>1, <2>2
<1>4. ASSUME NEW i \in DOMAIN rest, NEW j \in DOMAIN rest, rest[i] = rest[j] PROVE i = j
  <2>1. i + 1 \in DOMAIN q /\ j + 1 \in DOMAIN q /\ q[i + 1] = q[j + 1]
    BY <1>2, <1>4
  <2>2. i + 1 = j + 1
    BY <2>1 DEF NoneTwice
  <2>3. i \in Nat /\ j \in Nat
    BY <1>1, <1>2
  <2> QED BY <2>2, <2>3
<1>5. Head(q) \notin Range(rest)
  BY <1>3 DEF Range
<1> QED BY <1>1, <1>4, <1>5 DEF NoneTwice, rest

(* The steps of SessionLock keep the queue free of its holder and of        *)
(* repetitions, and empty when there is no holder.                          *)
LEMMA LockKeepsQueue ==
    ASSUME queue \in Seq(Clients), WaitersHaveHolder, [Lock!Next]_<<holder, queue>>
    PROVE  WaitersHaveHolder'
<1>a. (holder = NoClient => queue = <<>>) /\ holder \notin Range(queue) /\ NoneTwice(queue)
  BY DEF WaitersHaveHolder, NoneTwice
<1>b. ASSUME holder' = NoClient => queue' = <<>>, holder' \notin Range(queue'), NoneTwice(queue')
      PROVE  WaitersHaveHolder'
  BY <1>b DEF WaitersHaveHolder, NoneTwice
<1>c. NoneTwice(<<>>) /\ \A d : d \notin Range(<<>>)
  BY DEF NoneTwice, Range
<1>1. CASE UNCHANGED <<holder, queue>>
  BY <1>1 DEF WaitersHaveHolder
<1>2. ASSUME NEW c \in Clients, Lock!Acquire(c) PROVE WaitersHaveHolder'
  <2>1. holder' = c /\ queue' = <<>> /\ c # NoClient
    BY <1>a, <1>2, NoClientAssumption DEF Lock!Acquire
  <2> QED BY <1>b, <1>c, <2>1
<1>3. ASSUME NEW c \in Clients, Lock!Wait(c) PROVE WaitersHaveHolder'
  <2>1. c \notin Range(queue) /\ holder # NoClient /\ holder # c
    BY <1>3 DEF Lock!Wait, Lock!Range, Range
  <2>2. queue' = Append(queue, c) /\ holder' = holder
    BY <1>3 DEF Lock!Wait
  <2>3. NoneTwice(Append(queue, c)) /\ holder \notin Range(Append(queue, c))
    BY <1>a, <2>1, AppendKeepsOrder
  <2> QED BY <1>b, <2>1, <2>2, <2>3
<1>4. CASE Lock!HandOver /\ queue = <<>>
  <2>1. holder' = NoClient /\ queue' = <<>>
    BY <1>4 DEF Lock!HandOver
  <2> QED BY <1>b, <1>c, <2>1
<1>5. CASE Lock!HandOver /\ queue # <<>>
  <2>1. holder' = Head(queue) /\ queue' = Tail(queue)
    BY <1>5 DEF Lock!HandOver
  <2>2. NoneTwice(Tail(queue)) /\ Head(queue) \notin Range(Tail(queue)) /\ Head(queue) \in Clients
    BY <1>a, <1>5, TailKeepsOrder
  <2>3. holder' # NoClient
    BY <2>1, <2>2, NoClientAssumption
  <2> QED BY <1>b, <2>1, <2>2, <2>3
<1>6. CASE Lock!Shutdown
  <2>1. holder' = NoClient /\ queue' = <<>>
    BY <1>6 DEF Lock!Shutdown
  <2> QED BY <1>b, <1>c, <2>1
<1> QED BY <1>1, <1>2, <1>3, <1>4, <1>5, <1>6 DEF Lock!Next

(* Nobody waits for a free session, for its own, or twice: by itself not    *)
(* inductive, for that the queue is a sequence of clients is needed too.    *)
THEOREM QueueCorrect == Spec => []WaitersHaveHolder
<1>1. Init => WaitersHaveHolder
  BY DEF Init, WaitersHaveHolder, Range
<1>2. TypeOK /\ WaitersHaveHolder /\ [Next]_vars => WaitersHaveHolder'
  BY StepOfLock, LockKeepsQueue DEF TypeOK
<1> QED BY <1>1, <1>2, TypeCorrect, PTL DEF Spec

(* Provman implements SessionLock: sessions are had in turn. *)
THEOREM ImplementsSessionLock == Spec => SessionsInTurn
<1>1. Init => Lock!Init
  BY DEF Init, Lock!Init
<1>2. TypeOK /\ WaitersHaveHolder /\ [Next]_vars => [Lock!Next]_Lock!vars
  BY StepOfLock DEF Lock!vars
<1> QED BY <1>1, <1>2, TypeCorrect, QueueCorrect, PTL DEF Spec, SessionsInTurn, Lock!Spec

-----------------------------------------------------------------------------
(* The main loop, whatever clients do: a provman nobody needs has a timer   *)
(* armed, and no call is answered twice.                                    *)

(* Idle sources that are attached, be it for this iteration or the next. *)

InLine(source) == source \in Range(batch) \/ source \in Range(idle)

(* What an appended, a removed and a put back source do to a list of them.  *)
LEMMA RangeOfAppend ==
    ASSUME NEW S, NEW s \in Seq(S), NEW x \in S
    PROVE  Range(Append(s, x)) = Range(s) \cup {x}
<1>1. /\ DOMAIN s = 1..Len(s) /\ Len(s) \in Nat
      /\ DOMAIN Append(s, x) = 1..(Len(s) + 1)
      /\ \A i \in 1..Len(s) : Append(s, x)[i] = s[i]
      /\ Append(s, x)[Len(s) + 1] = x
  OBVIOUS
<1>2. \A i \in 1..(Len(s) + 1) : i \in 1..Len(s) \/ i = Len(s) + 1
  BY <1>1
<1>3. \A i \in 1..Len(s) : i \in 1..(Len(s) + 1)
  BY <1>1
<1>4. Len(s) + 1 \in 1..(Len(s) + 1)
  BY <1>1
<1> QED BY <1>1, <1>2, <1>3, <1>4 DEF Range

LEMMA RangeOfTail ==
    ASSUME NEW S, NEW s \in Seq(S), s # <<>>, NEW x \in Range(s), x # Head(s)
    PROVE  x \in Range(Tail(s))
<1>1. PICK i \in 1..Len(s) : s[i] = x
  BY DEF Range
<1>2. i # 1
  BY <1>1
<1>3. i - 1 \in DOMAIN Tail(s) /\ Tail(s)[i - 1] = x
  BY <1>1, <1>2
<1> QED BY <1>3 DEF Range

LEMMA RangeOfPutBack ==
    ASSUME NEW S, NEW s \in Seq(S), NEW x \in S
    PROVE  Range(<<x>> \o s) = {x} \cup Range(s)
<1>1. /\ DOMAIN s = 1..Len(s) /\ Len(s) \in Nat
      /\ DOMAIN (<<x>> \o s) = 1..(1 + Len(s))
      /\ (<<x>> \o s)[1] = x
      /\ \A i \in 1..Len(s) : (<<x>> \o s)[i + 1] = s[i]
  OBVIOUS
<1>2. ASSUME NEW i \in 1..(1 + Len(s)), i # 1 PROVE (<<x>> \o s)[i] \in Range(s)
  <2>1. i - 1 \in 1..Len(s) /\ i = (i - 1) + 1
    BY <1>1, <1>2
  <2>2. (<<x>> \o s)[i] = s[i - 1]
    BY <1>1, <2>1
  <2> QED BY <1>1, <2>1, <2>2 DEF Range
<1>3. 1 \in 1..(1 + Len(s)) /\ \A i \in 1..Len(s) : i + 1 \in 1..(1 + Len(s))
  BY <1>1
<1>4. Range(<<x>> \o s) \subseteq {x} \cup Range(s)
  BY <1>1, <1>2 DEF Range
<1>5. x \in Range(<<x>> \o s)
  BY <1>1, <1>3 DEF Range
<1>6. ASSUME NEW y \in Range(s) PROVE y \in Range(<<x>> \o s)
  <2>1. PICK i \in 1..Len(s) : s[i] = y
    BY <1>6 DEF Range
  <2>2. i + 1 \in DOMAIN (<<x>> \o s) /\ (<<x>> \o s)[i + 1] = y
    BY <1>1, <1>3, <2>1
  <2> QED BY <2>2 DEF Range
<1> QED BY <1>4, <1>5, <1>6

-----------------------------------------------------------------------------
(* Why an unused provman has a timer.  A recorded idle source is attached;  *)
(* a busy manager has a plugin at work or a completion attached; and unless *)
(* a timer is armed, something that will lead to prv_process_task is under  *)
(* way as long as nobody has the session.                                   *)

RecordedIsInLine == idleId => InLine("process")

BusyHasWork ==
    /\ Busy => todo > 0 \/ completion
    /\ completion => InLine("complete")

WakesOrLeaves ==
    running /\ holder = NoClient
        => timer \/ stray \/ InLine("process") \/ InLine("complete") \/ todo > 0

LoopInv == Live => RecordedIsInLine /\ BusyHasWork /\ WakesOrLeaves

(* prv_add_task attaches a source unless one is recorded or is not needed.  *)
LEMMA WokenKeepsLine ==
    ASSUME TypeOK
    PROVE  /\ Range(idle) \subseteq Range(Woken) /\ Range(idle) \subseteq Range(WokenByGrant)
           /\ ~idleId /\ ~Busy => "process" \in Range(Woken)
<1>1. idle \in Seq(Sources) /\ "process" \in Sources
  BY DEF TypeOK, Sources
<1>2. Range(Append(idle, "process")) = Range(idle) \cup {"process"}
  BY <1>1, RangeOfAppend
<1> QED BY <1>2 DEF Woken, WokenByGrant

LEMMA ScheduledKeepsLine ==
    ASSUME TypeOK
    PROVE  /\ Range(idle) \subseteq Range(Scheduled)
           /\ ~completion => "complete" \in Range(Scheduled)
<1>1. idle \in Seq(Sources) /\ "complete" \in Sources
  BY DEF TypeOK, Sources
<1>2. Range(Append(idle, "complete")) = Range(idle) \cup {"complete"}
  BY <1>1, RangeOfAppend
<1> QED BY <1>2 DEF Scheduled

(* A dispatched source is the only one that leaves the line. *)
LEMMA DispatchKeepsLine ==
    ASSUME TypeOK, NEW source, Dispatching(source), NEW other \in Range(batch), other # source
    PROVE  other \in Range(batch')
BY RangeOfTail DEF TypeOK, Dispatching

(* A task that is added keeps the invariant, whatever becomes of a timer as *)
(* long as it is armed or somebody has the session.                         *)
LEMMA AddTaskKeepsLoop ==
    ASSUME TypeOK, LoopInv, Live, NEW t, AddTask(t),
           UNCHANGED <<batch, manager, running, stray>>
    PROVE  /\ RecordedIsInLine' /\ BusyHasWork'
           /\ WakesOrLeaves'
<1> USE DEF LoopInv, InLine
<1>1. Range(idle) \subseteq Range(idle')
  BY WokenKeepsLine DEF AddTask
<1>2. ~idleId /\ ~Busy => "process" \in Range(idle')
  BY WokenKeepsLine DEF AddTask
<1>3. BusyHasWork'
  BY <1>1 DEF BusyHasWork, Busy, manager
<1>4. RecordedIsInLine'
  BY <1>1, <1>2 DEF RecordedIsInLine, AddTask
<1>5. InLine("process")' \/ todo' > 0 \/ InLine("complete")'
  BY <1>1, <1>2 DEF RecordedIsInLine, BusyHasWork, manager
<1>6. WakesOrLeaves'
  BY <1>5 DEF WakesOrLeaves
<1> QED BY <1>3, <1>4, <1>6

(* prv_process_task leaves with a timer, keeps its source, or stays for the *)
(* holder.                                                                  *)
LEMMA SettleKeepsLoop ==
    ASSUME TypeOK, LoopInv, Live, Dispatching("process"),
           NEW ts, NEW i \in Seq(Sources), Range(idle) \subseteq Range(i),
           Settle(ts, holder', i, idleId),
           UNCHANGED <<mstate, completion, todo, running>>
    PROVE  RecordedIsInLine' /\ BusyHasWork' /\ WakesOrLeaves'
<1> USE DEF LoopInv, InLine
<1>1. Range(<<"process">> \o i) = {"process"} \cup Range(i)
  BY RangeOfPutBack DEF Sources
<1>2. Range(i) \subseteq Range(idle')
  BY <1>1 DEF Settle
<1>3. "complete" \in Range(batch) => "complete" \in Range(batch')
  BY DispatchKeepsLine
<1>4. BusyHasWork'
  BY <1>2, <1>3 DEF BusyHasWork, Busy
<1>5. RecordedIsInLine'
  BY <1>1 DEF Settle, RecordedIsInLine
<1>6. WakesOrLeaves'
  BY <1>1 DEF Settle, WakesOrLeaves, ArmTimer
<1> QED BY <1>4, <1>5, <1>6

(* One step per action of Next. *)
LEMMA NextLoop ==
    ASSUME TypeOK, LoopInv, [Next]_vars
    PROVE  LoopInv'
<1> SUFFICES ASSUME Live' PROVE RecordedIsInLine' /\ BusyHasWork' /\ WakesOrLeaves'
  BY DEF LoopInv
<1> USE DEF LoopInv, InLine
<1> DEFINE Parts == RecordedIsInLine /\ BusyHasWork /\ WakesOrLeaves
<1>1. CASE UNCHANGED vars
  BY <1>1 DEF vars, session, timers, manager, process, Live, RecordedIsInLine, BusyHasWork,
              WakesOrLeaves, Busy
<1>2. ASSUME NEW c \in Clients, StartFirst(c) PROVE Parts'
  BY <1>2, AddTaskKeepsLoop DEF StartFirst, Calls, BetweenIterations, process
<1>3. ASSUME NEW c \in Clients, StartQueued(c) PROVE Parts'
  BY <1>3 DEF StartQueued, Calls, BetweenIterations, timers, manager, process, RecordedIsInLine,
              BusyHasWork, WakesOrLeaves, Busy
<1>4. ASSUME NEW c \in Clients, Info(c) PROVE Parts'
  BY <1>4, AddTaskKeepsLoop DEF Info, Calls, BetweenIterations, process
<1>5. ASSUME NEW c \in Clients, Die(c) PROVE Parts'
  BY <1>5 DEF Die, session, timers, manager, process, RecordedIsInLine, BusyHasWork, WakesOrLeaves, Busy
<1>6. ASSUME NEW c \in Clients, NEW t \in SessionTasks, SessionCall(c, t) PROVE Parts'
  BY <1>6, AddTaskKeepsLoop DEF SessionCall, Calls, BetweenIterations, process, timers
<1>7. CASE LostClient
  <2>1. Live /\ UNCHANGED <<batch, manager, running, stray, timer, holder>>
    BY <1>7 DEF LostClient, BetweenIterations, process, timers
  <2>2. CASE UNCHANGED <<tasks, idle, idleId>>
    BY <2>1, <2>2 DEF manager, RecordedIsInLine, BusyHasWork, WakesOrLeaves, Busy
  <2>3. CASE AddTask(CallTask("SYNC_OUT", NoClient))
    BY <2>1, <2>3, AddTaskKeepsLoop
  <2> QED BY <1>7, <2>2, <2>3 DEF LostClient, EndForHolder
<1>8. CASE Iterate
  <2>1. Live /\ batch = <<>> /\ batch' = idle /\ UNCHANGED <<session, idleId, timers, manager, process>>
    BY <1>8 DEF Iterate, BetweenIterations
  <2>2. Range(batch) = {}
    BY <2>1 DEF Range
  <2> QED BY <2>1, <2>2 DEF session, timers, manager, process, RecordedIsInLine, BusyHasWork, WakesOrLeaves, Busy
<1>9. idle \in Seq(Sources) /\ Woken \in Seq(Sources) /\ WokenByGrant \in Seq(Sources)
  BY IdleTypes DEF TypeOK
<1>10. CASE ProcessNone
  BY <1>9, <1>10, SettleKeepsLoop DEF ProcessNone, Dispatching, session, manager, process
<1>11. CASE ProcessSyncIn
  BY <1>9, <1>11, SettleKeepsLoop DEF ProcessSyncIn, Running, Dispatching, session, process
<1>12. CASE ProcessAbort
  <2>1. Range(idle) \subseteq Range(WokenByGrant)
    BY WokenKeepsLine
  <2> QED BY <1>9, <1>12, <2>1, SettleKeepsLoop
          DEF ProcessAbort, Running, Dispatching, SessionFinished, process
<1>13. CASE ProcessInfo
  BY <1>9, <1>13, SettleKeepsLoop DEF ProcessInfo, Running, Dispatching, session, manager, process
<1>14. CASE ProcessRefused
  BY <1>9, <1>14, SettleKeepsLoop DEF ProcessRefused, Running, Dispatching, session, manager, process
<1>15. ASSUME Dispatching("process") PROVE "complete" \in Range(batch) => "complete" \in Range(batch')
  BY <1>15, DispatchKeepsLine
<1>16. CASE ProcessCommandNow \/ ProcessSyncOutNow
  <2>1. /\ Dispatching("process") /\ Live /\ completion' = TRUE
        /\ idle' = Scheduled /\ idleId' = FALSE
    BY <1>16 DEF ProcessCommandNow, ProcessSyncOutNow, RunsOn, Running, Dispatching
  <2>2. InLine("complete")'
    BY <1>15, <2>1, ScheduledKeepsLine DEF BusyHasWork
  <2> QED BY <2>1, <2>2 DEF RecordedIsInLine, BusyHasWork, WakesOrLeaves
<1>17. CASE ProcessCommandAfterSync \/ ProcessSyncOut
  <2>1. /\ Dispatching("process") /\ Live /\ todo' \in 1..MaxPlugins /\ UNCHANGED completion
        /\ idle' = idle /\ idleId' = FALSE
    BY <1>17 DEF ProcessCommandAfterSync, ProcessSyncOut, RunsOn, Running, Dispatching
  <2>2. todo' > 0
    BY <2>1, BoundsAssumption
  <2>3. completion => InLine("complete")'
    BY <1>15, <2>1 DEF BusyHasWork
  <2> QED BY <2>1, <2>2, <2>3 DEF RecordedIsInLine, BusyHasWork, WakesOrLeaves
<1>18. CASE CompleteCommand \/ CompleteSyncOut
  <2>1. /\ Range(Append(idle, "process")) = Range(idle) \cup {"process"}
        /\ Range(Append(WokenByGrant, "process")) = Range(WokenByGrant) \cup {"process"}
    <3>1. "process" \in Sources
      BY DEF Sources
    <3> QED BY <1>9, <3>1, RangeOfAppend
  <2>2. completion' = FALSE /\ ~Busy'
    BY <1>18 DEF CompleteCommand, CompleteSyncOut, Completing, Busy
  <2>3. "process" \in Range(idle')
    BY <1>18, <2>1 DEF CompleteCommand, CompleteSyncOut
  <2> QED BY <2>2, <2>3 DEF RecordedIsInLine, BusyHasWork, WakesOrLeaves
<1>19. CASE Exit \/ Timeout
  BY <1>19 DEF Exit, Timeout, Live, manager, session, BetweenIterations, RecordedIsInLine, BusyHasWork,
               WakesOrLeaves, Busy
<1>20. CASE PluginNext
  BY <1>20 DEF PluginNext, TypeOK, session, timers, process, RecordedIsInLine, BusyHasWork, WakesOrLeaves,
               Busy
<1>21. CASE PluginLast
  <2>1. InLine("complete")'
    BY <1>21, ScheduledKeepsLine DEF PluginLast, BusyHasWork
  <2>2. Live /\ idleId' = idleId /\ batch' = batch /\ Range(idle) \subseteq Range(idle') /\ completion' = TRUE
    BY <1>21, ScheduledKeepsLine DEF PluginLast
  <2> QED BY <2>1, <2>2 DEF RecordedIsInLine, BusyHasWork, WakesOrLeaves
<1>22. CASE Leave
  <2>1. /\ Live /\ UNCHANGED <<session, tasks, idleId, timers, idle, batch, manager>>
        /\ running' => running
    BY <1>22 DEF Leave, Signal, NameLost, Quit, BetweenIterations
  <2> QED BY <2>1 DEF session, timers, manager, RecordedIsInLine, BusyHasWork, WakesOrLeaves, Busy
<1> QED
  BY <1>1, <1>2, <1>3, <1>4, <1>5, <1>6, <1>7, <1>8, <1>10, <1>11, <1>12, <1>13, <1>14, <1>16, <1>17,
     <1>18, <1>19, <1>20, <1>21, <1>22
  DEF Next, Loop, Plugins

(* Whatever clients do, a provman that nobody needs has a timer armed: no   *)
(* order of prv_reset_startup_timer and prv_process_task leaves it idle for *)
(* ever.  The invariant does not follow from its own parts: that no source  *)
(* is recorded without being attached is needed as well.                    *)
THEOREM UnusedLeaves == Spec => []UnusedHasTimer
<1>1. Init => LoopInv
  BY DEF Init, LoopInv, RecordedIsInLine, BusyHasWork, WakesOrLeaves, Busy
<1>2. TypeOK /\ LoopInv /\ [Next]_vars => LoopInv'
  BY NextLoop
<1>3. TypeOK /\ LoopInv => UnusedHasTimer
  BY DEF LoopInv, WakesOrLeaves, UnusedHasTimer, BetweenIterations, InLine, Range, TypeOK
<1> QED BY <1>1, <1>2, <1>3, TypeCorrect, PTL DEF Spec

-----------------------------------------------------------------------------
(* Counting the elements of a list that are in a set. *)

Occurrences(s, S) == Cardinality({i \in DOMAIN s : s[i] \in S})

LEMMA OccurrencesType ==
    ASSUME NEW A, NEW s \in Seq(A), NEW S
    PROVE  IsFiniteSet({i \in DOMAIN s : s[i] \in S}) /\ Occurrences(s, S) \in Nat
<1>1. DOMAIN s = 1..Len(s) /\ Len(s) \in Int /\ 1 \in Int
  OBVIOUS
<1>2. IsFiniteSet(DOMAIN s)
  BY <1>1, FS_Interval
<1>3. IsFiniteSet({i \in DOMAIN s : s[i] \in S})
  BY <1>2, FS_Subset, {i \in DOMAIN s : s[i] \in S} \subseteq DOMAIN s
<1> QED BY <1>3, FS_CardinalityType DEF Occurrences

LEMMA OccurrencesInEmpty == \A S : Occurrences(<<>>, S) = 0
<1> TAKE S
<1>1. {i \in DOMAIN <<>> : <<>>[i] \in S} = {}
  OBVIOUS
<1> QED BY <1>1, FS_EmptySet DEF Occurrences

LEMMA OccurrencesAfterAppend ==
    ASSUME NEW A, NEW s \in Seq(A), NEW x \in A, NEW S
    PROVE  Occurrences(Append(s, x), S) = Occurrences(s, S) + (IF x \in S THEN 1 ELSE 0)
<1> DEFINE n == Len(s)
           Old == {i \in DOMAIN s : s[i] \in S}
           New == {i \in DOMAIN Append(s, x) : Append(s, x)[i] \in S}
<1>1. /\ DOMAIN s = 1..n /\ n \in Nat /\ DOMAIN Append(s, x) = 1..(n + 1)
      /\ \A i \in 1..n : Append(s, x)[i] = s[i]
      /\ Append(s, x)[n + 1] = x
  OBVIOUS
<1>2. /\ \A i : i \in 1..(n + 1) <=> i \in 1..n \/ i = n + 1
      /\ n + 1 \notin 1..n
  BY <1>1
<1>3. IsFiniteSet(Old) /\ n + 1 \notin Old /\ Cardinality(Old) \in Nat
  BY <1>1, <1>2, OccurrencesType DEF Occurrences
<1>4. CASE x \in S
  <2>1. New = Old \cup {n + 1}
    BY <1>1, <1>2, <1>4
  <2> HIDE DEF Old, New
  <2>2. Cardinality(New) = Cardinality(Old) + 1
    BY <1>3, <2>1, FS_AddElement
  <2> QED BY <1>4, <2>2 DEF Occurrences, Old, New
<1>5. CASE x \notin S
  <2>1. New = Old
    BY <1>1, <1>2, <1>5
  <2>2. Cardinality(Old) + 0 = Cardinality(Old)
    BY <1>3
  <2> HIDE DEF Old, New
  <2> QED BY <1>5, <2>1, <2>2 DEF Occurrences, Old, New
<1> QED BY <1>4, <1>5

LEMMA OccurrencesInTail ==
    ASSUME NEW A, NEW s \in Seq(A), s # <<>>, NEW S
    PROVE  Occurrences(s, S) = Occurrences(Tail(s), S) + (IF Head(s) \in S THEN 1 ELSE 0)
<1> DEFINE n == Len(s)
           Old == {i \in DOMAIN s : s[i] \in S}
           New == {i \in DOMAIN Tail(s) : Tail(s)[i] \in S}
           shift == [i \in New |-> i + 1]
<1>1. /\ DOMAIN s = 1..n /\ n \in Nat \ {0} /\ DOMAIN Tail(s) = 1..(n - 1)
      /\ \A i \in 1..(n - 1) : Tail(s)[i] = s[i + 1]
      /\ Head(s) = s[1] /\ Tail(s) \in Seq(A)
  OBVIOUS
<1>2. /\ \A i \in 1..n : i # 1 => i - 1 \in 1..(n - 1) /\ (i - 1) + 1 = i
      /\ \A i \in 1..(n - 1) : i + 1 \in 1..n /\ i + 1 # 1
      /\ \A i, j \in 1..(n - 1) : i + 1 = j + 1 => i = j
      /\ 1 \in 1..n
  BY <1>1
<1>3. IsFiniteSet(New) /\ IsFiniteSet(Old) /\ Cardinality(New) \in Nat /\ Cardinality(Old) \in Nat
  BY <1>1, OccurrencesType DEF Occurrences
<1>4. shift \in Bijection(New, Old \ {1})
  <2>1. shift \in [New -> Old \ {1}]
    BY <1>1, <1>2
  <2>2. \A i, j \in New : shift[i] = shift[j] => i = j
    BY <1>1, <1>2
  <2>3. \A j \in Old \ {1} : \E i \in New : shift[i] = j
    <3> TAKE j \in Old \ {1}
    <3>1. j - 1 \in 1..(n - 1) /\ (j - 1) + 1 = j
      BY <1>1, <1>2
    <3>2. j - 1 \in New
      BY <1>1, <3>1
    <3> QED BY <3>1, <3>2
  <2> HIDE DEF shift, Old, New
  <2> QED BY <2>1, <2>2, <2>3, Fun_IsBij
<1>5. Cardinality(New) = Cardinality(Old \ {1})
  <2> HIDE DEF shift, Old, New
  <2> QED BY <1>3, <1>4, FS_Bijection DEF ExistsBijection
<1>6. 1 \in Old <=> Head(s) \in S
  BY <1>1, <1>2
<1> HIDE DEF Old, New
<1>7. Cardinality(Old \ {1}) = IF 1 \in Old THEN Cardinality(Old) - 1 ELSE Cardinality(Old)
  BY <1>3, FS_RemoveElement
<1>8. Cardinality(Old) = Cardinality(New) + (IF 1 \in Old THEN 1 ELSE 0)
  BY <1>3, <1>5, <1>7
<1> QED BY <1>6, <1>8 DEF Occurrences, Old, New

-----------------------------------------------------------------------------
(* The invocations of a client in the lists that provman keeps them in.     *)

From(c) == {t \in Task : t.from = c}

WaitingIn(ts, q, c) == Occurrences(ts, From(c)) + Occurrences(q, {c})

One(x, c) == IF x = c THEN 1 ELSE 0

LEMMA WaitingIsCounted ==
    ASSUME NEW ts \in Seq(Task), NEW q \in Seq(Clients), NEW c
    PROVE  /\ Cardinality({i \in DOMAIN ts : ts[i].from = c}) + Cardinality({i \in DOMAIN q : q[i] = c})
                 = WaitingIn(ts, q, c)
           /\ WaitingIn(ts, q, c) \in Nat
<1>1. {i \in DOMAIN ts : ts[i].from = c} = {i \in DOMAIN ts : ts[i] \in From(c)}
  <2>1. \A i \in DOMAIN ts : ts[i] \in Task
    OBVIOUS
  <2> QED BY <2>1 DEF From
<1>2. {i \in DOMAIN q : q[i] = c} = {i \in DOMAIN q : q[i] \in {c}}
  OBVIOUS
<1>3. Occurrences(ts, From(c)) \in Nat /\ Occurrences(q, {c}) \in Nat
  BY OccurrencesType
<1>4. /\ Cardinality({i \in DOMAIN ts : ts[i].from = c}) = Occurrences(ts, From(c))
      /\ Cardinality({i \in DOMAIN q : q[i] = c}) = Occurrences(q, {c})
  BY <1>1, <1>2 DEF Occurrences
<1> QED BY <1>3, <1>4 DEF WaitingIn

(* prv_add_task, g_ptr_array_remove_index and the queue of Start calls each *)
(* move one invocation.                                                     *)
LEMMA WaitingMoves ==
    ASSUME NEW ts \in Seq(Task), NEW q \in Seq(Clients), NEW c
    PROVE  /\ \A t \in Task : WaitingIn(Append(ts, t), q, c) = WaitingIn(ts, q, c) + One(t.from, c)
           /\ ts # <<>> => WaitingIn(ts, q, c) = WaitingIn(Tail(ts), q, c) + One(Head(ts).from, c)
           /\ \A d \in Clients : WaitingIn(ts, Append(q, d), c) = WaitingIn(ts, q, c) + One(d, c)
           /\ q # <<>> => WaitingIn(ts, q, c) = WaitingIn(ts, Tail(q), c) + One(Head(q), c)
           /\ WaitingIn(<<>>, <<>>, c) = 0
<1>1. Occurrences(ts, From(c)) \in Nat /\ Occurrences(q, {c}) \in Nat
  BY OccurrencesType
<1>2. ASSUME NEW t \in Task
      PROVE  WaitingIn(Append(ts, t), q, c) = WaitingIn(ts, q, c) + One(t.from, c)
  <2>1. Occurrences(Append(ts, t), From(c)) = Occurrences(ts, From(c)) + (IF t \in From(c) THEN 1 ELSE 0)
    BY OccurrencesAfterAppend
  <2>2. t \in From(c) <=> t.from = c
    BY DEF From
  <2> QED BY <1>1, <2>1, <2>2 DEF WaitingIn, One
<1>3. ASSUME ts # <<>>
      PROVE  WaitingIn(ts, q, c) = WaitingIn(Tail(ts), q, c) + One(Head(ts).from, c)
  <2>1. /\ Occurrences(ts, From(c))
              = Occurrences(Tail(ts), From(c)) + (IF Head(ts) \in From(c) THEN 1 ELSE 0)
        /\ Head(ts) \in Task /\ Tail(ts) \in Seq(Task)
    BY <1>3, OccurrencesInTail, HeadTailProperties
  <2>2. Head(ts) \in From(c) <=> Head(ts).from = c
    BY <2>1 DEF From
  <2>3. Occurrences(Tail(ts), From(c)) \in Nat
    BY <2>1, OccurrencesType
  <2> QED BY <1>1, <2>1, <2>2, <2>3 DEF WaitingIn, One
<1>4. ASSUME NEW d \in Clients
      PROVE  WaitingIn(ts, Append(q, d), c) = WaitingIn(ts, q, c) + One(d, c)
  <2>1. Occurrences(Append(q, d), {c}) = Occurrences(q, {c}) + (IF d \in {c} THEN 1 ELSE 0)
    BY OccurrencesAfterAppend
  <2> QED BY <1>1, <2>1 DEF WaitingIn, One
<1>5. ASSUME q # <<>>
      PROVE  WaitingIn(ts, q, c) = WaitingIn(ts, Tail(q), c) + One(Head(q), c)
  <2>1. /\ Occurrences(q, {c}) = Occurrences(Tail(q), {c}) + (IF Head(q) \in {c} THEN 1 ELSE 0)
        /\ Tail(q) \in Seq(Clients)
    BY <1>5, OccurrencesInTail, HeadTailProperties
  <2>2. Occurrences(Tail(q), {c}) \in Nat
    BY <2>1, OccurrencesType
  <2> QED BY <1>1, <2>1, <2>2 DEF WaitingIn, One
<1>6. WaitingIn(<<>>, <<>>, c) = 0
  BY OccurrencesInEmpty DEF WaitingIn
<1> QED BY <1>2, <1>3, <1>4, <1>5, <1>6

(* The SYNC_IN task of a granted session answers nobody.                    *)
LEMMA WaitingAfterGrant ==
    ASSUME TypeOK, NEW ts \in Seq(Task), NEW q \in Seq(Clients), NEW c \in Clients
    PROVE  WaitingIn(ts \o Granted, q, c) = WaitingIn(ts, q, c)
<1>1. CASE queue = <<>>
  BY <1>1 DEF Granted
<1>2. CASE queue # <<>>
  <2>1. Head(queue) \in Perhaps
    BY <1>2, HeadTailProperties DEF TypeOK, Perhaps
  <2>2. SyncInTask(Head(queue)) \in Task /\ SyncInTask(Head(queue)).from = NoClient
    BY <2>1, TaskTypes DEF SyncInTask
  <2>3. ts \o Granted = Append(ts, SyncInTask(Head(queue)))
    BY <1>2, <2>2, AppendIsConcat DEF Granted
  <2>4. WaitingIn(ts \o Granted, q, c) = WaitingIn(ts, q, c) + One(NoClient, c)
    BY <2>2, <2>3, WaitingMoves
  <2>5. One(NoClient, c) = 0 /\ WaitingIn(ts, q, c) \in Nat
    BY WaitingIsCounted, NoClientAssumption DEF One
  <2> QED BY <2>4, <2>5
<1> QED BY <1>1, <1>2

-----------------------------------------------------------------------------
(* Why no invocation is answered twice: each step moves the invocation it   *)
(* does not answer, and answers one that was kept.                          *)

LEMMA KeptIsCounted ==
    ASSUME TypeOK, NEW c \in Clients
    PROVE  Waiting(c) = WaitingIn(tasks, queue, c) /\ Kept(c) = WaitingIn(tasks, queue, c) + One(slot.from, c)
<1>1. tasks \in Seq(Task) /\ queue \in Seq(Clients)
  BY DEF TypeOK
<1> QED BY <1>1, WaitingIsCounted DEF Kept, Waiting, One

(* The calls that are answered together with those of x and y. *)
LEMMA AnswerCounts ==
    ASSUME TypeOK, NEW x, NEW y, Answer(x, y), NEW c \in Clients
    PROVE  pending'[c] = pending[c] - (One(x, c) + One(y, c))
BY DEF Answer, Answered, One

(* One step per action of Next. *)
LEMMA NextKeepsCount ==
    ASSUME TypeOK, TypeOK', AnsweredAtMostOnce, [Next]_vars
    PROVE  AnsweredAtMostOnce'
<1> DEFINE Wait(c) == WaitingIn(tasks, queue, c)
           Keep(c) == Wait(c) + One(slot.from, c)
<1>1. /\ \A c \in Clients : Wait(c) \in Nat /\ pending[c] \in Int /\ Keep(c) <= pending[c]
      /\ \A c \in Clients : Wait(c)' \in Nat /\ pending'[c] \in Int
  <2>1. /\ tasks \in Seq(Task) /\ queue \in Seq(Clients) /\ pending \in [Clients -> Int]
        /\ tasks' \in Seq(Task) /\ queue' \in Seq(Clients) /\ pending' \in [Clients -> Int]
    BY DEF TypeOK
  <2> QED BY <2>1, WaitingIsCounted, KeptIsCounted DEF AnsweredAtMostOnce
<1>2. \A x, c : One(x, c) \in {0, 1}
  BY DEF One
<1> SUFFICES ASSUME NEW c \in Clients PROVE Keep(c)' <= pending'[c]
  <2>1. ASSUME NEW c \in Clients PROVE Kept(c)' = Keep(c)'
    <3>1. tasks' \in Seq(Task) /\ queue' \in Seq(Clients)
      BY DEF TypeOK
    <3> QED BY <3>1, WaitingIsCounted DEF Kept, Waiting, One
  <2> QED BY <2>1 DEF AnsweredAtMostOnce
<1>3. /\ tasks \in Seq(Task) /\ queue \in Seq(Clients)
      /\ pending \in [Clients -> Int] /\ c # NoClient
  BY NoClientAssumption DEF TypeOK
<1>4. One(NoClient, c) = 0
  BY <1>3 DEF One
<1>5. ASSUME NEW d \in Clients, NEW t \in Task, t.from = d,
             tasks' = Append(tasks, t), pending' = [pending EXCEPT ![d] = @ + 1], UNCHANGED <<queue, slot>>
      PROVE  Keep(c)' <= pending'[c]
  <2>1. Wait(c)' = Wait(c) + One(d, c)
    BY <1>3, <1>5, WaitingMoves
  <2>2. pending'[c] = pending[c] + One(d, c)
    BY <1>1, <1>3, <1>5 DEF One
  <2> QED BY <1>1, <1>2, <1>5, <2>1, <2>2
<1>6. ASSUME NEW t \in Task, t.from = NoClient,
             tasks' = Append(tasks, t), UNCHANGED <<queue, slot, pending>>
      PROVE  Keep(c)' <= pending'[c]
  <2>1. Wait(c)' = Wait(c)
    BY <1>1, <1>3, <1>4, <1>6, WaitingMoves
  <2> QED BY <1>1, <1>6, <2>1
<1>7. CASE UNCHANGED <<tasks, queue, slot, pending>>
  BY <1>1, <1>7
<1>8. ASSUME NEW d \in Clients, StartFirst(d) PROVE Keep(c)' <= pending'[c]
  <2>1. SyncInTask(d) \in Task /\ SyncInTask(d).from = NoClient
    BY TaskTypes DEF Perhaps, SyncInTask
  <2> QED BY <1>6, <1>8, <2>1 DEF StartFirst, AddTask, manager
<1>9. ASSUME NEW d \in Clients, StartQueued(d) PROVE Keep(c)' <= pending'[c]
  <2>1. queue' = Append(queue, d) /\ UNCHANGED <<tasks, slot>> /\ pending' = [pending EXCEPT ![d] = @ + 1]
    BY <1>9 DEF StartQueued, manager
  <2>2. Wait(c)' = Wait(c) + One(d, c)
    BY <1>3, <2>1, WaitingMoves
  <2>3. pending'[c] = pending[c] + One(d, c)
    BY <1>1, <1>3, <2>1 DEF One
  <2> QED BY <1>1, <1>2, <2>1, <2>2, <2>3
<1>10. ASSUME NEW d \in Clients, NEW t \in {"INFO", "SYNC_OUT", "ABORT", "COMMAND"},
              tasks' = Append(tasks, CallTask(t, d)), pending' = [pending EXCEPT ![d] = @ + 1],
              UNCHANGED <<queue, slot>>
       PROVE  Keep(c)' <= pending'[c]
  <2>1. CallTask(t, d) \in Task /\ CallTask(t, d).from = d
    BY TaskTypes DEF Perhaps, CallTask
  <2> QED BY <1>5, <1>10, <2>1
<1>11. ASSUME NEW d \in Clients, Info(d) PROVE Keep(c)' <= pending'[c]
  BY <1>10, <1>11 DEF Info, AddTask, session, manager
<1>12. ASSUME NEW d \in Clients, NEW t \in SessionTasks, SessionCall(d, t) PROVE Keep(c)' <= pending'[c]
  BY <1>10, <1>12 DEF SessionCall, SessionTasks, AddTask, manager
<1>13. CASE LostClient
  <2>1. CallTask("SYNC_OUT", NoClient) \in Task /\ CallTask("SYNC_OUT", NoClient).from = NoClient
    BY TaskTypes DEF Perhaps, CallTask
  <2>2. UNCHANGED <<queue, slot, pending>>
    BY <1>13 DEF LostClient, manager
  <2> QED BY <1>6, <1>7, <1>13, <2>1, <2>2 DEF LostClient, EndForHolder, AddTask
<1>14. CASE UNCHANGED vars \/ Iterate \/ ProcessNone \/ Plugins \/ Timeout \/ Leave
  BY <1>7, <1>14
  DEF vars, Iterate, ProcessNone, Settle, Plugins, PluginNext, PluginLast, Timeout, Leave, Signal, NameLost,
      Quit, session, manager
<1>15. ASSUME NEW d \in Clients, Die(d) PROVE Keep(c)' <= pending'[c]
  BY <1>7, <1>15 DEF Die, session, manager
<1>16. ASSUME tasks # <<>>, tasks' = Tail(tasks), UNCHANGED queue
       PROVE  Wait(c) = Wait(c)' + One(Head(tasks).from, c)
  BY <1>3, <1>16, WaitingMoves
<1>17. CASE ProcessSyncIn
  BY <1>1, <1>2, <1>16, <1>17 DEF ProcessSyncIn, Running, Settle, session
<1>18. CASE ProcessInfo \/ ProcessRefused
  <2>1. tasks # <<>> /\ tasks' = Tail(tasks) /\ UNCHANGED <<queue, slot>> /\ Answer(Head(tasks).from, NoClient)
    BY <1>18 DEF ProcessInfo, ProcessRefused, Running, Settle, session, manager
  <2>2. pending'[c] = pending[c] - (One(Head(tasks).from, c) + One(NoClient, c))
    BY <2>1, AnswerCounts
  <2> QED BY <1>1, <1>2, <1>4, <1>16, <2>1, <2>2
<1>19. CASE ProcessCommandNow \/ ProcessCommandAfterSync \/ ProcessSyncOutNow \/ ProcessSyncOut
  <2>1. /\ tasks # <<>> /\ tasks' = Tail(tasks) /\ UNCHANGED <<queue, pending>>
        /\ slot'.from = Head(tasks).from
    BY <1>19 DEF ProcessCommandNow, ProcessCommandAfterSync, ProcessSyncOutNow, ProcessSyncOut, RunsOn,
                 Running, session
  <2> QED BY <1>1, <1>2, <1>16, <2>1
<1>20. ASSUME SessionFinished
       PROVE  WaitingIn(tasks, queue, c) = WaitingIn(tasks, queue', c) + One(NextInLine, c)
  BY <1>1, <1>3, <1>4, <1>20, WaitingMoves DEF SessionFinished, NextInLine
<1>21. CASE ProcessAbort
  <2>1. /\ tasks # <<>> /\ tasks' = Tail(tasks) \o Granted /\ SessionFinished /\ UNCHANGED slot
        /\ Answer(Head(tasks).from, NextInLine)
    BY <1>21 DEF ProcessAbort, Running, Settle
  <2>2. Tail(tasks) \in Seq(Task) /\ queue' \in Seq(Clients)
    BY <1>3, <2>1, HeadTailProperties DEF TypeOK
  <2>3. Wait(c)' = WaitingIn(Tail(tasks), queue', c)
    BY <2>1, <2>2, WaitingAfterGrant
  <2>4. WaitingIn(tasks, queue', c) = WaitingIn(Tail(tasks), queue', c) + One(Head(tasks).from, c)
    BY <1>3, <2>1, <2>2, WaitingMoves
  <2>5. pending'[c] = pending[c] - (One(Head(tasks).from, c) + One(NextInLine, c))
    BY <2>1, AnswerCounts
  <2>6. Wait(c) = Wait(c)' + One(NextInLine, c) + One(Head(tasks).from, c)
    <3>1. Wait(c) = WaitingIn(tasks, queue', c) + One(NextInLine, c)
      BY <1>20, <2>1
    <3>2. WaitingIn(Tail(tasks), queue', c) \in Nat
      BY <1>1, <2>3
    <3> QED BY <1>2, <2>3, <2>4, <3>1, <3>2
  <2>7. /\ Keep(c) <= pending[c] /\ pending[c] \in Int /\ Wait(c) \in Nat /\ Wait(c)' \in Nat
        /\ Keep(c) = Wait(c) + One(slot.from, c) /\ Keep(c)' = Wait(c)' + One(slot.from, c)
    BY <1>1, <2>1
  <2>8. One(slot.from, c) \in {0, 1} /\ One(NextInLine, c) \in {0, 1} /\ One(Head(tasks).from, c) \in {0, 1}
    BY <1>2
  <2> HIDE DEF Wait, Keep
  <2> QED BY <2>5, <2>6, <2>7, <2>8
<1>22. CASE CompleteCommand
  <2>1. UNCHANGED <<tasks, queue>> /\ slot'.from = NoClient /\ Answer(slot.from, NoClient)
    BY <1>22 DEF CompleteCommand, Completing, NoSlot, session
  <2>2. pending'[c] = pending[c] - (One(slot.from, c) + One(NoClient, c))
    BY <2>1, AnswerCounts
  <2> QED BY <1>1, <1>2, <1>4, <2>1, <2>2
<1>23. CASE CompleteSyncOut
  <2>1. /\ tasks' = tasks \o Granted /\ SessionFinished /\ slot'.from = NoClient
        /\ Answer(slot.from, NextInLine)
    BY <1>23 DEF CompleteSyncOut, Completing, NoSlot
  <2>2. queue' \in Seq(Clients)
    BY DEF TypeOK
  <2>3. Wait(c)' = WaitingIn(tasks, queue', c)
    BY <1>3, <2>1, <2>2, WaitingAfterGrant
  <2>4. pending'[c] = pending[c] - (One(slot.from, c) + One(NextInLine, c))
    BY <2>1, AnswerCounts
  <2> QED BY <1>1, <1>2, <1>4, <1>20, <2>1, <2>3, <2>4
<1>24. CASE Exit
  <2>1. tasks' = <<>> /\ queue' = <<>> /\ UNCHANGED slot /\ pending'[c] = pending[c] - Waiting(c)
    BY <1>24 DEF Exit, manager
  <2>2. Wait(c)' = 0
    BY <1>3, <2>1, WaitingMoves
  <2> QED BY <1>1, <1>2, <2>1, <2>2, KeptIsCounted
<1> QED
  BY <1>8, <1>9, <1>11, <1>12, <1>13, <1>14, <1>15, <1>17, <1>18, <1>19, <1>21, <1>22, <1>23, <1>24
  DEF Next, Loop

(* prv_process_task, the completions and prv_provman_context_free answer an *)
(* invocation where they let go of it: no call is answered twice, and none  *)
(* without having been made, whatever clients do.                           *)
THEOREM NothingAnsweredTwice == Spec => []AnsweredAtMostOnce
<1>1. ASSUME Init PROVE AnsweredAtMostOnce
  <2> SUFFICES ASSUME NEW c \in Clients PROVE Kept(c) <= pending[c]
    BY DEF AnsweredAtMostOnce
  <2>1. tasks = <<>> /\ queue = <<>> /\ slot.from = NoClient /\ pending[c] = 0
    BY <1>1 DEF Init, NoSlot
  <2>2. /\ {i \in DOMAIN tasks : tasks[i].from = c} = {}
        /\ {i \in DOMAIN queue : queue[i] = c} = {}
    BY <2>1
  <2>3. Waiting(c) = 0
    BY <2>2, FS_EmptySet DEF Waiting
  <2> QED BY <2>1, <2>3, NoClientAssumption DEF Kept
<1>2. TypeOK /\ TypeOK' /\ AnsweredAtMostOnce /\ [Next]_vars => AnsweredAtMostOnce'
  BY NextKeepsCount
<1> QED BY <1>1, <1>2, TypeCorrect, PTL DEF Spec

-----------------------------------------------------------------------------
(* Clients that have no habits and wait for their answers.                  *)

Polite == Habits = {} /\ \A c \in Clients : MaxCalls[c] = 1

-----------------------------------------------------------------------------
(* The sources that are attached or yet to be dispatched by the iteration   *)
(* at hand.                                                                 *)

NoSource == batch = <<>> /\ idle = <<>>

OneSource(x) ==
    \/ batch = <<>> /\ idle = <<x>>
    \/ batch = <<x>> /\ idle = <<>>

TwoSources(x, y) ==
    \/ batch = <<>> /\ idle = <<x, y>>
    \/ batch = <<x, y>> /\ idle = <<>>
    \/ batch = <<x>> /\ idle = <<y>>

LostTask == CallTask("SYNC_OUT", NoClient)

(* The plugin manager has nothing to do and nothing to complete.            *)
Resting == mstate = "IDLE" /\ ~completion /\ slot = NoSlot /\ todo = 0

(* Nobody has told provman to leave, and no timer will.                     *)
Staying == running /\ ~quitting /\ connected /\ ~timer /\ ~stray

-----------------------------------------------------------------------------
(* The stages of a session. *)

(* No session: provman answers what is asked outside of one, or waits.      *)
AtFree ==
    /\ running /\ ~quitting /\ connected /\ ~stray
    /\ Resting /\ imsi = NoClient /\ holder = NoClient /\ ~watcher
    /\ \A t \in Range(tasks) : t.type = "INFO"
    /\ \/ idleId /\ OneSource("process") /\ ~timer
       \/ ~idleId /\ NoSource /\ tasks = <<>>

(* The holder is yet to be told to the manager. *)
AtBeginning ==
    /\ Staying /\ Resting /\ imsi = NoClient
    /\ holder \in Clients /\ watcher
    /\ tasks = <<SyncInTask(holder)>> /\ idleId /\ OneSource("process")

(* The holder has nothing to wait for. *)
AtOpen ==
    /\ Staying /\ Resting /\ imsi = holder
    /\ holder \in Clients /\ watcher
    /\ tasks = <<>>
    /\ \/ idleId /\ OneSource("process")
       \/ ~idleId /\ NoSource

(* The holder has called. *)
AtCall ==
    /\ Staying /\ Resting /\ imsi = holder
    /\ holder \in alive /\ watcher
    /\ \E t \in SessionTasks :
          /\ tasks = <<CallTask(t, holder)>>
          /\ t # "COMMAND" => ending
          /\ t = "ABORT" => queue = <<>>
    /\ idleId /\ OneSource("process")

(* A command of the holder, who may have died meanwhile, is carried out. *)
AtCommand ==
    /\ running /\ ~timer /\ ~stray /\ (~quitting => connected)
    /\ slot = [type |-> "command", from |-> holder] /\ imsi = holder
    /\ holder \in Clients
    /\ \/ watcher /\ tasks = <<>> /\ ~idleId
       \/ ~watcher /\ tasks = <<LostTask>> /\ (~quitting => holder \notin alive)
    /\ \/ mstate = "SYNC_IN" /\ todo > 0 /\ ~completion /\ NoSource
       \/ mstate \in {"IDLE", "SYNC_IN"} /\ todo = 0 /\ completion /\ OneSource("complete")
       \/ mstate = "IDLE" /\ todo = 0 /\ completion /\ ~watcher /\ TwoSources("complete", "process")

(* The holder has died, and its session is to be ended. *)
AtLoss ==
    /\ Staying /\ Resting /\ imsi = holder
    /\ holder \in Clients \ alive /\ ~watcher
    /\ tasks = <<LostTask>> /\ idleId
    /\ OneSource("process") \/ TwoSources("process", "process")

(* The plugins store the settings of the holder, who called End or died. *)
AtEnd ==
    /\ running
    /\ slot.type = "out" /\ mstate = "SYNC_OUT" /\ holder \in Clients
    /\ IF holder \in alive THEN slot.from = holder /\ ending ELSE slot.from \in {holder, NoClient}
    /\ ~quitting => Staying /\ tasks = <<>> /\ (watcher => holder \in alive)
    /\ \/ todo > 0 /\ ~completion /\ (NoSource \/ OneSource("process"))
       \/ /\ todo = 0 /\ completion /\ imsi = NoClient
          /\ OneSource("complete") \/ TwoSources("process", "complete")

(* Provman is leaving, and runs no task any more. *)
AtExit ==
    /\ slot.type # "command"
    /\ \/ exited
       \/ ~running /\ batch = <<>>
       \/ running /\ quitting /\ slot.type = "none"

AtStage == AtFree \/ AtBeginning \/ AtOpen \/ AtCall \/ AtCommand \/ AtLoss \/ AtEnd

StageInv == ~overlap /\ (AtExit \/ (~exited /\ AtStage))

PoliteInv == TypeOK /\ WaitersHaveHolder /\ AnsweredAtMostOnce /\ StageInv

-----------------------------------------------------------------------------
(* Short lists of sources. *)

LEMMA ShortLists ==
    /\ \A x : <<x>> # <<>> /\ Head(<<x>>) = x /\ Tail(<<x>>) = <<>> /\ Append(<<>>, x) = <<x>>
    /\ \A x, y : /\ <<x, y>> # <<>> /\ Head(<<x, y>>) = x /\ Tail(<<x, y>>) = <<y>>
                 /\ Append(<<x>>, y) = <<x, y>>
<1>1. ASSUME NEW x, NEW y
      PROVE  Append(<<x>>, y) = <<x, y>>
  <2>1. <<x>> \in Seq({x, y}) /\ y \in {x, y} /\ Len(<<x>>) = 1 /\ <<x>>[1] = x
    OBVIOUS
  <2>2. <<x, y>> \in Seq({x, y}) /\ Len(<<x, y>>) = 2 /\ <<x, y>>[1] = x /\ <<x, y>>[2] = y
    OBVIOUS
  <2>3. Append(<<x>>, y) \in Seq({x, y}) /\ Len(Append(<<x>>, y)) = 2
    BY <2>1, AppendProperties
  <2>4. Append(<<x>>, y)[1] = x /\ Append(<<x>>, y)[2] = y
    BY <2>1, AppendProperties
  <2>5. \A i \in 1..2 : Append(<<x>>, y)[i] = <<x, y>>[i]
    BY <2>2, <2>4
  <2> QED BY <2>2, <2>3, <2>5, SeqEqual
<1>2. \A x : <<x>> # <<>> /\ Head(<<x>>) = x /\ Tail(<<x>>) = <<>> /\ Append(<<>>, x) = <<x>>
  OBVIOUS
<1>3. \A x, y : <<x, y>> # <<>> /\ Head(<<x, y>>) = x
  OBVIOUS
<1>4. \A x, y : Tail(<<x, y>>) = <<y>>
  OBVIOUS
<1> QED BY <1>1, <1>2, <1>3, <1>4

LEMMA ShortConcat == \A x : <<x>> \o <<>> = <<x>> /\ <<>> \o <<>> = <<>> /\ <<>> \o <<x>> = <<x>>
<1>1. ASSUME NEW x
      PROVE  <<x>> \o <<>> = <<x>> /\ <<>> \o <<>> = <<>> /\ <<>> \o <<x>> = <<x>>
  <2>1. <<x>> \in Seq({x}) /\ <<>> \in Seq({x})
    OBVIOUS
  <2> QED BY <2>1, ConcatEmptySeq
<1> QED BY <1>1

LEMMA ShortRanges == Range(<<>>) = {} /\ \A x : Range(<<x>>) = {x}
BY DEF Range

LEMMA DispatchFirst ==
    ASSUME NEW source, Dispatching(source)
    PROVE  /\ ~NoSource
           /\ \A x : OneSource(x) => source = x /\ batch' = <<>> /\ idle = <<>>
           /\ \A x, y : TwoSources(x, y) => /\ source = x
                                            /\ \/ batch' = <<>> /\ idle = <<y>>
                                               \/ batch' = <<y>> /\ idle = <<>>
BY ShortLists DEF Dispatching, NoSource, OneSource, TwoSources

(* A source is attached between iterations or while one is dispatched.      *)
LEMMA AttachLast ==
    ASSUME NEW y, idle' = Append(idle, y), UNCHANGED batch
    PROVE  /\ NoSource => OneSource(y)'
           /\ \A x : OneSource(x) => TwoSources(x, y)'
BY ShortLists DEF NoSource, OneSource, TwoSources

LEMMA IterateAll ==
    ASSUME Iterate
    PROVE  /\ ~NoSource
           /\ \A x : OneSource(x) => OneSource(x)'
           /\ \A x, y : TwoSources(x, y) => TwoSources(x, y)'
BY ShortLists DEF Iterate, BetweenIterations, NoSource, OneSource, TwoSources

LEMMA SourcesKept ==
    ASSUME UNCHANGED <<batch, idle>>
    PROVE  /\ NoSource => NoSource'
           /\ \A x : OneSource(x) => OneSource(x)'
           /\ \A x, y : TwoSources(x, y) => TwoSources(x, y)'
BY DEF NoSource, OneSource, TwoSources

-----------------------------------------------------------------------------
(* A client that has one call at a time and calls has nothing unanswered.   *)
LEMMA CallerHasNone ==
    ASSUME Polite, PoliteInv, NEW c \in Clients, Calls(c)
    PROVE  slot.from # c /\ \A t \in Range(tasks) : t.from # c
<1>1. TypeOK /\ tasks \in Seq(Task) /\ queue \in Seq(Clients) /\ pending \in [Clients -> Int]
  BY DEF PoliteInv, TypeOK
<1>2. pending[c] < 1 /\ Kept(c) <= pending[c]
  BY DEF Polite, Calls, PoliteInv, AnsweredAtMostOnce
<1>3. Kept(c) = WaitingIn(tasks, queue, c) + One(slot.from, c) /\ WaitingIn(tasks, queue, c) \in Nat
  BY <1>1, KeptIsCounted, WaitingIsCounted
<1>4. One(slot.from, c) \in {0, 1}
  BY DEF One
<1>5. WaitingIn(tasks, queue, c) = 0 /\ One(slot.from, c) = 0
  BY <1>1, <1>2, <1>3, <1>4
<1>6. /\ Occurrences(tasks, From(c)) \in Nat /\ Occurrences(queue, {c}) \in Nat
      /\ IsFiniteSet({i \in DOMAIN tasks : tasks[i] \in From(c)})
  BY <1>1, OccurrencesType
<1>7. Cardinality({i \in DOMAIN tasks : tasks[i] \in From(c)}) = 0
  BY <1>5, <1>6 DEF WaitingIn, Occurrences
<1>8. {i \in DOMAIN tasks : tasks[i] \in From(c)} = {}
  BY <1>6, <1>7, FS_EmptySet
<1>9. \A i \in DOMAIN tasks : tasks[i] \in Task
  BY <1>1
<1>10. \A t \in Range(tasks) : t.from # c
  BY <1>8, <1>9 DEF Range, From
<1> QED BY <1>5, <1>10 DEF One

(* Once provman is leaving it is.                                           *)
LEMMA ExitIsFinal ==
    ASSUME TypeOK, ~overlap, AtExit, [NextClients]_vars
    PROVE  StageInv'
<1>1. CASE UNCHANGED vars
  BY <1>1 DEF vars, manager, process, StageInv, AtExit
<1>2. CASE exited
  BY <1>1, <1>2
     DEF NextClients, Call, CallSession, Death, StartFirst, StartQueued, Info, SessionCall, Calls, Die, Loop, Iterate, Loss,
         LostClient, Plugins, PluginNext, PluginLast, Timeout, Leave, Signal, NameLost, Exit, BetweenIterations,
         Live, ProcessNone, ProcessSyncIn, ProcessAbort, ProcessInfo, ProcessRefused, ProcessCommandNow,
         ProcessCommandAfterSync, ProcessSyncOutNow, ProcessSyncOut, CompleteCommand, CompleteSyncOut,
         Completing, Running, Dispatching
<1> SUFFICES ASSUME ~exited, NextClients PROVE StageInv'
  BY <1>1, <1>2
<1>3. CASE \E c \in Clients : StartFirst(c) \/ StartQueued(c) \/ Info(c) \/ \E t \in SessionTasks : SessionCall(c, t)
  BY <1>3 DEF StartFirst, StartQueued, Info, SessionCall, manager, process, StageInv, AtExit
<1>4. CASE (\E c \in Clients : Die(c)) \/ LostClient
  BY <1>4 DEF Die, LostClient, manager, process, StageInv, AtExit
<1>5. CASE Plugins
  BY <1>5 DEF Plugins, PluginNext, PluginLast, process, StageInv, AtExit
<1>6. CASE Timeout
  BY <1>6 DEF Timeout, BetweenIterations, manager, StageInv, AtExit
<1>7. CASE Leave
  <2>1. /\ Quit /\ batch = <<>> /\ UNCHANGED <<batch, slot, overlap, exited>>
        /\ running' = (running /\ quitting')
    BY <1>7 DEF Leave, Signal, NameLost, Quit, BetweenIterations, manager
  <2>2. running' \in BOOLEAN /\ quitting' \in BOOLEAN /\ running \in BOOLEAN
    BY <1>7 DEF Leave, Signal, NameLost, Quit, TypeOK
  <2>3. slot.type = "none" \/ ~running
    BY <2>1 DEF AtExit
  <2> QED BY <2>1, <2>2, <2>3 DEF StageInv, AtExit
<1>8. CASE Iterate \/ Exit
  BY <1>8 DEF Iterate, Exit, manager, process, StageInv, AtExit
<1>9. CASE ProcessNone
  BY <1>9 DEF ProcessNone, Dispatching, manager, process, StageInv, AtExit
<1>10. ~Running("SYNC_IN") /\ ~Running("ABORT") /\ ~Running("INFO") /\ ~Running("COMMAND") /\ ~Running("SYNC_OUT")
  BY DEF Running, Dispatching, AtExit
<1>11. ~CompleteCommand /\ ~CompleteSyncOut
  BY DEF CompleteCommand, CompleteSyncOut, Completing, Dispatching, AtExit
<1> QED
  BY <1>3, <1>4, <1>5, <1>6, <1>7, <1>8, <1>9, <1>10, <1>11
  DEF NextClients, Call, CallSession, Death, Loop, Loss, ProcessSyncIn, ProcessAbort, ProcessInfo, ProcessRefused,
      ProcessCommandNow, ProcessCommandAfterSync, ProcessSyncOutNow, ProcessSyncOut

-----------------------------------------------------------------------------
(* What clients do. *)

LEMMA OnlyFreeHasNoHolder ==
    ASSUME TypeOK, AtStage, holder = NoClient
    PROVE  AtFree
BY NoClientAssumption DEF AtStage, AtBeginning, AtOpen, AtCall, AtCommand, AtLoss, AtEnd, TypeOK

(* The process source attached by a task that the manager does not delay.   *)
LEMMA AddTaskWakes ==
    ASSUME NEW t, AddTask(t), UNCHANGED batch, ~Busy,
           (idleId /\ OneSource("process")) \/ (~idleId /\ NoSource),
           idleId \in BOOLEAN
    PROVE  idleId' /\ OneSource("process")'
<1>1. CASE idleId
  BY <1>1, SourcesKept DEF AddTask, Woken, NoSource, OneSource
<1>2. CASE ~idleId
  BY <1>2, AttachLast DEF AddTask, Woken
<1> QED BY <1>1, <1>2

LEMMA StartFirstStage ==
    ASSUME Polite, PoliteInv, ~exited, AtStage, NEW c \in Clients, StartFirst(c), tasks = <<>>
    PROVE  StageInv'
<1>1. TypeOK /\ AtFree
  BY OnlyFreeHasNoHolder DEF StartFirst, PoliteInv
<1>2. tasks' = <<SyncInTask(holder')>> /\ holder' = c /\ watcher'
  BY ShortLists DEF StartFirst, AddTask
<1>3. idleId' /\ OneSource("process")'
  <2>1. AddTask(SyncInTask(c)) /\ UNCHANGED batch
    BY DEF StartFirst
  <2>2. (idleId /\ OneSource("process")) \/ (~idleId /\ NoSource)
    BY <1>1 DEF AtFree
  <2>3. ~Busy /\ idleId \in BOOLEAN
    BY <1>1 DEF AtFree, Busy, Resting, TypeOK
  <2> QED BY <2>1, <2>2, <2>3, AddTaskWakes
<1>4. Resting' /\ Staying' /\ imsi' = NoClient /\ ~overlap' /\ ~exited'
  BY <1>1 DEF StartFirst, ResetTimer, AtFree, Resting, Staying, manager, process, PoliteInv, StageInv
<1> QED BY <1>2, <1>3, <1>4 DEF StageInv, AtStage, AtBeginning

LEMMA InfoStage ==
    ASSUME Polite, PoliteInv, ~exited, AtStage, NEW c \in Clients, Info(c), holder = NoClient
    PROVE  StageInv'
<1>1. TypeOK /\ AtFree
  BY OnlyFreeHasNoHolder DEF PoliteInv
<1>2. CallTask("INFO", c) \in Task /\ tasks \in Seq(Task)
  BY <1>1 DEF TypeOK, CallTask, Task, Perhaps
<1>3. \A t \in Range(tasks') : t.type = "INFO"
  <2>1. Range(tasks') = Range(tasks) \cup {CallTask("INFO", c)}
    BY <1>2, RangeOfAppend DEF Info, AddTask
  <2> QED BY <1>1, <2>1 DEF AtFree, CallTask
<1>4. idleId' /\ OneSource("process")'
  <2>1. AddTask(CallTask("INFO", c)) /\ UNCHANGED batch
    BY DEF Info
  <2>2. (idleId /\ OneSource("process")) \/ (~idleId /\ NoSource)
    BY <1>1 DEF AtFree
  <2>3. ~Busy /\ idleId \in BOOLEAN
    BY <1>1 DEF AtFree, Busy, Resting, TypeOK
  <2> QED BY <2>1, <2>2, <2>3, AddTaskWakes
<1>5. ~timer' /\ Resting'
  BY <1>1 DEF Info, ResetTimer, AtFree, Resting, manager
<1>6. UNCHANGED <<running, quitting, connected, stray, imsi, holder, watcher, overlap, exited>>
  BY DEF Info, session, manager, process
<1> QED BY <1>1, <1>3, <1>4, <1>5, <1>6 DEF StageInv, AtStage, AtFree, PoliteInv

(* A Start that is queued leaves the session alone; an Abort that is queued *)
(* finds nobody waiting.                                                    *)
LEMMA StartQueuedStage ==
    ASSUME PoliteInv, ~exited, AtStage, NEW c \in Clients, StartQueued(c), ~Queued("ABORT")
    PROVE  StageInv'
<1>1. /\ UNCHANGED <<holder, watcher, ending, tasks, idleId, timers, idle, batch, manager, process, alive>>
      /\ holder # NoClient
  BY DEF StartQueued
<1>2. /\ (NoSource => NoSource') /\ (Resting => Resting') /\ (Staying => Staying')
      /\ \A x : OneSource(x) => OneSource(x)'
      /\ \A x, y : TwoSources(x, y) => TwoSources(x, y)'
  BY <1>1, SourcesKept DEF Resting, Staying, timers, manager, process
<1>3. AtBeginning => AtBeginning'
  BY <1>1, <1>2 DEF AtBeginning, manager
<1>4. AtOpen => AtOpen'
  BY <1>1, <1>2 DEF AtOpen, manager
<1>5. AtCall => AtCall'
  <2>1. SUFFICES ASSUME AtCall PROVE AtCall'
    OBVIOUS
  <2>2. PICK t \in SessionTasks : /\ tasks = <<CallTask(t, holder)>>
                                  /\ t # "COMMAND" => ending
    BY <2>1 DEF AtCall
  <2>3. t # "ABORT"
    BY <2>2, ShortRanges DEF Queued, CallTask
  <2> QED BY <1>1, <1>2, <2>1, <2>2, <2>3 DEF AtCall, manager
<1>6. AtCommand => AtCommand'
  BY <1>1, <1>2 DEF AtCommand, manager, timers, process
<1>7. AtLoss => AtLoss'
  BY <1>1, <1>2 DEF AtLoss, manager
<1>8. AtEnd => AtEnd'
  BY <1>1, <1>2 DEF AtEnd, manager, process
<1>9. ~AtFree
  BY <1>1 DEF AtFree
<1>10. AtStage'
  BY <1>3, <1>4, <1>5, <1>6, <1>7, <1>8, <1>9 DEF AtStage
<1> QED BY <1>1, <1>10 DEF StageInv, process, manager, PoliteInv

(* A holder that may call has begun its session and waits for nothing.      *)
LEMMA CallerIsOpen ==
    ASSUME Polite, PoliteInv, ~exited, AtStage, NEW c \in Clients, Calls(c), holder = c, ~Beginning
    PROVE  AtOpen
<1>1. TypeOK /\ c # NoClient /\ c \in alive /\ batch = <<>> /\ connected
  BY NoClientAssumption DEF PoliteInv, Calls, BetweenIterations
<1>2. slot.from # c /\ \A t \in Range(tasks) : t.from # c
  BY CallerHasNone
<1>3. ~AtFree /\ ~AtLoss
  BY <1>1 DEF AtFree, AtLoss
<1>4. ~AtBeginning
  BY <1>1, ShortRanges DEF AtBeginning, Beginning, Queued, SyncInTask, OneSource
<1>5. ~AtCall
  BY <1>2, ShortRanges DEF AtCall, CallTask
<1>6. ~AtCommand /\ ~AtEnd
  BY <1>1, <1>2 DEF AtCommand, AtEnd
<1> QED BY <1>3, <1>4, <1>5, <1>6 DEF AtStage

LEMMA SessionCallStage ==
    ASSUME Polite, PoliteInv, ~exited, AtStage, NEW c \in Clients, NEW t \in SessionTasks, CallSession(c, t)
    PROVE  StageInv'
<1>1. SessionCall(c, t) /\ (t = "ABORT" => queue = <<>>) /\ ~Beginning
  BY DEF CallSession, Has, Polite
<1>2. TypeOK /\ AtOpen /\ holder = c /\ c \in alive
  BY <1>1, CallerIsOpen DEF SessionCall, PoliteInv, Calls
<1>3. tasks' = <<CallTask(t, holder')>> /\ UNCHANGED <<holder, watcher, queue, alive>>
  BY <1>1, <1>2, ShortLists DEF SessionCall, AddTask, AtOpen
<1>4. idleId' /\ OneSource("process")'
  <2>1. AddTask(CallTask(t, c)) /\ UNCHANGED batch
    BY <1>1 DEF SessionCall
  <2>2. (idleId /\ OneSource("process")) \/ (~idleId /\ NoSource)
    BY <1>2 DEF AtOpen
  <2>3. ~Busy /\ idleId \in BOOLEAN
    BY <1>2 DEF AtOpen, Busy, Resting, TypeOK
  <2> QED BY <2>1, <2>2, <2>3, AddTaskWakes
<1>5. t # "COMMAND" => ending'
  BY <1>1 DEF SessionCall, SessionTasks
<1>6. Resting' /\ Staying' /\ imsi' = holder' /\ ~overlap' /\ ~exited'
  BY <1>1, <1>2 DEF SessionCall, AtOpen, Resting, Staying, timers, manager, process, PoliteInv, StageInv
<1> QED BY <1>1, <1>2, <1>3, <1>4, <1>5, <1>6 DEF StageInv, AtStage, AtCall, AtOpen

(* A holder that dies has no call of its own to lose.                       *)
LEMMA DeathStage ==
    ASSUME Polite, PoliteInv, ~exited, AtStage, NEW c \in Clients, Death(c)
    PROVE  StageInv'
<1>1. /\ alive' = alive \ {c}
      /\ c = holder => ~ending /\ tasks = <<>>
      /\ UNCHANGED <<session, tasks, idleId, timers, idle, batch, manager, process, pending>>
  BY DEF Death, Die, Has, Polite
<1>2. UNCHANGED <<holder, watcher, queue, ending, mstate, completion, slot, todo, imsi, overlap, timer, stray,
                  quitting, running, exited, connected>>
  BY <1>1 DEF session, manager, timers, process
<1>3. /\ (NoSource => NoSource') /\ (Resting => Resting') /\ (Staying => Staying')
      /\ \A x : OneSource(x) => OneSource(x)'
      /\ \A x, y : TwoSources(x, y) => TwoSources(x, y)'
  BY <1>1, <1>2, SourcesKept DEF Resting, Staying
<1>4. AtFree => AtFree'
  BY <1>1, <1>2, <1>3 DEF AtFree
<1>5. AtBeginning => AtBeginning'
  BY <1>1, <1>2, <1>3 DEF AtBeginning
<1>6. AtOpen => AtOpen'
  BY <1>1, <1>2, <1>3 DEF AtOpen
<1>7. AtCall => AtCall'
  <2>1. AtCall => c # holder
    BY <1>1, ShortLists DEF AtCall
  <2> QED BY <1>1, <1>2, <1>3, <2>1 DEF AtCall
<1>8. AtCommand => AtCommand'
  BY <1>1, <1>2, <1>3 DEF AtCommand
<1>9. AtLoss => AtLoss'
  BY <1>1, <1>2, <1>3 DEF AtLoss
<1>10. AtEnd => AtEnd'
  <2>1. AtEnd => (holder \in alive <=> holder \in alive')
    BY <1>1 DEF AtEnd
  <2> QED BY <1>1, <1>2, <1>3, <2>1 DEF AtEnd
<1>11. AtStage'
  BY <1>4, <1>5, <1>6, <1>7, <1>8, <1>9, <1>10 DEF AtStage
<1> QED BY <1>2, <1>11 DEF StageInv, PoliteInv

(* The loss of the holder is noticed in an open session or during a         *)
(* command; when provman is leaving, at the end of the session also.        *)
LEMMA LossStage ==
    ASSUME PoliteInv, ~exited, AtStage, LostClient, ~Beginning
    PROVE  StageInv'
<1>1. /\ batch = <<>> /\ watcher /\ (holder \notin alive \/ ~connected) /\ ~watcher'
      /\ UNCHANGED <<holder, queue, ending, timers, batch, manager, process, alive, pending>>
      /\ TypeOK
  BY DEF LostClient, BetweenIterations, HolderLost, PoliteInv
<1>2. UNCHANGED <<mstate, completion, slot, todo, imsi, overlap, timer, stray,
                  quitting, running, exited, connected>>
  BY <1>1 DEF manager, timers, process
<1>3. ~AtFree /\ ~AtCall /\ ~AtLoss
  BY <1>1 DEF AtFree, AtCall, AtLoss, Staying
<1>4. ~AtBeginning
  BY <1>1, ShortRanges DEF AtBeginning, Beginning, Queued, SyncInTask, OneSource
<1>5. ASSUME tasks = <<>>
      PROVE  AddTask(LostTask) /\ tasks' = <<LostTask>>
  <2>1. EndForHolder
    BY DEF LostClient
  <2> QED BY <1>5, <2>1, ShortLists, ShortRanges DEF EndForHolder, AddTask, LostTask
<1>6. AtOpen => AtLoss'
  <2>1. SUFFICES ASSUME AtOpen PROVE AtLoss'
    OBVIOUS
  <2>2. AddTask(LostTask) /\ tasks' = <<LostTask>>
    BY <1>5, <2>1 DEF AtOpen
  <2>3. idleId' /\ OneSource("process")'
    <3>1. (idleId /\ OneSource("process")) \/ (~idleId /\ NoSource)
      BY <2>1 DEF AtOpen
    <3>2. ~Busy /\ idleId \in BOOLEAN
      BY <1>1, <2>1 DEF AtOpen, Busy, Resting, TypeOK
    <3> QED BY <1>1, <2>2, <3>1, <3>2, AddTaskWakes
  <2>4. Staying' /\ Resting'
    BY <1>2, <2>1 DEF AtOpen, Staying, Resting
  <2>5. holder' \in Clients \ alive'
    BY <1>1, <2>1 DEF AtOpen, Staying
  <2> QED BY <1>1, <1>2, <2>1, <2>2, <2>3, <2>4, <2>5 DEF AtOpen, AtLoss
<1>7. AtCommand => AtCommand'
  <2>1. SUFFICES ASSUME AtCommand PROVE AtCommand'
    OBVIOUS
  <2>2. tasks = <<>> /\ ~idleId
    BY <1>1, <2>1 DEF AtCommand
  <2>3. AddTask(LostTask) /\ tasks' = <<LostTask>>
    BY <1>5, <2>2
  <2>4. ~quitting' => connected' /\ holder' \notin alive'
    BY <1>1, <1>2, <2>1 DEF AtCommand
  <2>5. CASE Busy
    <3>1. UNCHANGED <<batch, idle>>
      BY <1>1, <2>3, <2>5 DEF AddTask, Woken
    <3>2. NoSource => NoSource'
      BY <3>1, SourcesKept
    <3>3. OneSource("complete") => OneSource("complete")'
      BY <3>1, SourcesKept
    <3>4. mstate = "SYNC_IN"
      BY <2>1, <2>5 DEF AtCommand, Busy
    <3> QED BY <1>1, <1>2, <2>1, <2>3, <2>4, <3>2, <3>3, <3>4 DEF AtCommand
  <2>6. CASE ~Busy
    <3>1. idle' = Append(idle, "process") /\ UNCHANGED batch
      BY <1>1, <2>2, <2>3, <2>6 DEF AddTask, Woken
    <3>2. OneSource("complete") => TwoSources("complete", "process")'
      BY <3>1, AttachLast
    <3>3. mstate = "IDLE" /\ OneSource("complete") /\ todo = 0 /\ completion
      BY <1>1, <2>1, <2>6 DEF AtCommand, Busy
    <3> QED BY <1>1, <1>2, <2>1, <2>3, <2>4, <3>2, <3>3 DEF AtCommand
  <2> QED BY <2>5, <2>6
<1>8. AtEnd => AtEnd'
  <2>1. SUFFICES ASSUME AtEnd PROVE AtEnd'
    OBVIOUS
  <2>2. quitting
    BY <1>1, <2>1 DEF AtEnd, Staying
  <2>3. Busy /\ EndForHolder
    BY <2>1 DEF AtEnd, Busy, LostClient
  <2>4. UNCHANGED <<batch, idle>>
    BY <1>1, <2>3 DEF EndForHolder, AddTask, Woken
  <2>5. /\ (NoSource => NoSource')
        /\ \A x : OneSource(x) => OneSource(x)'
        /\ \A x, y : TwoSources(x, y) => TwoSources(x, y)'
    BY <2>4, SourcesKept
  <2> QED BY <1>1, <1>2, <2>1, <2>2, <2>5 DEF AtEnd
<1>9. AtStage'
  BY <1>3, <1>4, <1>6, <1>7, <1>8 DEF AtStage
<1> QED BY <1>2, <1>9 DEF StageInv, PoliteInv

-----------------------------------------------------------------------------
(* What plugins, timers, signals and the bus do. *)

LEMMA PluginsStage ==
    ASSUME PoliteInv, ~exited, AtStage, Plugins
    PROVE  StageInv'
<1>1. /\ todo > 0 /\ TypeOK
      /\ UNCHANGED <<holder, watcher, queue, ending, tasks, idleId, timer, stray, batch, mstate, slot, overlap,
                     quitting, running, exited, connected, alive>>
  BY DEF Plugins, PluginNext, PluginLast, session, timers, process, PoliteInv, TypeOK
<1>2. ~Resting
  BY <1>1 DEF Resting
<1>3. CASE PluginNext
  <2>1. todo' > 0 /\ UNCHANGED <<idle, completion, imsi>>
    BY <1>1, <1>3 DEF PluginNext, TypeOK
  <2>2. (NoSource => NoSource') /\ (Staying => Staying') /\ \A x : OneSource(x) => OneSource(x)'
    BY <1>1, <2>1, SourcesKept DEF Staying
  <2>3. AtCommand => AtCommand'
    BY <1>1, <2>1, <2>2 DEF AtCommand
  <2>4. AtEnd => AtEnd'
    BY <1>1, <2>1, <2>2 DEF AtEnd
  <2>5. AtStage'
    BY <1>2, <2>3, <2>4 DEF AtStage, AtFree, AtBeginning, AtOpen, AtCall, AtLoss
  <2> QED BY <1>1, <2>5 DEF StageInv, PoliteInv
<1>4. CASE PluginLast
  <2>1. todo' = 0 /\ completion' /\ imsi' = Cleared /\ idle' = Scheduled
    BY <1>4 DEF PluginLast
  <2>2. ~completion => /\ NoSource => OneSource("complete")'
                       /\ \A x : OneSource(x) => TwoSources(x, "complete")'
    BY <1>1, <2>1, AttachLast DEF Scheduled
  <2>3. AtCommand => AtCommand'
    BY <1>1, <2>1, <2>2 DEF AtCommand, Cleared
  <2>4. AtEnd => AtEnd'
    <3>1. SUFFICES ASSUME AtEnd PROVE AtEnd'
      OBVIOUS
    <3>2. imsi' = NoClient /\ (Staying => Staying')
      BY <1>1, <2>1, <3>1 DEF AtEnd, Cleared, Staying
    <3>3. OneSource("complete")' \/ TwoSources("process", "complete")'
      BY <1>1, <2>2, <3>1 DEF AtEnd
    <3> QED BY <1>1, <2>1, <3>1, <3>2, <3>3 DEF AtEnd
  <2>5. AtStage'
    BY <1>2, <2>3, <2>4 DEF AtStage, AtFree, AtBeginning, AtOpen, AtCall, AtLoss
  <2> QED BY <1>1, <2>5 DEF StageInv, PoliteInv
<1> QED BY <1>3, <1>4 DEF Plugins

LEMMA TimeoutStage ==
    ASSUME PoliteInv, ~exited, AtStage, Timeout
    PROVE  StageInv' /\ (holder = NoClient \/ quitting)
<1>1. /\ timer \/ stray
      /\ ~running' /\ batch' = <<>> /\ UNCHANGED <<slot, overlap>>
  BY DEF Timeout, BetweenIterations, manager
<1>2. AtFree \/ AtEnd
  BY <1>1 DEF AtStage, AtBeginning, AtOpen, AtCall, AtCommand, AtLoss, Staying
<1>3. slot.type # "command"
  BY <1>2 DEF AtFree, AtEnd, Resting, NoSlot
<1>4. holder = NoClient \/ quitting
  BY <1>1, <1>2 DEF AtFree, AtEnd, Staying
<1> QED BY <1>1, <1>3, <1>4 DEF StageInv, AtExit, PoliteInv

(* Provman leaves at once unless the manager is at work. *)
LEMMA LeaveStage ==
    ASSUME PoliteInv, ~exited, AtStage, Leave
    PROVE  StageInv'
<1>1. /\ Quit /\ batch = <<>> /\ TypeOK
      /\ UNCHANGED <<holder, watcher, queue, ending, tasks, idleId, timer, stray, idle, batch,
                     mstate, completion, slot, todo, imsi, overlap, exited, alive>>
      /\ quitting' = (completion \/ Busy) /\ running' = (running /\ quitting')
  BY DEF Leave, Signal, NameLost, Quit, BetweenIterations, PoliteInv, session, timers, manager
<1>2. CASE Resting
  <2>1. slot'.type = "none" /\ ~quitting'
    BY <1>1, <1>2 DEF Resting, NoSlot, Busy
  <2>2. AtExit'
    BY <1>1, <2>1 DEF AtExit
  <2> QED BY <1>1, <2>2 DEF StageInv, PoliteInv
<1>3. CASE AtCommand \/ AtEnd
  <2>1. running' /\ quitting'
    BY <1>1, <1>3 DEF AtCommand, AtEnd, Busy
  <2>2. /\ (NoSource => NoSource') /\ \A x : OneSource(x) => OneSource(x)'
        /\ \A x, y : TwoSources(x, y) => TwoSources(x, y)'
    BY <1>1, SourcesKept
  <2>3. AtCommand => AtCommand'
    BY <1>1, <2>1, <2>2 DEF AtCommand
  <2>4. AtEnd => AtEnd'
    BY <1>1, <2>1, <2>2 DEF AtEnd
  <2> QED BY <1>1, <1>3, <2>3, <2>4 DEF StageInv, AtStage, PoliteInv
<1> QED BY <1>2, <1>3 DEF AtStage, AtFree, AtBeginning, AtOpen, AtCall, AtLoss

LEMMA IterateStage ==
    ASSUME PoliteInv, ~exited, AtStage, Iterate
    PROVE  StageInv'
<1>1. UNCHANGED <<holder, watcher, queue, ending, tasks, idleId, timer, stray, mstate, completion, slot, todo, imsi,
                  overlap, quitting, running, exited, connected, alive>>
  BY DEF Iterate, session, timers, manager, process
<1>2. /\ ~NoSource /\ \A x : OneSource(x) => OneSource(x)'
      /\ \A x, y : TwoSources(x, y) => TwoSources(x, y)'
      /\ (Resting => Resting') /\ (Staying => Staying')
  BY <1>1, IterateAll DEF Resting, Staying
<1>3. AtFree => AtFree'
  BY <1>1, <1>2 DEF AtFree
<1>4. AtBeginning => AtBeginning'
  BY <1>1, <1>2 DEF AtBeginning
<1>5. AtOpen => AtOpen'
  BY <1>1, <1>2 DEF AtOpen
<1>6. AtCall => AtCall'
  BY <1>1, <1>2 DEF AtCall
<1>7. AtCommand => AtCommand'
  BY <1>1, <1>2 DEF AtCommand
<1>8. AtLoss => AtLoss'
  BY <1>1, <1>2 DEF AtLoss
<1>9. AtEnd => AtEnd'
  BY <1>1, <1>2 DEF AtEnd
<1> QED BY <1>1, <1>3, <1>4, <1>5, <1>6, <1>7, <1>8, <1>9 DEF StageInv, AtStage, PoliteInv

-----------------------------------------------------------------------------
(* What the process source does. *)

(* How Settle ends, by what is left to do. *)
LEMMA SettleInSession ==
    ASSUME NEW ts, NEW h, NEW i, NEW id, Settle(ts, h, i, id), ~quitting, h # NoClient
    PROVE  tasks' = ts /\ idleId' = FALSE /\ idle' = i /\ UNCHANGED timers
BY DEF Settle, MayLeave

LEMMA SettleUnused ==
    ASSUME NEW i, NEW id, Settle(<<>>, NoClient, i, id)
    PROVE  tasks' = <<>> /\ idleId' = FALSE /\ idle' = i /\ timer' = TRUE /\ stray' = (stray \/ timer)
BY DEF Settle, MayLeave, ArmTimer

LEMMA SettleOnMore ==
    ASSUME NEW ts, NEW i, NEW id, Settle(ts, NoClient, i, id), ~quitting, ts # <<>>
    PROVE  tasks' = ts /\ idleId' = id /\ idle' = <<"process">> \o i /\ UNCHANGED timers
BY DEF Settle, MayLeave

(* Each task is run at its stage. *)
LEMMA RunningStage ==
    ASSUME TypeOK, AtStage, NEW type, Running(type)
    PROVE  /\ type = "INFO" => AtFree
           /\ type = "SYNC_IN" => AtBeginning
           /\ type = "SYNC_OUT" => AtCall \/ AtLoss
           /\ type \in {"COMMAND", "ABORT"} => AtCall
<1>1. Dispatching("process") /\ ~quitting /\ tasks # <<>> /\ Head(tasks).type = type /\ tasks \in Seq(Task)
  BY DEF Running, TypeOK
<1>2. AtFree => type = "INFO"
  <2>1. Head(tasks) \in Range(tasks)
    BY <1>1 DEF Range
  <2> QED BY <1>1, <2>1 DEF AtFree
<1>3. AtBeginning => type = "SYNC_IN"
  BY <1>1, ShortLists DEF AtBeginning, SyncInTask
<1>4. AtCall => type \in SessionTasks
  BY <1>1, ShortLists DEF AtCall, CallTask
<1>5. AtLoss => type = "SYNC_OUT"
  BY <1>1, ShortLists DEF AtLoss, LostTask, CallTask
<1>6. ~AtOpen /\ ~AtEnd
  BY <1>1 DEF AtOpen, AtEnd
<1>7. ~AtCommand
  BY <1>1, DispatchFirst DEF AtCommand
<1> QED BY <1>2, <1>3, <1>4, <1>5, <1>6, <1>7 DEF AtStage, SessionTasks

LEMMA ProcessNoneStage ==
    ASSUME PoliteInv, ~exited, AtStage, ProcessNone
    PROVE  StageInv'
<1>1. /\ Dispatching("process") /\ (quitting \/ tasks = <<>>) /\ Settle(tasks, holder, idle, idleId)
      /\ UNCHANGED <<holder, watcher, queue, ending, mstate, completion, slot, todo, imsi, overlap,
                     quitting, running, exited, connected, alive>>
      /\ TypeOK
  BY DEF ProcessNone, session, manager, process, PoliteInv
<1>2. /\ tasks' = tasks /\ idle' = idle /\ ~idleId'
      /\ holder # NoClient /\ ~quitting => UNCHANGED timers
  <2>1. CASE MayLeave(tasks, holder) \/ holder # NoClient
    BY <1>1, <2>1 DEF Settle, MayLeave
  <2> QED BY <1>1, <2>1 DEF MayLeave
<1>3. OneSource("process") => NoSource'
  BY <1>1, <1>2, DispatchFirst DEF NoSource
<1>4. AtFree => AtFree'
  <2>1. SUFFICES ASSUME AtFree PROVE AtFree'
    OBVIOUS
  <2>2. OneSource("process") /\ ~timer /\ tasks = <<>>
    BY <1>1, <2>1, DispatchFirst DEF AtFree
  <2>3. ~stray'
    BY <1>1, <2>1, <2>2, SettleUnused DEF AtFree
  <2>4. NoSource' /\ Resting'
    BY <1>1, <1>3, <2>1, <2>2 DEF AtFree, Resting
  <2> QED BY <1>1, <1>2, <2>1, <2>2, <2>3, <2>4 DEF AtFree
<1>5. ~AtBeginning /\ ~AtCall /\ ~AtLoss
  BY <1>1, ShortLists DEF AtBeginning, AtCall, AtLoss, Staying
<1>6. AtOpen => AtOpen'
  <2>1. SUFFICES ASSUME AtOpen PROVE AtOpen'
    OBVIOUS
  <2>2. OneSource("process") /\ holder # NoClient /\ ~quitting
    BY <1>1, <2>1, DispatchFirst, NoClientAssumption DEF AtOpen, Staying
  <2>3. Staying' /\ Resting'
    BY <1>1, <1>2, <2>1, <2>2 DEF AtOpen, Resting, Staying, timers
  <2> QED BY <1>1, <1>2, <1>3, <2>1, <2>2, <2>3 DEF AtOpen
<1>7. ~AtCommand
  BY <1>1, DispatchFirst DEF AtCommand
<1>8. AtEnd => AtEnd'
  <2>1. SUFFICES ASSUME AtEnd PROVE AtEnd'
    OBVIOUS
  <2>2. holder # NoClient
    BY <2>1, NoClientAssumption DEF AtEnd
  <2>3. ~quitting' => Staying' /\ tasks' = <<>> /\ (watcher' => holder' \in alive')
    BY <1>1, <1>2, <2>1, <2>2 DEF AtEnd, Staying, timers
  <2>4. ~NoSource /\ ~OneSource("complete")
    BY <1>1, DispatchFirst
  <2>5. TwoSources("process", "complete") => OneSource("complete")'
    BY <1>1, <1>2, DispatchFirst DEF OneSource
  <2> QED BY <1>1, <1>3, <2>1, <2>3, <2>4, <2>5 DEF AtEnd
<1>9. AtStage'
  BY <1>4, <1>5, <1>6, <1>7, <1>8 DEF AtStage
<1> QED BY <1>1, <1>9 DEF StageInv, PoliteInv

LEMMA ProcessSyncInStage ==
    ASSUME PoliteInv, ~exited, AtStage, ProcessSyncIn
    PROVE  StageInv' /\ imsi = NoClient
<1>1. /\ Running("SYNC_IN") /\ TypeOK /\ ~quitting /\ Dispatching("process")
      /\ UNCHANGED <<holder, watcher, queue, ending, mstate, completion, slot, todo, overlap,
                     quitting, running, exited, connected, alive>>
  BY DEF ProcessSyncIn, Running, session, process, PoliteInv
<1>2. AtBeginning
  BY <1>1, RunningStage
<1>3. Head(tasks).imsi = holder /\ Tail(tasks) = <<>> /\ ~Busy /\ holder # NoClient
  BY <1>2, ShortLists, NoClientAssumption DEF AtBeginning, SyncInTask, Resting, Busy
<1>4. tasks' = <<>> /\ ~idleId' /\ idle' = idle /\ UNCHANGED timers
  BY <1>1, <1>3, SettleInSession DEF ProcessSyncIn
<1>5. NoSource'
  BY <1>1, <1>2, <1>4, DispatchFirst DEF AtBeginning, NoSource
<1>6. imsi' = holder' /\ imsi = NoClient
  BY <1>1, <1>2, <1>3 DEF ProcessSyncIn, AtBeginning
<1>7. Resting' /\ Staying'
  BY <1>1, <1>2, <1>4 DEF AtBeginning, Resting, Staying, timers
<1> QED BY <1>1, <1>2, <1>4, <1>5, <1>6, <1>7 DEF StageInv, AtStage, AtOpen, AtBeginning, PoliteInv

LEMMA ProcessInfoStage ==
    ASSUME PoliteInv, ~exited, AtStage, ProcessInfo
    PROVE  StageInv'
<1>1. /\ Running("INFO") /\ TypeOK /\ ~quitting /\ Dispatching("process") /\ tasks # <<>> /\ tasks \in Seq(Task)
      /\ UNCHANGED <<holder, watcher, queue, ending, mstate, completion, slot, todo, imsi, overlap,
                     quitting, running, exited, connected, alive>>
  BY DEF ProcessInfo, Running, session, manager, process, PoliteInv, TypeOK
<1>2. AtFree
  BY <1>1, RunningStage
<1>3. idleId /\ OneSource("process") /\ ~timer
  BY <1>1, <1>2, DispatchFirst DEF AtFree
<1>4. batch' = <<>> /\ idle = <<>> /\ holder = NoClient
  BY <1>1, <1>2, <1>3, DispatchFirst DEF AtFree
<1>5. Settle(Tail(tasks), NoClient, idle, idleId)
  BY <1>4 DEF ProcessInfo
<1>6. \A t \in Range(Tail(tasks)) : t.type = "INFO"
  <2>1. \A i \in DOMAIN Tail(tasks) : i + 1 \in DOMAIN tasks /\ Tail(tasks)[i] = tasks[i + 1]
    BY <1>1
  <2> QED BY <1>2, <2>1 DEF AtFree, Range
<1>7. Resting'
  BY <1>1, <1>2 DEF AtFree, Resting
<1>8. CASE Tail(tasks) = <<>>
  <2>1. tasks' = <<>> /\ ~idleId' /\ idle' = <<>> /\ stray' = (stray \/ timer)
    BY <1>4, <1>5, <1>8, SettleUnused
  <2>2. NoSource' /\ ~stray'
    BY <1>2, <1>3, <1>4, <2>1 DEF NoSource, AtFree
  <2>3. AtFree'
    BY <1>1, <1>2, <1>7, <2>1, <2>2, ShortRanges DEF AtFree
  <2> QED BY <1>1, <2>3 DEF StageInv, AtStage, PoliteInv
<1>9. CASE Tail(tasks) # <<>>
  <2>1. tasks' = Tail(tasks) /\ idleId' = idleId /\ idle' = <<"process">> \o idle /\ UNCHANGED timers
    BY <1>1, <1>5, <1>9, SettleOnMore
  <2>2. OneSource("process")' /\ ~timer' /\ ~stray'
    BY <1>2, <1>3, <1>4, <2>1, ShortConcat DEF OneSource, AtFree, timers
  <2>3. AtFree'
    BY <1>1, <1>2, <1>3, <1>6, <1>7, <2>1, <2>2 DEF AtFree
  <2> QED BY <1>1, <2>3 DEF StageInv, AtStage, PoliteInv
<1> QED BY <1>8, <1>9

(* Whoever has called is answered with what the manager says. *)
LEMMA CallerRuns ==
    ASSUME PoliteInv, AtCall, Dispatching("process")
    PROVE  /\ tasks # <<>> /\ Tail(tasks) = <<>> /\ Head(tasks) = CallTask(Head(tasks).type, holder)
           /\ Head(tasks).type # "COMMAND" => ending
           /\ Head(tasks).type = "ABORT" => queue = <<>>
           /\ batch' = <<>> /\ idle = <<>> /\ holder # NoClient /\ holder \in Clients /\ ~Busy
<1>1. PICK t \in SessionTasks : /\ tasks = <<CallTask(t, holder)>>
                                /\ t # "COMMAND" => ending
                                /\ t = "ABORT" => queue = <<>>
  BY DEF AtCall
<1>2. Tail(tasks) = <<>> /\ Head(tasks) = CallTask(t, holder) /\ tasks # <<>>
  BY <1>1, ShortLists
<1>3. Head(tasks).type = t
  BY <1>2 DEF CallTask
<1>4. batch' = <<>> /\ idle = <<>>
  BY DispatchFirst DEF AtCall
<1>5. holder \in Clients /\ holder # NoClient /\ ~Busy
  BY NoClientAssumption DEF AtCall, PoliteInv, TypeOK, Resting, Busy
<1> QED BY <1>1, <1>2, <1>3, <1>4, <1>5

LEMMA ProcessRefusedStage ==
    ASSUME PoliteInv, ~exited, AtStage, ProcessRefused
    PROVE  StageInv'
<1>1. /\ Dispatching("process") /\ ~quitting /\ TypeOK
      /\ UNCHANGED <<holder, watcher, queue, ending, mstate, completion, slot, todo, imsi, overlap,
                     quitting, running, exited, connected, alive>>
  BY DEF ProcessRefused, Running, session, manager, process, PoliteInv
<1>2. AtCall
  <2>1. AtLoss => ~Busy
    BY DEF AtLoss, Resting, Busy
  <2>2. Running("COMMAND") \/ (Running("SYNC_OUT") /\ Busy)
    BY DEF ProcessRefused
  <2> QED BY <1>1, <2>1, <2>2, RunningStage
<1>3. tasks' = <<>> /\ ~idleId' /\ idle' = idle /\ UNCHANGED timers
  BY <1>1, <1>2, CallerRuns, SettleInSession DEF ProcessRefused
<1>4. NoSource'
  BY <1>1, <1>2, <1>3, CallerRuns DEF NoSource
<1>5. Resting' /\ Staying'
  BY <1>1, <1>2, <1>3 DEF AtCall, Resting, Staying, timers
<1>6. AtOpen'
  BY <1>1, <1>2, <1>3, <1>4, <1>5, CallerRuns DEF AtCall, AtOpen
<1> QED BY <1>1, <1>6 DEF StageInv, AtStage, PoliteInv

LEMMA ProcessCommandStage ==
    ASSUME PoliteInv, ~exited, AtStage, ProcessCommandNow \/ ProcessCommandAfterSync
    PROVE  StageInv'
<1>1. /\ Dispatching("process") /\ Running("COMMAND") /\ ~quitting /\ TypeOK
      /\ slot' = [type |-> "command", from |-> Head(tasks).from]
      /\ UNCHANGED <<holder, watcher, queue, ending, imsi, overlap, quitting, running, exited, connected, alive>>
  BY DEF ProcessCommandNow, ProcessCommandAfterSync, Running, session, process, PoliteInv
<1>2. AtCall
  BY <1>1, RunningStage
<1>3. slot' = [type |-> "command", from |-> holder'] /\ imsi' = holder' /\ holder' \in Clients /\ watcher'
  BY <1>1, <1>2, CallerRuns DEF CallTask, AtCall
<1>4. tasks' = <<>> /\ ~idleId' /\ UNCHANGED timers
  BY <1>1, <1>2, CallerRuns DEF ProcessCommandNow, ProcessCommandAfterSync, RunsOn
<1>5. running' /\ ~timer' /\ ~stray' /\ connected'
  BY <1>1, <1>2, <1>4 DEF AtCall, Staying, timers
<1>6. CASE ProcessCommandNow
  <2>1. completion' /\ mstate' = "IDLE" /\ todo' = 0
    BY <1>2, <1>6 DEF ProcessCommandNow, AtCall, Resting
  <2>2. idle' = <<"complete">> /\ batch' = <<>>
    BY <1>1, <1>2, <1>6, CallerRuns, ShortLists DEF ProcessCommandNow, RunsOn, Scheduled, AtCall, Resting
  <2>3. OneSource("complete")'
    BY <2>2 DEF OneSource
  <2>4. AtCommand'
    BY <1>3, <1>4, <1>5, <2>1, <2>3 DEF AtCommand
  <2> QED BY <1>1, <2>4 DEF StageInv, AtStage, PoliteInv
<1>7. CASE ProcessCommandAfterSync
  <2>1. ~completion' /\ mstate' = "SYNC_IN" /\ todo' > 0
    BY <1>2, <1>7 DEF ProcessCommandAfterSync, AtCall, Resting
  <2>2. NoSource'
    BY <1>1, <1>2, <1>7, CallerRuns DEF ProcessCommandAfterSync, RunsOn, NoSource
  <2>3. AtCommand'
    BY <1>3, <1>4, <1>5, <2>1, <2>2 DEF AtCommand
  <2> QED BY <1>1, <2>3 DEF StageInv, AtStage, PoliteInv
<1> QED BY <1>6, <1>7

LEMMA ProcessAbortStage ==
    ASSUME PoliteInv, ~exited, AtStage, ProcessAbort
    PROVE  StageInv' /\ ending
<1>1. /\ Dispatching("process") /\ Running("ABORT") /\ ~quitting /\ TypeOK
      /\ UNCHANGED <<mstate, completion, slot, todo, overlap, quitting, running, exited, connected, alive>>
  BY DEF ProcessAbort, Running, process, PoliteInv
<1>2. AtCall
  BY <1>1, RunningStage
<1>3. Head(tasks).type = "ABORT" /\ queue = <<>> /\ ending
  BY <1>1, <1>2, CallerRuns DEF Running
<1>4. holder' = NoClient /\ ~watcher' /\ imsi' = NoClient
  BY <1>1, <1>2, <1>3, CallerRuns DEF ProcessAbort, SessionFinished, NextInLine
<1>5. Tail(tasks) \o Granted = <<>>
  BY <1>1, <1>2, <1>3, CallerRuns, ShortConcat DEF Granted
<1>6. tasks' = <<>> /\ ~idleId' /\ idle' = idle /\ stray' = (stray \/ timer)
  BY <1>3, <1>5, SettleUnused DEF ProcessAbort, NextInLine, WokenByGrant
<1>7. NoSource' /\ ~stray'
  BY <1>1, <1>2, <1>6, CallerRuns DEF NoSource, AtCall, Staying
<1>8. Resting' /\ running' /\ ~quitting' /\ connected'
  BY <1>1, <1>2 DEF AtCall, Resting, Staying
<1>9. AtFree'
  BY <1>4, <1>6, <1>7, <1>8, ShortRanges DEF AtFree
<1> QED BY <1>1, <1>3, <1>9 DEF StageInv, AtStage, PoliteInv

LEMMA ProcessSyncOutStage ==
    ASSUME PoliteInv, ~exited, AtStage, ProcessSyncOutNow \/ ProcessSyncOut
    PROVE  StageInv'
<1>1. /\ Dispatching("process") /\ Running("SYNC_OUT") /\ ~quitting /\ TypeOK
      /\ slot' = [type |-> "out", from |-> Head(tasks).from] /\ mstate' = "SYNC_OUT"
      /\ UNCHANGED <<holder, watcher, queue, ending, overlap, quitting, running, exited, connected, alive>>
      /\ tasks' = Tail(tasks) /\ ~idleId' /\ UNCHANGED timers
  BY DEF ProcessSyncOutNow, ProcessSyncOut, RunsOn, Running, session, process, PoliteInv
<1>2. AtCall \/ AtLoss
  BY <1>1, RunningStage
<1>3. tasks' = <<>> /\ Resting /\ Staying' /\ running' /\ holder' \in Clients
  <2>1. Tail(tasks) = <<>>
    BY <1>1, <1>2, CallerRuns, ShortLists DEF AtLoss
  <2>2. holder \in Clients /\ Resting /\ Staying
    BY <1>1, <1>2 DEF AtCall, AtLoss, TypeOK
  <2> QED BY <1>1, <2>1, <2>2 DEF Staying, timers
<1>4. /\ IF holder' \in alive' THEN slot'.from = holder' /\ ending' ELSE slot'.from \in {holder', NoClient}
      /\ watcher' => holder' \in alive'
  <2>1. CASE AtCall
    BY <1>1, <2>1, CallerRuns DEF AtCall, CallTask, Running
  <2>2. CASE AtLoss
    BY <1>1, <2>2, ShortLists DEF AtLoss, LostTask, CallTask
  <2> QED BY <1>2, <2>1, <2>2
<1>5. (batch' = <<>> /\ idle = <<>>) \/ (batch' = <<>> /\ idle = <<"process">>) \/ (batch' = <<"process">> /\ idle = <<>>)
  BY <1>1, <1>2, DispatchFirst DEF AtCall, AtLoss
<1>6. CASE ProcessSyncOutNow
  <2>1. completion' /\ imsi' = NoClient /\ todo' = 0 /\ idle' = Append(idle, "complete")
    BY <1>3, <1>6 DEF ProcessSyncOutNow, RunsOn, Scheduled, Resting
  <2>2. (OneSource("complete") \/ TwoSources("process", "complete"))'
    BY <1>5, <2>1, ShortLists DEF OneSource, TwoSources
  <2>3. AtEnd'
    BY <1>1, <1>3, <1>4, <2>1, <2>2 DEF AtEnd
  <2> QED BY <1>1, <2>3 DEF StageInv, AtStage, PoliteInv
<1>7. CASE ProcessSyncOut
  <2>1. ~completion' /\ todo' > 0 /\ idle' = idle
    BY <1>3, <1>7 DEF ProcessSyncOut, RunsOn, Resting
  <2>2. (NoSource \/ OneSource("process"))'
    BY <1>5, <2>1 DEF NoSource, OneSource
  <2>3. AtEnd'
    BY <1>1, <1>3, <1>4, <2>1, <2>2 DEF AtEnd
  <2> QED BY <1>1, <2>3 DEF StageInv, AtStage, PoliteInv
<1> QED BY <1>6, <1>7

-----------------------------------------------------------------------------
(* What the complete source does. *)

LEMMA CompleteCommandStage ==
    ASSUME PoliteInv, ~exited, AtStage, CompleteCommand
    PROVE  StageInv'
<1>1. /\ Dispatching("complete") /\ slot.type = "command"
      /\ ~completion' /\ mstate' = "IDLE" /\ slot' = NoSlot /\ overlap' = (todo > 0) /\ idleId'
      /\ UNCHANGED <<holder, watcher, queue, ending, tasks, timer, stray, todo, imsi,
                     quitting, running, exited, connected, alive>>
      /\ idle' = Append(idle, "process")
  BY DEF CompleteCommand, Completing, session, timers, process
<1>2. AtCommand
  BY <1>1 DEF AtStage, AtFree, AtBeginning, AtOpen, AtCall, AtLoss, AtEnd, Resting, NoSlot
<1>3. todo = 0 /\ (OneSource("complete") \/ (~watcher /\ TwoSources("complete", "process")))
  BY <1>1, <1>2, DispatchFirst DEF AtCommand
<1>4. Resting' /\ ~overlap'
  <2>1. ~(todo > 0)
    BY <1>3
  <2> QED BY <1>1, <1>3, <2>1 DEF Resting
<1>5. OneSource("process")' \/ (~watcher' /\ TwoSources("process", "process")')
  <2>1. \/ batch' = <<>> /\ idle = <<>>
        \/ ~watcher /\ ((batch' = <<>> /\ idle = <<"process">>) \/ (batch' = <<"process">> /\ idle = <<>>))
    BY <1>1, <1>3, DispatchFirst
  <2> QED BY <1>1, <2>1, ShortLists DEF OneSource, TwoSources
<1>6. CASE quitting
  BY <1>1, <1>2, <1>4, <1>6 DEF AtExit, AtCommand, StageInv, NoSlot
<1>7. CASE ~quitting
  <2>1. Staying'
    BY <1>1, <1>2, <1>7 DEF AtCommand, Staying
  <2>2. watcher => AtOpen'
    BY <1>1, <1>2, <1>4, <1>5, <2>1 DEF AtCommand, AtOpen
  <2>3. ~watcher => AtLoss'
    BY <1>1, <1>2, <1>4, <1>5, <1>7, <2>1 DEF AtCommand, AtLoss
  <2> QED BY <1>1, <1>4, <2>2, <2>3 DEF StageInv, AtStage
<1> QED BY <1>6, <1>7

LEMMA CompleteSyncOutStage ==
    ASSUME PoliteInv, ~exited, AtStage, CompleteSyncOut
    PROVE  StageInv' /\ (ending \/ holder \notin alive)
<1>1. /\ Dispatching("complete") /\ slot.type = "out" /\ TypeOK /\ queue \in Seq(Clients)
      /\ ~completion' /\ mstate' = "IDLE" /\ slot' = NoSlot /\ overlap' = (todo > 0) /\ idleId'
      /\ UNCHANGED <<timer, stray, todo, imsi, quitting, running, exited, connected, alive>>
      /\ holder' = NextInLine /\ watcher' = (queue # <<>>)
      /\ tasks' = tasks \o Granted /\ idle' = Append(WokenByGrant, "process")
  BY DEF CompleteSyncOut, Completing, SessionFinished, timers, process, PoliteInv, TypeOK
<1>2. AtEnd
  BY <1>1 DEF AtStage, AtFree, AtBeginning, AtOpen, AtCall, AtLoss, AtCommand, Resting, NoSlot
<1>3. todo = 0 /\ imsi = NoClient /\ OneSource("complete")
  BY <1>1, <1>2, DispatchFirst DEF AtEnd
<1>4. Resting' /\ ~overlap'
  <2>1. ~(todo > 0)
    BY <1>3
  <2> QED BY <1>1, <1>3, <2>1 DEF Resting
<1>5. OneSource("process")'
  <2>1. batch' = <<>> /\ idle = <<>>
    BY <1>1, <1>3, DispatchFirst
  <2>2. WokenByGrant = idle
    BY <1>2 DEF WokenByGrant, Woken, AtEnd, Busy
  <2> QED BY <1>1, <2>1, <2>2, ShortLists DEF OneSource
<1>6. ending \/ holder \notin alive
  BY <1>2 DEF AtEnd
<1>7. CASE quitting
  BY <1>1, <1>2, <1>4, <1>6, <1>7 DEF AtExit, AtEnd, StageInv, NoSlot
<1>8. CASE ~quitting
  <2>1. Staying' /\ tasks = <<>>
    BY <1>1, <1>2, <1>8 DEF AtEnd, Staying
  <2>2. CASE queue = <<>>
    <3>1. holder' = NoClient /\ ~watcher' /\ tasks' = <<>>
      BY <1>1, <2>1, <2>2, ShortConcat DEF NextInLine, Granted
    <3>2. AtFree'
      BY <1>1, <1>3, <1>4, <1>5, <2>1, <3>1, ShortRanges DEF AtFree, Staying
    <3> QED BY <1>1, <1>4, <1>6, <3>2 DEF StageInv, AtStage
  <2>3. CASE queue # <<>>
    <3>1. NextInLine = Head(queue) /\ Granted = <<SyncInTask(Head(queue))>> /\ Head(queue) \in Clients
      BY <1>1, <2>3 DEF NextInLine, Granted
    <3>2. tasks' = <<SyncInTask(holder')>>
      BY <1>1, <2>1, <3>1, ShortConcat
    <3>3. AtBeginning'
      BY <1>1, <1>3, <1>4, <1>5, <2>1, <2>3, <3>1, <3>2 DEF AtBeginning
    <3> QED BY <1>1, <1>4, <1>6, <3>3 DEF StageInv, AtStage
  <2> QED BY <2>2, <2>3
<1> QED BY <1>6, <1>7, <1>8

-----------------------------------------------------------------------------
(* The stages are all there is. *)

LEMMA NextStage ==
    ASSUME Polite, PoliteInv, [NextClients]_vars
    PROVE  StageInv'
<1>1. TypeOK /\ ~overlap /\ (AtExit \/ (~exited /\ AtStage))
  BY DEF PoliteInv, StageInv
<1>2. CASE AtExit
  BY <1>1, <1>2, ExitIsFinal
<1> SUFFICES ASSUME ~exited, AtStage PROVE StageInv'
  BY <1>1, <1>2
<1>3. CASE UNCHANGED vars
  BY <1>1, <1>3 DEF vars, session, timers, manager, process, StageInv, AtStage, AtFree, AtBeginning, AtOpen,
                    AtCall, AtCommand, AtLoss, AtEnd, Resting, Staying, NoSource, OneSource, TwoSources
<1>4. ASSUME NEW c \in Clients, Call(c) PROVE StageInv'
  BY <1>4, StartFirstStage, StartQueuedStage, InfoStage, SessionCallStage DEF Call, Has, Polite
<1>5. ASSUME NEW c \in Clients, Death(c) PROVE StageInv'
  BY <1>5, DeathStage
<1>6. CASE Loss
  BY <1>6, LossStage DEF Loss, Has, Polite
<1>7. CASE Plugins \/ Timeout \/ Leave \/ Iterate
  BY <1>7, PluginsStage, TimeoutStage, LeaveStage, IterateStage
<1>8. CASE ProcessNone \/ ProcessSyncIn \/ ProcessInfo \/ ProcessRefused \/ ProcessAbort
  BY <1>8, ProcessNoneStage, ProcessSyncInStage, ProcessInfoStage, ProcessRefusedStage, ProcessAbortStage
<1>9. CASE ProcessCommandNow \/ ProcessCommandAfterSync \/ ProcessSyncOutNow \/ ProcessSyncOut
  BY <1>9, ProcessCommandStage, ProcessSyncOutStage
<1>10. CASE CompleteCommand \/ CompleteSyncOut
  BY <1>10, CompleteCommandStage, CompleteSyncOutStage
<1>11. ~Exit
  BY DEF Exit, AtStage, AtFree, AtBeginning, AtOpen, AtCall, AtCommand, AtLoss, AtEnd, Staying
<1> QED
  BY <1>3, <1>4, <1>5, <1>6, <1>7, <1>8, <1>9, <1>10, <1>11 DEF NextClients, Loop

(* Polite clients are clients: what holds of provman holds with them.       *)
THEOREM ClientsAreClients == SpecClients => Spec
<1>1. [NextClients]_vars => [Next]_vars
  BY DEF NextClients, Call, CallSession, Death, Loss, Next
<1> QED BY <1>1, PTL DEF SpecClients, Spec

(* The inductive invariant: with polite clients, a session is at one of the *)
(* stages, and goes from one to the other by the handlers in provman.c.     *)
THEOREM PoliteSessions == ASSUME Polite PROVE SpecClients => []PoliteInv
<1>1. Init => StageInv
  BY ShortRanges DEF Init, StageInv, AtStage, AtFree, Resting, NoSource
<1>2. PoliteInv /\ [NextClients]_vars => StageInv'
  BY NextStage
<1>3. TypeOK /\ WaitersHaveHolder /\ AnsweredAtMostOnce /\ StageInv <=> PoliteInv
  BY DEF PoliteInv
<1>4. SpecClients => Init /\ [][NextClients]_vars
  BY DEF SpecClients
<1> QED BY <1>1, <1>2, <1>3, <1>4, ClientsAreClients, TypeCorrect, QueueCorrect, NothingAnsweredTwice, PTL

-----------------------------------------------------------------------------
(* What the stages are good for. *)

(* plugin_manager_sync_out completes when the plugins have stored what they *)
(* are given: no callback is made under a running plugin operation, and the *)
(* session is not handed over before.                                       *)
THEOREM PoliteStored == ASSUME Polite PROVE SpecClients => []StoredBeforeHandover
<1>1. PoliteInv => StoredBeforeHandover
  BY DEF PoliteInv, StageInv, StoredBeforeHandover
<1> QED BY <1>1, PoliteSessions, PTL

(* The manager carries out a command for the holder of the session, with    *)
(* the settings of the holder in its cache.                                 *)
THEOREM PoliteCommands == ASSUME Polite PROVE SpecClients => []CommandInSession
<1>1. PoliteInv => CommandInSession
  BY DEF PoliteInv, StageInv, CommandInSession, AtExit, AtStage, AtFree, AtBeginning, AtOpen, AtCall, AtCommand,
         AtLoss, AtEnd, Resting, NoSlot
<1> QED BY <1>1, PoliteSessions, PTL

(* A queued task is never left with nothing to bring prv_process_task back. *)
THEOREM PoliteTasksRun == ASSUME Polite PROVE SpecClients => []NoStrandedTask
<1>1. ASSUME PoliteInv, BetweenIterations, running, ~quitting, tasks # <<>>
      PROVE  idle # <<>> \/ todo > 0
  <2>1. AtStage /\ batch = <<>>
    BY <1>1 DEF PoliteInv, StageInv, AtExit, BetweenIterations, Live
  <2>2. /\ \A x : OneSource(x) => idle # <<>>
        /\ \A x, y : TwoSources(x, y) => idle # <<>>
    BY <2>1, ShortLists DEF OneSource, TwoSources
  <2> QED BY <1>1, <2>1, <2>2 DEF AtStage, AtFree, AtBeginning, AtOpen, AtCall, AtCommand, AtLoss, AtEnd
<1>2. PoliteInv => NoStrandedTask
  BY <1>1 DEF NoStrandedTask
<1> QED BY <1>2, PoliteSessions, PTL

LEMMA NothingRunsAtExit ==
    ASSUME AtExit
    PROVE  ~CompleteSyncOut /\ \A type : ~Running(type)
BY DEF AtExit, CompleteSyncOut, Completing, Running, Dispatching, Live

(* A session begins with the cache that the end of the last one has cleared.*)
THEOREM PoliteBeginnings == ASSUME Polite PROVE SpecClients => BeginsClean
<1>1. ASSUME Polite, PoliteInv, NextClients, imsi' # imsi, imsi' # NoClient
      PROVE  imsi = NoClient
  <2>1. CASE ProcessSyncIn
    BY <1>1, <2>1, ProcessSyncInStage, NothingRunsAtExit DEF PoliteInv, StageInv, ProcessSyncIn
  <2>2. ASSUME NEW c \in Clients, Call(c) \/ Death(c) PROVE UNCHANGED imsi
    BY <2>2 DEF Call, CallSession, Death, StartFirst, StartQueued, Info, SessionCall, Die, manager
  <2>3. CASE Loss \/ Timeout \/ Leave \/ Iterate \/ Exit
    BY <1>1, <2>3 DEF Loss, LostClient, Timeout, Leave, Signal, NameLost, Quit, Iterate, Exit, manager
  <2>4. CASE Plugins
    BY <1>1, <2>4 DEF Plugins, PluginNext, PluginLast, Cleared
  <2>5. CASE ProcessNone \/ ProcessInfo \/ ProcessRefused \/ ProcessCommandNow \/ ProcessCommandAfterSync
    BY <1>1, <2>5 DEF ProcessNone, ProcessInfo, ProcessRefused, ProcessCommandNow, ProcessCommandAfterSync, manager
  <2>6. CASE ProcessAbort \/ ProcessSyncOut \/ ProcessSyncOutNow
    BY <1>1, <2>6 DEF ProcessAbort, ProcessSyncOut, ProcessSyncOutNow
  <2>7. CASE CompleteCommand \/ CompleteSyncOut
    BY <1>1, <2>7 DEF CompleteCommand, CompleteSyncOut, Completing
  <2> QED BY <1>1, <2>1, <2>2, <2>3, <2>4, <2>5, <2>6, <2>7 DEF NextClients, Loop
<1>2. ASSUME Polite, PoliteInv, [NextClients]_vars
      PROVE  [imsi' # imsi /\ imsi' # NoClient => imsi = NoClient]_vars
  BY <1>1, <1>2
<1>3. PoliteInv /\ [NextClients]_vars => [imsi' # imsi /\ imsi' # NoClient => imsi = NoClient]_vars
  BY <1>2
<1>4. SpecClients => [][NextClients]_vars
  BY DEF SpecClients
<1> QED BY <1>3, <1>4, PoliteSessions, PTL DEF BeginsClean

(* A session ends by the End or the Abort of its holder, or its death.      *)
THEOREM PoliteEnds == ASSUME Polite PROVE SpecClients => EndsAreOwn
<1>1. ASSUME Polite, PoliteInv, NextClients, holder # NoClient, holder' # holder, ~exited'
      PROVE  ending \/ holder \notin alive \/ ~connected
  <2>1. CASE ProcessAbort
    BY <1>1, <2>1, ProcessAbortStage, NothingRunsAtExit DEF PoliteInv, StageInv, ProcessAbort
  <2>2. CASE CompleteSyncOut
    BY <1>1, <2>2, CompleteSyncOutStage, NothingRunsAtExit DEF PoliteInv, StageInv
  <2>3. ASSUME NEW c \in Clients, Call(c) \/ Death(c) PROVE UNCHANGED holder
    BY <1>1, <2>3 DEF Call, CallSession, Death, StartFirst, StartQueued, Info, SessionCall, Die, session
  <2>4. CASE Loss \/ Timeout \/ Leave \/ Iterate
    BY <1>1, <2>4 DEF Loss, LostClient, Timeout, Leave, Signal, NameLost, Quit, Iterate, session
  <2>5. CASE Plugins
    BY <1>1, <2>5 DEF Plugins, PluginNext, PluginLast, session
  <2>6. CASE ProcessNone \/ ProcessInfo \/ ProcessRefused \/ ProcessCommandNow \/ ProcessCommandAfterSync
    BY <1>1, <2>6 DEF ProcessNone, ProcessInfo, ProcessRefused, ProcessCommandNow, ProcessCommandAfterSync, session
  <2>7. CASE ProcessSyncIn \/ ProcessSyncOut \/ ProcessSyncOutNow \/ CompleteCommand
    BY <1>1, <2>7 DEF ProcessSyncIn, ProcessSyncOut, ProcessSyncOutNow, CompleteCommand, session
  <2>8. ~Exit
    BY <1>1 DEF Exit
  <2> QED BY <1>1, <2>1, <2>2, <2>3, <2>4, <2>5, <2>6, <2>7, <2>8 DEF NextClients, Loop
<1>2. PoliteInv /\ [NextClients]_vars
      => [holder # NoClient /\ holder' # holder /\ ~exited'
            => ending \/ holder \notin alive \/ ~connected]_vars
  BY <1>1
<1>3. SpecClients => [][NextClients]_vars
  BY DEF SpecClients
<1> QED BY <1>2, <1>3, PoliteSessions, PTL DEF EndsAreOwn

(* No timer ends the main loop under an open session. *)
THEOREM PoliteStays == ASSUME Polite PROVE SpecClients => StaysForSession
<1>1. ASSUME Polite, PoliteInv, NextClients, running, ~running', UNCHANGED <<sigId, connected>>
      PROVE  holder = NoClient \/ quitting
  <2>1. CASE Timeout
    <3>1. AtExit => quitting
      BY <1>1, <2>1 DEF AtExit, Timeout, BetweenIterations, Live
    <3> QED BY <1>1, <2>1, <3>1, TimeoutStage DEF PoliteInv, StageInv
  <2>2. ~Leave
    BY <1>1 DEF Leave, Signal, NameLost
  <2>3. ASSUME NEW c \in Clients, Call(c) \/ Death(c) PROVE UNCHANGED running
    BY <2>3 DEF Call, CallSession, Death, StartFirst, StartQueued, Info, SessionCall, Die, process
  <2>4. CASE Loss \/ Iterate \/ Exit
    BY <1>1, <2>4 DEF Loss, LostClient, Iterate, Exit, process
  <2>5. CASE Plugins
    BY <1>1, <2>5 DEF Plugins, PluginNext, PluginLast, process
  <2>6. CASE ProcessNone \/ ProcessInfo \/ ProcessRefused \/ ProcessCommandNow \/ ProcessCommandAfterSync
    BY <1>1, <2>6 DEF ProcessNone, ProcessInfo, ProcessRefused, ProcessCommandNow, ProcessCommandAfterSync, process
  <2>7. CASE ProcessSyncIn \/ ProcessAbort \/ ProcessSyncOut \/ ProcessSyncOutNow
    BY <1>1, <2>7 DEF ProcessSyncIn, ProcessAbort, ProcessSyncOut, ProcessSyncOutNow, process
  <2>8. CASE CompleteCommand \/ CompleteSyncOut
    BY <1>1, <2>8 DEF CompleteCommand, CompleteSyncOut, Completing, process
  <2> QED BY <1>1, <2>1, <2>2, <2>3, <2>4, <2>5, <2>6, <2>7, <2>8 DEF NextClients, Loop
<1>2. PoliteInv /\ [NextClients]_vars
      => [running /\ ~running' /\ UNCHANGED <<sigId, connected>> => holder = NoClient \/ quitting]_vars
  BY <1>1
<1>3. SpecClients => [][NextClients]_vars
  BY DEF SpecClients
<1> QED BY <1>2, <1>3, PoliteSessions, PTL DEF StaysForSession
=============================================================================
