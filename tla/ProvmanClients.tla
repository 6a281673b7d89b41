--------------------------- MODULE ProvmanClients ---------------------------
(***************************************************************************)
(* Provman with clients whose habits are known.  Some of what provman is    *)
(* for it gives only to clients that are polite; this module says what      *)
(* polite is, what provman gives polite clients, and lets each bad habit be *)
(* studied on its own: Habits names those the clients have.                 *)
(*                                                                          *)
(*   early   a call, or the news of its death, comes from a new holder      *)
(*           before the loop has run its SYNC_IN task                       *)
(*   info    GetVersion, GetTypeInfo and GetChildrenTypeInfo are called     *)
(*           while another client opens or has a session                    *)
(*   abort   Abort is called while another client waits for the session     *)
(*   die     the holder dies when a call of its own is queued, or when it   *)
(*           has called End or Abort                                        *)
(*                                                                          *)
(* That a client has one call at a time is said by MaxCalls.                *)
(***************************************************************************)
EXTENDS Provman

CONSTANT Habits   \* the habits the clients have

Has(habit) == habit \in Habits

Queued(type) == \E t \in Range(tasks) : t.type = type

(* The loop is about to begin the session of its holder. *)
Beginning == Queued("SYNC_IN") /\ idle # <<>>

CallSession(c, t) ==
    /\ Has("early") \/ ~Beginning
    /\ t = "ABORT" => Has("abort") \/ queue = <<>>
    /\ SessionCall(c, t)

Call(c) ==
    \/ (Has("info") \/ tasks = <<>>) /\ StartFirst(c)
    \/ (Has("abort") \/ ~Queued("ABORT")) /\ StartQueued(c)
    \/ (Has("info") \/ holder = NoClient) /\ Info(c)
    \/ \E t \in SessionTasks : CallSession(c, t)

Death(c) ==
    /\ c = holder => Has("die") \/ (~ending /\ tasks = <<>>)
    /\ Die(c)

Loss == (Has("early") \/ ~Beginning) /\ LostClient

NextClients ==
    \/ \E c \in Clients : Call(c) \/ Death(c)
    \/ Loop \/ Loss \/ Plugins \/ Timeout \/ Leave

(* The loop runs, plugins answer, timers fire, and a holder does not keep   *)
(* the session for ever: it calls End or Abort.  Nobody has to call Start,  *)
(* or to die.                                                               *)
Ends(c) == \E t \in {"SYNC_OUT", "ABORT"} : CallSession(c, t)

Fairness ==
    /\ WF_vars(Loop) /\ WF_vars(Loss) /\ WF_vars(Plugins) /\ WF_vars(Timeout)
    /\ \A c \in Clients : SF_vars(Ends(c))

SpecClients == Init /\ [][NextClients]_vars /\ Fairness

-----------------------------------------------------------------------------
(* A task that has been added is run: there is always something that will   *)
(* bring prv_process_task back to it, be it an idle source or a plugin.     *)
NoStrandedTask ==
    BetweenIterations /\ running /\ ~quitting /\ tasks # <<>> => idle # <<>> \/ todo > 0

(* "They run until all of their tasks have been completed and then exit":   *)
(* prv_timeout does not end the main loop under an open session; only a     *)
(* signal or the loss of the name does.                                     *)
StaysForSession ==
    [][running /\ ~running' /\ UNCHANGED <<sigId, connected>>
          => holder = NoClient \/ quitting]_vars

(* The manager runs a command for the holder, with the IMSI of the holder,  *)
(* never in a session that had ended or had yet to begin.                   *)
CommandInSession == slot.type = "command" => slot.from = holder /\ imsi = holder

(* A session ends when its own client calls End or Abort, or is gone.       *)
EndsAreOwn ==
    [][holder # NoClient /\ holder' # holder /\ ~exited'
          => ending \/ holder \notin alive \/ ~connected]_vars

(* A session begins with a cache from which the last one has been cleared.  *)
BeginsClean == [][imsi' # imsi /\ imsi' # NoClient => imsi = NoClient]_vars

(* The session is handed over once the plugins have stored the settings of  *)
(* the last one, and no callback is made under a running operation.         *)
StoredBeforeHandover == ~overlap

(* Every call is answered, in a session or while waiting for one. *)
EveryCallAnswered ==
    \A c \in Clients : pending[c] > 0 ~> pending[c] = 0 \/ exited \/ c \notin alive

(* Whoever waits in prv_provman_method_call's queue is given the session,   *)
(* and the session begins: the manager works for its IMSI.                  *)
WaitersServed ==
    \A c \in Clients : c \in Range(queue) ~> (c = holder /\ imsi = c) \/ exited \/ c \notin alive

(* A signal during an operation makes provman leave once that is over. *)
QuitLeaves == quitting ~> exited
=============================================================================
