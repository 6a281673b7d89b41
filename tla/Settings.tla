------------------------------ MODULE Settings ------------------------------
(***************************************************************************)
(* What provman promises about settings, with nothing said of plugins being *)
(* synchronised lazily, of the cache or of callbacks.  In a session the     *)
(* client works on a draft: it reads what it has written, nothing of it is  *)
(* stored before End, all of it is stored at End except for what a plugin   *)
(* failed to store, and nothing at Abort.  The settings of a plugin that    *)
(* cannot be had are neither read nor written, and a call that cannot be    *)
(* honoured says so.  PluginManager.tla implements this specification.      *)
(***************************************************************************)
EXTENDS Sequences, Functions

CONSTANTS Plugins,  \* the plugins
          Keys,     \* the settings, each the leaf of a tree
          Owner,    \* the plugin each setting belongs to
          Values,   \* the values a setting can have
          Missing,  \* stands for the absence of a setting
          ReadOnly  \* the settings a client can neither set nor delete

VARIABLES stored,      \* what the middleware holds
          draft,       \* what the session has made of it
          unavailable, \* the plugins whose settings cannot be had
          failed,      \* the plugins that failed to store the draft
          phase,       \* of the session
          call,        \* the call in progress
          result       \* its result, once there is one

vars == <<stored, draft, unavailable, failed, phase, call, result>>

(* A call names the leaves below each of its keys. *)
NoCall  == [op |-> "none", args |-> <<>>, value |-> Missing]
EndCall == [op |-> "end", args |-> <<>>, value |-> Missing]

Nothing == [k \in {} |-> Missing]
Result(err, values, refused) == [err |-> err, values |-> values, refused |-> refused]
NoResult == Result("pending", Nothing, {})
Ok       == Result("none", Nothing, {})
Error(e) == Result(e, Nothing, {})

Init ==
    /\ stored \in [Keys -> Values \cup {Missing}]
    /\ draft = stored
    /\ unavailable = {} /\ failed = {}
    /\ phase = "closed" /\ call = NoCall /\ result = NoResult

Begin ==
    /\ phase = "closed" /\ call = NoCall
    /\ phase' = "open" /\ failed' = {}
    /\ UNCHANGED <<stored, draft, unavailable, call, result>>

(* Plugins may be found to be unavailable, or available again, but not once *)
(* the session has changed their settings.                                  *)
Found(lost) ==
    /\ lost \subseteq Plugins
    /\ \A k \in Keys : Owner[k] \in lost => draft[k] = stored[k]
    /\ unavailable' = lost

Visible(lost) == {k \in Keys : Owner[k] \notin lost /\ draft[k] # Missing}

Named(c) == UNION Range(c.args)

Drafted(ks) == [k \in ks |-> draft[k]]

(* The tree has a root even when it has no leaf. *)
Exists(keys, lost) == keys = Keys \/ keys \cap Visible(lost) # {}

(* Get, GetAll and GetMultiple. *)
Read(c, lost) ==
    LET ks == Named(c) \cap Visible(lost)
    IN  /\ c.op \in {"get", "get_all", "get_multiple"}
        /\ result' = IF c.op # "get_multiple" /\ ~Exists(Named(c), lost)
                     THEN Error("not_found") ELSE Result("none", Drafted(ks), {})
        /\ UNCHANGED draft

(* Set and SetMultiple: what is not refused is in the draft. *)
Write(c, lost) ==
    LET ks == {k \in Named(c) : Owner[k] \notin lost /\ k \notin ReadOnly}
    IN  /\ c.op \in {"set", "set_multiple"}
        /\ draft' = [k \in Keys |-> IF k \in ks THEN c.value ELSE draft[k]]
        /\ IF c.op = "set"
           THEN result' = IF ks = Named(c) THEN Ok ELSE Error("unknown")
           ELSE result' = Result("none", Nothing, Named(c) \ ks)

(* Delete and DeleteMultiple: what is not refused is gone from the draft. *)
Erase(c, lost) ==
    LET ks == {k \in Named(c) : k \in Visible(lost) /\ (c.op = "remove" \/ k \notin ReadOnly)}
    IN  /\ c.op \in {"remove", "remove_multiple"}
        /\ draft' = [k \in Keys |-> IF k \in ks THEN Missing ELSE draft[k]]
        /\ result' = IF c.op = "remove"
                     THEN IF Exists(Named(c), lost) THEN Ok ELSE Error("not_found")
                     ELSE Result("none", Nothing, Named(c) \ ks)

Calls == [op : {"get", "get_all", "get_multiple", "set", "set_multiple", "remove", "remove_multiple"},
          args : Seq(SUBSET Keys), value : Values \cup {Missing}]

(* A call is begun, goes on while plugins come and go, and is carried out. *)
Call ==
    /\ phase = "open" /\ result = NoResult
    /\ call' \in Calls /\ call \in {NoCall, call'}
    /\ \E lost \in SUBSET Plugins :
          /\ Found(lost)
          /\ \/ Read(call', lost) \/ Write(call', lost) \/ Erase(call', lost)
             \/ UNCHANGED <<draft, result>>
    /\ UNCHANGED <<stored, failed, phase>>

Cancel ==
    /\ phase = "open" /\ call # NoCall /\ result = NoResult
    /\ result' = Error("cancelled")
    /\ UNCHANGED <<stored, draft, unavailable, failed, phase, call>>

Answer ==
    /\ result # NoResult
    /\ result' = NoResult /\ call' = NoCall
    /\ UNCHANGED <<stored, draft, unavailable, failed, phase>>

(* Some of the draft is stored; some plugins may fail to store theirs. *)
Storing ==
    /\ stored' \in [Keys -> Values \cup {Missing}]
    /\ \A k \in Keys : stored'[k] \in {stored[k], draft[k]}
    /\ failed' \in SUBSET Plugins /\ failed \subseteq failed'

(* The session is over: whatever was not stored is forgotten. *)
Over ==
    /\ phase' = "closed"
    /\ draft' = stored' /\ unavailable' = {}

(* End was not cancelled: only what plugins failed to store is missing. *)
AllStored == \A k \in Keys : Owner[k] \notin failed' => stored'[k] = draft[k]

End ==
    /\ \/ phase = "open" /\ call = NoCall /\ call' = EndCall
       \/ phase = "ending" /\ UNCHANGED call
    /\ Storing
    /\ \/ phase' = "ending" /\ UNCHANGED <<draft, unavailable, result>>
       \/ Over /\ AllStored /\ result' = Ok
       \/ Over /\ phase = "ending" /\ result' = Error("cancelled")

Abort ==
    /\ phase = "open" /\ call = NoCall
    /\ Over
    /\ UNCHANGED <<stored, failed, call, result>>

(* The process ends, at any time. *)
Crash ==
    /\ Over
    /\ failed' = {}
    /\ call' = NoCall /\ result' = NoResult
    /\ UNCHANGED stored

Next == Begin \/ Call \/ Cancel \/ Answer \/ End \/ Abort \/ Crash

Spec == Init /\ [][Next]_vars
=============================================================================
