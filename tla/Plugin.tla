------------------------------- MODULE Plugin -------------------------------
(***************************************************************************)
(* What provman and one of its plugins owe each other                       *)
(* (src/include/plugin.h): an operation that has been accepted is answered  *)
(* by one call of its callback.  Plugins whose operations take time are     *)
(* shown to implement this module.                                          *)
(***************************************************************************)
EXTENDS Integers

VARIABLES
    phase,     \* which operation is under way, or whether a session is open
    owed,      \* how many calls of the callback the plugin owes provman
    cancelled, \* whether provman has cancelled the operation
    result     \* what the callback of the last operation has said, "none" before that

vars == <<phase, owed, cancelled, result>>

Results == {"none", "io", "not_found", "denied", "cancelled"}

Init == phase = "closed" /\ owed = 0 /\ cancelled = FALSE /\ result = "none"

Ask(operation) ==
    /\ owed = 0 /\ owed' = 1
    /\ ~cancelled
    /\ phase' = operation /\ result' = "none"
    /\ UNCHANGED cancelled

SyncIn == phase = "closed" /\ Ask("syncing in")
SyncOut == phase = "open" /\ Ask("syncing out")

(* sync_in or sync_out returns an error: "the callback will not be invoked". *)
Refuse ==
    /\ owed = 0 /\ ~cancelled
    /\ result' \in Results \ {"none", "cancelled"}
    /\ phase' = "closed"
    /\ UNCHANGED <<owed, cancelled>>

Abort ==
    /\ owed = 0 /\ phase = "open" /\ phase' = "closed"
    /\ UNCHANGED <<owed, cancelled, result>>

(* provman cancels an operation because it has been told to quit, and asks  *)
(* for no other one after that.                                             *)
Cancel ==
    /\ owed = 1 /\ cancelled' = TRUE
    /\ UNCHANGED <<phase, owed, result>>

Answer ==
    /\ owed = 1 /\ owed' = 0
    /\ result' \in Results /\ (result' = "cancelled" => cancelled)
    /\ phase' = IF phase = "syncing in" /\ result' = "none" THEN "open" ELSE "closed"
    /\ UNCHANGED cancelled

(* provman has left, and is started again. *)
Restart == phase' = "closed" /\ owed' = 0 /\ cancelled' = FALSE /\ result' = "none"

Next == SyncIn \/ SyncOut \/ Refuse \/ Abort \/ Cancel \/ Answer \/ Restart

Spec == Init /\ [][Next]_vars /\ WF_vars(Answer)
=============================================================================
