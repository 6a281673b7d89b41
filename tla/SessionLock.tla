----------------------------- MODULE SessionLock -----------------------------
(***************************************************************************)
(* What provman promises about sessions, with nothing said of how.  At most *)
(* one client holds the session.  A client that asks while it is held waits *)
(* its turn, at most once, and turns are given in the order they were asked *)
(* for.  Provman.tla implements this specification.                         *)
(***************************************************************************)
EXTENDS Sequences, Functions

CONSTANTS Clients,   \* the D-Bus names that may call provman
          NoClient   \* stands for the absence of a client

VARIABLES holder,    \* the client whose session it is, or NoClient
          queue      \* the clients waiting for it, the first to be served first

vars == <<holder, queue>>

Init == holder = NoClient /\ queue = <<>>

(* A client asks while nobody holds the session, and has it at once. *)
Acquire(c) ==
    /\ holder = NoClient
    /\ holder' = c
    /\ UNCHANGED queue

(* A client asks while another holds the session, and waits. *)
Wait(c) ==
    /\ holder \notin {NoClient, c}
    /\ c \notin Range(queue)
    /\ queue' = Append(queue, c)
    /\ UNCHANGED holder

(* A session ends: the client that has waited longest has the next one. *)
HandOver ==
    /\ holder # NoClient
    /\ IF queue = <<>>
       THEN holder' = NoClient /\ UNCHANGED queue
       ELSE holder' = Head(queue) /\ queue' = Tail(queue)

(* The service goes away, and with it the session and all who wait. *)
Shutdown ==
    /\ holder' = NoClient
    /\ queue' = <<>>

Next ==
    \/ \E c \in Clients : Acquire(c) \/ Wait(c)
    \/ HandOver
    \/ Shutdown

Spec == Init /\ [][Next]_vars

=============================================================================
