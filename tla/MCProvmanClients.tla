-------------------------- MODULE MCProvmanClients --------------------------
(* Provman with clients that have one call at a time.                      *)
EXTENDS ProvmanClients

OneCall == [c \in Clients |-> 1]
=============================================================================
