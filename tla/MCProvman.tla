------------------------------ MODULE MCProvman ------------------------------
(* Provman with three clients of no particular habit, one call at a time.  *)
EXTENDS Provman

OneCall == [c \in Clients |-> 1]
=============================================================================
