--------------------------- MODULE MCOfonoContexts ---------------------------
(* Two paths, so that the one of a context that has gone is used again, and *)
(* names of clients that are not those oFono makes up.                      *)
EXTENDS OfonoContexts, TLC

PathNames == [p \in Contexts |-> ToString(p)]
=============================================================================
