--------------------------- MODULE MCPluginManager ---------------------------
(* The plugin manager with two plugins that own three settings, one of them *)
(* read-only.                                                               *)
EXTENDS PluginManager

CONSTANTS name, port, mode   \* two settings of the first plugin, one of the second

ThreeKeys == {name, port, mode}
TwoOwners == [k \in ThreeKeys |-> IF k = mode THEN 2 ELSE 1]
=============================================================================
