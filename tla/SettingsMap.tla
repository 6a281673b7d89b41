----------------------------- MODULE SettingsMap -----------------------------
(***************************************************************************)
(* What the cache is for: it maps keys to values and, for the nodes that    *)
(* there are because of these keys, properties to their values.  One action *)
(* for each thing that happens to it.                                       *)
(***************************************************************************)
EXTENDS Naturals, SequencesExt

VARIABLES settings,  \* from keys to values
          meta       \* from nodes to functions from properties to values

Over(f, g) == [x \in DOMAIN f \cup DOMAIN g |-> IF x \in DOMAIN f THEN f[x] ELSE g[x]]

Exists(node, s) == \E k \in DOMAIN s : IsPrefix(node, k)

Set(k, v) ==
    /\ settings' = Over([x \in {k} |-> v], settings)
    /\ UNCHANGED meta

(* Those nodes that do not exist are ignored. *)
SetMeta(nodes, prop, value) ==
    LET there == {n \in nodes : Exists(n, settings)}
        old(n) == IF n \in DOMAIN meta THEN meta[n] ELSE [p \in {} |-> value]
    IN  /\ meta' = Over([n \in there |-> Over([p \in {prop} |-> value], old(n))], meta)
        /\ UNCHANGED settings

(* The settings below the node go, and with them the nodes without settings *)
(* and what was said about them; nothing else does.                         *)
RemoveBelow(node) ==
    /\ settings' = Restrict(settings, {k \in DOMAIN settings : ~IsPrefix(node, k)})
    /\ meta' = Restrict(meta, {n \in DOMAIN meta : Exists(n, settings')})

(* Settings are added, and those groups of properties whose node exists.    *)
Add(more, groups) ==
    /\ settings' = Over(more, settings)
    /\ meta' = Over(Restrict(groups, {n \in DOMAIN groups : Exists(n, settings')}), meta)

Clear == settings' = [k \in {} |-> {}] /\ meta' = [n \in {} |-> {}]
=============================================================================
