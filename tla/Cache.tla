-------------------------------- MODULE Cache --------------------------------
(***************************************************************************)
(* The tree of settings (src/cache.c), as operators from trees to trees.    *)
(*                                                                          *)
(* A node is named by its path, a sequence of names; the path of the root   *)
(* is empty.  A tree is a function from the paths of its nodes, which has   *)
(* with a node all its ancestors.  Children are found by their paths, and   *)
(* dir says whether a node has a table of children at all: a leaf has none. *)
(* Keys come with a leading slash and without a trailing one.               *)
(***************************************************************************)
EXTENDS Naturals, FiniteSets, SequencesExt

CONSTANT NoValue  \* the value of a node that was never given one

(* A function, and what another says where it says nothing. *)
Over(f, g) == [x \in DOMAIN f \cup DOMAIN g |-> IF x \in DOMAIN f THEN f[x] ELSE g[x]]

(* provman_cache_t, and the meta data of a node that has none. *)
NoMeta == [p \in {} |-> NoValue]
Leaf(value) == [value |-> value, dir |-> FALSE, meta |-> NoMeta]
Directory == [value |-> NoValue, dir |-> TRUE, meta |-> NoMeta]

NewCache == [n \in {<<>>} |-> Directory]

Found(tree, key) == key \in DOMAIN tree

Children(tree, node) == {n \in DOMAIN tree : Len(n) = Len(node) + 1 /\ IsPrefix(node, n)}

Above(key) == Prefixes(key) \ {key}

-----------------------------------------------------------------------------
(* Setting a value. *)

(* prv_create_and_add_node meets a leaf on its way to the parent.  It does  *)
(* not look at the parent.                                                  *)
Blocked(tree, key) == \E n \in Above(key) \cap DOMAIN tree : Len(n) + 1 < Len(key) /\ ~tree[n].dir

(* The key and what is missing above it are created, and its parent is a    *)
(* directory, though it may have been a leaf.                               *)
WithNode(tree, key, value) ==
    [n \in DOMAIN tree \cup Prefixes(key) |->
        IF n = key THEN Leaf(value)
        ELSE IF ~Found(tree, n) THEN Directory
        ELSE [tree[n] EXCEPT !.dir = @ \/ n = Front(key)]]

CacheSet(tree, key, value) ==
    CASE Found(tree, key)                            -> [tree EXCEPT ![key].value = value]
      [] ~Found(tree, key) /\ ~Blocked(tree, key)    -> WithNode(tree, key, value)
      [] ~Found(tree, key) /\ Blocked(tree, key)     -> tree

CacheSetMeta(tree, key, prop, value) ==
    IF Found(tree, key) THEN [tree EXCEPT ![key].meta = Over([p \in {prop} |-> value], @)] ELSE tree

AddSettings(tree, settings) ==
    FoldSet(LAMBDA key, t : CacheSet(t, key, settings[key]), tree, DOMAIN settings)

(* Meta data of nodes that are not there is dropped. *)
AddMetaData(tree, groups) ==
    [n \in DOMAIN tree |-> IF n \in DOMAIN groups THEN [tree[n] EXCEPT !.meta = groups[n]] ELSE tree[n]]

-----------------------------------------------------------------------------
(* Removing a node, and the directories above it that hold nothing else. *)

(* Fault: nodes with a sibling go as well. *)
AloneOrTwin(tree, node) == node # <<>> /\ Cardinality(Children(tree, Front(node))) <= 2

Alone(tree, node) == node # <<>> /\ Cardinality(Children(tree, Front(node))) = 1

(* Fault: nothing above the node goes. *)
TopIsKey(tree, key) == key

(* The node that provman_cache_remove unlinks: it climbs as long as the     *)
(* node it has come to is an only child.                                    *)
Top(tree, key) ==
    CHOOSE n \in Prefixes(key) :
        /\ ~Alone(tree, n)
        /\ \A m \in Prefixes(key) : Len(n) < Len(m) => Alone(tree, m)

(* Fault: what is below the node stays behind. *)
Unlink(tree, node) == Restrict(tree, DOMAIN tree \ {node})

(* The root itself stays. *)
Delete(tree, node) == Restrict(tree, {n \in DOMAIN tree : n = <<>> \/ ~IsPrefix(node, n)})

CacheRemove(tree, key) == IF Found(tree, key) THEN Delete(tree, Top(tree, key)) ELSE tree

-----------------------------------------------------------------------------
(* What is there: prv_visit_leaves and prv_visit_nodes from a root. *)

Below(tree, root) == {n \in DOMAIN tree : IsPrefix(root, n)}

GetSettings(tree, root) == [n \in {m \in Below(tree, root) : ~tree[m].dir} |-> tree[n].value]

GetMetaData(tree, root) == [n \in {m \in Below(tree, root) : tree[m].meta # NoMeta} |-> tree[n].meta]

(* Every node but the root has its parent, which is a directory. *)
IsTree(tree) == <<>> \in DOMAIN tree /\ \A n \in DOMAIN tree \ {<<>>} : Found(tree, Front(n)) /\ tree[Front(n)].dir
=============================================================================
