------------------------------- MODULE Schemas -------------------------------
(***************************************************************************)
(* The schema of a plugin (src/schema.c): how it is read at start, and how  *)
(* keys that clients name are looked up in it and among the plugins         *)
(* (the checks of src/plugin-manager.c, and its type information).          *)
(*                                                                          *)
(* A schema is a function from paths to what is known of a directory or a   *)
(* setting; <<>> is its root, and an unnamed directory has the name <<>>.   *)
(* The schema that is read is that of the first plugin; the others have one *)
(* that is given.  A document that is not well formed is for the library to *)
(* refuse.                                                                  *)
(***************************************************************************)
EXTENDS Keys

CONSTANTS Roots,      \* the roots of the plugins
          OtherSchema,\* the schema of all plugins but the first
          Alphabet,   \* bound: the characters of keys
          Names,      \* bound: the names in the schema, <<>> among them
          LeafTypes,  \* bound: the types of settings in it
          MaxNodes,   \* bound: how many directories and settings are in it
          MaxLength,  \* bound: the length of keys
          CanDescend  \* whether clients name keys below numbers and enumerations

ASSUME RootsAssumption ==
    /\ Roots \in Seq(Seq(Alphabet)) /\ Roots # <<>> /\ PluginCheck(Roots)
    /\ \A i \in DOMAIN Roots : Len(Roots[i]) > 1 /\ Last(Roots[i]) = Slash
ASSUME NamesAssumption == "crash" \notin Alphabet /\ \A name \in Names : name \in Seq(Alphabet \ {Slash})

(* What is read is a tree: only directories have anything below them.       *)
IsTree(tree) ==
    /\ DOMAIN tree \subseteq Seq(Names) /\ <<>> \in DOMAIN tree /\ tree[<<>>].type = "dir"
    /\ \A path \in DOMAIN tree :
          /\ tree[path].type \in {"dir", "string", "int", "enum"}
          /\ path # <<>> => Front(path) \in DOMAIN tree /\ tree[Front(path)].type = "dir"

ASSUME OthersAssumption == IsTree(OtherSchema)
ASSUME LimitsAssumption ==
    LeafTypes \subseteq {"string", "int", "enum"} /\ MaxNodes \in Nat /\ MaxLength \in Nat /\ CanDescend \in BOOLEAN

VARIABLES
    schema, \* the schema as far as it has been read, with the name of its root in Roots[1]
    at,     \* the directory that is open: the top of the stack
    phase,  \* reading, serving, or corrupt
    key     \* the key that a client names

vars == <<schema, at, phase, key>>

Dir(canDelete) == [type |-> "dir", delete |-> canDelete, write |-> FALSE]
Setting(type, canDelete, canWrite) == [type |-> type, delete |-> canDelete, write |-> canWrite]

(* A tree with one more directory or setting in it.                         *)
With(tree, path, node) == [p \in DOMAIN tree \cup {path} |-> IF p = path THEN node ELSE tree[p]]

Init == schema = [path \in {<<>>} |-> Dir(TRUE)] /\ at = <<>> /\ phase = "reading" /\ key = <<>>

Children(tree, dir) == {path \in DOMAIN tree : path # <<>> /\ Front(path) = dir}

-----------------------------------------------------------------------------
(* prv_start_element, prv_end_element, provman_schema_new *)

Element == phase = "reading" /\ Cardinality(DOMAIN schema) <= MaxNodes

UnnamedHere == Append(at, <<>>) \in DOMAIN schema

Corrupt == phase' = "corrupt" /\ UNCHANGED <<schema, at, key>>

(* Fault: an unnamed directory is added to those there are. *)
DirRefusedTwice(name) == Append(at, name) \in DOMAIN schema

(* prv_parse_dir *)
DirRefused(name) ==
    \/ name = <<>> /\ Children(schema, at) # {}
    \/ Append(at, name) \in DOMAIN schema

StartDir ==
    /\ Element
    /\ \E name \in Names :
          IF UnnamedHere \/ DirRefused(name) THEN Corrupt
          ELSE /\ at' = Append(at, name)
               /\ schema' = With(schema, at', Dir(TRUE))
               /\ UNCHANGED <<phase, key>>

(* prv_parse_key *)
ParseKey ==
    /\ Element
    /\ \E name \in Names, type \in LeafTypes, canWrite \in BOOLEAN :
          IF UnnamedHere \/ Append(at, name) \in DOMAIN schema THEN Corrupt
          ELSE /\ schema' = With(schema, Append(at, name), Setting(type, FALSE, canWrite))
               /\ UNCHANGED <<at, phase, key>>

EndDir ==
    /\ phase = "reading" /\ at # <<>>
    /\ at' = Front(at)
    /\ UNCHANGED <<schema, phase, key>>

EndSchema ==
    /\ phase = "reading" /\ at = <<>>
    /\ phase' = "serving"
    /\ UNCHANGED <<schema, at, key>>

-----------------------------------------------------------------------------
(* Where a key is found: in a set of at most one path, or nowhere. *)

SchemaOf(i) == IF i = 1 THEN schema ELSE OtherSchema

(* To look below a number or an enumeration is to take its type for the     *)
(* address of a table.  That of a string is 0, which is no table.           *)
Crash == <<<<"crash">>>>

(* Fault: a name that is not known is not that of an unnamed directory. *)
ChildKnown(tree, dir, name) == {Append(dir, name)} \cap DOMAIN tree

(* provman_find_schema, one name further *)
Child(tree, dir, name) ==
    IF dir = Crash \/ tree[dir].type \in {"int", "enum"} THEN {Crash}
    ELSE IF Append(dir, name) \in DOMAIN tree THEN {Append(dir, name)}
    ELSE {Append(dir, <<>>)} \cap DOMAIN tree

(* provman_schema_locate *)
Locate(i, path) ==
    LET tree == SchemaOf(i)
        n == Len(Roots[i])
    IN  IF IsPrefix(Roots[i], path)
        THEN FoldLeft(LAMBDA dirs, name : UNION {Child(tree, dir, name) : dir \in dirs},
                      {<<>>}, Components(SubSeq(path, n + 1, Len(path))))
        ELSE IF path = Front(Roots[i]) THEN {<<>>} ELSE {}

NotFound == "not_found"

(* plugin_manager_get_type_info, prv_get_schema_type *)
GetTypeInfo(k) ==
    LET i == FindIndex(Roots, k)
        found == Locate(i, k)
    IN  IF i = 0 THEN (IF UriExists(Roots, k) THEN "dir" ELSE NotFound)
        ELSE IF found = {} THEN NotFound
        ELSE IF found = {Crash} THEN "crash"
        ELSE SchemaOf(i)[CHOOSE path \in found : TRUE].type

NoChildren == [name \in {} |-> "dir"]

(* plugin_manager_get_children_type_info, prv_get_schema_dir_type_info: the *)
(* names below a key, with their types; <<>> is told as <X>.                *)
GetChildrenTypeInfo(k) ==
    LET i == FindIndex(Roots, k)
    IN  IF i = 0 THEN [name \in FindDirectChildren(Roots, k) |-> "dir"]
        ELSE IF GetTypeInfo(k) # "dir" THEN NoChildren
        ELSE LET tree == SchemaOf(i)
                 dir == CHOOSE path \in Locate(i, k) : TRUE
             IN  [name \in {Last(path) : path \in Children(tree, dir)} |-> tree[Append(dir, name)].type]

(* prv_set_common, prv_validate_set, provman_schema_check_value: whether a  *)
(* client may set a key to a value.  "1" is a number, "on" one of the       *)
(* values of each enumeration.                                              *)
CanSet(k, value) ==
    /\ ValidKey(k) /\ FindIndex(Roots, k) # 0
    /\ \E path \in Locate(FindIndex(Roots, k), k) \ {Crash} :
          LET node == SchemaOf(FindIndex(Roots, k))[path]
          IN  /\ node.type # "dir" /\ node.write
              /\ node.type = "int" => value = "1"
              /\ node.type = "enum" => value = "on"

(* prv_remove_common and what plugin_manager_remove adds. *)
CanRemove(k) ==
    /\ ValidKey(k)
    /\ IF FindIndex(Roots, k) = 0 THEN FindPlugins(Roots, k) # {}
       ELSE \E path \in Locate(FindIndex(Roots, k), k) \ {Crash} : SchemaOf(FindIndex(Roots, k))[path].delete

-----------------------------------------------------------------------------
(* A client names keys. *)

NameKey ==
    /\ phase = "serving" /\ Len(key) < MaxLength
    /\ key = <<>> \/ ValidKey(key)
    /\ \E c \in Alphabet : key' = Append(key, c)
    /\ CanDescend \/ (ValidKey(key') => GetTypeInfo(key') # "crash")
    /\ UNCHANGED <<schema, at, phase>>

Next == StartDir \/ ParseKey \/ EndDir \/ EndSchema \/ NameKey

Spec == Init /\ [][Next]_vars

-----------------------------------------------------------------------------
(* "An unnamed directory cannot have any siblings", before it or after it,  *)
(* in any schema that is not refused: a name that a client makes up is      *)
(* never taken for another.                                                 *)
UnnamedIsAlone ==
    \A path \in DOMAIN schema :
        path # <<>> /\ schema[path].type = "dir" /\ Last(path) = <<>> => Children(schema, Front(path)) = {path}

(* Keys that have the root of a plugin somewhere, but not at the beginning. *)
Misleading(k) == \E i \in DOMAIN Roots : Occurs(Roots[i], k) /\ ~IsPrefix(Roots[i], k)

RootPath(i) == Components(Roots[i])
Owns(i, path) == IsPrefix(RootPath(i), path)

(* The comparisons of characters tell whose setting a key is, which plugins *)
(* are below it, and which account it belongs to, as comparisons of paths   *)
(* would, wherever names begin alike; nothing is set in a plugin that the   *)
(* key is not below, misleading or not; and to forget an account is to      *)
(* forget what is listed of it and nothing else.                            *)
KeysAgree ==
    LET path == Components(key)
        owners == {i \in DOMAIN Roots : Owns(i, path)}
        below == {i \in DOMAIN Roots : IsPrefix(path, RootPath(i))}
    IN  ValidKey(key) =>
        /\ ~Misleading(key) =>
              /\ FindIndex(Roots, key) = (IF owners = {} THEN 0 ELSE CHOOSE i \in owners : TRUE)
              /\ owners = {} => /\ FindPlugins(Roots, key) = below
                                /\ FindDirectChildren(Roots, key) = {RootPath(i)[Len(path) + 1] : i \in below}
        /\ \A value \in {"1", "on", "any"} : CanSet(key, value) => owners = {FindIndex(Roots, key)}
        /\ \A i \in DOMAIN Roots, account \in Names \ {<<>>} :
              LET accountPath == Append(RootPath(i), account)
              IN  /\ account \in GetContexts({key}, Roots[i]) <=> IsPrefix(accountPath, path)
                  /\ RemoveAccount({key}, Roots[i], account) = {} <=> IsStrictPrefix(accountPath, path)

(* The key of a child. *)
KeyWithin(k, name) == (IF Last(k) = Slash THEN k ELSE Append(k, Slash)) \o name

(* All keys are in one tree, though parts of it are inferred from roots and *)
(* others looked up in schemas: what is told of the children of a key is    *)
(* what is told of them when they are asked for themselves; other children  *)
(* it has not, unless it takes any name; and a slash at the end makes no    *)
(* difference.                                                              *)
TreeIsOne ==
    ValidKey(key) =>
        \A name \in Names \ {<<>>} :
            LET k == KeyWithin(key, name)
                children == GetChildrenTypeInfo(key)
            IN  /\ ~Misleading(Append(k, Slash)) =>
                      /\ GetTypeInfo(k) \in {"crash", IF name \in DOMAIN children THEN children[name]
                                                      ELSE IF <<>> \in DOMAIN children THEN children[<<>>]
                                                      ELSE NotFound}
                      /\ GetTypeInfo(Append(k, Slash)) = GetTypeInfo(k)
                /\ CanRemove(k) => GetTypeInfo(k) # NotFound
=============================================================================
