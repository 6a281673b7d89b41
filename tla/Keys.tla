-------------------------------- MODULE Keys --------------------------------
(***************************************************************************)
(* What provman reads off a key (src/utils.c, src/plugin.c): whether it is  *)
(* well formed, the plugin whose setting it is, the plugins below it, and   *)
(* the account it belongs to.                                               *)
(*                                                                          *)
(* A key is a sequence of characters, because the code compares characters: *)
(* where a name ends is what can go wrong.  "_" stands for all characters   *)
(* that are blank or cannot be printed.                                     *)
(***************************************************************************)
EXTENDS Naturals, Sequences, FiniteSets, SequencesExt

Slash == "/"

Occurs(part, key) == \E i \in 1..Len(key) : IsPrefix(part, SubSeq(key, i, Len(key)))

(* Up to the first slash. *)
FirstName(key) ==
    LET slashes == {i \in DOMAIN key : key[i] = Slash}
    IN  IF slashes = {} THEN key ELSE SubSeq(key, 1, Min(slashes) - 1)

(* provman_utils_validate_key *)
ValidKey(key) ==
    /\ key # <<>> /\ key[1] = Slash
    /\ \A i \in DOMAIN key : key[i] # "_" /\ (i > 1 => <<key[i - 1], key[i]>> # <<Slash, Slash>>)

-----------------------------------------------------------------------------
(* The registry: roots is the sequence of the plugins' roots. *)

(* prv_check_relationship *)
Related(root1, root2) == IsPrefix(root1, root2) \/ IsPrefix(root2, root1)

(* provman_plugin_check *)
PluginCheck(roots) ==
    \A i \in DOMAIN roots :
        ValidKey(roots[i]) /\ \A j \in i + 1..Len(roots) : ~Related(roots[i], roots[j])

(* provman_plugin_find_index: the first plugin whose root is the key but    *)
(* for its last slash, or occurs in it; 0 if there is none.                 *)
FindIndex(roots, uri) ==
    LET found == {i \in DOMAIN roots : \/ Len(roots[i]) = Len(uri) + 1 /\ IsPrefix(uri, roots[i])
                                       \/ Occurs(roots[i], uri)}
    IN  IF found = {} THEN 0 ELSE Min(found)

(* Fault: it is not looked whether a name ends where the key does. *)
BelowLoose(root, uri) == IsPrefix(uri, root)

(* What the four functions for keys that no plugin owns ask of a root. *)
Below(root, uri) ==
    /\ IsPrefix(uri, root)
    /\ Len(uri) = Len(root) \/ Last(uri) = Slash \/ root[Len(uri) + 1] = Slash

(* provman_plugin_find_plugins *)
FindPlugins(roots, uri) == {i \in DOMAIN roots : Below(roots[i], uri)}

(* provman_plugin_uri_exists *)
UriExists(roots, uri) == FindPlugins(roots, uri) # {}

(* provman_plugin_find_direct_children *)
FindDirectChildren(roots, uri) ==
    LET rest(i) == SubSeq(roots[i], Len(uri) + 1, Len(roots[i]))
    IN  {FirstName(IF rest(i) # <<>> /\ Head(rest(i)) = Slash THEN Tail(rest(i)) ELSE rest(i)) :
            i \in FindPlugins(roots, uri)}

-----------------------------------------------------------------------------
(* Accounts, and the contexts of a phone, are directories below a root. *)

(* provman_utils_get_context_from_key: a set, empty if the key is elsewhere. *)
GetContextFromKey(key, root) ==
    IF IsPrefix(root, key) THEN {FirstName(SubSeq(key, Len(root) + 1, Len(key)))} ELSE {}

(* provman_utils_get_contexts *)
GetContexts(settings, root) == UNION {GetContextFromKey(key, root) : key \in settings}

(* provman_utils_remove_account *)
RemoveAccount(settings, root, account) ==
    LET accountKey == root \o account \o <<Slash>>
    IN  {key \in settings : ~(Len(key) > Len(accountKey) /\ IsPrefix(accountKey, key))}

-----------------------------------------------------------------------------
(* For comparison, and for the lookup in a schema, which goes from name to  *)
(* name: a key as the path it stands for, which is the names in it.         *)
NameStarts(key) == {i \in DOMAIN key : key[i] # Slash /\ (i > 1 => key[i - 1] = Slash)}

NamesUpTo(key, n) == Cardinality({i \in NameStarts(key) : i <= n})

Components(key) ==
    [n \in 1..NamesUpTo(key, Len(key)) |->
        LET start == CHOOSE i \in NameStarts(key) : NamesUpTo(key, i) = n
        IN  FirstName(SubSeq(key, start, Len(key)))]
=============================================================================
