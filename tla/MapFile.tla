------------------------------- MODULE MapFile -------------------------------
(***************************************************************************)
(* A map file (src/map-file.c): the names that clients gave to things of    *)
(* the middleware, which has names of its own for them (plugin ids).        *)
(*                                                                          *)
(* One group of the key file is modelled, that of one SIM: a sequence of    *)
(* entries in the order of the file, no client id twice.  The reverse map   *)
(* is built when it is first asked for, or before the first change; either  *)
(* way it is what the file as loaded makes it, so here it is built at once. *)
(***************************************************************************)
EXTENDS Naturals, SequencesExt

Entry(client, plugin) == [client |-> client, plugin |-> plugin]

(* g_hash_table_insert, into a reverse map. *)
Put(reverse, plugin, client) ==
    [p \in DOMAIN reverse \cup {plugin} |-> IF p = plugin THEN client ELSE reverse[p]]

(* prv_provman_map_file_get_reverse_map: of two entries for one plugin id   *)
(* the later one counts.                                                    *)
ReverseOf(entries) ==
    FoldLeft(LAMBDA reverse, e : Put(reverse, e.plugin, e.client), [p \in {} |-> {}], entries)

Load(file) == [entries |-> file, reverse |-> ReverseOf(file), dirty |-> FALSE]

HasClient(map, client) == \E e \in Range(map.entries) : e.client = client
PlaceOf(map, client) == CHOOSE i \in DOMAIN map.entries : map.entries[i].client = client
FindPluginId(map, client) == map.entries[PlaceOf(map, client)].plugin

HasPlugin(map, plugin) == plugin \in DOMAIN map.reverse
FindClientId(map, plugin) == map.reverse[plugin]

(* Fault: an entry that is there is not replaced. *)
StoreAnother(map, client, plugin) ==
    [entries |-> Append(map.entries, Entry(client, plugin)),
     reverse |-> Put(map.reverse, plugin, client),
     dirty   |-> TRUE]

(* An entry that is there keeps its place. *)
StoreMap(map, client, plugin) ==
    [entries |-> IF HasClient(map, client)
                 THEN [i \in DOMAIN map.entries |->
                          IF map.entries[i].client = client THEN Entry(client, plugin) ELSE map.entries[i]]
                 ELSE Append(map.entries, Entry(client, plugin)),
     reverse |-> Put(map.reverse, plugin, client),
     dirty   |-> TRUE]

(* Fault: the reverse map keeps its entry. *)
DeleteForward(map, client) ==
    IF ~HasClient(map, client) THEN map
    ELSE [map EXCEPT !.entries = RemoveAt(@, PlaceOf(map, client)), !.dirty = TRUE]

DeleteMap(map, client) ==
    IF ~HasClient(map, client) THEN map
    ELSE [entries |-> RemoveAt(map.entries, PlaceOf(map, client)),
          reverse |-> Restrict(map.reverse, DOMAIN map.reverse \ {FindPluginId(map, client)}),
          dirty   |-> TRUE]

(* Fault: nothing is removed. *)
KeepUnused(map, used) == map

RemoveUnused(map, used) ==
    FoldLeft(LAMBDA m, e : IF e.plugin \in used THEN m ELSE DeleteMap(m, e.client), map, map.entries)

(* Fault: dirty is reset whether or not the file was written. *)
SavedRegardless(map, full) == [map EXCEPT !.dirty = FALSE]

(* provman_map_file_save: what becomes of the map and of the file. *)
Saved(map, full) == [map EXCEPT !.dirty = @ /\ full]
SavedFile(map, full, file) == IF map.dirty /\ ~full THEN map.entries ELSE file
=============================================================================
