------------------------- MODULE OfonoContextsProofs -------------------------
(***************************************************************************)
(* What OfonoContexts.tla promises for any contexts and names: contexts     *)
(* differ by their names, the reverse map is the one that a restart would   *)
(* build, and clients find their contexts by the names they gave them.      *)
(*                                                                          *)
(* A map is described by the set of its entries, and by that no client id   *)
(* and no plugin id is in two of them; what the loops over contexts and     *)
(* entries do to that set is from module Folding.                           *)
(***************************************************************************)
EXTENDS OfonoContexts, Folding, SequenceTheorems

(* oFono makes up different names, and none that a client would think of;   *)
(* and it does not give a path again as long as the map file knows it.      *)
Plain ==
    /\ ~CanReuse /\ ~CanHaunt
    /\ \A p, q \in Contexts : DefaultId[p] = DefaultId[q] => p = q
    /\ \A p \in Contexts : DefaultId[p] \notin ClientIds

-----------------------------------------------------------------------------
(* Sequences without repetitions. *)

Distinct(s) == \A i, j \in DOMAIN s : s[i] = s[j] => i = j

LEMMA SeqMeans ==
    ASSUME NEW S, NEW s \in Seq(S)
    PROVE  /\ Len(s) \in Nat /\ DOMAIN s = 1..Len(s) /\ \A i \in 1..Len(s) : s[i] \in S
           /\ Range(s) = {s[i] : i \in 1..Len(s)} /\ Range(s) \subseteq S
  BY DEF Range

LEMMA RemoveAtMakes ==
    ASSUME NEW S, NEW s \in Seq(S), NEW i \in DOMAIN s, Distinct(s)
    PROVE  RemoveAt(s, i) \in Seq(S) /\ Distinct(RemoveAt(s, i)) /\ Range(RemoveAt(s, i)) = Range(s) \ {s[i]}
<1> DEFINE u == RemoveAt(s, i)
           n == Len(s)
           before == SubSeq(s, 1, i - 1)
           after == SubSeq(s, i + 1, n)
<1>1. n \in Nat /\ DOMAIN s = 1..n /\ i \in 1..n /\ \A j \in 1..n : s[j] \in S
  BY SeqMeans
<1>2. before \in Seq(S) /\ Len(before) = i - 1 /\ \A j \in 1..(i - 1) : before[j] = s[j]
  <2>1. \A j \in 1..(i - 1) : s[j] \in S
    BY <1>1
  <2>2. 1 \in Int /\ i - 1 \in Int /\ i >= 1 /\ i \in Int
    BY <1>1
  <2>3. before \in Seq(S) /\ Len(before) = (IF 1 <= i - 1 THEN (i - 1) - 1 + 1 ELSE 0)
        /\ \A j \in 1..((i - 1) - 1 + 1) : before[j] = s[1 + j - 1]
    BY <2>1, <2>2, SubSeqProperties
  <2> HIDE DEF before
  <2> QED BY <2>2, <2>3
<1>3. after \in Seq(S) /\ Len(after) = n - i /\ \A j \in 1..(n - i) : after[j] = s[i + j]
  <2>1. \A j \in (i + 1)..n : s[j] \in S
    BY <1>1
  <2>2. i + 1 \in Int /\ n \in Int /\ i >= 1 /\ i <= n /\ i \in Int
    BY <1>1
  <2>3. after \in Seq(S) /\ Len(after) = (IF i + 1 <= n THEN n - (i + 1) + 1 ELSE 0)
        /\ \A j \in 1..(n - (i + 1) + 1) : after[j] = s[(i + 1) + j - 1]
    BY <2>1, <2>2, SubSeqProperties
  <2> HIDE DEF after, n
  <2>4. Len(after) = n - i /\ n - (i + 1) + 1 = n - i
    BY <2>2, <2>3
  <2>5. ASSUME NEW j \in 1..(n - i) PROVE after[j] = s[i + j]
    <3>1. (i + 1) + j - 1 = i + j
      BY <2>2
    <3> QED BY <2>3, <2>4, <3>1
  <2> QED BY <2>3, <2>4, <2>5
<1>4. u = before \o after
  BY DEF RemoveAt
<1> HIDE DEF before, after, u, n
<1>5. /\ u \in Seq(S) /\ Len(u) = n - 1
      /\ \A j \in 1..(n - 1) : u[j] = IF j <= i - 1 THEN before[j] ELSE after[j - (i - 1)]
  <2>1. /\ u \in Seq(S) /\ Len(u) = (i - 1) + (n - i)
        /\ \A j \in 1..((i - 1) + (n - i)) : u[j] = IF j <= i - 1 THEN before[j] ELSE after[j - (i - 1)]
    <3>1. before \in Seq(S) /\ after \in Seq(S)
      BY <1>2, <1>3
    <3>2. /\ u \in Seq(S) /\ Len(u) = Len(before) + Len(after)
          /\ \A j \in 1..(Len(before) + Len(after)) : u[j] = IF j <= Len(before) THEN before[j] ELSE after[j - Len(before)]
      BY <1>4, <3>1, ConcatProperties
    <3>3. Len(before) = i - 1 /\ Len(after) = n - i
      BY <1>2, <1>3
    <3> QED BY <3>2, <3>3
  <2>2. (i - 1) + (n - i) = n - 1
    BY <1>1
  <2> QED BY <2>1, <2>2
<1>6. \A j \in 1..(n - 1) : u[j] = IF j < i THEN s[j] ELSE s[j + 1]
  <2> TAKE j \in 1..(n - 1)
  <2>1. CASE j < i
    <3>1. j <= i - 1 /\ j \in 1..(i - 1)
      BY <1>1, <2>1
    <3> QED BY <1>2, <1>5, <2>1, <3>1
  <2>2. CASE ~(j < i)
    <3>1. ~(j <= i - 1) /\ j - (i - 1) \in 1..(n - i) /\ i + (j - (i - 1)) = j + 1
      BY <1>1, <2>2
    <3> QED BY <1>3, <1>5, <2>2, <3>1
  <2> QED BY <2>1, <2>2
<1>7. DOMAIN u = 1..(n - 1) /\ Range(u) = {u[j] : j \in 1..(n - 1)} /\ Range(s) = {s[j] : j \in 1..n}
  BY <1>1, <1>5 DEF Range
<1>8. Distinct(u)
  <2> SUFFICES ASSUME NEW j \in 1..(n - 1), NEW k \in 1..(n - 1), u[j] = u[k] PROVE j = k
    BY <1>7 DEF Distinct
  <2> DEFINE J == IF j < i THEN j ELSE j + 1
             K == IF k < i THEN k ELSE k + 1
  <2>1. J \in 1..n /\ K \in 1..n
    BY <1>1
  <2>2. u[j] = s[J] /\ u[k] = s[K]
    BY <1>6
  <2>3. J = K
    <3> HIDE DEF J, K
    <3> QED BY <1>1, <2>1, <2>2 DEF Distinct
  <2> QED BY <1>1, <2>3
<1>9. ASSUME NEW j \in 1..(n - 1) PROVE u[j] \in Range(s) \ {s[i]}
  <2> DEFINE J == IF j < i THEN j ELSE j + 1
  <2>1. J \in 1..n /\ J # i
    BY <1>1
  <2>2. u[j] = s[J]
    BY <1>6
  <2> HIDE DEF J
  <2> QED BY <1>1, <1>7, <2>1, <2>2 DEF Distinct
<1>10. ASSUME NEW j \in 1..n, s[j] # s[i] PROVE s[j] \in Range(u)
  <2>1. CASE j < i
    <3>1. j \in 1..(n - 1)
      BY <1>1, <2>1
    <3> QED BY <1>6, <1>7, <2>1, <3>1
  <2>2. CASE j > i
    <3>1. j - 1 \in 1..(n - 1) /\ ~(j - 1 < i) /\ (j - 1) + 1 = j
      BY <1>1, <2>2
    <3> QED BY <1>6, <1>7, <3>1
  <2> QED BY <1>1, <1>10, <2>1, <2>2
<1>11. Range(u) = Range(s) \ {s[i]}
  <2>1. \A x \in Range(u) : x \in Range(s) \ {s[i]}
    BY <1>7, <1>9
  <2>2. \A x \in Range(s) \ {s[i]} : x \in Range(u)
    BY <1>7, <1>10
  <2> QED BY <2>1, <2>2
<1> QED BY <1>5, <1>8, <1>11 DEF u

LEMMA AppendMakes ==
    ASSUME NEW S, NEW s \in Seq(S), NEW x \in S, x \notin Range(s), Distinct(s)
    PROVE  Append(s, x) \in Seq(S) /\ Distinct(Append(s, x)) /\ Range(Append(s, x)) = Range(s) \cup {x}
<1> DEFINE u == Append(s, x)
           n == Len(s)
<1>1. n \in Nat /\ DOMAIN s = 1..n /\ Range(s) = {s[j] : j \in 1..n}
  BY SeqMeans
<1>2. u \in Seq(S) /\ Len(u) = n + 1 /\ u[n + 1] = x /\ \A j \in 1..n : u[j] = s[j]
  OBVIOUS
<1> HIDE DEF u, n
<1>3. DOMAIN u = 1..(n + 1) /\ Range(u) = {u[j] : j \in 1..(n + 1)}
  BY <1>2, SeqMeans
<1>4. Distinct(u)
  <2> SUFFICES ASSUME NEW j \in 1..(n + 1), NEW k \in 1..(n + 1), u[j] = u[k] PROVE j = k
    BY <1>3 DEF Distinct
  <2>1. \A i \in 1..(n + 1) : i \in 1..n \/ i = n + 1
    BY <1>1
  <2> QED BY <1>1, <1>2, <2>1 DEF Distinct
<1>5. Range(u) = Range(s) \cup {x}
  <2>1. 1..(n + 1) = (1..n) \cup {n + 1}
    BY <1>1
  <2> QED BY <1>1, <1>2, <1>3, <2>1
<1> QED BY <1>2, <1>4, <1>5 DEF u

(* A set of indices has a last one. *)
LEMMA LastIndex ==
    ASSUME NEW n \in Nat, NEW s \in SUBSET (1..n), s # {}
    PROVE  Max(s) \in s
BY GreatestIndex DEF Max

(* A list of all contexts has each of them. *)
LEMMA ListOf ==
    ASSUME NEW S, IsFiniteSet(S), NEW list \in SetToSeqs(S)
    PROVE  list \in Seq(S) /\ Range(list) = S
<1> DEFINE n == Cardinality(S)
<1>1. n \in Nat
  BY FS_CardinalityType
<1>2. list \in [1..n -> S] /\ \A i, j \in 1..n : i # j => list[i] # list[j]
  BY DEF SetToSeqs
<1>3. list \in Seq(S)
  BY <1>1, <1>2
<1>4. list \in Injection(1..n, S)
  BY <1>2 DEF Injection, IsInjective
<1>5. IsFiniteSet(1..n) /\ Cardinality(1..n) = n
  BY <1>1, FS_Interval
<1>6. list \in Surjection(1..n, S)
  BY <1>4, <1>5, FS_Injection
<1>7. \A x \in S : \E i \in 1..n : list[i] = x
  BY <1>6 DEF Surjection
<1>8. Range(list) = S
  BY <1>2, <1>7 DEF Range
<1> QED BY <1>3, <1>8

-----------------------------------------------------------------------------
(* Maps, as sets of entries. *)

Entries == [client : Ids, plugin : Contexts]
Reverses == UNION {[ps -> Ids] : ps \in SUBSET Contexts}

(* No client id and no plugin id is in two entries, and what is not a       *)
(* client's name is the one that oFono made up.                             *)
Apart(es) == \A d, e \in es : d.client = e.client \/ d.plugin = e.plugin => d = e
Fitting(es) == \A e \in es : e.client \in ClientIds \/ e.client = DefaultId[e.plugin]

EntriesOK(s) == s \in Seq(Entries) /\ Distinct(s) /\ Apart(Range(s)) /\ Fitting(Range(s))

IsReverse(r, es) ==
    r \in Reverses /\ DOMAIN r = {e.plugin : e \in es} /\ \A e \in es : r[e.plugin] = e.client

Maps ==
    {m \in [entries : Seq(Entries), reverse : Reverses, dirty : BOOLEAN] :
        EntriesOK(m.entries) /\ IsReverse(m.reverse, Range(m.entries))}

LEMMA EntryMeans ==
    /\ \A c \in Ids, p \in Contexts : Entry(c, p) \in Entries /\ Entry(c, p).client = c /\ Entry(c, p).plugin = p
    /\ \A e \in Entries : e.client \in Ids /\ e.plugin \in Contexts /\ e = Entry(e.client, e.plugin)
    /\ \A p \in Contexts : DefaultId[p] \in Ids
    /\ ClientIds \subseteq Ids
  BY NamesAssumption DEF Entries, Entry, Ids, Range

LEMMA MapMeans ==
    ASSUME NEW m \in Maps
    PROVE  /\ m.entries \in Seq(Entries) /\ Distinct(m.entries) /\ m.dirty \in BOOLEAN
           /\ Range(m.entries) \subseteq Entries /\ Apart(Range(m.entries)) /\ Fitting(Range(m.entries))
           /\ \A e \in Range(m.entries) : HasPlugin(m, e.plugin) /\ FindClientId(m, e.plugin) = e.client
           /\ \A p : HasPlugin(m, p) => p \in Contexts /\ Entry(FindClientId(m, p), p) \in Range(m.entries)
<1>1. m.entries \in Seq(Entries) /\ m.dirty \in BOOLEAN /\ EntriesOK(m.entries) /\ IsReverse(m.reverse, Range(m.entries))
  BY DEF Maps
<1>2. Range(m.entries) \subseteq Entries
  BY <1>1, SeqMeans
<1>3. \A e \in Range(m.entries) : HasPlugin(m, e.plugin) /\ FindClientId(m, e.plugin) = e.client
  BY <1>1 DEF IsReverse, HasPlugin, FindClientId
<1>4. ASSUME NEW p, HasPlugin(m, p)
      PROVE  p \in Contexts /\ Entry(FindClientId(m, p), p) \in Range(m.entries)
  <2>1. PICK e \in Range(m.entries) : e.plugin = p
    BY <1>1, <1>4 DEF IsReverse, HasPlugin
  <2>2. e \in Entries /\ FindClientId(m, p) = e.client
    BY <1>2, <1>3, <2>1
  <2> QED BY <2>1, <2>2, EntryMeans
<1> QED BY <1>1, <1>2, <1>3, <1>4 DEF EntriesOK

LEMMA MapIs ==
    ASSUME NEW s, EntriesOK(s), NEW r, IsReverse(r, Range(s)), NEW dirty \in BOOLEAN
    PROVE  [entries |-> s, reverse |-> r, dirty |-> dirty] \in Maps
  BY DEF Maps, EntriesOK, IsReverse

LEMMA PlaceMeans ==
    ASSUME NEW m \in Maps, NEW e \in Range(m.entries)
    PROVE  /\ PlaceOf(m, e.client) \in DOMAIN m.entries /\ m.entries[PlaceOf(m, e.client)] = e
           /\ HasClient(m, e.client) /\ FindPluginId(m, e.client) = e.plugin
<1> DEFINE i == PlaceOf(m, e.client)
<1>1. \E j \in DOMAIN m.entries : m.entries[j].client = e.client
  BY DEF Range
<1>2. i \in DOMAIN m.entries /\ m.entries[i].client = e.client
  BY <1>1 DEF PlaceOf
<1> HIDE DEF i
<1>3. m.entries[i] \in Range(m.entries)
  BY <1>2 DEF Range
<1>4. m.entries[i] = e
  BY <1>2, <1>3, MapMeans DEF Apart
<1> QED BY <1>2, <1>4 DEF i, HasClient, FindPluginId

LEMMA PutMakes ==
    ASSUME NEW es \in SUBSET Entries, NEW r, IsReverse(r, es), NEW c \in Ids, NEW p \in Contexts,
           \A e \in es : e.plugin # p
    PROVE  IsReverse(Put(r, p, c), es \cup {Entry(c, p)})
<1> DEFINE u == Put(r, p, c)
           new == Entry(c, p)
<1>0. new \in Entries /\ new.client = c /\ new.plugin = p
  BY EntryMeans
<1>1. DOMAIN r \subseteq Contexts /\ \A q \in DOMAIN r : r[q] \in Ids
  BY DEF IsReverse, Reverses
<1>2. u \in [DOMAIN r \cup {p} -> Ids]
  BY <1>1 DEF Put
<1>3. DOMAIN r \cup {p} \in SUBSET Contexts
  BY <1>1
<1>4. u \in Reverses
  BY <1>2, <1>3 DEF Reverses
<1>5. u[p] = c /\ \A q \in DOMAIN r \ {p} : u[q] = r[q]
  BY DEF Put
<1> HIDE DEF u, new
<1>6. DOMAIN u = {e.plugin : e \in es \cup {new}}
  BY <1>0, <1>2 DEF IsReverse
<1>7. \A e \in es \cup {new} : u[e.plugin] = e.client
  BY <1>0, <1>5 DEF IsReverse
<1> QED BY <1>4, <1>6, <1>7 DEF IsReverse, u, new

LEMMA StoreMakes ==
    ASSUME NEW m \in Maps, NEW c \in Ids, NEW p \in Contexts, ~HasClient(m, c), ~HasPlugin(m, p),
           c \in ClientIds \/ c = DefaultId[p]
    PROVE  /\ StoreMap(m, c, p) \in Maps /\ StoreMap(m, c, p).dirty
           /\ Range(StoreMap(m, c, p).entries) = Range(m.entries) \cup {Entry(c, p)}
<1> DEFINE es == Range(m.entries)
           new == Entry(c, p)
           s == Append(m.entries, new)
           r == Put(m.reverse, p, c)
<1>1. new \in Entries /\ new.client = c /\ new.plugin = p
  BY EntryMeans
<1>2. \A e \in es : e.client # c /\ e.plugin # p
  BY MapMeans DEF HasClient
<1>3. s \in Seq(Entries) /\ Distinct(s) /\ Range(s) = es \cup {new}
  <2>1. new \notin es
    BY <1>1, <1>2
  <2> HIDE DEF new, es
  <2> QED BY <1>1, <2>1, MapMeans, AppendMakes DEF es
<1>4. IsReverse(m.reverse, es) /\ es \in SUBSET Entries
  BY MapMeans DEF Maps
<1>5. IsReverse(r, es \cup {new})
  BY <1>2, <1>4, PutMakes
<1>6. StoreMap(m, c, p) = [entries |-> s, reverse |-> r, dirty |-> TRUE]
  BY DEF StoreMap
<1>7. Apart(es) /\ Fitting(es)
  BY MapMeans
<1> HIDE DEF s, r, es, new
<1>8. Apart(es \cup {new}) /\ Fitting(es \cup {new})
  BY <1>1, <1>2, <1>7 DEF Apart, Fitting
<1>9. EntriesOK(s)
  BY <1>3, <1>8 DEF EntriesOK
<1>10. StoreMap(m, c, p) \in Maps
  BY <1>3, <1>5, <1>6, <1>9, MapIs
<1>11. StoreMap(m, c, p).dirty /\ StoreMap(m, c, p).entries = s
  BY <1>6
<1> QED BY <1>3, <1>10, <1>11 DEF es, new

LEMMA DeleteMakes ==
    ASSUME NEW m \in Maps, NEW e \in Range(m.entries)
    PROVE  /\ DeleteMap(m, e.client) \in Maps /\ DeleteMap(m, e.client).dirty
           /\ Range(DeleteMap(m, e.client).entries) = Range(m.entries) \ {e}
<1> DEFINE es == Range(m.entries)
           s == RemoveAt(m.entries, PlaceOf(m, e.client))
           ps == DOMAIN m.reverse \ {e.plugin}
           r == Restrict(m.reverse, ps)
<1>1. s \in Seq(Entries) /\ Distinct(s) /\ Range(s) = es \ {e}
  <2>1. m.entries \in Seq(Entries) /\ Distinct(m.entries)
    BY MapMeans
  <2>2. PlaceOf(m, e.client) \in DOMAIN m.entries /\ m.entries[PlaceOf(m, e.client)] = e
    BY PlaceMeans
  <2> QED BY <2>1, <2>2, RemoveAtMakes
<1>2. DeleteMap(m, e.client) = [entries |-> s, reverse |-> r, dirty |-> TRUE]
  BY PlaceMeans DEF DeleteMap
<1>3. Apart(es) /\ Fitting(es) /\ es \subseteq Entries
  BY MapMeans
<1>4. IsReverse(r, es \ {e})
  <2>1. IsReverse(m.reverse, es)
    BY DEF Maps
  <2>2. ps \in SUBSET Contexts /\ \A q \in ps : m.reverse[q] \in Ids
    BY <2>1 DEF IsReverse, Reverses
  <2>3. r \in [ps -> Ids] /\ \A q \in ps : r[q] = m.reverse[q]
    BY <2>2 DEF Restrict
  <2>4. r \in Reverses
    BY <2>2, <2>3 DEF Reverses
  <2>5. ps = {d.plugin : d \in es \ {e}}
    BY <1>3, <2>1 DEF IsReverse, Apart
  <2> HIDE DEF r, ps, es
  <2>6. \A d \in es \ {e} : r[d.plugin] = d.client
    BY <2>1, <2>3, <2>5 DEF IsReverse
  <2> QED BY <2>3, <2>4, <2>5, <2>6 DEF IsReverse
<1> HIDE DEF s, r, es
<1>5. Apart(es \ {e}) /\ Fitting(es \ {e})
  BY <1>3 DEF Apart, Fitting
<1>6. EntriesOK(s)
  BY <1>1, <1>5 DEF EntriesOK
<1>7. DeleteMap(m, e.client) \in Maps
  BY <1>1, <1>2, <1>4, <1>6, MapIs
<1>8. DeleteMap(m, e.client).dirty /\ DeleteMap(m, e.client).entries = s
  BY <1>2
<1> QED BY <1>1, <1>7, <1>8 DEF es

-----------------------------------------------------------------------------
(* Every context gets a name. *)

NameIn(m, p) == Entry(IF HasPlugin(m, p) THEN FindClientId(m, p) ELSE DefaultId[p], p)

(* What is new is in the entries, and a map that says that it is as it was  *)
(* saved is.                                                                *)
Becomes(m, es, u) == Range(u.entries) = es /\ (~u.dirty => ~m.dirty /\ u.entries = m.entries)

LEMMA NameStep ==
    ASSUME Plain, NEW m \in Maps, NEW qs \in SUBSET Contexts, NEW u \in Maps, NEW p \in Contexts,
           Becomes(m, Range(m.entries) \cup {NameIn(m, q) : q \in qs}, u)
    PROVE  /\ NameContext(u, p) \in Maps
           /\ Becomes(m, Range(m.entries) \cup {NameIn(m, q) : q \in qs \cup {p}}, NameContext(u, p))
<1> DEFINE es == Range(m.entries)
           now == Range(u.entries)
           named == {NameIn(m, q) : q \in qs}
           w == NameContext(u, p)
           new == NameIn(m, p)
<1>0. /\ \A q \in Contexts : NameIn(m, q) \in Entries /\ NameIn(m, q).plugin = q
      /\ es \subseteq now /\ now = es \cup named
  <2>1. ASSUME NEW q \in Contexts PROVE (IF HasPlugin(m, q) THEN FindClientId(m, q) ELSE DefaultId[q]) \in Ids
    <3>1. CASE HasPlugin(m, q)
      <4>1. q \in DOMAIN m.reverse /\ m.reverse \in Reverses
        BY <3>1 DEF HasPlugin, Maps
      <4> QED BY <3>1, <4>1 DEF Reverses, FindClientId
    <3>2. CASE ~HasPlugin(m, q)
      BY <3>2, EntryMeans
    <3> QED BY <3>1, <3>2
  <2> QED BY <2>1, EntryMeans DEF NameIn, Becomes
<1>1. {NameIn(m, q) : q \in qs \cup {p}} = named \cup {new}
  OBVIOUS
<1>2. CASE HasPlugin(u, p)
  <2>1. w = u
    BY <1>2 DEF NameContext
  <2>2. Entry(FindClientId(u, p), p) \in now /\ FindClientId(u, p) \in Ids
    <3>1. p \in DOMAIN u.reverse /\ u.reverse \in Reverses
      BY <1>2 DEF HasPlugin, Maps
    <3> QED BY <1>2, <3>1, MapMeans DEF Reverses, FindClientId
  <2>3. PICK e \in now : e.plugin = p
    BY <2>2, EntryMeans
  <2>4. CASE e \in es
    <3>1. HasPlugin(m, p) /\ FindClientId(m, p) = e.client /\ e \in Entries
      BY <2>3, <2>4, MapMeans
    <3>2. new = e
      BY <2>3, <3>1, EntryMeans DEF NameIn
    <3> QED BY <1>0, <1>1, <2>1, <2>4, <3>2 DEF Becomes
  <2>5. CASE e \in named
    <3>1. PICK q \in qs : e = NameIn(m, q)
      BY <2>5
    <3>2. q = p
      BY <1>0, <2>3, <3>1
    <3> QED BY <1>0, <1>1, <2>1, <2>5, <3>1, <3>2 DEF Becomes
  <2> QED BY <1>0, <2>3, <2>4, <2>5
<1>3. CASE ~HasPlugin(u, p)
  <2>1. ~HasPlugin(m, p)
    <3>1. ASSUME HasPlugin(m, p) PROVE FALSE
      <4>1. Entry(FindClientId(m, p), p) \in es
        BY <3>1, MapMeans
      <4>2. PICK e \in es : e = Entry(FindClientId(m, p), p)
        BY <4>1
      <4>3. e.plugin = p
        BY <4>2 DEF Entry
      <4> QED BY <1>0, <1>3, <4>2, <4>3, MapMeans
    <3> QED BY <3>1
  <2>2. new = Entry(DefaultId[p], p) /\ DefaultId[p] \in Ids
    BY <2>1, EntryMeans DEF NameIn
  <2>3. ~HasClient(u, DefaultId[p])
    <3>1. ASSUME NEW e \in now, e.client = DefaultId[p] PROVE FALSE
      <4>1. e \in Entries /\ (e.client \in ClientIds \/ e.client = DefaultId[e.plugin])
        BY MapMeans DEF Fitting
      <4>2. e.plugin = p
        BY <3>1, <4>1, EntryMeans DEF Plain
      <4> QED BY <1>3, <4>2, MapMeans
    <3> QED BY <3>1 DEF HasClient
  <2>4. w = StoreMap(u, DefaultId[p], p)
    BY <1>3 DEF NameContext
  <2>5. w \in Maps /\ w.dirty /\ Range(w.entries) = now \cup {new}
    BY <1>3, <2>2, <2>3, <2>4, StoreMakes
  <2> HIDE DEF w, new, named
  <2> QED BY <1>0, <1>1, <2>5 DEF Becomes, w, new
<1> QED BY <1>2, <1>3

LEMMA NameTypes ==
    ASSUME Plain, NEW m \in Maps, NEW p \in Contexts
    PROVE  NameContext(m, p) \in Maps
<1>1. Becomes(m, Range(m.entries) \cup {NameIn(m, q) : q \in {}}, m)
  BY MapMeans DEF Becomes
<1> QED BY <1>1, NameStep

LEMMA NamesMake ==
    ASSUME Plain, NEW m \in Maps, NEW list \in Seq(Contexts)
    PROVE  /\ FoldLeft(NameContext, m, list) \in Maps
           /\ Becomes(m, Range(m.entries) \cup {NameIn(m, p) : p \in Range(list)}, FoldLeft(NameContext, m, list))
<1> DEFINE S == DOMAIN list
           last(s) == Max(s)
           pick == [s \in (SUBSET S) \ {{}} |-> last(s)]
           step(s, u) == NameContext(u, list[last(s)])
           ps(s) == {list[i] : i \in s}
           becomes(s, u) == Becomes(m, Range(m.entries) \cup {NameIn(m, p) : p \in ps(s)}, u)
           g == [p \in (SUBSET S) \X Maps |-> IF p[1] = {} THEN p[2] ELSE step(p[1], p[2])]
           IsFold(f) == f = [s \in SUBSET S |-> IF s = {} THEN m ELSE step(s, f[s \ {last(s)}])]
           it == CHOOSE f : IsFold(f)
           K == {p \in (SUBSET S) \X Maps : becomes(p[1], p[2])}
<1>1. /\ Len(list) \in Nat /\ S = 1..Len(list) /\ \A i \in S : list[i] \in Contexts
      /\ Range(list) = ps(S) /\ IsFiniteSet(S)
  BY SeqMeans, FS_Interval DEF Range
<1>2. FoldLeft(NameContext, m, list) = it[S]
  BY DEF FoldLeft, MapThenFoldSet
<1>a. \A s \in (SUBSET S) \ {{}} : last(s) \in s
  BY <1>1, LastIndex
<1>b. IsPick(pick, S) /\ \A s \in (SUBSET S) \ {{}} : Rest(pick, s) = s \ {last(s)}
  BY <1>a DEF IsPick, Rest
<1>c. \A s \in (SUBSET S) \ {{}}, u \in Maps : step(s, u) \in Maps
  <2> HIDE DEF last
  <2> QED BY <1>1, <1>a, NameTypes
<1>d. g \in [(SUBSET S) \X Maps -> Maps] /\ \A s \in (SUBSET S) \ {{}}, u \in Maps : g[<<s, u>>] = step(s, u)
  <2> HIDE DEF step
  <2> QED BY <1>c
<1> HIDE DEF pick, g, step, last, S
<1>3. \E f : IsFold(f)
  <2>1. PICK h \in [SUBSET S -> Maps] : Stages(h, pick, S, m, g)
    BY <1>1, <1>b, <1>d, FoldExists
  <2>2. ASSUME NEW s \in SUBSET S PROVE h[s] = IF s = {} THEN m ELSE step(s, h[s \ {last(s)}])
    <3>1. h[s \ {last(s)}] \in Maps
      OBVIOUS
    <3> QED BY <1>b, <1>d, <2>1, <3>1 DEF Stages
  <2>3. IsFold(h)
    BY <2>2
  <2> QED BY <2>3
<1>4. IsFold(it)
  BY <1>3
<1> HIDE DEF it
<1>5. <<{}, it[{}]>> \in K
  <2>1. it[{}] = m
    BY <1>4
  <2>2. becomes({}, m)
    BY DEF Becomes
  <2> QED BY <2>1, <2>2
<1>6. ASSUME NEW s \in (SUBSET S) \ {{}}, <<Rest(pick, s), it[Rest(pick, s)]>> \in K
      PROVE  it[s] = g[<<s, it[Rest(pick, s)]>>] /\ <<s, g[<<s, it[Rest(pick, s)]>>]>> \in K
  <2> DEFINE r == s \ {last(s)}
             u == it[r]
  <2>1. u \in Maps /\ becomes(r, u)
    BY <1>6, <1>b
  <2>2. it[s] = step(s, u) /\ g[<<s, u>>] = step(s, u)
    BY <1>4, <1>d, <2>1
  <2>3. last(s) \in s /\ list[last(s)] \in Contexts /\ ps(r) \in SUBSET Contexts
    BY <1>1, <1>a
  <2>4. ps(s) = ps(r) \cup {list[last(s)]}
    BY <2>3
  <2> HIDE DEF u, ps
  <2>5. becomes(s, step(s, u)) /\ step(s, u) \in Maps
    BY <2>1, <2>3, <2>4, NameStep DEF step
  <2> QED BY <1>b, <2>2, <2>5 DEF u
<1> HIDE DEF K
<1>7. \A s \in SUBSET S : <<s, it[s]>> \in K
  <2>1. K \in SUBSET ((SUBSET S) \X Maps)
    BY DEF K
  <2>2. Keeps(it, pick, S, g, K)
    BY <1>6 DEF Keeps
  <2> QED BY <1>1, <1>b, <1>d, <1>5, <2>1, <2>2, FoldKeeps
<1> QED BY <1>1, <1>2, <1>7 DEF K

-----------------------------------------------------------------------------
(* Entries that are not used go. *)

LEMMA DeleteTypes ==
    ASSUME NEW m \in Maps, NEW c
    PROVE  DeleteMap(m, c) \in Maps
<1>1. CASE HasClient(m, c)
  <2>1. PICK e \in Range(m.entries) : e.client = c
    BY <1>1 DEF HasClient
  <2> QED BY <2>1, DeleteMakes
<1>2. CASE ~HasClient(m, c)
  BY <1>2 DEF DeleteMap
<1> QED BY <1>1, <1>2

Unused(es, used) == {e \in es : e.plugin \notin used}

LEMMA UnusedStep ==
    ASSUME NEW m \in Maps, NEW used, NEW ds \in SUBSET Range(m.entries), NEW u \in Maps, NEW e \in Range(m.entries) \ ds,
           Becomes(m, Range(m.entries) \ Unused(ds, used), u), e.plugin \notin used
    PROVE  Becomes(m, Range(m.entries) \ Unused(ds \cup {e}, used), DeleteMap(u, e.client))
<1>1. e \in Range(u.entries)
  BY DEF Becomes, Unused
<1>2. DeleteMap(u, e.client).dirty /\ Range(DeleteMap(u, e.client).entries) = Range(u.entries) \ {e}
  BY <1>1, DeleteMakes
<1>3. Unused(ds \cup {e}, used) = Unused(ds, used) \cup {e}
  BY DEF Unused
<1> QED BY <1>2, <1>3 DEF Becomes

LEMMA RemoveUnusedMakes ==
    ASSUME NEW m \in Maps, NEW used
    PROVE  /\ RemoveUnused(m, used) \in Maps
           /\ Becomes(m, {e \in Range(m.entries) : e.plugin \in used}, RemoveUnused(m, used))
<1> DEFINE list == m.entries
           S == DOMAIN list
           last(s) == Max(s)
           pick == [s \in (SUBSET S) \ {{}} |-> last(s)]
           step(s, u) == IF list[last(s)].plugin \in used THEN u ELSE DeleteMap(u, list[last(s)].client)
           ds(s) == {list[i] : i \in s}
           becomes(s, u) == Becomes(m, Range(list) \ Unused(ds(s), used), u)
           g == [p \in (SUBSET S) \X Maps |-> IF p[1] = {} THEN p[2] ELSE step(p[1], p[2])]
           IsFold(f) == f = [s \in SUBSET S |-> IF s = {} THEN m ELSE step(s, f[s \ {last(s)}])]
           it == CHOOSE f : IsFold(f)
           K == {p \in (SUBSET S) \X Maps : becomes(p[1], p[2])}
<1>1. /\ Len(list) \in Nat /\ S = 1..Len(list) /\ \A i \in S : list[i] \in Range(list)
      /\ Range(list) = ds(S) /\ IsFiniteSet(S) /\ Distinct(list)
  <2>1. list \in Seq(Entries) /\ Distinct(list)
    BY MapMeans
  <2>2. Len(list) \in Nat /\ S = 1..Len(list)
    BY <2>1, SeqMeans
  <2>3. Range(list) = ds(S)
    BY DEF Range
  <2>4. IsFiniteSet(S)
    BY <2>2, FS_Interval
  <2>5. \A i \in S : list[i] \in Range(list)
    BY <2>3
  <2> HIDE DEF list
  <2> QED BY <2>1, <2>2, <2>3, <2>4, <2>5
<1>2. RemoveUnused(m, used) = it[S]
  BY DEF RemoveUnused, FoldLeft, MapThenFoldSet
<1>a. \A s \in (SUBSET S) \ {{}} : last(s) \in s
  BY <1>1, LastIndex
<1>b. IsPick(pick, S) /\ \A s \in (SUBSET S) \ {{}} : Rest(pick, s) = s \ {last(s)}
  BY <1>a DEF IsPick, Rest
<1>c. \A s \in (SUBSET S) \ {{}}, u \in Maps : step(s, u) \in Maps
  <2> HIDE DEF last, list
  <2> QED BY DeleteTypes
<1>d. g \in [(SUBSET S) \X Maps -> Maps] /\ \A s \in (SUBSET S) \ {{}}, u \in Maps : g[<<s, u>>] = step(s, u)
  <2> HIDE DEF step
  <2> QED BY <1>c
<1> HIDE DEF pick, g, step, last, S
<1>3. \E f : IsFold(f)
  <2>1. PICK h \in [SUBSET S -> Maps] : Stages(h, pick, S, m, g)
    BY <1>1, <1>b, <1>d, FoldExists
  <2>2. ASSUME NEW s \in SUBSET S PROVE h[s] = IF s = {} THEN m ELSE step(s, h[s \ {last(s)}])
    <3>1. h[s \ {last(s)}] \in Maps
      OBVIOUS
    <3> QED BY <1>b, <1>d, <2>1, <3>1 DEF Stages
  <2>3. IsFold(h)
    BY <2>2
  <2> QED BY <2>3
<1>4. IsFold(it)
  BY <1>3
<1> HIDE DEF it, list
<1>5. <<{}, it[{}]>> \in K
  <2>1. it[{}] = m
    BY <1>4
  <2>2. becomes({}, m)
    BY DEF Becomes, Unused, list
  <2> QED BY <2>1, <2>2
<1>6. ASSUME NEW s \in (SUBSET S) \ {{}}, <<Rest(pick, s), it[Rest(pick, s)]>> \in K
      PROVE  it[s] = g[<<s, it[Rest(pick, s)]>>] /\ <<s, g[<<s, it[Rest(pick, s)]>>]>> \in K
  <2> DEFINE r == s \ {last(s)}
             u == it[r]
             e == list[last(s)]
  <2>1. u \in Maps /\ becomes(r, u)
    BY <1>6, <1>b
  <2>2. it[s] = step(s, u) /\ g[<<s, u>>] = step(s, u) /\ step(s, u) \in Maps
    BY <1>4, <1>c, <1>d, <2>1
  <2>3. last(s) \in s /\ e \in Range(list) \ ds(r) /\ ds(r) \in SUBSET Range(list)
    BY <1>1, <1>a DEF Distinct, S
  <2>4. ds(s) = ds(r) \cup {e}
    BY <2>3
  <2> HIDE DEF u, ds, e
  <2>5. CASE e.plugin \in used
    <3>1. step(s, u) = u
      BY <2>5 DEF step, e
    <3>2. Unused(ds(s), used) = Unused(ds(r), used)
      BY <2>4, <2>5 DEF Unused
    <3> QED BY <1>b, <2>1, <2>2, <3>1, <3>2 DEF u
  <2>6. CASE e.plugin \notin used
    <3>1. step(s, u) = DeleteMap(u, e.client)
      BY <2>6 DEF step, e
    <3>2. Becomes(m, Range(m.entries) \ Unused(ds(r) \cup {e}, used), DeleteMap(u, e.client))
      <4> HIDE DEF r
      <4> QED BY <2>1, <2>3, <2>6, UnusedStep DEF list
    <3>3. becomes(s, step(s, u))
      BY <2>4, <3>1, <3>2 DEF list
    <3> QED BY <1>b, <2>2, <3>3 DEF u
  <2> QED BY <2>5, <2>6
<1> HIDE DEF K
<1>7. \A s \in SUBSET S : <<s, it[s]>> \in K
  <2>1. K \in SUBSET ((SUBSET S) \X Maps)
    BY DEF K
  <2>2. Keeps(it, pick, S, g, K)
    BY <1>6 DEF Keeps
  <2> QED BY <1>1, <1>b, <1>d, <1>5, <2>1, <2>2, FoldKeeps
<1>8. <<S, it[S]>> \in K
  BY <1>7
<1>9. it[S] \in Maps /\ Becomes(m, Range(list) \ Unused(Range(list), used), it[S])
  BY <1>1, <1>8 DEF K
<1>10. Range(list) \ Unused(Range(list), used) = {e \in Range(list) : e.plugin \in used}
  BY DEF Unused
<1> QED BY <1>2, <1>9, <1>10 DEF list

-----------------------------------------------------------------------------
(* The reverse map that a restart builds. *)

LEMMA PutTypes ==
    ASSUME NEW r \in Reverses, NEW e \in Entries
    PROVE  Put(r, e.plugin, e.client) \in Reverses
<1>1. e.client \in Ids /\ e.plugin \in Contexts
  BY EntryMeans
<1>2. DOMAIN r \cup {e.plugin} \in SUBSET Contexts /\ \A q \in DOMAIN r : r[q] \in Ids
  BY <1>1 DEF Reverses
<1>3. Put(r, e.plugin, e.client) \in [DOMAIN r \cup {e.plugin} -> Ids]
  BY <1>1, <1>2 DEF Put
<1> QED BY <1>2, <1>3 DEF Reverses

LEMMA ReverseMakes ==
    ASSUME NEW list, EntriesOK(list)
    PROVE  IsReverse(ReverseOf(list), Range(list))
<1> DEFINE S == DOMAIN list
           last(s) == Max(s)
           pick == [s \in (SUBSET S) \ {{}} |-> last(s)]
           none == [p \in {} |-> {}]
           step(s, r) == Put(r, list[last(s)].plugin, list[last(s)].client)
           es(s) == {list[i] : i \in s}
           g == [p \in (SUBSET S) \X Reverses |-> IF p[1] = {} THEN p[2] ELSE step(p[1], p[2])]
           IsFold(f) == f = [s \in SUBSET S |-> IF s = {} THEN none ELSE step(s, f[s \ {last(s)}])]
           it == CHOOSE f : IsFold(f)
           K == {p \in (SUBSET S) \X Reverses : IsReverse(p[2], es(p[1]))}
<1>1. /\ Len(list) \in Nat /\ S = 1..Len(list) /\ \A i \in S : list[i] \in Entries
      /\ Range(list) = es(S) /\ IsFiniteSet(S) /\ Distinct(list) /\ Apart(es(S))
  <2>1. list \in Seq(Entries) /\ Distinct(list) /\ Apart(Range(list))
    BY DEF EntriesOK
  <2>2. Len(list) \in Nat /\ S = 1..Len(list)
    BY <2>1, SeqMeans
  <2>3. Range(list) = es(S)
    BY DEF Range
  <2> QED BY <2>1, <2>2, <2>3, FS_Interval
<1>2. ReverseOf(list) = it[S]
  BY DEF ReverseOf, FoldLeft, MapThenFoldSet
<1>0. none \in Reverses /\ DOMAIN none = {}
  <2>1. none \in [{} -> Ids] /\ {} \in SUBSET Contexts
    OBVIOUS
  <2> QED BY <2>1 DEF Reverses
<1>a. \A s \in (SUBSET S) \ {{}} : last(s) \in s
  BY <1>1, LastIndex
<1>b. IsPick(pick, S) /\ \A s \in (SUBSET S) \ {{}} : Rest(pick, s) = s \ {last(s)}
  BY <1>a DEF IsPick, Rest
<1>c. \A s \in (SUBSET S) \ {{}}, r \in Reverses : step(s, r) \in Reverses
  <2> HIDE DEF last
  <2> QED BY <1>1, <1>a, PutTypes
<1>d. g \in [(SUBSET S) \X Reverses -> Reverses] /\ \A s \in (SUBSET S) \ {{}}, r \in Reverses : g[<<s, r>>] = step(s, r)
  <2> HIDE DEF step
  <2> QED BY <1>c
<1> HIDE DEF pick, g, step, last, S, none
<1>3. \E f : IsFold(f)
  <2>1. PICK h \in [SUBSET S -> Reverses] : Stages(h, pick, S, none, g)
    BY <1>0, <1>1, <1>b, <1>d, FoldExists
  <2>2. ASSUME NEW s \in SUBSET S PROVE h[s] = IF s = {} THEN none ELSE step(s, h[s \ {last(s)}])
    <3>1. h[s \ {last(s)}] \in Reverses
      OBVIOUS
    <3> QED BY <1>b, <1>d, <2>1, <3>1 DEF Stages
  <2>3. IsFold(h)
    BY <2>2
  <2> QED BY <2>3
<1>4. IsFold(it)
  BY <1>3
<1> HIDE DEF it
<1>5. <<{}, it[{}]>> \in K
  <2>1. it[{}] = none
    BY <1>4
  <2>2. IsReverse(none, es({}))
    BY <1>0 DEF IsReverse
  <2> QED BY <1>0, <2>1, <2>2
<1>6. ASSUME NEW s \in (SUBSET S) \ {{}}, <<Rest(pick, s), it[Rest(pick, s)]>> \in K
      PROVE  it[s] = g[<<s, it[Rest(pick, s)]>>] /\ <<s, g[<<s, it[Rest(pick, s)]>>]>> \in K
  <2> DEFINE rest == s \ {last(s)}
             r == it[rest]
             e == list[last(s)]
  <2>1. r \in Reverses /\ IsReverse(r, es(rest))
    BY <1>6, <1>b
  <2>2. it[s] = step(s, r) /\ g[<<s, r>>] = step(s, r) /\ step(s, r) \in Reverses
    BY <1>4, <1>c, <1>d, <2>1
  <2>3. /\ last(s) \in s /\ last(s) \in S /\ e \in Entries /\ e = Entry(e.client, e.plugin)
        /\ e.client \in Ids /\ e.plugin \in Contexts /\ es(rest) \in SUBSET Entries
    BY <1>1, <1>a, EntryMeans
  <2>4. es(s) = es(rest) \cup {e}
    BY <2>3
  <2>5. ASSUME NEW d \in es(rest), d.plugin = e.plugin PROVE FALSE
    <3>1. PICK i \in rest : d = list[i]
      OBVIOUS
    <3>2. i \in S /\ i # last(s)
      BY <3>1
    <3>3. list[i] = list[last(s)]
      BY <1>1, <2>3, <2>5, <3>1, <3>2 DEF Apart
    <3> QED BY <1>1, <2>3, <3>2, <3>3 DEF Distinct, S
  <2> HIDE DEF r, es, e
  <2>6. IsReverse(step(s, r), es(s))
    BY <2>1, <2>3, <2>4, <2>5, PutMakes DEF step, e
  <2> QED BY <1>b, <2>2, <2>6 DEF r
<1> HIDE DEF K
<1>7. \A s \in SUBSET S : <<s, it[s]>> \in K
  <2>1. K \in SUBSET ((SUBSET S) \X Reverses)
    BY DEF K
  <2>2. Keeps(it, pick, S, g, K)
    BY <1>6 DEF Keeps
  <2> QED BY <1>0, <1>1, <1>b, <1>d, <1>5, <2>1, <2>2, FoldKeeps
<1> QED BY <1>1, <1>2, <1>7 DEF K

LEMMA ReverseIs ==
    ASSUME NEW m \in Maps
    PROVE  m.reverse = ReverseOf(m.entries)
<1>1. IsReverse(m.reverse, Range(m.entries)) /\ IsReverse(ReverseOf(m.entries), Range(m.entries))
  BY ReverseMakes DEF Maps
<1> DEFINE r == m.reverse
           u == ReverseOf(m.entries)
<1>2. r \in Reverses /\ u \in Reverses /\ DOMAIN r = DOMAIN u
  BY <1>1 DEF IsReverse
<1>3. \A p \in DOMAIN r : r[p] = u[p]
  BY <1>1 DEF IsReverse
<1> HIDE DEF r, u
<1>4. PICK ps \in SUBSET Contexts : r \in [ps -> Ids]
  BY <1>2 DEF Reverses
<1>5. PICK qs \in SUBSET Contexts : u \in [qs -> Ids]
  BY <1>2 DEF Reverses
<1>6. DOMAIN r = ps /\ DOMAIN u = qs
  BY <1>4, <1>5
<1>7. r \in [ps -> Ids] /\ u \in [ps -> Ids] /\ \A p \in ps : r[p] = u[p]
  BY <1>2, <1>3, <1>4, <1>5, <1>6
<1>8. r = u
  BY <1>7
<1> QED BY <1>8 DEF r, u

-----------------------------------------------------------------------------
(* The inductive invariant. *)

Phases == {"closed", "open", "storing"}
TypesOK == contexts \in SUBSET Contexts /\ full \in BOOLEAN /\ phase \in Phases /\ map \in Maps

(* The file can be loaded, and is what a map that is not dirty says.        *)
FileInv == EntriesOK(file) /\ (~map.dirty => map.entries = file)

(* What an earlier session has left in the settings is in the map, and what *)
(* is in the map has been listed.                                           *)
SettingsInv ==
    /\ settings \subseteq Range(map.entries)
    /\ phase = "closed" => \A e \in settings : e.plugin \in contexts
    /\ phase = "open" => \A e \in Range(map.entries) : e.client \in IdsIn(settings)

(* Contexts that are still to be created have names that clients gave, each *)
(* another one, and none that is in use.                                    *)
IsAdd(cs, i) == i \in DOMAIN cs /\ cs[i].type = "add"
AddsOK(cs, es) ==
    /\ cs \in Seq(Commands)
    /\ \A i \in DOMAIN cs : IsAdd(cs, i) =>
          cs[i].client \in ClientIds /\ \A e \in es : e.client # cs[i].client
    /\ \A i, j \in DOMAIN cs : IsAdd(cs, i) /\ IsAdd(cs, j) /\ cs[i].client = cs[j].client => i = j
CmdsInv == AddsOK(cmds, Range(map.entries)) /\ (phase # "storing" => cmds = <<>>)

(* The names that clients gave are in the map, those that were saved in the *)
(* file.                                                                    *)
Knows(es, names) == \A p \in DOMAIN names : Entry(names[p], p) \in es
NamesInv == DOMAIN given \subseteq contexts /\ Knows(Range(map.entries), given) /\ Knows(Range(file), kept)

Inv == TypesOK /\ FileInv /\ SettingsInv /\ CmdsInv /\ NamesInv

LEMMA NoEntries == EntriesOK(<<>>) /\ Range(<<>>) = {} /\ \A es : AddsOK(<<>>, es)
  BY DEF EntriesOK, Range, Distinct, Apart, Fitting, AddsOK, IsAdd

LEMMA LoadMakes ==
    ASSUME NEW f, EntriesOK(f)
    PROVE  Load(f) \in Maps /\ Load(f).entries = f /\ ~Load(f).dirty
<1>1. Load(f) \in Maps
  BY MapIs, ReverseMakes DEF Load
<1> QED BY <1>1 DEF Load

LEMMA SaveMakes ==
    ASSUME NEW m \in Maps, EntriesOK(file), ~m.dirty => m.entries = file, full \in BOOLEAN
    PROVE  /\ Saved(m, full) \in Maps /\ Saved(m, full).entries = m.entries
           /\ EntriesOK(SavedFile(m, full, file))
           /\ ~Saved(m, full).dirty => m.entries = SavedFile(m, full, file)
           /\ SavedFile(m, full, file) = IF full THEN file ELSE m.entries
<1>1. m.dirty \in BOOLEAN /\ EntriesOK(m.entries) /\ m.reverse \in Reverses
  BY DEF Maps
<1>2. Saved(m, full) = [entries |-> m.entries, reverse |-> m.reverse, dirty |-> m.dirty /\ full]
  BY DEF Saved, Maps
<1>3. Saved(m, full) \in Maps
  BY <1>1, <1>2, MapIs DEF Maps
<1>4. Saved(m, full).entries = m.entries /\ Saved(m, full).dirty = (m.dirty /\ full)
  BY <1>2
<1> QED BY <1>1, <1>3, <1>4 DEF SavedFile

LEMMA InitInv == Init => Inv
<1> SUFFICES ASSUME Init PROVE Inv
  OBVIOUS
<1>1. map \in Maps /\ map.entries = file /\ ~map.dirty /\ EntriesOK(file) /\ Range(file) = {}
  BY NoEntries, LoadMakes DEF Init
<1>2. TypesOK /\ FileInv /\ SettingsInv /\ CmdsInv
  BY <1>1, NoEntries DEF Init, TypesOK, Phases, FileInv, SettingsInv, CmdsInv
<1>3. NamesInv
  BY <1>1 DEF Init, NamesInv, Knows, Nobody
<1> QED BY <1>2, <1>3 DEF Inv

(* What is kept and written at the end of sync_in, and of sync_out.         *)
LEMMA SaveKeeps ==
    ASSUME Inv, NEW m \in Maps, ~m.dirty => m.entries = file, Knows(Range(m.entries), given), Save(m),
           UNCHANGED full
    PROVE  /\ map' \in Maps /\ map'.entries = m.entries /\ FileInv'
           /\ Knows(Range(file'), kept')
<1>1. EntriesOK(file) /\ full \in BOOLEAN
  BY DEF Inv, FileInv, TypesOK
<1>2. map' = Saved(m, full) /\ file' = SavedFile(m, full, file) /\ kept' = IF full THEN kept ELSE given
  BY DEF Save
<1>3. map' \in Maps /\ map'.entries = m.entries /\ FileInv' /\ file' = IF full THEN file ELSE m.entries
  BY <1>1, <1>2, SaveMakes DEF FileInv
<1> QED BY <1>1, <1>2, <1>3 DEF Inv, NamesInv

-----------------------------------------------------------------------------
(* sync_in *)

NamesOf(m, ps) == {NameIn(m, p) : p \in ps}

LEMMA NameInMeans ==
    ASSUME NEW m \in Maps
    PROVE  /\ \A p \in Contexts : NameIn(m, p) \in Entries /\ NameIn(m, p).plugin = p
           /\ \A e \in Range(m.entries) : e.plugin \in Contexts /\ e = NameIn(m, e.plugin)
<1>1. ASSUME NEW p \in Contexts PROVE NameIn(m, p) \in Entries /\ NameIn(m, p).plugin = p
  <2>1. CASE HasPlugin(m, p)
    <3>1. p \in DOMAIN m.reverse /\ m.reverse \in Reverses
      BY <2>1 DEF HasPlugin, Maps
    <3>2. FindClientId(m, p) \in Ids
      BY <3>1 DEF Reverses, FindClientId
    <3> QED BY <2>1, <3>2, EntryMeans DEF NameIn
  <2>2. CASE ~HasPlugin(m, p)
    BY <2>2, EntryMeans DEF NameIn
  <2> QED BY <2>1, <2>2
<1>2. ASSUME NEW e \in Range(m.entries) PROVE e.plugin \in Contexts /\ e = NameIn(m, e.plugin)
  <2>1. e \in Entries /\ HasPlugin(m, e.plugin) /\ FindClientId(m, e.plugin) = e.client
    BY MapMeans
  <2> QED BY <2>1, EntryMeans DEF NameIn
<1> QED BY <1>1, <1>2

(* What is listed of a context is what its name was or becomes, whatever    *)
(* the order in which others are named.                                     *)
LEMMA ListedAs ==
    ASSUME Plain, NEW m \in Maps, NEW list \in Seq(Contexts), NEW i \in DOMAIN list
    PROVE  Entry(FindClientId(FoldLeft(NameContext, m, SubSeq(list, 1, i)), list[i]), list[i]) = NameIn(m, list[i])
<1> DEFINE part == SubSeq(list, 1, i)
           u == FoldLeft(NameContext, m, part)
           p == list[i]
<1>1. part \in Seq(Contexts) /\ p \in Range(part) /\ p \in Contexts
  <2>1. Len(list) \in Nat /\ DOMAIN list = 1..Len(list) /\ \A j \in 1..Len(list) : list[j] \in Contexts
    BY SeqMeans
  <2>2. 1 \in Int /\ i \in Int /\ i >= 1 /\ \A j \in 1..i : list[j] \in Contexts
    BY <2>1
  <2>3. part \in Seq(Contexts) /\ Len(part) = (IF 1 <= i THEN i - 1 + 1 ELSE 0) /\ \A j \in 1..(i - 1 + 1) : part[j] = list[1 + j - 1]
    BY <2>2, SubSeqProperties
  <2> HIDE DEF part
  <2>4. Len(part) = i /\ part[i] = p
    BY <2>2, <2>3
  <2>5. i \in DOMAIN part
    BY <2>2, <2>3, <2>4
  <2> QED BY <2>1, <2>3, <2>4, <2>5 DEF Range
<1> HIDE DEF part
<1>2. u \in Maps /\ NameIn(m, p) \in Range(u.entries)
  <2>1. u \in Maps /\ Becomes(m, Range(m.entries) \cup {NameIn(m, q) : q \in Range(part)}, u)
    BY <1>1, NamesMake
  <2> HIDE DEF u, p
  <2> QED BY <1>1, <2>1 DEF Becomes
<1> HIDE DEF u
<1>3. NameIn(m, p) \in Entries /\ NameIn(m, p).plugin = p
  BY <1>1, NameInMeans
<1>4. FindClientId(u, p) = NameIn(m, p).client
  BY <1>2, <1>3, MapMeans
<1> HIDE DEF p
<1> QED BY <1>3, <1>4, EntryMeans DEF u, part, p

(* What has been listed is what the map says, and that is the name of each  *)
(* context that is there.                                                   *)
LEMMA SyncInMakes ==
    ASSUME Plain, Inv, SyncIn
    PROVE  /\ map' \in Maps /\ FileInv' /\ Knows(Range(file'), kept')
           /\ Range(map'.entries) = NamesOf(map, contexts)
           /\ settings' = NamesOf(map, contexts)
           /\ Knows(NamesOf(map, contexts), given)
<1>1. map \in Maps /\ contexts \in SUBSET Contexts /\ settings \subseteq Range(map.entries)
      /\ \A e \in settings : e.plugin \in contexts
  BY DEF Inv, TypesOK, SettingsInv, SyncIn
<1>2. PICK list \in SetToSeqs(contexts) :
         /\ settings' = settings \cup
              {Entry(FindClientId(FoldLeft(NameContext, map, SubSeq(list, 1, i)), list[i]), list[i]) : i \in DOMAIN list}
         /\ Save(RemoveUnused(FoldLeft(NameContext, map, list), contexts))
  BY DEF SyncIn
<1>3. list \in Seq(Contexts) /\ Range(list) = contexts
  <2>1. IsFiniteSet(contexts)
    BY <1>1, NamesAssumption, FS_Subset
  <2>2. list \in Seq(contexts) /\ Range(list) = contexts
    BY <2>1, ListOf
  <2> QED BY <1>1, <2>2
<1> DEFINE named == FoldLeft(NameContext, map, list)
           m == RemoveUnused(named, contexts)
<1>4. named \in Maps /\ Becomes(map, Range(map.entries) \cup NamesOf(map, contexts), named)
  BY <1>1, <1>3, NamesMake DEF NamesOf
<1> HIDE DEF named
<1>5. m \in Maps /\ Becomes(named, {e \in Range(named.entries) : e.plugin \in contexts}, m)
  BY <1>4, RemoveUnusedMakes
<1>6. Save(m)
  BY <1>2 DEF named
<1> HIDE DEF m
<1>7. Range(m.entries) = NamesOf(map, contexts)
  <2>1. \A e \in Range(map.entries) : e.plugin \in contexts => e \in NamesOf(map, contexts)
    BY <1>1, NameInMeans DEF NamesOf
  <2>2. \A e \in NamesOf(map, contexts) : e.plugin \in contexts
    BY <1>1, NameInMeans DEF NamesOf
  <2> QED BY <1>4, <1>5, <2>1, <2>2 DEF Becomes
<1>8. settings' = NamesOf(map, contexts)
  <2>1. \A i \in DOMAIN list :
           Entry(FindClientId(FoldLeft(NameContext, map, SubSeq(list, 1, i)), list[i]), list[i]) = NameIn(map, list[i])
    BY <1>1, <1>3, ListedAs
  <2>2. {NameIn(map, list[i]) : i \in DOMAIN list} = NamesOf(map, contexts)
    BY <1>3 DEF NamesOf, Range
  <2>3. settings \subseteq NamesOf(map, contexts)
    BY <1>1, NameInMeans DEF NamesOf
  <2>4. settings' = settings \cup {NameIn(map, list[i]) : i \in DOMAIN list}
    BY <1>2, <2>1
  <2> QED BY <2>2, <2>3, <2>4
<1>9. ~m.dirty => m.entries = file
  BY <1>4, <1>5 DEF Becomes, Inv, FileInv
<1>10. Knows(NamesOf(map, contexts), given)
  <2> SUFFICES ASSUME NEW p \in DOMAIN given PROVE Entry(given[p], p) \in NamesOf(map, contexts)
    BY DEF Knows
  <2>1. p \in contexts /\ Entry(given[p], p) \in Range(map.entries)
    BY DEF Inv, NamesInv, Knows
  <2>2. Entry(given[p], p).plugin = p
    BY DEF Entry
  <2> QED BY <1>1, <2>1, <2>2, NameInMeans DEF NamesOf
<1>11. UNCHANGED full
  BY DEF SyncIn
<1> QED BY <1>5, <1>6, <1>7, <1>8, <1>9, <1>10, <1>11, SaveKeeps

LEMMA SyncInInv == ASSUME Plain, Inv, SyncIn PROVE Inv'
<1>1. /\ map' \in Maps /\ FileInv' /\ Knows(Range(file'), kept')
      /\ Range(map'.entries) = NamesOf(map, contexts) /\ settings' = NamesOf(map, contexts)
      /\ Knows(NamesOf(map, contexts), given)
  BY SyncInMakes
<1>2. phase' = "open" /\ phase = "closed" /\ UNCHANGED <<contexts, full, cmds, given>>
  BY DEF SyncIn
<1>3. TypesOK'
  BY <1>1, <1>2 DEF Inv, TypesOK, Phases
<1>4. SettingsInv'
  BY <1>1, <1>2 DEF SettingsInv, IdsIn
<1>5. CmdsInv'
  <2>1. cmds' = <<>>
    BY <1>2 DEF Inv, CmdsInv
  <2> QED BY <2>1, NoEntries DEF CmdsInv
<1>6. NamesInv'
  BY <1>1, <1>2 DEF Inv, NamesInv
<1> QED BY <1>1, <1>3, <1>4, <1>5, <1>6 DEF Inv

-----------------------------------------------------------------------------
(* sync_out *)

LEMMA SyncOutInv == ASSUME Plain, Inv, SyncOut PROVE Inv'
<1> DEFINE ids == IdsIn(settings)
           es == Range(map.entries)
<1>0. PICK wanted \in SUBSET (ids \cup ClientIds) :
         \E old \in SetToSeqs(ids \ wanted), new \in SetToSeqs(wanted \ ids) :
         cmds' = [i \in DOMAIN old |-> [type |-> "delete", client |-> old[i]]]
                 \o [i \in DOMAIN new |-> [type |-> "add", client |-> new[i]]]
  BY DEF SyncOut
<1>1. PICK old \in SetToSeqs(ids \ wanted), new \in SetToSeqs(wanted \ ids) :
         cmds' = [i \in DOMAIN old |-> [type |-> "delete", client |-> old[i]]]
                 \o [i \in DOMAIN new |-> [type |-> "add", client |-> new[i]]]
  BY <1>0
<1>2. phase = "open" /\ phase' = "storing" /\ UNCHANGED <<contexts, map, file, full, settings, given, kept>>
  BY DEF SyncOut
<1>3. ids \subseteq Ids /\ \A e \in es : e.client \in ids
  <2>1. settings \subseteq es /\ es \subseteq Entries
    BY MapMeans DEF Inv, TypesOK, SettingsInv
  <2> QED BY <1>2, <2>1, EntryMeans DEF Inv, SettingsInv, IdsIn
<1>4. IsFiniteSet(Ids)
  <2>1. Range(DefaultId) = {DefaultId[p] : p \in Contexts}
    BY NamesAssumption DEF Range
  <2> DEFINE T == {DefaultId[p] : p \in Contexts}
             f == [p \in Contexts |-> DefaultId[p]]
  <2>2. f \in Surjection(Contexts, T)
    BY DEF Surjection
  <2> HIDE DEF f
  <2>3. IsFiniteSet(T)
    BY <2>2, NamesAssumption, FS_Surjection
  <2> QED BY <2>1, <2>3, NamesAssumption, FS_Union DEF Ids
<1>5. IsFiniteSet(ids \ wanted) /\ IsFiniteSet(wanted \ ids)
  <2>1. ids \ wanted \subseteq Ids /\ wanted \ ids \subseteq Ids
    BY <1>3, EntryMeans
  <2> QED BY <1>4, <2>1, FS_Subset
<1> HIDE DEF ids, es
<1>6. old \in Seq(ids \ wanted) /\ new \in Seq(wanted \ ids) /\ Distinct(new)
  <2>1. old \in Seq(ids \ wanted) /\ new \in Seq(wanted \ ids)
    BY <1>5, ListOf
  <2>2. Distinct(new)
    BY DEF SetToSeqs, Distinct
  <2> QED BY <2>1, <2>2
<1> DEFINE n == Len(old)
           k == Len(new)
           dels == [i \in DOMAIN old |-> [type |-> "delete", client |-> old[i]]]
           adds == [i \in DOMAIN new |-> [type |-> "add", client |-> new[i]]]
<1>7. /\ n \in Nat /\ DOMAIN old = 1..n /\ \A i \in 1..n : old[i] \in ids \ wanted
      /\ k \in Nat /\ DOMAIN new = 1..k /\ \A i \in 1..k : new[i] \in wanted \ ids
  BY <1>6, SeqMeans
<1>8. dels \in Seq(Commands) /\ Len(dels) = n /\ \A i \in 1..n : dels[i].type = "delete"
  <2>1. \A i \in 1..n : old[i] \in Ids
    BY <1>3, <1>7
  <2>2. dels \in [1..n -> Commands]
    BY <1>7, <2>1 DEF Commands
  <2> QED BY <1>7, <2>2
<1>9. adds \in Seq(Commands) /\ Len(adds) = k /\ \A i \in 1..k : adds[i].type = "add" /\ adds[i].client = new[i]
  <2>1. \A i \in 1..k : new[i] \in Ids
    BY <1>1, <1>3, <1>7, EntryMeans
  <2>2. adds \in [1..k -> Commands]
    BY <1>7, <2>1 DEF Commands
  <2> QED BY <1>7, <2>2
<1>10. cmds' = dels \o adds
  BY <1>1
<1> HIDE DEF dels, adds, n, k
<1>11. /\ cmds' \in Seq(Commands) /\ Len(cmds') = n + k
       /\ \A i \in 1..(n + k) : cmds'[i] = IF i <= n THEN dels[i] ELSE adds[i - n]
  <2>1. /\ dels \o adds \in Seq(Commands) /\ Len(dels \o adds) = Len(dels) + Len(adds)
        /\ \A i \in 1..(Len(dels) + Len(adds)) :
              (dels \o adds)[i] = IF i <= Len(dels) THEN dels[i] ELSE adds[i - Len(dels)]
    <3>1. dels \in Seq(Commands) /\ adds \in Seq(Commands)
      BY <1>8, <1>9
    <3> QED BY <3>1, ConcatProperties
  <2> QED BY <1>8, <1>9, <1>10, <2>1
<1>12. DOMAIN cmds' = 1..(n + k)
  BY <1>11
<1>13. ASSUME NEW i \in 1..(n + k), cmds'[i].type = "add"
       PROVE  i - n \in 1..k /\ cmds'[i].client = new[i - n]
  <2>1. CASE i <= n
    <3>1. i \in 1..n
      BY <1>7, <2>1
    <3> QED BY <1>8, <1>11, <1>13, <2>1, <3>1
  <2>2. CASE ~(i <= n)
    <3>1. i - n \in 1..k
      BY <1>7, <2>2
    <3> QED BY <1>9, <1>11, <2>2, <3>1
  <2> QED BY <2>1, <2>2
<1>14. AddsOK(cmds', es)
  <2>1. \A i \in 1..(n + k) : IsAdd(cmds', i) =>
           cmds'[i].client \in ClientIds /\ \A e \in es : e.client # cmds'[i].client
    <3> SUFFICES ASSUME NEW i \in 1..(n + k), IsAdd(cmds', i)
                 PROVE  cmds'[i].client \in ClientIds /\ \A e \in es : e.client # cmds'[i].client
      OBVIOUS
    <3>1. cmds'[i].client \in wanted \ ids
      BY <1>7, <1>13 DEF IsAdd
    <3> QED BY <1>3, <3>1
  <2>2. ASSUME NEW i \in 1..(n + k), NEW j \in 1..(n + k), IsAdd(cmds', i), IsAdd(cmds', j),
               cmds'[i].client = cmds'[j].client
        PROVE  i = j
    <3>1. i - n \in 1..k /\ j - n \in 1..k /\ new[i - n] = new[j - n]
      BY <1>13, <2>2 DEF IsAdd
    <3>2. i - n = j - n
      BY <1>6, <1>7, <3>1 DEF Distinct
    <3> QED BY <1>7, <3>2
  <2> QED BY <1>11, <1>12, <2>1, <2>2 DEF AddsOK
<1>15. CmdsInv'
  BY <1>2, <1>14 DEF CmdsInv, es
<1> QED BY <1>2, <1>15 DEF Inv, TypesOK, Phases, FileInv, SettingsInv, NamesInv

LEMMA TailMakes ==
    ASSUME NEW cs, cs # <<>>, NEW es, AddsOK(cs, es)
    PROVE  /\ AddsOK(Tail(cs), es)
           /\ Head(cs).type = "add" =>
                 /\ Head(cs).client \in ClientIds
                 /\ \A e \in es : e.client # Head(cs).client
                 /\ \A p : AddsOK(Tail(cs), es \cup {Entry(Head(cs).client, p)})
<1> DEFINE t == Tail(cs)
           n == Len(cs)
<1>1. cs \in Seq(Commands)
  BY DEF AddsOK
<1>2. n \in Nat /\ n >= 1 /\ DOMAIN cs = 1..n /\ Head(cs) = cs[1]
  BY <1>1
<1>3. t \in Seq(Commands) /\ DOMAIN t = 1..(n - 1) /\ \A i \in 1..(n - 1) : t[i] = cs[i + 1]
  BY <1>1
<1> HIDE DEF t, n
<1>4. \A i \in 1..(n - 1) : i + 1 \in 1..n /\ i + 1 # 1
  BY <1>2
<1>5. AddsOK(t, es)
  <2>1. \A i \in 1..(n - 1) : IsAdd(t, i) => t[i].client \in ClientIds /\ \A e \in es : e.client # t[i].client
    BY <1>2, <1>3, <1>4 DEF AddsOK, IsAdd
  <2>2. ASSUME NEW i \in 1..(n - 1), NEW j \in 1..(n - 1), IsAdd(t, i), IsAdd(t, j), t[i].client = t[j].client
        PROVE  i = j
    <3>1. IsAdd(cs, i + 1) /\ IsAdd(cs, j + 1) /\ cs[i + 1].client = cs[j + 1].client
      BY <1>2, <1>3, <1>4, <2>2 DEF IsAdd
    <3>2. i + 1 = j + 1
      BY <1>2, <1>4, <3>1 DEF AddsOK
    <3> QED BY <3>2
  <2> QED BY <1>3, <2>1, <2>2 DEF AddsOK
<1>6. ASSUME Head(cs).type = "add"
      PROVE  /\ Head(cs).client \in ClientIds
             /\ \A e \in es : e.client # Head(cs).client
             /\ \A p : AddsOK(t, es \cup {Entry(Head(cs).client, p)})
  <2>1. 1 \in DOMAIN cs /\ IsAdd(cs, 1)
    BY <1>2, <1>6 DEF IsAdd
  <2>2. cs[1].client \in ClientIds /\ \A e \in es : e.client # cs[1].client
    BY <2>1 DEF AddsOK
  <2>3. ASSUME NEW i \in DOMAIN t, IsAdd(t, i) PROVE t[i].client # cs[1].client
    <3>1. i + 1 \in DOMAIN cs /\ IsAdd(cs, i + 1) /\ t[i] = cs[i + 1] /\ i + 1 # 1
      BY <1>2, <1>3, <1>4, <2>3 DEF IsAdd
    <3> QED BY <2>1, <3>1 DEF AddsOK
  <2>4. \A p : Entry(Head(cs).client, p).client = cs[1].client
    BY <1>2 DEF Entry
  <2>5. ASSUME NEW p PROVE AddsOK(t, es \cup {Entry(Head(cs).client, p)})
    BY <1>5, <2>3, <2>4 DEF AddsOK
  <2> QED BY <1>2, <2>2, <2>5
<1> QED BY <1>5, <1>6 DEF t

LEMMA ContextDeletedInv == ASSUME Plain, Inv, ContextDeleted PROVE Inv'
<1>1. /\ phase = "storing" /\ cmds # <<>> /\ cmds' = Tail(cmds)
      /\ contexts' = contexts \ {FindPluginId(map, Client)}
      /\ given' = Restrict(given, DOMAIN given \ {FindPluginId(map, Client)})
      /\ UNCHANGED <<map, file, full, phase, settings, kept>>
  BY DEF ContextDeleted, Current, Gone
<1>2. AddsOK(cmds', Range(map.entries))
  BY <1>1, TailMakes DEF Inv, CmdsInv
<1>3. \A p \in DOMAIN given' : p \in DOMAIN given /\ p \in contexts' /\ given'[p] = given[p]
  BY <1>1 DEF Restrict, Inv, NamesInv
<1>4. NamesInv'
  BY <1>1, <1>3 DEF Inv, NamesInv, Knows
<1> QED BY <1>1, <1>2, <1>4 DEF Inv, TypesOK, FileInv, SettingsInv, CmdsInv

LEMMA ContextAddedInv == ASSUME Plain, Inv, ContextAdded PROVE Inv'
<1>1. PICK p \in Contexts \ contexts :
         /\ CanReuse \/ \A e \in Range(map.entries) : e.plugin # p
         /\ contexts' = contexts \cup {p}
         /\ map' = StoreMap(map, Client, p)
         /\ given' = IF Client \in ClientIds THEN Put(given, p, Client) ELSE given
  BY DEF ContextAdded
<1>2. /\ phase = "storing" /\ cmds # <<>> /\ Head(cmds).type = "add" /\ cmds' = Tail(cmds)
      /\ UNCHANGED <<file, full, phase, settings, kept>>
  BY DEF ContextAdded, Current
<1> DEFINE es == Range(map.entries)
           new == Entry(Client, p)
<1>3. Client \in ClientIds /\ Client \in Ids /\ (\A e \in es : e.client # Client) /\ AddsOK(cmds', es \cup {new})
  BY <1>2, TailMakes, EntryMeans DEF Inv, CmdsInv, Client
<1>4. map \in Maps /\ ~HasClient(map, Client) /\ ~HasPlugin(map, p)
  <2>1. map \in Maps
    BY DEF Inv, TypesOK
  <2>2. ~HasClient(map, Client)
    BY <1>3 DEF HasClient
  <2>3. \A e \in es : e.plugin # p
    BY <1>1 DEF Plain
  <2>4. ~HasPlugin(map, p)
    <3>1. Entry(FindClientId(map, p), p).plugin = p
      BY DEF Entry
    <3> QED BY <2>1, <2>3, <3>1, MapMeans
  <2> QED BY <2>1, <2>2, <2>4
<1>5. map' \in Maps /\ map'.dirty /\ Range(map'.entries) = es \cup {new}
  BY <1>1, <1>3, <1>4, StoreMakes
<1>6. TypesOK' /\ FileInv'
  BY <1>1, <1>2, <1>5 DEF Inv, TypesOK, FileInv
<1>7. SettingsInv'
  BY <1>2, <1>5 DEF Inv, SettingsInv
<1>8. CmdsInv'
  BY <1>2, <1>3, <1>5 DEF CmdsInv
<1>9. NamesInv'
  <2>1. DOMAIN given' = DOMAIN given \cup {p} /\ given'[p] = Client
        /\ \A q \in DOMAIN given : q # p => given'[q] = given[q]
    BY <1>1, <1>3 DEF Put
  <2>2. Knows(es \cup {new}, given')
    <3> SUFFICES ASSUME NEW q \in DOMAIN given' PROVE Entry(given'[q], q) \in es \cup {new}
      BY DEF Knows
    <3>1. CASE q = p
      BY <2>1, <3>1
    <3>2. CASE q # p
      BY <2>1, <3>2 DEF Inv, NamesInv, Knows
    <3> QED BY <3>1, <3>2
  <2>3. DOMAIN given' \subseteq contexts'
    BY <1>1, <2>1 DEF Inv, NamesInv
  <2> QED BY <1>2, <1>5, <2>2, <2>3 DEF Inv, NamesInv
<1> QED BY <1>6, <1>7, <1>8, <1>9 DEF Inv

LEMMA StoreDoneInv == ASSUME Inv, StoreDone PROVE Inv'
<1>1. /\ phase' = "closed" /\ settings' = {} /\ cmds' = <<>> /\ Save(map)
      /\ UNCHANGED <<contexts, full, given>>
  BY DEF StoreDone
<1>2. map' \in Maps /\ map'.entries = map.entries /\ FileInv' /\ Knows(Range(file'), kept')
  BY <1>1, SaveKeeps DEF Inv, TypesOK, FileInv, NamesInv
<1>3. CmdsInv'
  BY <1>1, NoEntries DEF CmdsInv
<1> QED BY <1>1, <1>2, <1>3 DEF Inv, TypesOK, Phases, SettingsInv, NamesInv

LEMMA CommandFailedInv == ASSUME Inv, CommandFailed PROVE Inv'
<1>1. phase = "storing" /\ cmds # <<>> /\ cmds' = Tail(cmds)
      /\ UNCHANGED <<contexts, map, file, full, phase, settings, given, kept>>
  BY DEF CommandFailed
<1>2. AddsOK(cmds', Range(map.entries))
  BY <1>1, TailMakes DEF Inv, CmdsInv
<1> QED BY <1>1, <1>2 DEF Inv, TypesOK, FileInv, SettingsInv, CmdsInv, NamesInv

-----------------------------------------------------------------------------
(* The end of a session that is not stored, and the rest of the world. *)

LEMMA AbortInv == ASSUME Plain, Inv, Abort PROVE Inv'
  BY DEF Plain, Inv, Abort, TypesOK, Phases, FileInv, SettingsInv, CmdsInv, NamesInv

LEMMA OthersAddInv == ASSUME Inv, OthersAdd PROVE Inv'
  BY DEF Inv, OthersAdd, TypesOK, FileInv, SettingsInv, CmdsInv, NamesInv

LEMMA OthersRemoveInv == ASSUME Plain, Inv, OthersRemove PROVE Inv'
<1>1. PICK p \in contexts :
         /\ phase = "closed" => CanHaunt \/ \A e \in settings : e.plugin # p
         /\ Gone(p)
  BY DEF OthersRemove
<1>2. UNCHANGED <<map, file, full, phase, settings, cmds, kept>>
  BY DEF OthersRemove
<1>3. contexts' = contexts \ {p} /\ \A q \in DOMAIN given' : q \in DOMAIN given /\ q # p /\ given'[q] = given[q]
  BY <1>1 DEF Gone, Restrict
<1>4. SettingsInv'
  BY <1>1, <1>2, <1>3 DEF Plain, Inv, SettingsInv
<1>5. NamesInv'
  BY <1>2, <1>3 DEF Inv, NamesInv, Knows
<1> QED BY <1>2, <1>3, <1>4, <1>5 DEF Inv, TypesOK, FileInv, CmdsInv

LEMMA RestartInv == ASSUME Inv, Restart PROVE Inv'
<1>1. /\ map' = Load(file) /\ phase' = "closed" /\ settings' = {} /\ cmds' = <<>>
      /\ given' = [p \in {q \in DOMAIN given \cap DOMAIN kept : given[q] = kept[q]} |-> given[p]]
      /\ UNCHANGED <<contexts, file, full, kept>>
  BY DEF Restart
<1>2. map' \in Maps /\ map'.entries = file /\ ~map'.dirty /\ EntriesOK(file)
  BY <1>1, LoadMakes DEF Inv, FileInv
<1>3. \A p \in DOMAIN given' : p \in DOMAIN given /\ p \in DOMAIN kept /\ given'[p] = kept[p]
  BY <1>1
<1>4. NamesInv'
  BY <1>1, <1>2, <1>3 DEF Inv, NamesInv, Knows
<1>5. CmdsInv'
  BY <1>1, NoEntries DEF CmdsInv
<1> QED BY <1>1, <1>2, <1>4, <1>5 DEF Inv, TypesOK, Phases, FileInv, SettingsInv

LEMMA NextInv == ASSUME Plain, Inv, [Next]_vars PROVE Inv'
<1>1. CASE SyncIn
  BY <1>1, SyncInInv
<1>2. CASE Abort
  BY <1>2, AbortInv
<1>3. CASE SyncOut
  BY <1>3, SyncOutInv
<1>4. CASE ContextDeleted
  BY <1>4, ContextDeletedInv
<1>5. CASE ContextAdded
  BY <1>5, ContextAddedInv
<1>6. CASE CommandFailed
  BY <1>6, CommandFailedInv
<1>7. CASE CompleteSyncOut \/ SyncOutCancelled
  BY <1>7, StoreDoneInv DEF CompleteSyncOut, SyncOutCancelled
<1>8. CASE OthersAdd
  BY <1>8, OthersAddInv
<1>9. CASE OthersRemove
  BY <1>9, OthersRemoveInv
<1>10. CASE Disk
  BY <1>10 DEF Inv, Disk, TypesOK, FileInv, SettingsInv, CmdsInv, NamesInv
<1>11. CASE Restart
  BY <1>11, RestartInv
<1>12. CASE UNCHANGED vars
  BY <1>12 DEF vars, Inv, TypesOK, FileInv, SettingsInv, CmdsInv, NamesInv
<1> QED BY <1>1, <1>2, <1>3, <1>4, <1>5, <1>6, <1>7, <1>8, <1>9, <1>10, <1>11, <1>12 DEF Next, StoreStep

-----------------------------------------------------------------------------
(* Contexts differ by their names, whatever others create and remove        *)
(* (prv_ofono_plugin_update_contexts, provman_map_file_remove_unused).      *)
THEOREM ContextsDiffer == ASSUME Plain PROVE Spec => []NamesDiffer
<1>1. Inv => NamesDiffer
  BY MapMeans DEF Inv, TypesOK, SettingsInv, NamesDiffer, Apart
<1>2. Inv /\ [Next]_vars => Inv'
  BY NextInv
<1> QED BY <1>1, <1>2, InitInv, PTL DEF Spec

(* The reverse map that is kept up to date is the one that a restart builds *)
(* (provman_map_file_store_map, provman_map_file_delete_map against         *)
(* prv_provman_map_file_get_reverse_map).                                   *)
THEOREM ReverseAsBuilt == ASSUME Plain PROVE Spec => []ReverseIsBuilt
<1>1. Inv => ReverseIsBuilt
  BY ReverseIs DEF Inv, TypesOK, ReverseIsBuilt
<1>2. Inv /\ [Next]_vars => Inv'
  BY NextInv
<1> QED BY <1>1, <1>2, InitInv, PTL DEF Spec

(* A context that a client created is listed by the name that it gave it,   *)
(* and by no other, over sessions and restarts                              *)
(* (prv_ofono_plugin_update_contexts, provman_map_file_save).               *)
THEOREM ContextsKeepNames == ASSUME Plain PROVE Spec => NamesKept
<1>1. ASSUME Inv, SyncIn, NEW p \in contexts \cap DOMAIN given
      PROVE  {e \in settings' : e.plugin = p} = {Entry(given[p], p)}
  <2>1. settings' = NamesOf(map, contexts) /\ Entry(given[p], p) \in settings'
    BY <1>1, SyncInMakes DEF Knows
  <2>2. map \in Maps /\ contexts \subseteq Contexts
    BY <1>1 DEF Inv, TypesOK
  <2>3. \A e \in settings' : e.plugin = p => e = NameIn(map, p)
    BY <2>1, <2>2, NameInMeans DEF NamesOf
  <2>4. Entry(given[p], p).plugin = p
    BY DEF Entry
  <2> QED BY <2>1, <2>3, <2>4
<1>2. Inv => [SyncIn => \A p \in contexts \cap DOMAIN given :
                 {e \in settings' : e.plugin = p} = {Entry(given[p], p)}]_vars
  BY <1>1
<1>3. Inv /\ [Next]_vars => Inv'
  BY NextInv
<1> QED BY <1>2, <1>3, InitInv, PTL DEF Spec, NamesKept
=============================================================================
