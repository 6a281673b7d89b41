---------------------------- MODULE MetaDataProofs ----------------------------
(***************************************************************************)
(* What MetaData.tla promises for any settings, plugins and nodes that      *)
(* clients name: the tree of settings has no directory that is empty or     *)
(* missing, it is the map it is taken for, and what was said of settings    *)
(* before the end of a session is there in the next one.                    *)
(*                                                                          *)
(* A tree is described by what it has at its nodes (SetSays, MetaSays,      *)
(* RemoveSays); that adding many settings does what adding each would do is *)
(* from module Folding.                                                     *)
(***************************************************************************)
EXTENDS MetaData, Folding

-----------------------------------------------------------------------------
(* Paths. *)

Paths == Seq(STRING)

LEMMA PrefixMeans ==
    ASSUME NEW s \in Paths, NEW t \in Paths
    PROVE  IsPrefix(s, t) <=> Len(s) <= Len(t) /\ \A i \in 1..Len(s) : s[i] = t[i]
<1>1. SubSeq(s, 1, Len(s)) = s
  BY DEF Paths
<1>2. ASSUME Len(s) <= Len(t)
      PROVE  /\ SubSeq(t, 1, Len(s)) \in Paths /\ Len(SubSeq(t, 1, Len(s))) = Len(s)
             /\ \A i \in 1..Len(s) : SubSeq(t, 1, Len(s))[i] = t[i]
  BY <1>2 DEF Paths
<1>3. ASSUME Len(s) <= Len(t), \A i \in 1..Len(s) : s[i] = t[i] PROVE s = SubSeq(t, 1, Len(s))
  BY <1>2, <1>3 DEF Paths
<1> QED BY <1>1, <1>2, <1>3 DEF IsPrefix

LEMMA PrefixOrder ==
    /\ \A s \in Paths : IsPrefix(s, s) /\ IsPrefix(<<>>, s) /\ (IsPrefix(s, <<>>) => s = <<>>)
    /\ \A s, t \in Paths : IsPrefix(s, t) => Len(s) <= Len(t) /\ (Len(s) = Len(t) => s = t)
    /\ \A s, t \in Paths : IsPrefix(s, t) /\ IsPrefix(t, s) => s = t
    /\ \A s, t, u \in Paths : IsPrefix(s, t) /\ IsPrefix(t, u) => IsPrefix(s, u)
    /\ \A s, t, u \in Paths : IsPrefix(s, u) /\ IsPrefix(t, u) /\ Len(s) <= Len(t) => IsPrefix(s, t)
<1>1. \A s, t \in Paths : IsPrefix(s, t) => Len(s) <= Len(t) /\ (Len(s) = Len(t) => s = t)
  <2> SUFFICES ASSUME NEW s \in Paths, NEW t \in Paths, IsPrefix(s, t)
               PROVE  Len(s) <= Len(t) /\ (Len(s) = Len(t) => s = t)
    OBVIOUS
  <2> QED BY PrefixMeans DEF Paths
<1>2. \A s \in Paths : IsPrefix(s, s) /\ IsPrefix(<<>>, s)
  <2> SUFFICES ASSUME NEW s \in Paths PROVE IsPrefix(s, s) /\ IsPrefix(<<>>, s)
    OBVIOUS
  <2>1. <<>> \in Paths /\ Len(<<>>) = 0 /\ Len(s) \in Nat
    BY DEF Paths
  <2> QED BY <2>1, PrefixMeans
<1>3. \A s \in Paths : IsPrefix(s, <<>>) => s = <<>>
  <2> SUFFICES ASSUME NEW s \in Paths, IsPrefix(s, <<>>) PROVE s = <<>>
    OBVIOUS
  <2>1. <<>> \in Paths /\ Len(<<>>) = 0 /\ Len(s) \in Nat
    BY DEF Paths
  <2> QED BY <1>1, <2>1
<1>4. \A s, t \in Paths : IsPrefix(s, t) /\ IsPrefix(t, s) => s = t
  <2> SUFFICES ASSUME NEW s \in Paths, NEW t \in Paths, IsPrefix(s, t), IsPrefix(t, s) PROVE s = t
    OBVIOUS
  <2>1. Len(s) \in Nat /\ Len(t) \in Nat
    BY DEF Paths
  <2> QED BY <1>1, <2>1
<1>5. \A s, t, u \in Paths : IsPrefix(s, t) /\ IsPrefix(t, u) => IsPrefix(s, u)
  <2> SUFFICES ASSUME NEW s \in Paths, NEW t \in Paths, NEW u \in Paths, IsPrefix(s, t), IsPrefix(t, u)
               PROVE  IsPrefix(s, u)
    OBVIOUS
  <2>1. Len(s) \in Nat /\ Len(t) \in Nat /\ Len(u) \in Nat
    BY DEF Paths
  <2> QED BY <2>1, PrefixMeans
<1>6. \A s, t, u \in Paths : IsPrefix(s, u) /\ IsPrefix(t, u) /\ Len(s) <= Len(t) => IsPrefix(s, t)
  <2> SUFFICES ASSUME NEW s \in Paths, NEW t \in Paths, NEW u \in Paths,
                      IsPrefix(s, u), IsPrefix(t, u), Len(s) <= Len(t)
               PROVE  IsPrefix(s, t)
    OBVIOUS
  <2>1. Len(s) \in Nat /\ Len(t) \in Nat /\ Len(u) \in Nat
    BY DEF Paths
  <2> QED BY <2>1, PrefixMeans
<1> QED BY <1>1, <1>2, <1>3, <1>4, <1>5, <1>6

LEMMA PrefixesMeans ==
    ASSUME NEW s \in Paths
    PROVE  Prefixes(s) = {t \in Paths : IsPrefix(t, s)}
<1>1. ASSUME NEW l \in 0..Len(s) PROVE SubSeq(s, 1, l) \in Paths /\ IsPrefix(SubSeq(s, 1, l), s)
  <2>1. SubSeq(s, 1, l) \in Paths /\ Len(SubSeq(s, 1, l)) = l /\ \A i \in 1..l : SubSeq(s, 1, l)[i] = s[i]
    BY DEF Paths
  <2>2. l <= Len(s)
    BY DEF Paths
  <2> QED BY <2>1, <2>2, PrefixMeans
<1>2. ASSUME NEW t \in Paths, IsPrefix(t, s) PROVE t \in Prefixes(s)
  <2>1. Len(t) \in 0..Len(s) /\ t = SubSeq(s, 1, Len(t))
    BY <1>2 DEF Paths, IsPrefix
  <2> QED BY <2>1 DEF Prefixes
<1>3. ASSUME NEW t \in Prefixes(s) PROVE t \in Paths /\ IsPrefix(t, s)
  BY <1>1 DEF Prefixes
<1> QED BY <1>2, <1>3

LEMMA PrefixOfLength ==
    ASSUME NEW s \in Paths, NEW l \in 0..Len(s)
    PROVE  \E t \in Paths : IsPrefix(t, s) /\ Len(t) = l
<1>1. SubSeq(s, 1, l) \in Paths /\ Len(SubSeq(s, 1, l)) = l
  BY DEF Paths
<1>2. SubSeq(s, 1, l) \in Prefixes(s)
  BY DEF Prefixes
<1> QED BY <1>1, <1>2, PrefixesMeans

LEMMA PrefixesFinite == ASSUME NEW s \in Paths PROVE IsFiniteSet(Prefixes(s))
<1> DEFINE f == [l \in 0..Len(s) |-> SubSeq(s, 1, l)]
<1>1. f \in Surjection(0..Len(s), Prefixes(s))
  BY DEF Surjection, Prefixes
<1>2. IsFiniteSet(0..Len(s))
  BY FS_Interval DEF Paths
<1> QED BY <1>1, <1>2, FS_Surjection

(* A node and its parent. *)
LEMMA FrontMeans ==
    ASSUME NEW s \in Paths, s # <<>>
    PROVE  /\ Front(s) \in Paths /\ Len(Front(s)) + 1 = Len(s) /\ IsPrefix(Front(s), s) /\ Front(s) # s
           /\ \A t \in Paths : IsPrefix(t, s) /\ t # s => IsPrefix(t, Front(s))
           /\ \A t \in Paths : IsPrefix(t, s) /\ Len(t) + 1 = Len(s) => t = Front(s)
<1>1. Len(s) \in Nat /\ Len(s) >= 1
  BY DEF Paths
<1>2. Front(s) \in Paths /\ Len(Front(s)) = Len(s) - 1 /\ \A i \in 1..Len(s) - 1 : Front(s)[i] = s[i]
  <2>1. \A l \in 0..Len(s) :
           SubSeq(s, 1, l) \in Paths /\ Len(SubSeq(s, 1, l)) = l /\ \A i \in 1..l : SubSeq(s, 1, l)[i] = s[i]
    BY DEF Paths
  <2>2. Len(s) - 1 \in 0..Len(s)
    BY <1>1
  <2> QED BY <2>1, <2>2 DEF Front
<1>3. IsPrefix(Front(s), s)
  BY <1>1, <1>2, PrefixMeans
<1>4. ASSUME NEW t \in Paths, IsPrefix(t, s), t # s PROVE IsPrefix(t, Front(s))
  <2>1. Len(t) \in Nat /\ Len(t) <= Len(s) /\ Len(t) # Len(s)
    BY <1>4, PrefixOrder DEF Paths
  <2> QED BY <1>1, <1>2, <1>3, <1>4, <2>1, PrefixOrder
<1>5. ASSUME NEW t \in Paths, IsPrefix(t, s), Len(t) + 1 = Len(s) PROVE t = Front(s)
  <2>1. Len(t) \in Nat /\ t # s
    BY <1>5 DEF Paths
  <2>2. IsPrefix(t, Front(s))
    BY <1>4, <1>5, <2>1
  <2>3. Len(t) = Len(Front(s))
    BY <1>1, <1>2, <1>5, <2>1
  <2> QED BY <1>2, <2>2, <2>3, PrefixOrder
<1> QED BY <1>1, <1>2, <1>3, <1>4, <1>5

-----------------------------------------------------------------------------
(* The trees that there can be. *)

AllNodes == Nodes \cup {<<>>}

Metas == UNION {[ps -> PropValues] : ps \in SUBSET Props}

NodeType == [value : Values \cup {NoValue}, dir : BOOLEAN, meta : Metas]

(* With a node there are the nodes above it, and a setting below it or at   *)
(* it; leaves are settings, and nothing is said about the root.             *)
Whole(t) ==
    /\ IsFiniteSet(DOMAIN t)
    /\ <<>> \in DOMAIN t /\ t[<<>>].meta = NoMeta
    /\ \A n \in DOMAIN t : Prefixes(n) \subseteq DOMAIN t
    /\ \A n \in DOMAIN t : t[n].dir <=> n \notin Keys
    /\ \A k \in Keys \cap DOMAIN t : t[k].value \in Values
    /\ \A n \in DOMAIN t \ {<<>>} : \E k \in Keys \cap DOMAIN t : IsPrefix(n, k)

Trees == {t \in UNION {[ns -> NodeType] : ns \in SUBSET AllNodes} : Whole(t)}

LEMMA NodesMeans ==
    /\ \A k \in Keys : k \in Paths /\ k # <<>> /\ k \in Nodes
    /\ \A n \in AllNodes : n \in Paths /\ Prefixes(n) \subseteq AllNodes
    /\ \A n \in Nodes : n # <<>> /\ \E k \in Keys : IsPrefix(n, k)
<1>1. \A k \in Keys : k \in Paths /\ k # <<>>
  BY KeysAssumption DEF Paths
<1>a. ASSUME NEW k \in Keys PROVE Prefixes(k) = {t \in Paths : IsPrefix(t, k)}
  BY <1>1, PrefixesMeans
<1>2. \A n \in Nodes : n \in Paths /\ n # <<>> /\ \E k \in Keys : IsPrefix(n, k)
  <2> SUFFICES ASSUME NEW n \in Nodes PROVE n \in Paths /\ n # <<>> /\ \E k \in Keys : IsPrefix(n, k)
    OBVIOUS
  <2>1. n # <<>> /\ n \in UNION {Prefixes(k) : k \in Keys}
    BY DEF Nodes
  <2>2. PICK k \in Keys : n \in Prefixes(k)
    BY <2>1
  <2> QED BY <1>a, <2>1, <2>2
<1>3. \A n \in Paths, k \in Keys : IsPrefix(n, k) => n \in AllNodes
  <2> SUFFICES ASSUME NEW n \in Paths, NEW k \in Keys, IsPrefix(n, k) PROVE n \in AllNodes
    OBVIOUS
  <2>1. n \in Prefixes(k)
    BY <1>a
  <2>2. n \in UNION {Prefixes(l) : l \in Keys}
    BY <2>1
  <2> QED BY <2>2 DEF AllNodes, Nodes
<1>4. \A k \in Keys : k \in Nodes
  BY <1>1, <1>3, PrefixOrder DEF AllNodes
<1>5. \A n \in AllNodes : n \in Paths
  <2>1. <<>> \in Paths
    BY DEF Paths
  <2> QED BY <1>2, <2>1 DEF AllNodes
<1>6. ASSUME NEW n \in AllNodes, NEW m \in Prefixes(n) PROVE m \in AllNodes
  <2>1. m \in Paths /\ IsPrefix(m, n) /\ n \in Paths
    BY <1>5, <1>6, PrefixesMeans
  <2>2. CASE n = <<>>
    BY <2>1, <2>2, PrefixOrder DEF AllNodes
  <2>3. CASE n # <<>>
    <3>1. PICK k \in Keys : IsPrefix(n, k)
      BY <1>2, <1>6, <2>3 DEF AllNodes
    <3>2. IsPrefix(m, k)
      BY <1>1, <2>1, <3>1, PrefixOrder
    <3> QED BY <1>3, <2>1, <3>2
  <2> QED BY <2>2, <2>3
<1> QED BY <1>1, <1>2, <1>4, <1>5, <1>6

LEMMA TreeFacts ==
    ASSUME NEW t \in Trees
    PROVE  /\ DOMAIN t \subseteq AllNodes /\ t \in [DOMAIN t -> NodeType]
           /\ \A n \in DOMAIN t : n \in Paths /\ t[n] \in NodeType
           /\ Whole(t)
           /\ \A n \in DOMAIN t, m \in Paths : IsPrefix(m, n) => m \in DOMAIN t
<1>1. DOMAIN t \subseteq AllNodes /\ t \in [DOMAIN t -> NodeType] /\ Whole(t)
  BY DEF Trees
<1>2. \A n \in DOMAIN t : n \in Paths /\ t[n] \in NodeType
  BY <1>1, NodesMeans
<1>3. \A n \in DOMAIN t, m \in Paths : IsPrefix(m, n) => m \in DOMAIN t
  BY <1>1, <1>2, PrefixesMeans DEF Whole
<1> QED BY <1>1, <1>2, <1>3

LEMMA TreeIs ==
    ASSUME NEW t, DOMAIN t \subseteq AllNodes, t \in [DOMAIN t -> NodeType], Whole(t)
    PROVE  t \in Trees
BY DEF Trees

LEMMA NoMetaType == NoMeta \in Metas /\ DOMAIN NoMeta = {} /\ \A m \in Metas : DOMAIN m = {} => m = NoMeta
<1>1. DOMAIN NoMeta = {} /\ NoMeta \in [{} -> PropValues]
  BY DEF NoMeta
<1>2. ASSUME NEW m \in Metas, DOMAIN m = {} PROVE m = NoMeta
  BY <1>2 DEF NoMeta, Metas
<1> QED BY <1>1, <1>2 DEF Metas

LEMMA NewCacheWhole == NewCache \in Trees /\ DOMAIN NewCache = {<<>>}
<1>1. DOMAIN NewCache = {<<>>} /\ NewCache[<<>>] = Directory
  BY DEF NewCache
<1>2. Directory \in NodeType /\ Directory.dir /\ Directory.meta = NoMeta
  BY NoMetaType DEF NodeType, Directory
<1>3. NewCache \in [{<<>>} -> NodeType]
  BY <1>2 DEF NewCache
<1>4. IsFiniteSet({<<>>})
  BY FS_Singleton
<1>5. <<>> \in Paths
  BY DEF Paths
<1>6. Prefixes(<<>>) \subseteq {<<>>}
  BY <1>5, PrefixesMeans, PrefixOrder
<1>7. Whole(NewCache)
  BY <1>1, <1>2, <1>4, <1>6, NodesMeans DEF Whole
<1> QED BY <1>1, <1>3, <1>7, TreeIs DEF AllNodes

-----------------------------------------------------------------------------
(* Setting a value adds the nodes above the key that are missing, and       *)
(* leaves alone all other nodes.                                            *)

LEMMA NotBlocked ==
    ASSUME NEW t \in Trees, NEW k \in Keys
    PROVE  ~Blocked(t, k) /\ \A n \in DOMAIN t : IsPrefix(n, k) /\ n # k => t[n].dir
<1>1. k \in Paths
  BY NodesMeans
<1>2. ASSUME NEW n \in DOMAIN t, IsPrefix(n, k), n # k PROVE t[n].dir
  <2>1. n \notin Keys
    BY <1>2, KeysAssumption
  <2> QED BY <2>1, TreeFacts DEF Whole
<1>3. \A n \in Above(k) \cap DOMAIN t : IsPrefix(n, k) /\ n # k
  BY <1>1, PrefixesMeans DEF Above
<1> QED BY <1>2, <1>3 DEF Blocked

SetSays(t, k, v, u) ==
    /\ DOMAIN u = DOMAIN t \cup Prefixes(k)
    /\ u[k].value = v /\ u[k].meta = IF k \in DOMAIN t THEN t[k].meta ELSE NoMeta
    /\ \A n \in DOMAIN u \ {k} : u[n] = IF n \in DOMAIN t THEN t[n] ELSE Directory

LEMMA CacheSetMakes ==
    ASSUME NEW t \in Trees, NEW k \in Keys, NEW v \in Values
    PROVE  CacheSet(t, k, v) \in Trees /\ SetSays(t, k, v, CacheSet(t, k, v))
<1> DEFINE u == CacheSet(t, k, v)
<1>0. /\ DOMAIN t \subseteq AllNodes /\ t \in [DOMAIN t -> NodeType]
      /\ \A n \in DOMAIN t : n \in Paths /\ t[n] \in NodeType
      /\ Whole(t)
      /\ \A n \in DOMAIN t, m \in Paths : IsPrefix(m, n) => m \in DOMAIN t
  BY TreeFacts
<1>1. k \in Paths /\ k # <<>> /\ k \in Nodes /\ Prefixes(k) \subseteq AllNodes
  BY NodesMeans DEF AllNodes
<1>2. k \in Prefixes(k) /\ \A n \in Prefixes(k) : n \in Paths /\ IsPrefix(n, k)
  BY <1>1, PrefixesMeans, PrefixOrder
<1>3. /\ Directory \in NodeType /\ Directory.dir /\ Directory.meta = NoMeta
      /\ Leaf(v) \in NodeType /\ ~Leaf(v).dir /\ Leaf(v).meta = NoMeta /\ Leaf(v).value = v
  BY NoMetaType DEF NodeType, Directory, Leaf
<1>4. CASE k \in DOMAIN t
  <2>1. u = [t EXCEPT ![k].value = v]
    BY <1>4 DEF CacheSet, Found
  <2>2. Prefixes(k) \subseteq DOMAIN t
    BY <1>0, <1>4 DEF Whole
  <2>3. DOMAIN u = DOMAIN t /\ \A n \in DOMAIN t \ {k} : u[n] = t[n]
    BY <2>1
  <2>4. u[k] = [t[k] EXCEPT !.value = v] /\ t[k] \in NodeType
    BY <1>0, <1>4, <2>1
  <2>5. u[k] \in NodeType /\ u[k].value = v /\ u[k].dir = t[k].dir /\ u[k].meta = t[k].meta
    BY <2>4 DEF NodeType
  <2>6. u \in [DOMAIN t -> NodeType]
    <3>1. \A n \in DOMAIN t : u[n] \in NodeType
      BY <1>0, <2>3, <2>5
    <3> QED BY <2>1, <3>1
  <2> HIDE DEF u
  <2>7. Whole(u)
    BY <1>0, <1>1, <2>3, <2>5 DEF Whole
  <2>8. SetSays(t, k, v, u)
    BY <1>4, <2>2, <2>3, <2>5 DEF SetSays
  <2>9. u \in Trees
    BY <1>0, <2>3, <2>6, <2>7, TreeIs
  <2> QED BY <2>8, <2>9 DEF u
<1>5. CASE k \notin DOMAIN t
  <2>1. u = WithNode(t, k, v)
    BY <1>5, NotBlocked DEF CacheSet, Found
  <2>2. DOMAIN u = DOMAIN t \cup Prefixes(k) /\ u[k] = Leaf(v)
    BY <1>2, <2>1 DEF WithNode
  <2>3. ASSUME NEW n \in DOMAIN t PROVE u[n] = t[n]
    <3>1. n # k
      BY <1>5
    <3>2. u[n] = [t[n] EXCEPT !.dir = @ \/ n = Front(k)]
      BY <2>1, <3>1 DEF WithNode, Found
    <3>3. n = Front(k) => t[n].dir
      BY <1>1, <3>1, NotBlocked, FrontMeans
    <3>4. t[n] \in NodeType
      BY <1>0
    <3>5. t[n].dir \in BOOLEAN /\ t[n] = [t[n] EXCEPT !.dir = t[n].dir]
      BY <3>4 DEF NodeType
    <3>6. (t[n].dir \/ n = Front(k)) = t[n].dir
      BY <3>3, <3>5
    <3> QED BY <3>2, <3>5, <3>6
  <2>4. ASSUME NEW n \in Prefixes(k), n # k, n \notin DOMAIN t PROVE u[n] = Directory
    BY <2>1, <2>4 DEF WithNode, Found
  <2>5. u \in [DOMAIN u -> NodeType]
    <3>1. \A n \in DOMAIN u : u[n] \in NodeType
      BY <1>0, <1>3, <2>2, <2>3, <2>4
    <3>2. u = [n \in DOMAIN u |-> u[n]]
      BY <2>1 DEF WithNode
    <3> HIDE DEF u
    <3> QED BY <3>1, <3>2
  <2> HIDE DEF u
  <2>6. Whole(u)
    <3>1. IsFiniteSet(DOMAIN u)
      <4>1. IsFiniteSet(DOMAIN t) /\ IsFiniteSet(Prefixes(k))
        BY <1>0, <1>1, PrefixesFinite DEF Whole
      <4>2. IsFiniteSet(DOMAIN t \cup Prefixes(k))
        BY <4>1, FS_Union
      <4> QED BY <2>2, <4>2
    <3>2. <<>> \in DOMAIN u /\ u[<<>>].meta = NoMeta
      BY <1>0, <2>2, <2>3 DEF Whole
    <3>3. \A n \in DOMAIN u : Prefixes(n) \subseteq DOMAIN u
      <4>1. ASSUME NEW n \in Prefixes(k), NEW m \in Prefixes(n) PROVE m \in Prefixes(k)
        <5>1. n \in Paths /\ IsPrefix(n, k) /\ m \in Paths /\ IsPrefix(m, n)
          BY <1>2, <4>1, PrefixesMeans
        <5>2. IsPrefix(m, k)
          BY <1>1, <5>1, PrefixOrder
        <5> QED BY <1>1, <5>1, <5>2, PrefixesMeans
      <4> QED BY <1>0, <2>2, <4>1 DEF Whole
    <3>4. \A n \in DOMAIN u : u[n].dir <=> n \notin Keys
      <4>1. \A n \in Prefixes(k) : n # k => n \notin Keys
        BY <1>2, KeysAssumption
      <4> QED BY <1>0, <1>3, <2>2, <2>3, <2>4, <4>1 DEF Whole
    <3>5. \A l \in Keys \cap DOMAIN u : u[l].value \in Values
      <4>1. \A n \in Prefixes(k) : n # k => n \notin Keys
        BY <1>2, KeysAssumption
      <4> QED BY <1>0, <1>3, <2>2, <2>3, <4>1 DEF Whole
    <3>6. \A n \in DOMAIN u \ {<<>>} : \E l \in Keys \cap DOMAIN u : IsPrefix(n, l)
      BY <1>0, <1>2, <2>2 DEF Whole
    <3> QED BY <3>1, <3>2, <3>3, <3>4, <3>5, <3>6 DEF Whole
  <2>7. SetSays(t, k, v, u)
    <3>1. u[k].value = v /\ u[k].meta = NoMeta
      BY <1>3, <2>2
    <3>2. \A n \in DOMAIN u \ {k} : u[n] = IF n \in DOMAIN t THEN t[n] ELSE Directory
      BY <2>2, <2>3, <2>4
    <3> QED BY <1>5, <2>2, <3>1, <3>2 DEF SetSays
  <2>8. DOMAIN u \subseteq AllNodes
    BY <1>0, <1>1, <2>2
  <2>9. u \in Trees
    BY <2>5, <2>6, <2>8, TreeIs
  <2> QED BY <2>7, <2>9 DEF u
<1> QED BY <1>4, <1>5

-----------------------------------------------------------------------------
(* Adding what a plugin has, in whatever order. *)

AddSays(t, settings, s, u) ==
    /\ DOMAIN u = DOMAIN t \cup UNION {Prefixes(k) : k \in s}
    /\ \A k \in s : u[k].value = settings[k]
    /\ \A k \in (Keys \cap DOMAIN t) \ s : u[k].value = t[k].value
    /\ \A n \in DOMAIN u : u[n].meta = IF n \in DOMAIN t THEN t[n].meta ELSE NoMeta

LEMMA AddStep ==
    ASSUME NEW t \in Trees, NEW settings, NEW s, NEW k \in Keys, NEW u \in Trees,
           s \subseteq Keys, settings[k] \in Values, k \notin s, AddSays(t, settings, s, u)
    PROVE  AddSays(t, settings, s \cup {k}, CacheSet(u, k, settings[k]))
<1> DEFINE w == CacheSet(u, k, settings[k])
<1>1. w \in Trees /\ SetSays(u, k, settings[k], w)
  BY CacheSetMakes
<1> HIDE DEF w
<1>2. k \in Prefixes(k)
  BY NodesMeans, PrefixesMeans, PrefixOrder
<1>3. DOMAIN w = DOMAIN t \cup UNION {Prefixes(l) : l \in s \cup {k}}
  BY <1>1 DEF SetSays, AddSays
<1>4. ASSUME NEW l \in s \cup {k} PROVE w[l].value = settings[l]
  <2>1. CASE l = k
    BY <1>1, <2>1 DEF SetSays
  <2>2. CASE l # k
    <3>1. l \in s /\ l \in Prefixes(l)
      BY <2>2, NodesMeans, PrefixesMeans, PrefixOrder
    <3>2. l \in DOMAIN u
      BY <3>1 DEF AddSays
    <3> QED BY <1>1, <2>2, <3>1, <3>2 DEF SetSays, AddSays
  <2> QED BY <2>1, <2>2
<1>5. \A l \in (Keys \cap DOMAIN t) \ (s \cup {k}) : w[l].value = t[l].value
  BY <1>1 DEF SetSays, AddSays
<1>6. ASSUME NEW n \in DOMAIN w PROVE w[n].meta = IF n \in DOMAIN t THEN t[n].meta ELSE NoMeta
  <2>1. CASE n = k
    BY <1>1, <2>1 DEF SetSays, AddSays
  <2>2. CASE n # k
    <3>1. w[n] = IF n \in DOMAIN u THEN u[n] ELSE Directory
      BY <1>1, <2>2 DEF SetSays
    <3>2. Directory.meta = NoMeta
      BY DEF Directory
    <3> QED BY <3>1, <3>2 DEF AddSays
  <2> QED BY <2>1, <2>2
<1> QED BY <1>3, <1>4, <1>5, <1>6 DEF AddSays, w

LEMMA AddSettingsMakes ==
    ASSUME NEW t \in Trees, NEW ks \in SUBSET Keys, NEW settings \in [ks -> Values]
    PROVE  AddSettings(t, settings) \in Trees /\ AddSays(t, settings, ks, AddSettings(t, settings))
<1> DEFINE last(s) == CHOOSE k \in s : TRUE
           pick == [s \in (SUBSET ks) \ {{}} |-> last(s)]
           step(s, u) == CacheSet(u, last(s), settings[last(s)])
           g == [p \in (SUBSET ks) \X Trees |-> IF p[1] = {} THEN p[2] ELSE step(p[1], p[2])]
           IsFold(f) == f = [s \in SUBSET ks |-> IF s = {} THEN t ELSE step(s, f[s \ {last(s)}])]
           it == CHOOSE f : IsFold(f)
           K == {p \in (SUBSET ks) \X Trees : AddSays(t, settings, p[1], p[2])}
<1>1. IsFiniteSet(ks) /\ DOMAIN settings = ks
  BY KeysAssumption, FS_Subset
<1>2. AddSettings(t, settings) = it[ks]
  BY <1>1 DEF AddSettings, FoldSet, MapThenFoldSet
<1>a. \A s \in (SUBSET ks) \ {{}} : last(s) \in s
  OBVIOUS
<1>b. IsPick(pick, ks) /\ \A s \in (SUBSET ks) \ {{}} : Rest(pick, s) = s \ {last(s)}
  BY <1>a DEF IsPick, Rest
<1>c. g \in [(SUBSET ks) \X Trees -> Trees]
  <2>1. ASSUME NEW s \in SUBSET ks, s # {}, NEW u \in Trees PROVE step(s, u) \in Trees
    <3>1. last(s) \in Keys /\ settings[last(s)] \in Values
      BY <1>a, <2>1
    <3> HIDE DEF last
    <3> QED BY <3>1, CacheSetMakes
  <2> HIDE DEF step
  <2> QED BY <2>1
<1>d. \A s \in (SUBSET ks) \ {{}}, u \in Trees : g[<<s, u>>] = step(s, u)
  <2> HIDE DEF step
  <2> QED OBVIOUS
<1> HIDE DEF pick, g, step, last
<1>3. \E f : IsFold(f)
  <2>1. PICK h \in [SUBSET ks -> Trees] : Stages(h, pick, ks, t, g)
    BY <1>1, <1>b, <1>c, FoldExists
  <2>2. ASSUME NEW s \in SUBSET ks PROVE h[s] = IF s = {} THEN t ELSE step(s, h[s \ {last(s)}])
    <3>1. s \ {last(s)} \in SUBSET ks
      OBVIOUS
    <3>2. h[s \ {last(s)}] \in Trees
      BY <3>1
    <3> QED BY <1>b, <1>d, <2>1, <3>2 DEF Stages
  <2>3. IsFold(h)
    BY <2>2
  <2> QED BY <2>3
<1>4. IsFold(it)
  BY <1>3
<1> HIDE DEF it
<1>5. <<{}, it[{}]>> \in K
  <2>1. it[{}] = t
    BY <1>4
  <2>2. AddSays(t, settings, {}, t)
    BY DEF AddSays
  <2> QED BY <2>1, <2>2
<1>6. ASSUME NEW s \in (SUBSET ks) \ {{}}, <<Rest(pick, s), it[Rest(pick, s)]>> \in K
      PROVE  it[s] = g[<<s, it[Rest(pick, s)]>>] /\ <<s, g[<<s, it[Rest(pick, s)]>>]>> \in K
  <2> DEFINE u == it[s \ {last(s)}]
  <2>1. u \in Trees /\ AddSays(t, settings, s \ {last(s)}, u)
    BY <1>6, <1>b
  <2>2. it[s] = step(s, u) /\ g[<<s, u>>] = step(s, u)
    BY <1>4, <1>d, <2>1
  <2>3. last(s) \in Keys /\ settings[last(s)] \in Values /\ last(s) \in s
    BY <1>a
  <2> HIDE DEF u
  <2>4. AddSays(t, settings, (s \ {last(s)}) \cup {last(s)}, step(s, u)) /\ step(s, u) \in Trees
    BY <2>1, <2>3, AddStep, CacheSetMakes DEF step
  <2>5. (s \ {last(s)}) \cup {last(s)} = s
    BY <2>3
  <2> QED BY <1>b, <2>2, <2>4, <2>5 DEF u
<1> HIDE DEF K
<1>7. \A s \in SUBSET ks : <<s, it[s]>> \in K
  <2>1. K \in SUBSET ((SUBSET ks) \X Trees)
    BY DEF K
  <2>2. Keeps(it, pick, ks, g, K)
    BY <1>6 DEF Keeps
  <2> QED BY <1>1, <1>b, <1>c, <1>5, <2>1, <2>2, FoldKeeps
<1> QED BY <1>2, <1>7 DEF K

-----------------------------------------------------------------------------
(* What is said about nodes changes nothing else. *)

Saying(prop, value, meta) == Over([p \in {prop} |-> value], meta)

MetaSays(t, s, prop, value, u) ==
    /\ DOMAIN u = DOMAIN t
    /\ \A n \in DOMAIN t : u[n] = IF n \in s THEN [t[n] EXCEPT !.meta = Saying(prop, value, @)] ELSE t[n]

LEMMA OverType ==
    ASSUME NEW f \in Metas, NEW g \in Metas
    PROVE  Over(f, g) \in Metas /\ DOMAIN Over(f, g) = DOMAIN f \cup DOMAIN g /\ IsRestriction(f, Over(f, g))
<1>1. PICK ps \in SUBSET Props : f \in [ps -> PropValues]
  BY DEF Metas
<1>2. PICK qs \in SUBSET Props : g \in [qs -> PropValues]
  BY DEF Metas
<1>3. Over(f, g) \in [ps \cup qs -> PropValues]
  BY <1>1, <1>2 DEF Over
<1>4. ps \cup qs \in SUBSET Props
  OBVIOUS
<1> QED BY <1>1, <1>2, <1>3, <1>4 DEF Metas, Over, IsRestriction

LEMMA SayingType ==
    ASSUME NEW prop \in Props, NEW value \in PropValues, NEW meta \in Metas
    PROVE  Saying(prop, value, meta) \in Metas /\ Saying(prop, value, meta) # NoMeta
<1> DEFINE one == [p \in {prop} |-> value]
<1>1. one \in [{prop} -> PropValues] /\ {prop} \in SUBSET Props
  OBVIOUS
<1>2. one \in Metas /\ DOMAIN one = {prop}
  BY <1>1 DEF Metas
<1> HIDE DEF one
<1>3. Over(one, meta) \in Metas /\ prop \in DOMAIN Over(one, meta)
  BY <1>2, OverType
<1> QED BY <1>3, NoMetaType DEF Saying, one

(* Trees that differ in what is said about nodes below the root.            *)
LEMMA SameButMeta ==
    ASSUME NEW t \in Trees, NEW u, DOMAIN u = DOMAIN t, u = [n \in DOMAIN u |-> u[n]],
           \A n \in DOMAIN t : u[n] \in NodeType /\ u[n].value = t[n].value /\ u[n].dir = t[n].dir,
           u[<<>>] = t[<<>>]
    PROVE  u \in Trees
<1>1. /\ DOMAIN t \subseteq AllNodes /\ Whole(t)
  BY TreeFacts
<1>2. u \in [DOMAIN u -> NodeType]
  <2>1. [n \in DOMAIN u |-> u[n]] \in [DOMAIN u -> NodeType]
    OBVIOUS
  <2> QED BY <2>1
<1>3. Whole(u)
  BY <1>1 DEF Whole
<1> QED BY <1>1, <1>2, <1>3, TreeIs

LEMMA MetaStep ==
    ASSUME NEW t \in Trees, NEW s, NEW n \in Nodes, n \notin s, NEW prop \in Props, NEW value \in PropValues,
           NEW u \in Trees, MetaSays(t, s, prop, value, u)
    PROVE  /\ CacheSetMeta(u, n, prop, value) \in Trees
           /\ MetaSays(t, s \cup {n}, prop, value, CacheSetMeta(u, n, prop, value))
<1> DEFINE w == CacheSetMeta(u, n, prop, value)
<1>1. CASE n \notin DOMAIN u
  <2>1. w = u
    BY <1>1 DEF CacheSetMeta, Found
  <2>2. MetaSays(t, s \cup {n}, prop, value, u)
    BY <1>1 DEF MetaSays
  <2> QED BY <2>1, <2>2
<1>2. CASE n \in DOMAIN u
  <2>1. w = [u EXCEPT ![n].meta = Saying(prop, value, @)]
    BY <1>2 DEF CacheSetMeta, Found, Saying
  <2>2. DOMAIN w = DOMAIN u /\ w = [m \in DOMAIN w |-> w[m]] /\ \A m \in DOMAIN u \ {n} : w[m] = u[m]
    <3>1. u \in [DOMAIN u -> NodeType]
      BY TreeFacts
    <3> QED BY <2>1, <3>1
  <2>3. w[n] = [u[n] EXCEPT !.meta = Saying(prop, value, @)]
    BY <1>2, <2>1
  <2>4. u[n] \in NodeType /\ u[n] = t[n]
    BY <1>2, TreeFacts DEF MetaSays
  <2>5. w[n] \in NodeType /\ w[n].value = u[n].value /\ w[n].dir = u[n].dir
    <3>1. u[n].meta \in Metas
      BY <2>4 DEF NodeType
    <3>2. Saying(prop, value, u[n].meta) \in Metas
      BY <3>1, SayingType
    <3> QED BY <2>3, <2>4, <3>2 DEF NodeType
  <2> HIDE DEF w
  <2>6. w \in Trees
    <3>1. n # <<>> /\ <<>> \in DOMAIN u
      BY NodesMeans, TreeFacts DEF Whole
    <3>2. \A m \in DOMAIN u : w[m] \in NodeType /\ w[m].value = u[m].value /\ w[m].dir = u[m].dir
      BY <2>2, <2>5, TreeFacts
    <3> QED BY <2>2, <3>1, <3>2, SameButMeta
  <2>7. MetaSays(t, s \cup {n}, prop, value, w)
    BY <2>2, <2>3, <2>4 DEF MetaSays
  <2> QED BY <2>6, <2>7 DEF w
<1> QED BY <1>1, <1>2

SetMeta(t, ns, prop, value) == FoldSet(LAMBDA n, u : CacheSetMeta(u, n, prop, value), t, ns)

LEMMA SetMetaMakes ==
    ASSUME NEW t \in Trees, NEW ns, IsFiniteSet(ns), ns \subseteq Nodes, NEW prop \in Props, NEW value \in PropValues
    PROVE  SetMeta(t, ns, prop, value) \in Trees /\ MetaSays(t, ns, prop, value, SetMeta(t, ns, prop, value))
<1> DEFINE last(s) == CHOOSE n \in s : TRUE
           pick == [s \in (SUBSET ns) \ {{}} |-> last(s)]
           step(s, u) == CacheSetMeta(u, last(s), prop, value)
           g == [p \in (SUBSET ns) \X Trees |-> IF p[1] = {} THEN p[2] ELSE step(p[1], p[2])]
           IsFold(f) == f = [s \in SUBSET ns |-> IF s = {} THEN t ELSE step(s, f[s \ {last(s)}])]
           it == CHOOSE f : IsFold(f)
           K == {p \in (SUBSET ns) \X Trees : MetaSays(t, p[1], prop, value, p[2])}
<1>1. SetMeta(t, ns, prop, value) = it[ns]
  BY DEF SetMeta, FoldSet, MapThenFoldSet
<1>a. \A s \in (SUBSET ns) \ {{}} : last(s) \in s /\ last(s) \in Nodes
  OBVIOUS
<1>b. IsPick(pick, ns) /\ \A s \in (SUBSET ns) \ {{}} : Rest(pick, s) = s \ {last(s)}
  BY <1>a DEF IsPick, Rest
<1>c. g \in [(SUBSET ns) \X Trees -> Trees]
  <2>1. ASSUME NEW s \in SUBSET ns, s # {}, NEW u \in Trees PROVE step(s, u) \in Trees
    <3>1. last(s) \in Nodes /\ last(s) \notin {} /\ MetaSays(u, {}, prop, value, u)
      BY <1>a, <2>1 DEF MetaSays
    <3> HIDE DEF last
    <3> QED BY <3>1, MetaStep
  <2> HIDE DEF step
  <2> QED BY <2>1
<1>d. \A s \in (SUBSET ns) \ {{}}, u \in Trees : g[<<s, u>>] = step(s, u)
  <2> HIDE DEF step
  <2> QED OBVIOUS
<1> HIDE DEF pick, g, step, last
<1>3. \E f : IsFold(f)
  <2>1. PICK h \in [SUBSET ns -> Trees] : Stages(h, pick, ns, t, g)
    BY <1>b, <1>c, FoldExists
  <2>2. ASSUME NEW s \in SUBSET ns PROVE h[s] = IF s = {} THEN t ELSE step(s, h[s \ {last(s)}])
    <3>1. s \ {last(s)} \in SUBSET ns
      OBVIOUS
    <3>2. h[s \ {last(s)}] \in Trees
      BY <3>1
    <3> QED BY <1>b, <1>d, <2>1, <3>2 DEF Stages
  <2>3. IsFold(h)
    BY <2>2
  <2> QED BY <2>3
<1>4. IsFold(it)
  BY <1>3
<1> HIDE DEF it
<1>5. <<{}, it[{}]>> \in K
  <2>1. it[{}] = t
    BY <1>4
  <2>2. MetaSays(t, {}, prop, value, t)
    BY DEF MetaSays
  <2> QED BY <2>1, <2>2
<1>6. ASSUME NEW s \in (SUBSET ns) \ {{}}, <<Rest(pick, s), it[Rest(pick, s)]>> \in K
      PROVE  it[s] = g[<<s, it[Rest(pick, s)]>>] /\ <<s, g[<<s, it[Rest(pick, s)]>>]>> \in K
  <2> DEFINE u == it[s \ {last(s)}]
  <2>1. u \in Trees /\ MetaSays(t, s \ {last(s)}, prop, value, u)
    BY <1>6, <1>b
  <2>2. it[s] = step(s, u) /\ g[<<s, u>>] = step(s, u)
    BY <1>4, <1>d, <2>1
  <2>3. last(s) \in Nodes /\ last(s) \in s
    BY <1>a
  <2> HIDE DEF u
  <2>4. MetaSays(t, (s \ {last(s)}) \cup {last(s)}, prop, value, step(s, u)) /\ step(s, u) \in Trees
    BY <2>1, <2>3, MetaStep DEF step
  <2>5. (s \ {last(s)}) \cup {last(s)} = s
    BY <2>3
  <2> QED BY <1>b, <2>2, <2>4, <2>5 DEF u
<1> HIDE DEF K
<1>7. \A s \in SUBSET ns : <<s, it[s]>> \in K
  <2>1. K \in SUBSET ((SUBSET ns) \X Trees)
    BY DEF K
  <2>2. Keeps(it, pick, ns, g, K)
    BY <1>6 DEF Keeps
  <2> QED BY <1>b, <1>c, <1>5, <2>1, <2>2, FoldKeeps
<1> QED BY <1>1, <1>7 DEF K

Groups == UNION {[ns -> Metas \ {NoMeta}] : ns \in SUBSET Nodes}

LEMMA AddMetaDataMakes ==
    ASSUME NEW t \in Trees, NEW groups \in Groups
    PROVE  /\ AddMetaData(t, groups) \in Trees /\ DOMAIN AddMetaData(t, groups) = DOMAIN t
           /\ \A n \in DOMAIN t : /\ AddMetaData(t, groups)[n].value = t[n].value
                                  /\ AddMetaData(t, groups)[n].meta = IF n \in DOMAIN groups THEN groups[n] ELSE t[n].meta
<1> DEFINE u == AddMetaData(t, groups)
<1>1. PICK ns \in SUBSET Nodes : groups \in [ns -> Metas \ {NoMeta}]
  BY DEF Groups
<1>2. DOMAIN u = DOMAIN t /\ u = [n \in DOMAIN u |-> u[n]]
  BY DEF AddMetaData
<1>3. \A n \in DOMAIN t : u[n] = IF n \in DOMAIN groups THEN [t[n] EXCEPT !.meta = groups[n]] ELSE t[n]
  BY DEF AddMetaData
<1> HIDE DEF u
<1>4. ASSUME NEW n \in DOMAIN t
      PROVE  /\ u[n] \in NodeType /\ u[n].value = t[n].value /\ u[n].dir = t[n].dir
             /\ u[n].meta = IF n \in DOMAIN groups THEN groups[n] ELSE t[n].meta
  <2>1. t[n] \in NodeType
    BY TreeFacts
  <2>2. n \in DOMAIN groups => groups[n] \in Metas
    BY <1>1
  <2> QED BY <1>3, <2>1, <2>2 DEF NodeType
<1>5. u[<<>>] = t[<<>>]
  <2>1. <<>> \in DOMAIN t /\ <<>> \notin DOMAIN groups
    BY <1>1, TreeFacts, NodesMeans DEF Whole
  <2> QED BY <1>3, <2>1
<1>6. u \in Trees
  BY <1>2, <1>4, <1>5, SameButMeta
<1> QED BY <1>2, <1>4, <1>6 DEF u

-----------------------------------------------------------------------------
(* Removing: what goes besides what is below the key are nodes above it     *)
(* that hold nothing else.                                                  *)

LEMMA AloneMeans ==
    ASSUME NEW t \in Trees, NEW n \in DOMAIN t, n # <<>>
    PROVE  n \in Children(t, Front(n)) /\ (Alone(t, n) <=> Children(t, Front(n)) = {n})
<1>1. n \in Paths /\ IsFiniteSet(DOMAIN t)
  BY TreeFacts DEF Whole
<1>2. n \in Children(t, Front(n))
  BY <1>1, FrontMeans DEF Children
<1>3. IsFiniteSet(Children(t, Front(n)))
  BY <1>1, FS_Subset DEF Children
<1>4. Cardinality(Children(t, Front(n))) = 1 <=> \E x : Children(t, Front(n)) = {x}
  BY <1>3, FS_Singleton
<1> QED BY <1>2, <1>4 DEF Alone

LEMMA TopMeans ==
    ASSUME NEW t \in Trees, NEW key \in Paths
    PROVE  /\ Top(t, key) \in Paths /\ IsPrefix(Top(t, key), key) /\ ~Alone(t, Top(t, key))
           /\ \A m \in Paths : IsPrefix(m, key) /\ Len(Top(t, key)) < Len(m) => Alone(t, m)
<1> DEFINE left == {Len(key) - Len(m) : m \in {n \in Prefixes(key) : ~Alone(t, n)}}
<1>1. Prefixes(key) = {m \in Paths : IsPrefix(m, key)} /\ Len(key) \in Nat
  BY PrefixesMeans DEF Paths
<1>2. \A m \in Prefixes(key) : Len(m) \in Nat /\ Len(m) <= Len(key)
  BY <1>1, PrefixOrder DEF Paths
<1>3. left \in SUBSET Nat
  BY <1>1, <1>2
<1>4. left # {}
  <2>1. <<>> \in Prefixes(key) /\ ~Alone(t, <<>>)
    BY <1>1, PrefixOrder DEF Paths, Alone
  <2> QED BY <2>1
<1>5. \E i \in left : \A j \in left : i <= j
  <2> HIDE DEF left
  <2> QED BY <1>3, <1>4, LeastIndex
<1>6. PICK n \in Prefixes(key) : ~Alone(t, n) /\ \A j \in left : Len(key) - Len(n) <= j
  BY <1>5
<1>7. ASSUME NEW m \in Prefixes(key), Len(n) < Len(m) PROVE Alone(t, m)
  <2>1. ~Alone(t, m) => Len(key) - Len(m) \in left
    OBVIOUS
  <2>2. Len(key) - Len(n) <= Len(key) - Len(m) => FALSE
    BY <1>1, <1>2, <1>7
  <2> QED BY <1>6, <2>1, <2>2
<1>8. /\ Top(t, key) \in Prefixes(key) /\ ~Alone(t, Top(t, key))
      /\ \A m \in Prefixes(key) : Len(Top(t, key)) < Len(m) => Alone(t, m)
  BY <1>6, <1>7 DEF Top
<1> QED BY <1>1, <1>8

RemoveSays(t, key, u) ==
    /\ DOMAIN u \subseteq DOMAIN t /\ \A n \in DOMAIN u : u[n] = t[n]
    /\ \A k \in Keys \cap DOMAIN t : k \in DOMAIN u <=> ~IsPrefix(key, k)

(* Nothing but what is below the key is below the node that is unlinked.    *)
LEMMA OnlyBelow ==
    ASSUME NEW t \in Trees, NEW key \in DOMAIN t, NEW k \in Keys \cap DOMAIN t
    PROVE  IsPrefix(Top(t, key), k) <=> IsPrefix(key, k)
<1>1. key \in Paths /\ k \in Paths /\ k # <<>>
  BY TreeFacts, NodesMeans
<1> DEFINE top == Top(t, key)
<1>2. /\ top \in Paths /\ IsPrefix(top, key) /\ ~Alone(t, top)
      /\ \A m \in Paths : IsPrefix(m, key) /\ Len(top) < Len(m) => Alone(t, m)
  BY <1>1, TopMeans
<1> HIDE DEF top
<1>3. IsPrefix(key, k) => IsPrefix(top, k)
  BY <1>1, <1>2, PrefixOrder
<1>4. ASSUME IsPrefix(top, k), ~IsPrefix(key, k) PROVE FALSE
  <2> DEFINE off == {Len(m) : m \in {n \in Paths : IsPrefix(n, key) /\ ~IsPrefix(n, k)}}
  <2>1. Len(key) \in off
    BY <1>1, <1>4, PrefixOrder
  <2>2. off \in SUBSET Nat
    BY DEF Paths
  <2>3. \E i \in off : \A j \in off : i <= j
    <3> HIDE DEF off
    <3> QED BY <2>1, <2>2, LeastIndex
  <2>4. PICK m \in Paths : IsPrefix(m, key) /\ ~IsPrefix(m, k) /\ \A j \in off : Len(m) <= j
    BY <2>3
  <2>5. m # <<>>
    BY <1>1, <2>4, PrefixOrder
  <2>6. Front(m) \in Paths /\ Len(Front(m)) + 1 = Len(m) /\ IsPrefix(Front(m), m) /\ Front(m) # m
    BY <2>4, <2>5, FrontMeans
  <2>7. Len(m) \in Nat /\ Len(Front(m)) \in Nat /\ Len(top) \in Nat /\ Len(k) \in Nat
    BY <1>1, <1>2, <2>4, <2>6 DEF Paths
  <2>8. IsPrefix(Front(m), k)
    <3>1. IsPrefix(Front(m), key)
      BY <1>1, <2>4, <2>6, PrefixOrder
    <3>2. ~IsPrefix(Front(m), k) => Len(Front(m)) \in off
      BY <2>6, <3>1
    <3>3. ~(Len(m) <= Len(Front(m)))
      BY <2>6, <2>7
    <3> QED BY <2>4, <3>2, <3>3
  <2> HIDE DEF off
  <2>9. Alone(t, m)
    <3>1. Len(m) <= Len(top) => IsPrefix(m, top)
      BY <1>1, <1>2, <2>4, PrefixOrder
    <3>2. ~IsPrefix(m, top)
      BY <1>1, <1>2, <1>4, <2>4, PrefixOrder
    <3> QED BY <1>2, <2>4, <2>7, <3>1, <3>2
  <2>10. m \in DOMAIN t
    BY <2>4, TreeFacts
  <2>11. Children(t, Front(m)) = {m}
    BY <2>5, <2>9, <2>10, AloneMeans
  <2>12. CASE Len(m) <= Len(k)
    <3>1. PICK c \in Paths : IsPrefix(c, k) /\ Len(c) = Len(m)
      BY <1>1, <2>7, <2>12, PrefixOfLength
    <3>2. IsPrefix(Front(m), c)
      BY <1>1, <2>6, <2>7, <2>8, <3>1, PrefixOrder
    <3>3. c \in DOMAIN t
      BY <3>1, TreeFacts
    <3>4. c \in Children(t, Front(m))
      BY <2>6, <3>1, <3>2, <3>3 DEF Children
    <3> QED BY <2>4, <2>11, <3>1, <3>4
  <2>13. CASE Len(k) < Len(m)
    <3>1. Front(m) = k
      <4>1. Len(Front(m)) <= Len(k)
        BY <1>1, <2>6, <2>8, PrefixOrder
      <4>2. Len(Front(m)) = Len(k)
        BY <2>6, <2>7, <2>13, <4>1
      <4> QED BY <1>1, <2>6, <2>8, <4>2, PrefixOrder
    <3>2. PICK l \in Keys \cap DOMAIN t : IsPrefix(key, l)
      <4>1. key # <<>>
        BY <1>1, <1>4, PrefixOrder
      <4> QED BY <4>1, TreeFacts DEF Whole
    <3>3. l \in Paths /\ IsPrefix(k, key) /\ IsPrefix(k, l)
      BY <1>1, <2>4, <2>6, <3>1, <3>2, NodesMeans, PrefixOrder
    <3>4. k = l
      BY <3>2, <3>3, KeysAssumption
    <3> QED BY <1>4, <3>2, <3>4
  <2> QED BY <2>7, <2>12, <2>13
<1> QED BY <1>3, <1>4 DEF top

LEMMA RemoveMakes ==
    ASSUME NEW t \in Trees, NEW key \in Paths
    PROVE  CacheRemove(t, key) \in Trees /\ RemoveSays(t, key, CacheRemove(t, key))
<1>0. /\ DOMAIN t \subseteq AllNodes /\ t \in [DOMAIN t -> NodeType]
      /\ \A n \in DOMAIN t : n \in Paths /\ t[n] \in NodeType
      /\ Whole(t)
      /\ \A n \in DOMAIN t, m \in Paths : IsPrefix(m, n) => m \in DOMAIN t
  BY TreeFacts
<1>1. CASE key \notin DOMAIN t
  <2>1. CacheRemove(t, key) = t
    BY <1>1 DEF CacheRemove, Found
  <2>2. RemoveSays(t, key, t)
    BY <1>0, <1>1 DEF RemoveSays
  <2> QED BY <2>1, <2>2
<1>2. CASE key \in DOMAIN t
  <2> DEFINE top == Top(t, key)
             u == CacheRemove(t, key)
  <2>1. /\ DOMAIN u = {n \in DOMAIN t : n = <<>> \/ ~IsPrefix(top, n)}
        /\ u = [n \in DOMAIN u |-> t[n]]
    BY <1>2 DEF CacheRemove, Found, Delete, Restrict
  <2> HIDE DEF u
  <2>2. DOMAIN u \subseteq DOMAIN t /\ \A n \in DOMAIN u : u[n] = t[n]
    BY <2>1
  <2>3. /\ top \in Paths /\ IsPrefix(top, key) /\ ~Alone(t, top)
    BY TopMeans
  <2>4. \A k \in Keys \cap DOMAIN t : k \in DOMAIN u <=> ~IsPrefix(key, k)
    BY <1>2, <2>1, OnlyBelow, NodesMeans
  <2>5. RemoveSays(t, key, u)
    BY <2>2, <2>4 DEF RemoveSays
  <2>6. Whole(u)
    <3>1. IsFiniteSet(DOMAIN u)
      BY <1>0, <2>2, FS_Subset DEF Whole
    <3>2. <<>> \in DOMAIN u /\ u[<<>>].meta = NoMeta
      BY <1>0, <2>1, <2>2 DEF Whole
    <3>3. ASSUME NEW n \in DOMAIN u, NEW m \in Prefixes(n) PROVE m \in DOMAIN u
      <4>1. n \in Paths /\ m \in Paths /\ IsPrefix(m, n) /\ m \in DOMAIN t
        BY <1>0, <2>2, <3>3, PrefixesMeans
      <4>2. IsPrefix(top, m) => IsPrefix(top, n)
        BY <2>3, <4>1, PrefixOrder
      <4>3. n = <<>> => m = <<>>
        BY <4>1, PrefixOrder
      <4> QED BY <2>1, <4>1, <4>2, <4>3
    <3>4. \A n \in DOMAIN u : u[n].dir <=> n \notin Keys
      BY <1>0, <2>2 DEF Whole
    <3>5. \A k \in Keys \cap DOMAIN u : u[k].value \in Values
      BY <1>0, <2>2 DEF Whole
    <3>6. ASSUME NEW n \in DOMAIN u \ {<<>>} PROVE \E k \in Keys \cap DOMAIN u : IsPrefix(n, k)
      <4>1. PICK k \in Keys \cap DOMAIN t : IsPrefix(n, k)
        BY <1>0, <2>2 DEF Whole
      <4>2. n \in Paths /\ n \in DOMAIN t /\ ~IsPrefix(top, n) /\ k \in Paths /\ k # <<>>
        BY <1>0, <2>1, <3>6, NodesMeans
      <4>3. CASE k \in DOMAIN u
        BY <4>1, <4>3
      <4>4. CASE k \notin DOMAIN u
        <5>1. IsPrefix(top, k)
          BY <2>1, <4>1, <4>2, <4>4
        <5>2. Len(n) \in Nat /\ Len(top) \in Nat
          BY <2>3, <4>2 DEF Paths
        <5>3. IsPrefix(n, top) /\ n # top
          BY <2>3, <4>1, <4>2, <5>1, <5>2, PrefixOrder
        <5>4. top # <<>> /\ top \in DOMAIN t
          BY <1>0, <1>2, <2>3, <4>2, <5>3, PrefixOrder
        <5>5. PICK c \in Children(t, Front(top)) : c # top
          BY <2>3, <5>4, AloneMeans
        <5>6. Front(top) \in Paths /\ Len(Front(top)) + 1 = Len(top) /\ IsPrefix(n, Front(top))
          BY <2>3, <4>2, <5>3, <5>4, FrontMeans
        <5>7. c \in DOMAIN t /\ c \in Paths /\ IsPrefix(Front(top), c) /\ Len(c) = Len(top)
          BY <1>0, <5>5, <5>6 DEF Children
        <5>8. c # <<>>
          <6>1. Len(Front(top)) \in Nat /\ Len(c) # 0
            BY <5>2, <5>6, <5>7 DEF Paths
          <6> QED BY <6>1
        <5>9. PICK l \in Keys \cap DOMAIN t : IsPrefix(c, l)
          BY <1>0, <5>7, <5>8 DEF Whole
        <5>10. l \in Paths
          BY NodesMeans
        <5>11. ~IsPrefix(top, l)
          <6>1. IsPrefix(top, l) => IsPrefix(c, top)
            BY <2>3, <5>2, <5>7, <5>9, <5>10, PrefixOrder
          <6> QED BY <2>3, <5>5, <5>7, <6>1, PrefixOrder
        <5>12. IsPrefix(n, l)
          BY <4>2, <5>6, <5>7, <5>9, <5>10, PrefixOrder
        <5> QED BY <2>1, <5>9, <5>11, <5>12
      <4> QED BY <4>3, <4>4
    <3> QED BY <3>1, <3>2, <3>3, <3>4, <3>5, <3>6 DEF Whole
  <2>7. u \in Trees
    <3>1. \A n \in DOMAIN u : t[n] \in NodeType
      BY <1>0, <2>2
    <3>2. u \in [DOMAIN u -> NodeType]
      BY <2>1, <3>1
    <3> QED BY <1>0, <2>2, <2>6, <3>2, TreeIs
  <2> QED BY <2>5, <2>7 DEF u
<1> QED BY <1>1, <1>2

-----------------------------------------------------------------------------
(* The types. *)

GroupsOf(p) == {groups \in Groups : \A n \in DOMAIN groups : IsPrefix(Roots[p], n)}

AllGroups == {f \in [Plugins -> Groups] : \A p \in Plugins : f[p] \in GroupsOf(p)}

StoredType == UNION {[ks -> Values] : ks \in SUBSET Keys}

TypeInv ==
    /\ tree \in Trees /\ synced \in [Plugins -> BOOLEAN] /\ at \in Nat
    /\ keyfile \in AllGroups /\ file \in AllGroups /\ promised \in AllGroups
    /\ stored \in StoredType

LEMMA PluginsAre == Plugins = 1..Len(Roots) /\ Len(Roots) \in Nat /\ \A p \in Plugins : Roots[p] \in Paths
<1>1. Roots \in Seq(Paths)
  BY RootsAssumption DEF Paths
<1> QED BY <1>1 DEF Plugins

LEMMA NoGroupsType == \A p \in Plugins : NoGroups \in GroupsOf(p)
<1>1. NoGroups \in [{} -> Metas \ {NoMeta}] /\ DOMAIN NoGroups = {} /\ {} \in SUBSET Nodes
  BY DEF NoGroups
<1>2. NoGroups \in Groups
  BY <1>1 DEF Groups
<1> QED BY <1>1, <1>2 DEF GroupsOf

LEMMA GroupsType ==
    ASSUME NEW p \in Plugins, NEW groups \in GroupsOf(p)
    PROVE  /\ DOMAIN groups \subseteq Nodes /\ groups = [n \in DOMAIN groups |-> groups[n]]
           /\ \A n \in DOMAIN groups : groups[n] \in Metas \ {NoMeta} /\ IsPrefix(Roots[p], n)
<1>1. PICK ns \in SUBSET Nodes : groups \in [ns -> Metas \ {NoMeta}]
  BY DEF GroupsOf, Groups
<1>2. \A n \in DOMAIN groups : IsPrefix(Roots[p], n)
  BY DEF GroupsOf
<1> QED BY <1>1, <1>2

LEMMA GroupsIs ==
    ASSUME NEW p \in Plugins, NEW groups, DOMAIN groups \subseteq Nodes, groups = [n \in DOMAIN groups |-> groups[n]],
           \A n \in DOMAIN groups : groups[n] \in Metas \ {NoMeta} /\ IsPrefix(Roots[p], n)
    PROVE  groups \in GroupsOf(p)
<1>1. groups \in [DOMAIN groups -> Metas \ {NoMeta}]
  <2>1. [n \in DOMAIN groups |-> groups[n]] \in [DOMAIN groups -> Metas \ {NoMeta}]
    OBVIOUS
  <2> QED BY <2>1
<1>2. groups \in Groups
  BY <1>1 DEF Groups
<1> QED BY <1>2 DEF GroupsOf

LEMMA GivenType ==
    ASSUME NEW t \in Trees, NEW p \in Plugins
    PROVE  GetMetaData(t, Roots[p]) \in GroupsOf(p)
<1> DEFINE given == GetMetaData(t, Roots[p])
<1>1. DOMAIN given = {n \in DOMAIN t : IsPrefix(Roots[p], n) /\ t[n].meta # NoMeta}
  BY DEF GetMetaData, Below
<1>2. \A n \in DOMAIN given : given[n] = t[n].meta
  BY DEF GetMetaData
<1>3. given = [n \in DOMAIN given |-> given[n]]
  BY DEF GetMetaData
<1> HIDE DEF given
<1>4. DOMAIN given \subseteq Nodes
  BY <1>1, TreeFacts DEF Whole, AllNodes
<1>5. \A n \in DOMAIN given : given[n] \in Metas \ {NoMeta} /\ IsPrefix(Roots[p], n)
  BY <1>1, <1>2, TreeFacts DEF NodeType
<1>6. given \in GroupsOf(p)
  BY <1>3, <1>4, <1>5, GroupsIs
<1> QED BY <1>6 DEF given

(* What was said is in what is kept of it. *)
LEMMA UpdatedMakes ==
    ASSUME NEW p \in Plugins, NEW groups \in GroupsOf(p), NEW given \in GroupsOf(p)
    PROVE  /\ Updated(groups, given) \in GroupsOf(p)
           /\ \A n \in DOMAIN given : n \in DOMAIN Updated(groups, given) /\ IsRestriction(given[n], Updated(groups, given)[n])
<1> DEFINE new == Updated(groups, given)
           old(n) == IF n \in DOMAIN groups THEN groups[n] ELSE NoMeta
<1>1. DOMAIN new = DOMAIN given /\ new = [n \in DOMAIN new |-> new[n]] /\ \A n \in DOMAIN given : new[n] = Over(given[n], old(n))
  BY DEF Updated
<1>2. ASSUME NEW n \in DOMAIN given
      PROVE  new[n] \in Metas /\ new[n] # NoMeta /\ IsPrefix(Roots[p], n) /\ IsRestriction(given[n], new[n]) /\ n \in Nodes
  <2>1. given[n] \in Metas /\ given[n] # NoMeta /\ n \in Nodes /\ IsPrefix(Roots[p], n)
    BY GroupsType
  <2>2. old(n) \in Metas
    BY GroupsType, NoMetaType
  <2> HIDE DEF old
  <2>3. Over(given[n], old(n)) \in Metas /\ DOMAIN Over(given[n], old(n)) = DOMAIN given[n] \cup DOMAIN old(n)
        /\ IsRestriction(given[n], Over(given[n], old(n)))
    BY <2>1, <2>2, OverType
  <2>4. DOMAIN given[n] # {}
    BY <2>1, NoMetaType
  <2>5. Over(given[n], old(n)) # NoMeta
    BY <2>3, <2>4, NoMetaType
  <2> HIDE DEF new
  <2> QED BY <1>1, <2>1, <2>3, <2>5
<1> HIDE DEF new, old
<1>3. new \in GroupsOf(p)
  BY <1>1, <1>2, GroupsIs
<1> QED BY <1>1, <1>2, <1>3 DEF new

LEMMA GroupsUpdate ==
    ASSUME NEW f \in AllGroups, NEW p \in Plugins, NEW groups \in GroupsOf(p)
    PROVE  [f EXCEPT ![p] = groups] \in AllGroups
<1>1. groups \in Groups
  BY DEF GroupsOf
<1> QED BY <1>1 DEF AllGroups

(* The cache after a session. *)
LEMMA OverMakes ==
    ASSUME NEW t \in Trees
    PROVE  CacheRemove(t, <<>>) \in Trees /\ DOMAIN CacheRemove(t, <<>>) = {<<>>}
<1> DEFINE u == CacheRemove(t, <<>>)
<1>1. <<>> \in Paths
  BY DEF Paths
<1>2. u \in Trees /\ RemoveSays(t, <<>>, u)
  BY <1>1, RemoveMakes
<1> HIDE DEF u
<1>3. \A k \in Keys : k \notin DOMAIN u
  BY <1>2, NodesMeans, PrefixOrder DEF RemoveSays
<1>4. <<>> \in DOMAIN u /\ \A n \in DOMAIN u \ {<<>>} : \E k \in Keys \cap DOMAIN u : IsPrefix(n, k)
  BY <1>2, TreeFacts DEF Whole
<1>5. DOMAIN u = {<<>>}
  BY <1>3, <1>4
<1> QED BY <1>2, <1>5 DEF u

LEMMA SettingsOfPlugin ==
    ASSUME NEW p \in Plugins, stored \in StoredType
    PROVE  /\ Under(p, stored) \in [DOMAIN Under(p, stored) -> Values] /\ DOMAIN Under(p, stored) \in SUBSET Keys
           /\ DOMAIN Under(p, stored) = {k \in DOMAIN stored : IsPrefix(Roots[p], k)}
           /\ \A k \in DOMAIN Under(p, stored) : Under(p, stored)[k] = stored[k]
<1>1. PICK ks \in SUBSET Keys : stored \in [ks -> Values]
  BY DEF StoredType
<1> QED BY <1>1 DEF Under, Restrict

LEMMA SyncedMakes ==
    ASSUME TypeInv, NEW p \in Plugins
    PROVE  LET added == AddSettings(tree, Under(p, stored))
               u == AddMetaData(added, keyfile[p])
           IN  /\ u \in Trees /\ added \in Trees
               /\ AddSays(tree, Under(p, stored), DOMAIN Under(p, stored), added)
               /\ DOMAIN u = DOMAIN added
               /\ \A n \in DOMAIN added : /\ u[n].value = added[n].value
                                          /\ u[n].meta = IF n \in DOMAIN keyfile[p] THEN keyfile[p][n] ELSE added[n].meta
<1> DEFINE added == AddSettings(tree, Under(p, stored))
<1>1. added \in Trees /\ AddSays(tree, Under(p, stored), DOMAIN Under(p, stored), added)
  BY AddSettingsMakes, SettingsOfPlugin DEF TypeInv
<1>2. keyfile[p] \in Groups
  BY DEF TypeInv, AllGroups
<1> HIDE DEF added
<1>3. /\ AddMetaData(added, keyfile[p]) \in Trees /\ DOMAIN AddMetaData(added, keyfile[p]) = DOMAIN added
      /\ \A n \in DOMAIN added :
            /\ AddMetaData(added, keyfile[p])[n].value = added[n].value
            /\ AddMetaData(added, keyfile[p])[n].meta = IF n \in DOMAIN keyfile[p] THEN keyfile[p][n] ELSE added[n].meta
  BY <1>1, <1>2, AddMetaDataMakes
<1> QED BY <1>1, <1>3 DEF added

LEMMA SyncOutType ==
    ASSUME TypeInv, NEW i \in Nat, i > 0, SyncOutFrom(i)
    PROVE  /\ tree' \in Trees /\ synced' \in [Plugins -> BOOLEAN] /\ at' \in Nat
           /\ keyfile' \in AllGroups /\ file' \in AllGroups /\ promised' \in AllGroups
<1> DEFINE left == {p \in i..Len(Roots) : synced[p]}
<1>1. CASE left = {}
  <2>1. SessionOver /\ UNCHANGED <<keyfile, file, promised, doubtful>>
    BY <1>1 DEF SyncOutFrom
  <2> QED BY <2>1, OverMakes DEF SessionOver, TypeInv
<1>2. CASE left # {}
  <2>1. PICK p \in left : at' = p /\ Update(p) /\ UNCHANGED <<tree, synced>>
    BY <1>2 DEF SyncOutFrom
  <2>2. p \in Plugins /\ p \in Nat
    BY PluginsAre
  <2> DEFINE given == GetMetaData(tree, Roots[p])
             new == Updated(keyfile[p], given)
  <2>3. given \in GroupsOf(p)
    BY <2>2, GivenType DEF TypeInv
  <2>4. keyfile[p] \in GroupsOf(p)
    BY <2>2 DEF TypeInv, AllGroups
  <2>5. new \in GroupsOf(p)
    BY <2>2, <2>3, <2>4, UpdatedMakes
  <2>6. /\ keyfile' = [keyfile EXCEPT ![p] = new] /\ promised' = [promised EXCEPT ![p] = given]
        /\ file' \in {file, [file EXCEPT ![p] = new]}
    BY <2>1 DEF Update
  <2>7. tree' \in Trees /\ synced' \in [Plugins -> BOOLEAN] /\ at' \in Nat
    BY <2>1, <2>2 DEF TypeInv
  <2>8. keyfile \in AllGroups /\ file \in AllGroups /\ promised \in AllGroups
    BY DEF TypeInv
  <2> HIDE DEF given, new
  <2>9. [keyfile EXCEPT ![p] = new] \in AllGroups
    BY <2>2, <2>5, <2>8, GroupsUpdate
  <2>10. [promised EXCEPT ![p] = given] \in AllGroups
    BY <2>2, <2>3, <2>8, GroupsUpdate
  <2>11. [file EXCEPT ![p] = new] \in AllGroups
    BY <2>2, <2>5, <2>8, GroupsUpdate
  <2>12. file' \in AllGroups
    BY <2>6, <2>8, <2>11
  <2> QED BY <2>6, <2>7, <2>9, <2>10, <2>12
<1> QED BY <1>1, <1>2

LEMMA TypeInit == Init => TypeInv
<1> SUFFICES ASSUME Init PROVE TypeInv
  OBVIOUS
<1>1. NewCache \in Trees
  BY NewCacheWhole
<1>2. \A p \in Plugins : NoGroups \in Groups /\ NoGroups \in GroupsOf(p)
  BY NoGroupsType DEF GroupsOf
<1>3. [p \in Plugins |-> NoGroups] \in AllGroups
  BY <1>2 DEF AllGroups
<1> QED BY <1>1, <1>3 DEF Init, TypeInv, StoredType

LEMMA TypeNext == ASSUME TypeInv, [Next]_vars PROVE TypeInv'
<1>1. CASE SyncIn \/ Disk \/ UNCHANGED vars
  BY <1>1 DEF SyncIn, Disk, vars, TypeInv
<1>2. ASSUME NEW p \in Plugins, PluginSynced(p) PROVE TypeInv'
  <2>1. tree' \in Trees
    BY <1>2, SyncedMakes DEF PluginSynced
  <2> QED BY <1>2, <2>1 DEF PluginSynced, TypeInv
<1>3. ASSUME NEW k \in Keys, NEW v \in Values, Set(k, v) PROVE TypeInv'
  BY <1>3, CacheSetMakes DEF Set, TypeInv
<1>4. ASSUME NEW ns \in Spoken, NEW prop \in Props, NEW value \in PropValues, SetMultipleMeta(ns, prop, value)
      PROVE  TypeInv'
  <2>1. tree' = SetMeta(tree, ns, prop, value)
    BY <1>4 DEF SetMultipleMeta, SetMeta
  <2>2. tree' \in Trees
    BY <2>1, NamedAssumption, SetMetaMakes DEF TypeInv
  <2> QED BY <1>4, <2>2 DEF SetMultipleMeta, TypeInv
<1>5. ASSUME NEW n \in Named, RemoveKey(n) PROVE TypeInv'
  <2>1. n \in Paths
    BY NamedAssumption, NodesMeans DEF AllNodes
  <2>2. tree' \in Trees
    BY <1>5, <2>1, RemoveMakes DEF RemoveKey, TypeInv
  <2> QED BY <1>5, <2>2 DEF RemoveKey, TypeInv
<1>6. CASE Abort
  BY <1>6, OverMakes DEF Abort, SessionOver, TypeInv
<1>7. CASE SyncOut
  <2>1. SyncOutFrom(1) /\ UNCHANGED stored
    BY <1>7 DEF SyncOut
  <2> QED BY <2>1, SyncOutType DEF TypeInv
<1>8. CASE PluginStored
  <2>1. PICK ks \in SUBSET Keys : Store(ks)
    BY <1>8 DEF PluginStored
  <2>2. PICK ls \in SUBSET Keys : stored \in [ls -> Values]
    BY DEF TypeInv, StoredType
  <2>3. \A k \in ks \cap DOMAIN tree : tree[k].value \in Values
    BY TreeFacts DEF TypeInv, Whole
  <2>4. stored' \in [(ls \ ks) \cup (ks \cap DOMAIN tree) -> Values]
    BY <2>1, <2>2, <2>3 DEF Store
  <2>5. stored' \in StoredType
    <3>1. (ls \ ks) \cup (ks \cap DOMAIN tree) \in SUBSET Keys
      OBVIOUS
    <3> QED BY <2>4, <3>1 DEF StoredType
  <2>6. CASE SyncOutFrom(at + 1)
    <3>1. at + 1 \in Nat /\ at + 1 > 0
      BY DEF TypeInv
    <3> QED BY <2>5, <2>6, <3>1, SyncOutType DEF TypeInv
  <2>7. CASE SessionOver /\ UNCHANGED <<keyfile, file, promised, doubtful>>
    BY <2>5, <2>7, OverMakes DEF SessionOver, TypeInv
  <2> QED BY <1>8, <2>6, <2>7 DEF PluginStored
<1>9. CASE Restart
  <2>1. tree' \in Trees
    BY <1>9, NewCacheWhole DEF Restart
  <2>2. promised' \in AllGroups
    <3>1. promised' = [p \in Plugins |-> IF p \in doubtful THEN NoGroups ELSE promised[p]]
      BY <1>9 DEF Restart
    <3>2. \A p \in Plugins : /\ NoGroups \in Groups /\ NoGroups \in GroupsOf(p)
                             /\ promised[p] \in Groups /\ promised[p] \in GroupsOf(p)
      BY NoGroupsType DEF GroupsOf, TypeInv, AllGroups
    <3> QED BY <3>1, <3>2 DEF AllGroups
  <2> QED BY <1>9, <2>1, <2>2 DEF Restart, TypeInv
<1> QED BY <1>1, <1>2, <1>3, <1>4, <1>5, <1>6, <1>7, <1>8, <1>9 DEF Next

LEMMA TypeInvariant == Spec => []TypeInv
<1>1. TypeInv /\ [Next]_vars => TypeInv'
  BY TypeNext
<1> QED BY <1>1, TypeInit, PTL DEF Spec

(* No directory is left empty and none is missing above a node, whatever is *)
(* set and removed (provman_cache_set, provman_cache_remove).               *)
THEOREM TreesAreWhole == Spec => []TreeIsWhole
<1>1. ASSUME NEW t \in Trees
      PROVE  IsTree(t) /\ \A n \in DOMAIN t \ {<<>>} : t[n].dir => \E k \in DOMAIN GetSettings(t, n) : TRUE
  <2>1. /\ Whole(t) /\ \A n \in DOMAIN t : n \in Paths
        /\ \A n \in DOMAIN t, m \in Paths : IsPrefix(m, n) => m \in DOMAIN t
    BY TreeFacts
  <2>2. ASSUME NEW n \in DOMAIN t \ {<<>>} PROVE \E k \in Keys \cap DOMAIN t : IsPrefix(n, k) /\ k \in DOMAIN GetSettings(t, n)
    <3>1. PICK k \in Keys \cap DOMAIN t : IsPrefix(n, k)
      BY <2>1 DEF Whole
    <3>2. ~t[k].dir
      BY <2>1 DEF Whole
    <3> QED BY <3>1, <3>2 DEF GetSettings, Below
  <2>3. ASSUME NEW n \in DOMAIN t \ {<<>>} PROVE Found(t, Front(n)) /\ t[Front(n)].dir
    <3>1. Front(n) \in Paths /\ IsPrefix(Front(n), n) /\ Front(n) # n /\ n \in Paths
      BY <2>1, FrontMeans
    <3>2. Front(n) \in DOMAIN t
      BY <2>1, <3>1
    <3>3. PICK k \in Keys : IsPrefix(n, k)
      BY <2>2
    <3>4. k \in Paths
      BY NodesMeans
    <3>5. IsPrefix(Front(n), k) /\ Front(n) # k
      BY <3>1, <3>3, <3>4, PrefixOrder
    <3>6. Front(n) \notin Keys
      BY <3>5, KeysAssumption
    <3> QED BY <2>1, <3>2, <3>6 DEF Whole, Found
  <2>4. <<>> \in DOMAIN t
    BY <2>1 DEF Whole
  <2> QED BY <2>2, <2>3, <2>4 DEF IsTree
<1>2. TypeInv => TreeIsWhole
  <2> SUFFICES ASSUME tree \in Trees PROVE TreeIsWhole
    BY DEF TypeInv
  <2> QED BY <1>1 DEF TreeIsWhole
<1> QED BY <1>2, TypeInvariant, PTL

-----------------------------------------------------------------------------
(* What was said is kept. *)

(* What the last End has found said is in the key file, and the file on     *)
(* disk is no older unless it could not be written.                         *)
PromiseInv ==
    \A p \in Plugins :
        /\ p \notin doubtful => file[p] = keyfile[p]
        /\ \A n \in DOMAIN promised[p] : n \in DOMAIN keyfile[p] /\ IsRestriction(promised[p][n], keyfile[p][n])

LEMMA PromiseKept ==
    ASSUME PromiseInv, UNCHANGED <<keyfile, file, promised, doubtful>> PROVE PromiseInv'
BY DEF PromiseInv

LEMMA SyncOutKeeps == ASSUME TypeInv, PromiseInv, NEW i \in Nat, i > 0, SyncOutFrom(i) PROVE PromiseInv'
<1> DEFINE left == {p \in i..Len(Roots) : synced[p]}
<1>1. CASE left = {}
  BY <1>1, PromiseKept DEF SyncOutFrom
<1>2. CASE left # {}
  <2>1. PICK p \in left : Update(p)
    BY <1>2 DEF SyncOutFrom
  <2>2. p \in Plugins
    BY PluginsAre
  <2> DEFINE given == GetMetaData(tree, Roots[p])
             new == Updated(keyfile[p], given)
  <2>3. given \in GroupsOf(p) /\ keyfile[p] \in GroupsOf(p)
    BY <2>2, GivenType DEF TypeInv, AllGroups
  <2>4. \A n \in DOMAIN given : n \in DOMAIN new /\ IsRestriction(given[n], new[n])
    BY <2>2, <2>3, UpdatedMakes
  <2>5. /\ keyfile' = [keyfile EXCEPT ![p] = new] /\ promised' = [promised EXCEPT ![p] = given]
        /\ file' = IF keyfile[p] # new /\ ~full THEN [file EXCEPT ![p] = new] ELSE file
        /\ doubtful' = IF full THEN doubtful \cup {p} ELSE doubtful
    BY <2>1 DEF Update, Dirty
  <2>6. keyfile \in [Plugins -> Groups] /\ file \in [Plugins -> Groups] /\ promised \in [Plugins -> Groups]
    BY DEF TypeInv, AllGroups
  <2> HIDE DEF given, new
  <2>7. ASSUME NEW q \in Plugins, q # p
        PROVE  /\ keyfile'[q] = keyfile[q] /\ file'[q] = file[q] /\ promised'[q] = promised[q]
               /\ q \in doubtful' <=> q \in doubtful
    BY <2>5, <2>6, <2>7
  <2>8. keyfile'[p] = new /\ promised'[p] = given
    BY <2>2, <2>5, <2>6
  <2>9. p \notin doubtful' => file'[p] = keyfile'[p]
    <3> SUFFICES ASSUME p \notin doubtful' PROVE file'[p] = new
      BY <2>8
    <3>1. ~full /\ p \notin doubtful
      BY <2>5
    <3>2. file[p] = keyfile[p]
      BY <2>2, <3>1 DEF PromiseInv
    <3>3. CASE keyfile[p] # new
      BY <2>2, <2>5, <2>6, <3>1, <3>3
    <3>4. CASE keyfile[p] = new
      BY <2>5, <3>2, <3>4
    <3> QED BY <3>3, <3>4
  <2>10. ASSUME NEW q \in Plugins
         PROVE  /\ q \notin doubtful' => file'[q] = keyfile'[q]
                /\ \A n \in DOMAIN promised'[q] : n \in DOMAIN keyfile'[q] /\ IsRestriction(promised'[q][n], keyfile'[q][n])
    <3>1. CASE q = p
      BY <2>4, <2>8, <2>9, <3>1
    <3>2. CASE q # p
      BY <2>7, <3>2 DEF PromiseInv
    <3> QED BY <3>1, <3>2
  <2> QED BY <2>10 DEF PromiseInv
<1> QED BY <1>1, <1>2

LEMMA PromiseInit == Init => PromiseInv
<1> SUFFICES ASSUME Init PROVE PromiseInv
  OBVIOUS
<1>1. \A p \in Plugins : keyfile[p] = NoGroups /\ file[p] = NoGroups /\ promised[p] = NoGroups
  BY DEF Init
<1>2. DOMAIN NoGroups = {}
  BY DEF NoGroups
<1> QED BY <1>1, <1>2 DEF PromiseInv

LEMMA PromiseNext == ASSUME TypeInv, PromiseInv, [Next]_vars PROVE PromiseInv'
<1>1. CASE SyncIn \/ Disk \/ Abort \/ UNCHANGED vars
  BY <1>1, PromiseKept DEF SyncIn, Disk, Abort, vars
<1>2. CASE \/ \E p \in Plugins : PluginSynced(p)
           \/ \E k \in Keys, v \in Values : Set(k, v)
           \/ \E ns \in Spoken, prop \in Props, value \in PropValues : SetMultipleMeta(ns, prop, value)
           \/ \E n \in Named : RemoveKey(n)
  BY <1>2, PromiseKept DEF PluginSynced, Set, SetMultipleMeta, RemoveKey
<1>3. CASE SyncOut
  BY <1>3, SyncOutKeeps DEF SyncOut
<1>4. CASE PluginStored
  <2>1. at + 1 \in Nat /\ at + 1 > 0
    BY DEF TypeInv
  <2> QED BY <1>4, <2>1, SyncOutKeeps, PromiseKept DEF PluginStored
<1>5. CASE Restart
  <2>1. /\ keyfile' = file /\ file' = file /\ doubtful' = {}
        /\ promised' = [p \in Plugins |-> IF p \in doubtful THEN NoGroups ELSE promised[p]]
    BY <1>5 DEF Restart
  <2>2. DOMAIN NoGroups = {}
    BY DEF NoGroups
  <2>3. ASSUME NEW p \in Plugins
        PROVE  \A n \in DOMAIN promised'[p] : n \in DOMAIN keyfile'[p] /\ IsRestriction(promised'[p][n], keyfile'[p][n])
    <3>1. CASE p \in doubtful
      BY <2>1, <2>2, <3>1
    <3>2. CASE p \notin doubtful
      <4>1. promised'[p] = promised[p] /\ keyfile'[p] = keyfile[p]
        BY <2>1, <3>2 DEF PromiseInv
      <4> QED BY <4>1 DEF PromiseInv
    <3> QED BY <3>1, <3>2
  <2> QED BY <2>1, <2>3 DEF PromiseInv
<1> QED BY <1>1, <1>2, <1>3, <1>4, <1>5 DEF Next

(* What a client said before End is there when the plugin is synchronised   *)
(* again, after restarts too unless the disk was full                       *)
(* (provman_meta_data_update, prv_plugin_sync_cb).                          *)
THEOREM NothingIsLost == Spec => NothingLost
<1>1. ASSUME TypeInv, PromiseInv, Next, NEW p \in Plugins, FreshlySynced(p), NEW n \in DOMAIN promised[p] \cap DOMAIN tree'
      PROVE  IsRestriction(promised[p][n], tree'[n].meta)
  <2>1. PluginSynced(p)
    <3>1. CASE \E q \in Plugins : PluginSynced(q)
      <4>1. PICK q \in Plugins : PluginSynced(q)
        BY <3>1
      <4>2. q = p
        BY <1>1, <4>1 DEF PluginSynced, FreshlySynced, TypeInv
      <4> QED BY <4>1, <4>2
    <3>2. CASE \/ \E k \in Keys, v \in Values : Set(k, v)
               \/ \E ns \in Spoken, prop \in Props, value \in PropValues : SetMultipleMeta(ns, prop, value)
               \/ \E m \in Named : RemoveKey(m)
      BY <1>1, <3>2 DEF Set, SetMultipleMeta, RemoveKey, FreshlySynced
    <3>3. SessionOver => FALSE
      BY <1>1 DEF SessionOver, FreshlySynced
    <3>4. ASSUME NEW i, SyncOutFrom(i) PROVE FALSE
      BY <1>1, <3>3, <3>4 DEF SyncOutFrom, FreshlySynced
    <3>5. CASE SyncIn \/ SyncOut \/ PluginStored \/ Abort \/ Restart \/ Disk
      BY <1>1, <3>3, <3>4, <3>5 DEF SyncIn, SyncOut, PluginStored, Abort, Restart, Disk, FreshlySynced
    <3> QED BY <1>1, <3>1, <3>2, <3>5 DEF Next
  <2>2. n \in DOMAIN keyfile[p] /\ IsRestriction(promised[p][n], keyfile[p][n])
    BY <1>1 DEF PromiseInv
  <2>3. tree'[n].meta = keyfile[p][n]
    BY <1>1, <2>1, <2>2, SyncedMakes DEF PluginSynced
  <2> QED BY <2>2, <2>3
<1>2. TypeInv /\ PromiseInv /\ [Next]_vars =>
        [\A p \in Plugins : FreshlySynced(p) =>
            \A n \in DOMAIN promised[p] \cap DOMAIN tree' : IsRestriction(promised[p][n], tree'[n].meta)]_vars
  BY <1>1
<1>3. TypeInv /\ PromiseInv /\ [Next]_vars => PromiseInv'
  BY PromiseNext
<1> QED BY <1>2, <1>3, PromiseInit, TypeInvariant, PTL DEF Spec, NothingLost

-----------------------------------------------------------------------------
(* The tree as the map it is taken for. *)

LEMMA SettingsAre ==
    ASSUME NEW t \in Trees
    PROVE  /\ DOMAIN GetSettings(t, <<>>) = Keys \cap DOMAIN t
           /\ GetSettings(t, <<>>) = [k \in Keys \cap DOMAIN t |-> t[k].value]
<1>1. {n \in Below(t, <<>>) : ~t[n].dir} = Keys \cap DOMAIN t
  BY TreeFacts, PrefixOrder DEF Below, Whole
<1> QED BY <1>1 DEF GetSettings

LEMMA MetaAre ==
    ASSUME NEW t \in Trees
    PROVE  /\ DOMAIN GetMetaData(t, <<>>) = {n \in DOMAIN t : t[n].meta # NoMeta}
           /\ GetMetaData(t, <<>>) = [n \in {m \in DOMAIN t : t[m].meta # NoMeta} |-> t[n].meta]
           /\ DOMAIN GetMetaData(t, <<>>) \subseteq Nodes
<1>1. {n \in Below(t, <<>>) : t[n].meta # NoMeta} = {n \in DOMAIN t : t[n].meta # NoMeta}
  BY TreeFacts, PrefixOrder DEF Below
<1>2. \A n \in DOMAIN t : t[n].meta # NoMeta => n \in Nodes
  BY TreeFacts DEF Whole, AllNodes
<1> QED BY <1>1, <1>2 DEF GetMetaData

(* A node is there because of a setting. *)
LEMMA ExistsMeans ==
    ASSUME NEW t \in Trees, NEW n \in Nodes
    PROVE  Map!Exists(n, GetSettings(t, <<>>)) <=> n \in DOMAIN t
<1>1. n \in Paths /\ n # <<>>
  BY NodesMeans DEF AllNodes
<1>2. n \in DOMAIN t => \E k \in Keys \cap DOMAIN t : IsPrefix(n, k)
  BY <1>1, TreeFacts DEF Whole
<1>3. \A k \in Keys \cap DOMAIN t : IsPrefix(n, k) => n \in DOMAIN t
  BY <1>1, TreeFacts
<1>4. \A k : Map!IsPrefix(n, k) <=> IsPrefix(n, k)
  BY DEF Map!IsPrefix, IsPrefix
<1> QED BY <1>2, <1>3, <1>4, SettingsAre DEF Map!Exists

LEMMA SetIsMap ==
    ASSUME TypeInv, TypeInv', NEW k \in Keys, NEW v \in Values, Set(k, v)
    PROVE  Map!Set(k, v)
<1>0. tree \in Trees /\ tree' \in Trees
  BY DEF TypeInv
<1>1. SetSays(tree, k, v, tree')
  BY CacheSetMakes DEF Set, TypeInv
<1>2. \A l \in Keys : l \in Prefixes(k) <=> l = k
  BY NodesMeans, PrefixesMeans, PrefixOrder, KeysAssumption
<1>3. Keys \cap DOMAIN tree' = {k} \cup (Keys \cap DOMAIN tree)
  BY <1>1, <1>2 DEF SetSays
<1>4. \A l \in Keys \cap DOMAIN tree' : tree'[l].value = IF l = k THEN v ELSE tree[l].value
  BY <1>1, <1>3 DEF SetSays
<1>5. GetSettings(tree', <<>>) = Map!Over([x \in {k} |-> v], GetSettings(tree, <<>>))
  <2>1. Map!Over([x \in {k} |-> v], GetSettings(tree, <<>>)) =
           [l \in {k} \cup (Keys \cap DOMAIN tree) |-> IF l = k THEN v ELSE tree[l].value]
    BY <1>0, SettingsAre DEF Map!Over
  <2> QED BY <1>0, <1>3, <1>4, <2>1, SettingsAre
<1>6. GetMetaData(tree', <<>>) = GetMetaData(tree, <<>>)
  <2>1. Directory.meta = NoMeta
    BY DEF Directory
  <2>2. \A n \in DOMAIN tree' : tree'[n].meta = IF n \in DOMAIN tree THEN tree[n].meta ELSE NoMeta
    BY <1>1, <2>1 DEF SetSays
  <2>3. DOMAIN tree \subseteq DOMAIN tree'
    BY <1>1 DEF SetSays
  <2>4. {n \in DOMAIN tree' : tree'[n].meta # NoMeta} = {n \in DOMAIN tree : tree[n].meta # NoMeta}
    BY <2>2, <2>3
  <2> QED BY <1>0, <2>2, <2>4, MetaAre
<1> QED BY <1>5, <1>6 DEF Map!Set

LEMMA MetaIsMap ==
    ASSUME TypeInv, TypeInv', NEW ns \in Spoken, NEW prop \in Props, NEW value \in PropValues,
           SetMultipleMeta(ns, prop, value)
    PROVE  Map!SetMeta(ns, prop, value)
<1>0. tree \in Trees /\ tree' \in Trees /\ ns \subseteq Nodes /\ IsFiniteSet(ns)
  BY NamedAssumption DEF TypeInv
<1>1. MetaSays(tree, ns, prop, value, tree')
  <2>1. tree' = SetMeta(tree, ns, prop, value)
    BY DEF SetMultipleMeta, SetMeta
  <2> QED BY <1>0, <2>1, SetMetaMakes
<1>2. \A n \in DOMAIN tree : /\ tree'[n].value = tree[n].value
                             /\ tree'[n].meta = IF n \in ns THEN Saying(prop, value, tree[n].meta) ELSE tree[n].meta
  <2> SUFFICES ASSUME NEW n \in DOMAIN tree
               PROVE  /\ tree'[n].value = tree[n].value
                      /\ tree'[n].meta = IF n \in ns THEN Saying(prop, value, tree[n].meta) ELSE tree[n].meta
    OBVIOUS
  <2>1. tree[n] \in NodeType
    BY <1>0, TreeFacts
  <2> QED BY <1>1, <2>1 DEF MetaSays, NodeType
<1>3. DOMAIN tree' = DOMAIN tree
  BY <1>1 DEF MetaSays
<1>4. GetSettings(tree', <<>>) = GetSettings(tree, <<>>)
  BY <1>0, <1>2, <1>3, SettingsAre
<1> DEFINE meta == GetMetaData(tree, <<>>)
           there == {n \in ns : Map!Exists(n, GetSettings(tree, <<>>))}
           old(n) == IF n \in DOMAIN meta THEN meta[n] ELSE [p \in {} |-> value]
           new == [n \in there |-> Map!Over([p \in {prop} |-> value], old(n))]
<1>5. there = ns \cap DOMAIN tree
  BY <1>0, ExistsMeans
<1>6. [p \in {} |-> value] = NoMeta
  BY DEF NoMeta
<1>7. \A n \in DOMAIN tree : old(n) = tree[n].meta
  BY <1>0, <1>6, MetaAre
<1>8. \A n \in there : new[n] = Saying(prop, value, tree[n].meta)
  <2> SUFFICES ASSUME NEW n \in there PROVE new[n] = Saying(prop, value, tree[n].meta)
    OBVIOUS
  <2>1. old(n) = tree[n].meta
    BY <1>5, <1>7
  <2>2. new[n] = Map!Over([p \in {prop} |-> value], old(n))
    OBVIOUS
  <2> HIDE DEF new, old
  <2> QED BY <2>1, <2>2 DEF Saying, Over, Map!Over
<1>9. DOMAIN new = there
  OBVIOUS
<1>10. \A n \in there : tree'[n].meta # NoMeta
  <2> SUFFICES ASSUME NEW n \in there PROVE tree'[n].meta # NoMeta
    OBVIOUS
  <2>1. n \in DOMAIN tree /\ n \in ns
    BY <1>5
  <2>2. tree[n].meta \in Metas
    BY <1>0, <2>1, TreeFacts DEF NodeType
  <2> QED BY <1>2, <2>1, <2>2, SayingType
<1> HIDE DEF new, there, old
<1>11. {n \in DOMAIN tree' : tree'[n].meta # NoMeta} = there \cup {n \in DOMAIN tree : tree[n].meta # NoMeta}
  BY <1>2, <1>3, <1>5, <1>10
<1>12. GetMetaData(tree', <<>>) = Map!Over(new, meta)
  <2>1. DOMAIN meta = {n \in DOMAIN tree : tree[n].meta # NoMeta} /\ \A n \in DOMAIN meta : meta[n] = tree[n].meta
    BY <1>0, MetaAre
  <2>2. Map!Over(new, meta) = [n \in there \cup DOMAIN meta |-> IF n \in there THEN new[n] ELSE meta[n]]
    BY <1>9 DEF Map!Over
  <2>3. \A n \in there \cup DOMAIN meta : tree'[n].meta = IF n \in there THEN new[n] ELSE meta[n]
    <3> SUFFICES ASSUME NEW n \in there \cup DOMAIN meta
                 PROVE  tree'[n].meta = IF n \in there THEN new[n] ELSE meta[n]
      OBVIOUS
    <3>1. n \in DOMAIN tree
      BY <1>5, <2>1
    <3> QED BY <1>2, <1>5, <1>8, <2>1, <3>1
  <2>4. GetMetaData(tree', <<>>) = [n \in {m \in DOMAIN tree' : tree'[m].meta # NoMeta} |-> tree'[n].meta]
    BY <1>0, MetaAre
  <2> HIDE DEF meta
  <2> QED BY <1>11, <2>1, <2>2, <2>3, <2>4
<1> QED BY <1>4, <1>12 DEF Map!SetMeta, new, there, old

LEMMA RemoveIsMap ==
    ASSUME TypeInv, TypeInv', NEW n \in Paths, tree' = CacheRemove(tree, n)
    PROVE  Map!RemoveBelow(n)
<1>0. tree \in Trees /\ tree' \in Trees
  BY DEF TypeInv
<1>1. RemoveSays(tree, n, tree')
  BY <1>0, RemoveMakes
<1>2. Keys \cap DOMAIN tree' = {k \in Keys \cap DOMAIN tree : ~IsPrefix(n, k)}
  BY <1>1 DEF RemoveSays
<1>3. GetSettings(tree', <<>>) = Restrict(GetSettings(tree, <<>>), {k \in DOMAIN GetSettings(tree, <<>>) : ~IsPrefix(n, k)})
  <2>1. \A k \in DOMAIN tree' : tree'[k].value = tree[k].value
    BY <1>1 DEF RemoveSays
  <2>2. /\ GetSettings(tree, <<>>) = [k \in Keys \cap DOMAIN tree |-> tree[k].value]
        /\ DOMAIN GetSettings(tree, <<>>) = Keys \cap DOMAIN tree
    BY <1>0, SettingsAre
  <2>3. GetSettings(tree', <<>>) = [k \in Keys \cap DOMAIN tree' |-> tree'[k].value]
    BY <1>0, SettingsAre
  <2> DEFINE left == {k \in Keys \cap DOMAIN tree : ~IsPrefix(n, k)}
  <2>4. Restrict(GetSettings(tree, <<>>), left) = [k \in left |-> GetSettings(tree, <<>>)[k]]
    BY DEF Restrict
  <2>5. \A k \in left : GetSettings(tree, <<>>)[k] = tree[k].value /\ tree'[k].value = tree[k].value
    BY <1>2, <2>1, <2>2
  <2>6. Keys \cap DOMAIN tree' = left /\ {k \in DOMAIN GetSettings(tree, <<>>) : ~IsPrefix(n, k)} = left
    BY <1>2, <2>2
  <2> HIDE DEF left
  <2>7. [k \in left |-> GetSettings(tree, <<>>)[k]] = [k \in left |-> tree'[k].value]
    BY <2>5
  <2>8. GetSettings(tree', <<>>) = [k \in left |-> tree'[k].value]
    BY <2>3, <2>6
  <2> QED BY <2>4, <2>6, <2>7, <2>8
<1>4. GetMetaData(tree', <<>>) =
         Restrict(GetMetaData(tree, <<>>), {m \in DOMAIN GetMetaData(tree, <<>>) : Map!Exists(m, GetSettings(tree', <<>>))})
  <2> DEFINE meta == GetMetaData(tree, <<>>)
  <2>1. DOMAIN meta = {m \in DOMAIN tree : tree[m].meta # NoMeta} /\ DOMAIN meta \subseteq Nodes
        /\ \A m \in DOMAIN meta : meta[m] = tree[m].meta
    BY <1>0, MetaAre
  <2>2. \A m \in DOMAIN meta : Map!Exists(m, GetSettings(tree', <<>>)) <=> m \in DOMAIN tree'
    BY <1>0, <2>1, ExistsMeans
  <2>3. \A m \in DOMAIN tree' : m \in DOMAIN tree /\ tree'[m] = tree[m]
    BY <1>1 DEF RemoveSays
  <2>4. {m \in DOMAIN tree' : tree'[m].meta # NoMeta} = {m \in DOMAIN meta : Map!Exists(m, GetSettings(tree', <<>>))}
    BY <2>1, <2>2, <2>3
  <2>5. GetMetaData(tree', <<>>) = [m \in {l \in DOMAIN tree' : tree'[l].meta # NoMeta} |-> tree'[m].meta]
    BY <1>0, MetaAre
  <2>6. \A m \in {l \in DOMAIN tree' : tree'[l].meta # NoMeta} : tree'[m].meta = meta[m]
    BY <2>1, <2>3
  <2> HIDE DEF meta
  <2>7. GetMetaData(tree', <<>>) = Restrict(meta, {m \in DOMAIN meta : Map!Exists(m, GetSettings(tree', <<>>))})
    BY <2>4, <2>5, <2>6 DEF Restrict
  <2> QED BY <2>7 DEF meta
<1>5. \A k : Map!IsPrefix(n, k) <=> IsPrefix(n, k)
  BY DEF Map!IsPrefix, IsPrefix
<1> QED BY <1>3, <1>4, <1>5 DEF Map!RemoveBelow, Map!Restrict, Restrict

LEMMA SyncedIsMap ==
    ASSUME TypeInv, TypeInv', NEW p \in Plugins, PluginSynced(p)
    PROVE  Map!Add(Under(p, stored), Under(p, keyfile[p]))
<1> DEFINE more == Under(p, stored)
           groups == keyfile[p]
           added == AddSettings(tree, more)
<1>0. tree \in Trees /\ tree' \in Trees /\ keyfile[p] \in GroupsOf(p)
  BY DEF TypeInv, AllGroups
<1>1. /\ added \in Trees /\ AddSays(tree, more, DOMAIN more, added)
      /\ DOMAIN tree' = DOMAIN added
      /\ \A n \in DOMAIN added : /\ tree'[n].value = added[n].value
                                 /\ tree'[n].meta = IF n \in DOMAIN groups THEN groups[n] ELSE added[n].meta
  BY SyncedMakes DEF PluginSynced
<1>2. DOMAIN more \in SUBSET Keys
  BY SettingsOfPlugin DEF TypeInv
<1>3. Under(p, groups) = groups
  <2>1. groups = [n \in DOMAIN groups |-> groups[n]] /\ \A n \in DOMAIN groups : IsPrefix(Roots[p], n)
    BY <1>0, GroupsType
  <2>2. {n \in DOMAIN groups : IsPrefix(Roots[p], n)} = DOMAIN groups
    BY <2>1
  <2> HIDE DEF groups
  <2> QED BY <2>1, <2>2 DEF Under, Restrict
<1>4. DOMAIN groups \subseteq Nodes /\ \A n \in DOMAIN groups : groups[n] # NoMeta
  BY <1>0, GroupsType
<1> HIDE DEF more, groups, added
<1>5. Keys \cap DOMAIN added = DOMAIN more \cup (Keys \cap DOMAIN tree)
  <2>1. ASSUME NEW k \in DOMAIN more PROVE k \in Prefixes(k) /\ \A l \in Keys : l \in Prefixes(k) => l = k
    BY <1>2, NodesMeans, PrefixesMeans, PrefixOrder, KeysAssumption
  <2> QED BY <1>1, <1>2, <2>1 DEF AddSays
<1>6. GetSettings(tree', <<>>) = Map!Over(more, GetSettings(tree, <<>>))
  <2>1. \A k \in Keys \cap DOMAIN added : tree'[k].value = IF k \in DOMAIN more THEN more[k] ELSE tree[k].value
    BY <1>1, <1>5 DEF AddSays
  <2>2. Map!Over(more, GetSettings(tree, <<>>)) =
           [k \in DOMAIN more \cup (Keys \cap DOMAIN tree) |-> IF k \in DOMAIN more THEN more[k] ELSE tree[k].value]
    BY <1>0, SettingsAre DEF Map!Over
  <2>3. GetSettings(tree', <<>>) = [k \in Keys \cap DOMAIN tree' |-> tree'[k].value]
    BY <1>0, SettingsAre
  <2>4. Keys \cap DOMAIN tree' = DOMAIN more \cup (Keys \cap DOMAIN tree) /\ DOMAIN tree' = DOMAIN added
    BY <1>1, <1>5
  <2>5. \A k \in DOMAIN more \cup (Keys \cap DOMAIN tree) :
            tree'[k].value = IF k \in DOMAIN more THEN more[k] ELSE tree[k].value
    BY <2>1, <2>4
  <2> QED BY <2>2, <2>3, <2>4, <2>5
<1> DEFINE meta == GetMetaData(tree, <<>>)
           here == {n \in DOMAIN groups : Map!Exists(n, GetSettings(tree', <<>>))}
<1>7. here = DOMAIN groups \cap DOMAIN tree'
  BY <1>0, <1>4, ExistsMeans
<1>8. DOMAIN meta = {n \in DOMAIN tree : tree[n].meta # NoMeta} /\ \A n \in DOMAIN meta : meta[n] = tree[n].meta
  BY <1>0, MetaAre
<1> HIDE DEF meta, here
<1>9. GetMetaData(tree', <<>>) = Map!Over(Restrict(groups, here), meta)
  <2>1. Map!Over(Restrict(groups, here), meta) = [n \in here \cup DOMAIN meta |-> IF n \in here THEN groups[n] ELSE meta[n]]
    BY DEF Map!Over, Restrict
  <2>2. \A n \in DOMAIN tree' : tree'[n].meta = IF n \in DOMAIN groups THEN groups[n]
                                                ELSE IF n \in DOMAIN tree THEN tree[n].meta ELSE NoMeta
    BY <1>1 DEF AddSays
  <2>3. DOMAIN tree \subseteq DOMAIN tree'
    BY <1>1 DEF AddSays
  <2>4. {n \in DOMAIN tree' : tree'[n].meta # NoMeta} = here \cup DOMAIN meta
    BY <1>4, <1>7, <1>8, <2>2, <2>3
  <2>5. \A n \in here \cup DOMAIN meta : tree'[n].meta = IF n \in here THEN groups[n] ELSE meta[n]
    BY <1>7, <1>8, <2>2, <2>3
  <2>6. GetMetaData(tree', <<>>) = [n \in {m \in DOMAIN tree' : tree'[m].meta # NoMeta} |-> tree'[n].meta]
    BY <1>0, MetaAre
  <2> QED BY <2>1, <2>4, <2>5, <2>6
<1>10. Map!Add(more, groups)
  BY <1>6, <1>9 DEF Map!Add, Map!Restrict, Restrict, meta, here
<1> QED BY <1>3, <1>10 DEF more, groups

LEMMA OverIsMap == ASSUME TypeInv, TypeInv', SessionOver PROVE Map!Clear
<1>0. tree \in Trees /\ tree' \in Trees /\ DOMAIN tree' = {<<>>}
  BY OverMakes DEF TypeInv, SessionOver
<1>1. Keys \cap DOMAIN tree' = {}
  BY <1>0, NodesMeans
<1>2. {n \in DOMAIN tree' : tree'[n].meta # NoMeta} = {}
  BY <1>0, TreeFacts DEF Whole
<1>3. GetSettings(tree', <<>>) = [k \in {} |-> {}]
  BY <1>0, <1>1, SettingsAre
<1>4. GetMetaData(tree', <<>>) = [n \in {} |-> {}]
  BY <1>0, <1>2, MetaAre
<1> QED BY <1>3, <1>4 DEF Map!Clear

(* Whatever is set, said, removed and added, the tree of settings is the    *)
(* map it is taken for (src/cache.c).                                       *)
THEOREM CacheIsAMap == Spec => CacheIsMap
<1>1. ASSUME TypeInv, TypeInv'
      PROVE  /\ \A k \in Keys, v \in Values : Set(k, v) => Map!Set(k, v)
             /\ \A ns \in Spoken, prop \in Props, value \in PropValues :
                   SetMultipleMeta(ns, prop, value) => Map!SetMeta(ns, prop, value)
             /\ \A n \in Named : RemoveKey(n) => Map!RemoveBelow(n)
             /\ \A p \in Plugins : PluginSynced(p) => Map!Add(Under(p, stored), Under(p, keyfile[p]))
             /\ SessionOver => Map!Clear
  <2>1. \A n \in Named : n \in Paths
    BY NamedAssumption, NodesMeans DEF AllNodes
  <2>2. \A n \in Named : RemoveKey(n) => Map!RemoveBelow(n)
    BY <1>1, <2>1, RemoveIsMap DEF RemoveKey
  <2> QED BY <1>1, <2>2, SetIsMap, MetaIsMap, SyncedIsMap, OverIsMap
<1>2. TypeInv /\ TypeInv' =>
        [/\ \A k \in Keys, v \in Values : Set(k, v) => Map!Set(k, v)
         /\ \A ns \in Spoken, prop \in Props, value \in PropValues :
               SetMultipleMeta(ns, prop, value) => Map!SetMeta(ns, prop, value)
         /\ \A n \in Named : RemoveKey(n) => Map!RemoveBelow(n)
         /\ \A p \in Plugins : PluginSynced(p) => Map!Add(Under(p, stored), Under(p, keyfile[p]))
         /\ SessionOver => Map!Clear]_vars
  BY <1>1
<1> QED BY <1>2, TypeInvariant, PTL DEF CacheIsMap
=============================================================================
