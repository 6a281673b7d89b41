---------------------------- MODULE SchemasProofs ----------------------------
(***************************************************************************)
(* What a schema that is not refused is like, for any names in it and       *)
(* however large it is, and what is found in it and among the plugins by    *)
(* the characters of a key, for keys of any length.                         *)
(*                                                                          *)
(* Induction over the names of a key is replaced by two things: the least   *)
(* place at which something is wrong (LeastIndex), and the number of names  *)
(* that begin up to a place.  What a lookup finds is a fold (Folding.tla).  *)
(***************************************************************************)
EXTENDS Schemas, Folding

(* What is read are paths of names. *)
TypeInv ==
    /\ DOMAIN schema \subseteq Seq(Names) /\ at \in Seq(Names)
    /\ \A path \in DOMAIN schema : schema[path].type \in {"dir"} \cup LeafTypes

LEMMA Appended ==
    ASSUME NEW S, NEW s \in Seq(S), NEW x \in S
    PROVE  Append(s, x) \in Seq(S) /\ Append(s, x) # <<>> /\ Front(Append(s, x)) = s /\ Last(Append(s, x)) = x
<1>1. Append(s, x) \in Seq(S) /\ Append(s, x) # <<>> /\ Last(Append(s, x)) = x
  BY DEF Last
<1>2. Front(Append(s, x)) = s
  <2>1. Len(Append(s, x)) - 1 = Len(s)
    OBVIOUS
  <2>2. SubSeq(Append(s, x), 1, Len(s)) = s
    OBVIOUS
  <2> QED BY <2>1, <2>2 DEF Front
<1> QED BY <1>1, <1>2

LEMMA FrontAndLast ==
    ASSUME NEW S, NEW s \in Seq(S), s # <<>>
    PROVE  Front(s) \in Seq(S) /\ s = Append(Front(s), Last(s)) /\ Last(s) \in S
BY DEF Front, Last

(* A directory or a setting that is read leaves unnamed directories alone.  *)
LEMMA StaysAlone ==
    ASSUME TypeInv, UnnamedIsAlone, NEW name \in Names, NEW node, node.type \in {"dir"} \cup LeafTypes,
           ~UnnamedHere, node.type = "dir" => ~(name = <<>> /\ Children(schema, at) # {}), Append(at, name) \notin DOMAIN schema,
           schema' = With(schema, Append(at, name), node), at' \in Seq(Names)
    PROVE  TypeInv' /\ UnnamedIsAlone'
<1> DEFINE new == Append(at, name)
<1>1. new \in Seq(Names) /\ new # <<>> /\ Front(new) = at /\ Last(new) = name
  BY Appended DEF TypeInv
<1>2. DOMAIN schema' = DOMAIN schema \cup {new} /\ schema'[new] = node /\ \A p \in DOMAIN schema : p # new => schema'[p] = schema[p]
  <2>1. schema' = With(schema, new, node)
    OBVIOUS
  <2> HIDE DEF new
  <2> QED BY <2>1 DEF With
<1> HIDE DEF new
<1>3. TypeInv'
  BY <1>1, <1>2 DEF TypeInv
<1>4. ASSUME NEW path \in DOMAIN schema', path # <<>>, schema'[path].type = "dir", Last(path) = <<>>
      PROVE  Children(schema', Front(path)) = {path}
  <2>1. CASE path = new
    <3>1. Children(schema, at) = {}
      BY <1>1, <1>2, <1>4, <2>1
    <3>2. \A p \in DOMAIN schema : p # <<>> => Front(p) # at
      BY <3>1 DEF Children
    <3> QED BY <1>1, <1>2, <2>1, <3>2 DEF Children
  <2>2. CASE path # new
    <3>1. path \in DOMAIN schema /\ schema'[path] = schema[path]
      BY <1>2, <1>4, <2>2
    <3>2. Children(schema, Front(path)) = {path}
      BY <1>4, <3>1 DEF UnnamedIsAlone
    <3>3. path = Append(Front(path), <<>>)
      BY <1>4, <3>1, FrontAndLast DEF TypeInv
    <3>4. Front(path) # at
      BY <3>1, <3>3 DEF UnnamedHere
    <3> QED BY <1>1, <1>2, <3>2, <3>4 DEF Children
  <2> QED BY <2>1, <2>2
<1> QED BY <1>3, <1>4 DEF UnnamedIsAlone

LEMMA AloneInit == Init => TypeInv /\ UnnamedIsAlone
<1> SUFFICES ASSUME Init PROVE TypeInv /\ UnnamedIsAlone
  OBVIOUS
<1>1. DOMAIN schema = {<<>>} /\ schema[<<>>].type = "dir" /\ at = <<>>
  BY DEF Init, Dir
<1>2. TypeInv
  BY <1>1 DEF TypeInv
<1> QED BY <1>1, <1>2 DEF UnnamedIsAlone

LEMMA AloneNext == ASSUME TypeInv, UnnamedIsAlone, [Next]_vars PROVE TypeInv' /\ UnnamedIsAlone'
<1>1. ASSUME UNCHANGED schema, at' \in Seq(Names) PROVE TypeInv' /\ UnnamedIsAlone'
  BY <1>1 DEF TypeInv, UnnamedIsAlone
<1>2. CASE StartDir
  <2>1. PICK name \in Names :
           IF UnnamedHere \/ DirRefused(name) THEN Corrupt
           ELSE at' = Append(at, name) /\ schema' = With(schema, at', Dir(TRUE))
    BY <1>2 DEF StartDir
  <2>2. CASE UnnamedHere \/ DirRefused(name)
    BY <1>1, <2>1, <2>2 DEF Corrupt, TypeInv
  <2>3. CASE ~(UnnamedHere \/ DirRefused(name))
    <3>1. at' = Append(at, name) /\ schema' = With(schema, Append(at, name), Dir(TRUE))
      BY <2>1, <2>3
    <3>2. at' \in Seq(Names)
      BY <3>1, Appended DEF TypeInv
    <3>3. Dir(TRUE).type = "dir"
      BY DEF Dir
    <3> QED BY <2>3, <3>1, <3>2, <3>3, StaysAlone DEF DirRefused
  <2> QED BY <2>2, <2>3
<1>3. CASE ParseKey
  <2>1. PICK name \in Names, type \in LeafTypes, canWrite \in BOOLEAN :
           IF UnnamedHere \/ Append(at, name) \in DOMAIN schema THEN Corrupt
           ELSE schema' = With(schema, Append(at, name), Setting(type, FALSE, canWrite)) /\ UNCHANGED at
    BY <1>3 DEF ParseKey
  <2>2. CASE UnnamedHere \/ Append(at, name) \in DOMAIN schema
    BY <1>1, <2>1, <2>2 DEF Corrupt, TypeInv
  <2>3. CASE ~(UnnamedHere \/ Append(at, name) \in DOMAIN schema)
    <3>1. schema' = With(schema, Append(at, name), Setting(type, FALSE, canWrite)) /\ at' \in Seq(Names)
      BY <2>1, <2>3 DEF TypeInv
    <3>2. Setting(type, FALSE, canWrite).type = type /\ type # "dir"
      BY LimitsAssumption DEF Setting
    <3> QED BY <2>3, <3>1, <3>2, StaysAlone
  <2> QED BY <2>2, <2>3
<1>4. CASE EndDir
  <2>1. at' \in Seq(Names)
    BY <1>4, FrontAndLast DEF EndDir, TypeInv
  <2> QED BY <1>1, <1>4, <2>1 DEF EndDir
<1>5. CASE EndSchema \/ NameKey \/ UNCHANGED vars
  BY <1>1, <1>5 DEF EndSchema, NameKey, vars, TypeInv
<1> QED BY <1>2, <1>3, <1>4, <1>5 DEF Next

(* A schema that is not refused has no unnamed directory with siblings, in  *)
(* whatever order they are read (prv_start_element, prv_parse_dir,          *)
(* prv_parse_key).                                                          *)
THEOREM UnnamedDirectoriesAreAlone == Spec => []UnnamedIsAlone
<1>1. Init => TypeInv /\ UnnamedIsAlone
  BY AloneInit
<1>2. TypeInv /\ UnnamedIsAlone /\ [Next]_vars => (TypeInv /\ UnnamedIsAlone)'
  BY AloneNext
<1> QED BY <1>1, <1>2, PTL DEF Spec
-----------------------------------------------------------------------------
(* Keys, and the names in them. *)

(* A key begins with a slash and has no two in a row.                       *)
IsKey(k) == /\ k # <<>> /\ k[1] = Slash
            /\ \A i \in DOMAIN k : i > 1 => ~(k[i - 1] = Slash /\ k[i] = Slash)

(* The name that begins at a place in a key.                                *)
NameFrom(k, i) == FirstName(SubSeq(k, i, Len(k)))

LEMMA NameMeans ==
    ASSUME NEW C, NEW k \in Seq(C), NEW i \in 1..Len(k) + 1
    PROVE  /\ NameFrom(k, i) \in Seq(C) /\ i + Len(NameFrom(k, i)) <= Len(k) + 1
           /\ \A j \in 1..Len(NameFrom(k, i)) : NameFrom(k, i)[j] = k[i + j - 1] /\ k[i + j - 1] # Slash
           /\ i + Len(NameFrom(k, i)) <= Len(k) => k[i + Len(NameFrom(k, i))] = Slash
<1> DEFINE s == SubSeq(k, i, Len(k))
           slashes == {j \in DOMAIN s : s[j] = Slash}
<1>1. s \in Seq(C) /\ Len(s) = Len(k) - i + 1 /\ \A j \in 1..Len(s) : s[j] = k[i + j - 1]
  OBVIOUS
<1> HIDE DEF s
<1>2. CASE slashes = {}
  <2>1. NameFrom(k, i) = s
    BY <1>2 DEF NameFrom, FirstName, s
  <2>2. \A j \in 1..Len(s) : s[j] # Slash
    BY <1>1, <1>2
  <2> QED BY <1>1, <2>1, <2>2
<1>3. CASE slashes # {}
  <2>1. slashes \in SUBSET Nat
    BY <1>1
  <2>2. PICK m \in slashes : \A j \in slashes : m <= j
    BY <1>3, <2>1, LeastIndex
  <2>3. Min(slashes) \in slashes /\ \A j \in slashes : Min(slashes) <= j
    <3> HIDE DEF slashes
    <3> QED BY <2>2 DEF Min
  <2>4. Min(slashes) = m
    <3> DEFINE x == Min(slashes)
    <3>1. m \in slashes /\ x \in slashes /\ m \in Nat /\ x \in Nat
      BY <2>1, <2>2, <2>3
    <3>2. m <= x /\ x <= m
      <4> HIDE DEF slashes, x
      <4> QED BY <2>2, <2>3, <3>1 DEF x
    <3> HIDE DEF x
    <3>3. x = m
      BY <3>1, <3>2
    <3> QED BY <3>3 DEF x
  <2>5. NameFrom(k, i) = SubSeq(s, 1, m - 1)
    BY <1>3, <2>4 DEF NameFrom, FirstName, s
  <2>6. m \in 1..Len(s) /\ s[m] = Slash /\ \A j \in 1..m - 1 : s[j] # Slash
    <3>1. m \in 1..Len(s) /\ s[m] = Slash
      BY <1>1
    <3>2. ASSUME NEW j \in 1..m - 1, s[j] = Slash PROVE FALSE
      <4>1. j \in slashes
        BY <1>1, <3>1, <3>2
      <4> QED BY <2>2, <4>1, <3>1
    <3> QED BY <3>1, <3>2
  <2>7. SubSeq(s, 1, m - 1) \in Seq(C) /\ Len(SubSeq(s, 1, m - 1)) = m - 1 /\ \A j \in 1..m - 1 : SubSeq(s, 1, m - 1)[j] = s[j]
    <3> HIDE DEF slashes
    <3> QED BY <1>1, <2>6
  <2> HIDE DEF slashes
  <2>8. Len(NameFrom(k, i)) = m - 1
    BY <2>5, <2>7
  <2>9. \A j \in 1..m - 1 : NameFrom(k, i)[j] = k[i + j - 1] /\ k[i + j - 1] # Slash
    <3> SUFFICES ASSUME NEW j \in 1..m - 1 PROVE NameFrom(k, i)[j] = k[i + j - 1] /\ k[i + j - 1] # Slash
      OBVIOUS
    <3>1. s[j] = k[i + j - 1]
      BY <1>1, <2>6
    <3>2. NameFrom(k, i)[j] = s[j]
      BY <2>5, <2>7
    <3>3. s[j] # Slash
      BY <2>6
    <3> QED BY <3>1, <3>2, <3>3
  <2>10. k[i + (m - 1)] = Slash
    BY <1>1, <2>6
  <2> QED BY <1>1, <2>5, <2>6, <2>7, <2>8, <2>9, <2>10
<1> QED BY <1>2, <1>3

LEMMA NameIs ==
    ASSUME NEW C, NEW k \in Seq(C), NEW i \in 1..Len(k) + 1, NEW nm \in Seq(C), i + Len(nm) <= Len(k) + 1,
           \A j \in 1..Len(nm) : nm[j] = k[i + j - 1] /\ nm[j] # Slash,
           i + Len(nm) <= Len(k) => k[i + Len(nm)] = Slash
    PROVE  NameFrom(k, i) = nm
<1> DEFINE n == NameFrom(k, i)
<1>1. /\ n \in Seq(C) /\ i + Len(n) <= Len(k) + 1
      /\ \A j \in 1..Len(n) : n[j] = k[i + j - 1] /\ k[i + j - 1] # Slash
      /\ i + Len(n) <= Len(k) => k[i + Len(n)] = Slash
  BY NameMeans
<1> HIDE DEF n
<1>2. Len(n) \in Nat /\ Len(nm) \in Nat /\ Len(k) \in Nat
  BY <1>1
<1>3. ~(Len(n) < Len(nm))
  <2> SUFFICES ASSUME Len(n) < Len(nm) PROVE FALSE
    OBVIOUS
  <2>1. Len(n) + 1 \in 1..Len(nm) /\ i + (Len(n) + 1) - 1 = i + Len(n) /\ i + Len(n) <= Len(k)
    BY <1>2
  <2>2. nm[Len(n) + 1] = k[i + Len(n)] /\ nm[Len(n) + 1] # Slash
    BY <2>1
  <2> QED BY <1>1, <2>1, <2>2
<1>4. ~(Len(nm) < Len(n))
  <2> SUFFICES ASSUME Len(nm) < Len(n) PROVE FALSE
    OBVIOUS
  <2>1. Len(nm) + 1 \in 1..Len(n) /\ i + (Len(nm) + 1) - 1 = i + Len(nm) /\ i + Len(nm) <= Len(k)
    BY <1>1, <1>2
  <2>2. k[i + Len(nm)] # Slash
    BY <1>1, <2>1
  <2> QED BY <2>1, <2>2
<1>5. Len(n) = Len(nm)
  BY <1>2, <1>3, <1>4
<1>6. \A j \in 1..Len(n) : n[j] = nm[j]
  BY <1>1, <1>5
<1>7. n = nm
  BY <1>1, <1>5, <1>6
<1> QED BY <1>7 DEF n

-----------------------------------------------------------------------------
(* The names of a key, counted. *)

LEMMA CountMeans ==
    ASSUME NEW C, NEW k \in Seq(C), NEW n \in Nat
    PROVE  /\ NameStarts(k) \subseteq 1..Len(k) /\ NamesUpTo(k, n) \in Nat /\ NamesUpTo(k, 0) = 0
           /\ NamesUpTo(k, n + 1) = NamesUpTo(k, n) + (IF n + 1 \in NameStarts(k) THEN 1 ELSE 0)
           /\ \A m \in Nat : m <= n => NamesUpTo(k, m) <= NamesUpTo(k, n)
           /\ Len(k) <= n => NamesUpTo(k, n) = NamesUpTo(k, Len(k))
<1> DEFINE upTo(m) == {i \in NameStarts(k) : i <= m}
<1>1. NameStarts(k) \subseteq 1..Len(k) /\ Len(k) \in Nat
  BY DEF NameStarts
<1>2. \A m \in Nat : upTo(m) \subseteq 1..Len(k) /\ IsFiniteSet(upTo(m)) /\ Cardinality(upTo(m)) \in Nat
  <2> TAKE m \in Nat
  <2>1. upTo(m) \subseteq 1..Len(k)
    BY <1>1
  <2>2. IsFiniteSet(1..Len(k))
    BY <1>1, FS_Interval
  <2>3. IsFiniteSet(upTo(m))
    BY <2>1, <2>2, FS_Subset
  <2> QED BY <2>1, <2>3, FS_CardinalityType
<1>3. NamesUpTo(k, 0) = 0
  <2>1. upTo(0) = {}
    BY <1>1
  <2> QED BY <2>1, FS_EmptySet DEF NamesUpTo
<1>4. NamesUpTo(k, n + 1) = NamesUpTo(k, n) + (IF n + 1 \in NameStarts(k) THEN 1 ELSE 0)
  <2>1. CASE n + 1 \in NameStarts(k)
    <3>1. upTo(n + 1) = upTo(n) \cup {n + 1} /\ n + 1 \notin upTo(n)
      BY <1>1, <2>1
    <3>2. Cardinality(upTo(n) \cup {n + 1}) = Cardinality(upTo(n)) + 1
      <4> HIDE DEF upTo
      <4> QED BY <1>2, <3>1, FS_AddElement
    <3> QED BY <2>1, <3>1, <3>2 DEF NamesUpTo
  <2>2. CASE n + 1 \notin NameStarts(k)
    <3>1. upTo(n + 1) = upTo(n)
      BY <1>1, <2>2
    <3>2. Cardinality(upTo(n)) = Cardinality(upTo(n)) + 0
      <4> HIDE DEF upTo
      <4> QED BY <1>2
    <3> QED BY <2>2, <3>1, <3>2 DEF NamesUpTo
  <2> QED BY <2>1, <2>2
<1>5. ASSUME NEW m \in Nat, m <= n PROVE NamesUpTo(k, m) <= NamesUpTo(k, n)
  <2>1. upTo(m) \subseteq upTo(n)
    BY <1>1, <1>5
  <2>2. Cardinality(upTo(m)) <= Cardinality(upTo(n))
    <3> HIDE DEF upTo
    <3> QED BY <1>2, <2>1, FS_Subset
  <2> QED BY <2>2 DEF NamesUpTo
<1>6. ASSUME Len(k) <= n PROVE NamesUpTo(k, n) = NamesUpTo(k, Len(k))
  <2>1. upTo(n) = upTo(Len(k))
    BY <1>1, <1>6
  <2> QED BY <2>1 DEF NamesUpTo
<1>7. NamesUpTo(k, n) \in Nat
  BY <1>2 DEF NamesUpTo
<1> QED BY <1>1, <1>3, <1>4, <1>5, <1>6, <1>7

(* A name is counted where it begins and not before.                        *)
LEMMA CountAtStart ==
    ASSUME NEW C, NEW k \in Seq(C), NEW i \in NameStarts(k)
    PROVE  /\ i \in 1..Len(k) /\ NamesUpTo(k, i) = NamesUpTo(k, i - 1) + 1
           /\ NamesUpTo(k, i) \in 1..NamesUpTo(k, Len(k)) /\ \A j \in 0..i - 1 : NamesUpTo(k, j) < NamesUpTo(k, i)
<1>1. i \in 1..Len(k) /\ Len(k) \in Nat /\ i - 1 \in Nat /\ (i - 1) + 1 = i
  BY DEF NameStarts
<1>2. NamesUpTo(k, i) = NamesUpTo(k, i - 1) + 1 /\ NamesUpTo(k, i - 1) \in Nat
  BY <1>1, CountMeans
<1>3. NamesUpTo(k, i) <= NamesUpTo(k, Len(k)) /\ NamesUpTo(k, Len(k)) \in Nat
  BY <1>1, CountMeans
<1>4. ASSUME NEW j \in 0..i - 1 PROVE NamesUpTo(k, j) <= NamesUpTo(k, i - 1) /\ NamesUpTo(k, j) \in Nat
  <2>1. j \in Nat /\ j <= i - 1
    BY <1>1
  <2> QED BY <1>1, <2>1, CountMeans
<1> QED BY <1>1, <1>2, <1>3, <1>4

LEMMA StartsDiffer ==
    ASSUME NEW C, NEW k \in Seq(C), NEW i \in NameStarts(k), NEW j \in NameStarts(k), NamesUpTo(k, i) = NamesUpTo(k, j)
    PROVE  i = j
<1>1. /\ i \in Nat /\ j \in Nat /\ i >= 1 /\ j >= 1 /\ \A m \in 0..i - 1 : NamesUpTo(k, m) < NamesUpTo(k, i)
      /\ \A m \in 0..j - 1 : NamesUpTo(k, m) < NamesUpTo(k, j)
      /\ NamesUpTo(k, i) \in Nat
  BY CountAtStart
<1>2. ~(i < j)
  BY <1>1
<1>3. ~(j < i)
  BY <1>1
<1> QED BY <1>1, <1>2, <1>3

LEMMA NthStart ==
    ASSUME NEW C, NEW k \in Seq(C), NEW n \in 1..NamesUpTo(k, Len(k))
    PROVE  \E i \in NameStarts(k) : NamesUpTo(k, i) = n
<1> DEFINE S == {m \in Nat : n <= NamesUpTo(k, m)}
<1>1. Len(k) \in S
  BY CountMeans, Len(k) \in Nat
<1>2. PICK i \in S : \A j \in S : i <= j
  <2>1. S \in SUBSET Nat /\ S # {}
    BY <1>1
  <2> HIDE DEF S
  <2> QED BY <2>1, LeastIndex
<1>3. i # 0
  BY <1>2, CountMeans
<1>4. i - 1 \in Nat /\ i - 1 \notin S /\ (i - 1) + 1 = i
  BY <1>2, <1>3
<1>5. NamesUpTo(k, i - 1) < n /\ n <= NamesUpTo(k, i) /\ NamesUpTo(k, i - 1) \in Nat /\ NamesUpTo(k, i) \in Nat /\ n \in Nat
  <2>1. n \in Nat /\ i \in Nat /\ n <= NamesUpTo(k, i) /\ ~(n <= NamesUpTo(k, i - 1))
    <3>1. NamesUpTo(k, Len(k)) \in Nat
      BY CountMeans, Len(k) \in Nat
    <3> QED BY <1>2, <1>4, <3>1
  <2>2. NamesUpTo(k, i - 1) \in Nat /\ NamesUpTo(k, i) \in Nat
    BY <1>4, <2>1, CountMeans
  <2> QED BY <2>1, <2>2
<1>6. NamesUpTo(k, i) = NamesUpTo(k, i - 1) + (IF i \in NameStarts(k) THEN 1 ELSE 0)
  BY <1>4, CountMeans
<1> HIDE DEF S
<1> QED BY <1>5, <1>6

(* A path has the names of its key, in the order of their places.           *)
LEMMA ComponentAt ==
    ASSUME NEW C, NEW k \in Seq(C)
    PROVE  /\ Components(k) \in Seq(Seq(C)) /\ Len(Components(k)) = NamesUpTo(k, Len(k))
           /\ \A i \in NameStarts(k) : NamesUpTo(k, i) \in 1..Len(Components(k)) /\ Components(k)[NamesUpTo(k, i)] = NameFrom(k, i)
           /\ \A n \in 1..Len(Components(k)) : \E i \in NameStarts(k) : n = NamesUpTo(k, i) /\ Components(k)[n] = NameFrom(k, i)
<1> DEFINE N == NamesUpTo(k, Len(k))
           start(n) == CHOOSE i \in NameStarts(k) : NamesUpTo(k, i) = n
<1>1. N \in Nat
  BY CountMeans, Len(k) \in Nat
<1>2. \A n \in 1..N : start(n) \in NameStarts(k) /\ NamesUpTo(k, start(n)) = n
  BY NthStart
<1>3. \A i \in NameStarts(k) : NamesUpTo(k, i) \in 1..N /\ start(NamesUpTo(k, i)) = i
  <2> TAKE i \in NameStarts(k)
  <2>1. NamesUpTo(k, i) \in 1..N
    BY CountAtStart
  <2>2. start(NamesUpTo(k, i)) \in NameStarts(k) /\ NamesUpTo(k, start(NamesUpTo(k, i))) = NamesUpTo(k, i)
    BY <1>2, <2>1
  <2> QED BY <2>1, <2>2, StartsDiffer
<1> HIDE DEF start
<1>4. Components(k) = [n \in 1..N |-> NameFrom(k, start(n))]
  BY DEF Components, NameFrom, start
<1>5. \A n \in 1..N : NameFrom(k, start(n)) \in Seq(C)
  <2> TAKE n \in 1..N
  <2>1. start(n) \in 1..Len(k) + 1
    BY <1>2, CountAtStart
  <2> QED BY <2>1, NameMeans
<1> HIDE DEF N
<1>6. Components(k) \in Seq(Seq(C)) /\ Len(Components(k)) = N
  BY <1>1, <1>4, <1>5
<1>7. Len(Components(k)) = NamesUpTo(k, Len(k))
  BY <1>6 DEF N
<1> QED BY <1>2, <1>3, <1>4, <1>6, <1>7

-----------------------------------------------------------------------------
(* Keys that begin alike. *)

Agree(k1, k2, n) == n <= Len(k1) /\ n <= Len(k2) /\ \A i \in 1..n : k1[i] = k2[i]

LEMMA AgreeSame ==
    ASSUME NEW C, NEW s \in Seq(C), NEW t \in Seq(C), Agree(s, t, Len(s)), Len(s) = Len(t)
    PROVE  s = t
BY DEF Agree

LEMMA PrefixMeans ==
    ASSUME NEW C, NEW s \in Seq(C), NEW t \in Seq(C)
    PROVE  IsPrefix(s, t) <=> Agree(s, t, Len(s))
<1>1. ASSUME IsPrefix(s, t) PROVE Agree(s, t, Len(s))
  <2>1. Len(s) <= Len(t) /\ SubSeq(s, 1, Len(s)) = SubSeq(t, 1, Len(s))
    BY <1>1 DEF IsPrefix
  <2>2. \A i \in 1..Len(s) : s[i] = SubSeq(s, 1, Len(s))[i] /\ t[i] = SubSeq(t, 1, Len(s))[i]
    BY <2>1
  <2> QED BY <2>1, <2>2 DEF Agree
<1>2. ASSUME Agree(s, t, Len(s)) PROVE IsPrefix(s, t)
  BY <1>2 DEF Agree, IsPrefix
<1> QED BY <1>1, <1>2

LEMMA AgreeMeans ==
    ASSUME NEW C, NEW k1 \in Seq(C), NEW k2 \in Seq(C), NEW n \in Nat, Agree(k1, k2, n)
    PROVE  /\ \A i \in 1..n : i \in NameStarts(k1) <=> i \in NameStarts(k2)
           /\ \A m \in 0..n : NamesUpTo(k1, m) = NamesUpTo(k2, m)
<1>1. ASSUME NEW i \in 1..n PROVE i \in NameStarts(k1) <=> i \in NameStarts(k2)
  <2>1. k1[i] = k2[i] /\ (i > 1 => k1[i - 1] = k2[i - 1]) /\ i \in DOMAIN k1 /\ i \in DOMAIN k2
    BY DEF Agree
  <2> QED BY <2>1 DEF NameStarts
<1>2. ASSUME NEW m \in 0..n PROVE NamesUpTo(k1, m) = NamesUpTo(k2, m)
  <2>1. {i \in NameStarts(k1) : i <= m} = {i \in NameStarts(k2) : i <= m}
    <3>1. NameStarts(k1) \subseteq 1..Len(k1) /\ NameStarts(k2) \subseteq 1..Len(k2)
      BY DEF NameStarts
    <3> QED BY <1>1, <3>1
  <2> QED BY <2>1 DEF NamesUpTo
<1> QED BY <1>1, <1>2

(* The length of a name, as far as it is known where slashes are not.       *)
LEMMA NameLength ==
    ASSUME NEW C, NEW k \in Seq(C), NEW i \in 1..Len(k), NEW m \in i..Len(k), \A j \in i..m : k[j] # Slash
    PROVE  /\ Len(NameFrom(k, i)) >= m - i + 1 /\ Len(NameFrom(k, i)) \in Nat
           /\ m = Len(k) \/ k[m + 1] = Slash => Len(NameFrom(k, i)) = m - i + 1
<1> DEFINE l == Len(NameFrom(k, i))
<1>1. /\ l \in Nat /\ i + l <= Len(k) + 1
      /\ \A j \in 1..l : k[i + j - 1] # Slash
      /\ i + l <= Len(k) => k[i + l] = Slash
  BY NameMeans
<1> HIDE DEF l
<1>2. l >= m - i + 1
  <2> SUFFICES ASSUME l < m - i + 1 PROVE FALSE
    BY <1>1
  <2>1. i + l \in i..m /\ i + l <= Len(k)
    BY <1>1
  <2> QED BY <1>1, <2>1
<1>3. ASSUME m = Len(k) \/ k[m + 1] = Slash PROVE l = m - i + 1
  <2> SUFFICES ASSUME l > m - i + 1 PROVE FALSE
    BY <1>1, <1>2
  <2>1. (m - i + 2) \in 1..l /\ i + (m - i + 2) - 1 = m + 1 /\ m # Len(k)
    BY <1>1
  <2> QED BY <1>1, <1>3, <2>1
<1> QED BY <1>1, <1>2, <1>3 DEF l

(* The name that a character is in.                                         *)
LEMMA CurrentName ==
    ASSUME NEW C, NEW k \in Seq(C), NEW m \in 1..Len(k), k[m] # Slash
    PROVE  \E i \in NameStarts(k) : /\ i \in 1..m /\ NamesUpTo(k, i) = NamesUpTo(k, m)
                                    /\ \A j \in i..m : k[j] # Slash
<1> DEFINE S == {i \in 1..m : \A j \in i..m : k[j] # Slash}
<1>1. m \in S /\ S \in SUBSET Nat
  OBVIOUS
<1>2. PICK i \in S : \A j \in S : i <= j
  <2> HIDE DEF S
  <2> QED BY <1>1, LeastIndex
<1>3. i \in 1..m /\ \A j \in i..m : k[j] # Slash
  BY <1>2
<1>4. ASSUME i > 1 PROVE k[i - 1] = Slash
  <2> SUFFICES ASSUME k[i - 1] # Slash PROVE FALSE
    OBVIOUS
  <2>1. i - 1 \in S
    BY <1>3, <1>4
  <2>2. ~(i <= i - 1)
    BY <1>3
  <2> HIDE DEF S
  <2> QED BY <1>2, <2>1, <2>2
<1>5. i \in NameStarts(k)
  BY <1>3, <1>4 DEF NameStarts
<1>6. {j \in NameStarts(k) : j <= i} = {j \in NameStarts(k) : j <= m}
  <2>1. ASSUME NEW j \in NameStarts(k), j <= m, ~(j <= i) PROVE FALSE
    <3>1. j \in 1..Len(k) /\ (j > 1 => k[j - 1] = Slash)
      BY DEF NameStarts
    <3>2. j > 1 /\ j - 1 \in i..m
      BY <1>3, <2>1, <3>1
    <3> QED BY <1>3, <3>1, <3>2
  <2>2. \A j \in NameStarts(k) : j \in Nat
    BY DEF NameStarts
  <2> QED BY <1>3, <2>1, <2>2
<1>7. NamesUpTo(k, i) = NamesUpTo(k, m)
  BY <1>6 DEF NamesUpTo
<1> QED BY <1>3, <1>5, <1>7

(* Where the path of a key is below another, names that begin at the same   *)
(* place, after the same characters, are the same.                          *)
LEMMA SameNames ==
    ASSUME NEW C, NEW k1 \in Seq(C), NEW k2 \in Seq(C), IsPrefix(Components(k1), Components(k2)),
           NEW n \in Nat, Agree(k1, k2, n), NEW s \in NameStarts(k1), s \in NameStarts(k2), s <= n + 1
    PROVE  NameFrom(k1, s) = NameFrom(k2, s)
<1>1. s - 1 \in 0..n /\ NamesUpTo(k1, s) = NamesUpTo(k1, s - 1) + 1 /\ NamesUpTo(k2, s) = NamesUpTo(k2, s - 1) + 1
  <2>1. s \in 1..Len(k1)
    BY CountAtStart
  <2> QED BY <2>1, CountAtStart
<1>2. NamesUpTo(k1, s) = NamesUpTo(k2, s)
  BY <1>1, AgreeMeans
<1>3. /\ Components(k1) \in Seq(Seq(C)) /\ Components(k2) \in Seq(Seq(C))
      /\ NamesUpTo(k1, s) \in 1..Len(Components(k1))
      /\ Components(k1)[NamesUpTo(k1, s)] = NameFrom(k1, s) /\ Components(k2)[NamesUpTo(k2, s)] = NameFrom(k2, s)
  BY ComponentAt
<1>4. Agree(Components(k1), Components(k2), Len(Components(k1)))
  BY <1>3, PrefixMeans
<1> QED BY <1>2, <1>3, <1>4 DEF Agree

-----------------------------------------------------------------------------
(* Paths of keys are one below the other when the keys are. *)

LEMMA BelowPath ==
    ASSUME NEW C, NEW k1 \in Seq(C), NEW k2 \in Seq(C), k1 # <<>>, Below(k2, k1)
    PROVE  IsPrefix(Components(k1), Components(k2))
<1> DEFINE m == Len(k1)
<1>1. /\ m \in Nat /\ m >= 1 /\ Agree(k1, k2, m)
      /\ Len(k2) = m \/ k1[m] = Slash \/ k2[m + 1] = Slash
  BY PrefixMeans DEF Below, Last
<1>2. /\ \A i \in 1..m : i \in NameStarts(k1) <=> i \in NameStarts(k2)
      /\ \A i \in 0..m : NamesUpTo(k1, i) = NamesUpTo(k2, i)
  BY <1>1, AgreeMeans
<1>3. /\ Components(k1) \in Seq(Seq(C)) /\ Components(k2) \in Seq(Seq(C))
      /\ Len(Components(k1)) = NamesUpTo(k1, m) /\ Len(Components(k2)) = NamesUpTo(k2, Len(k2))
  BY ComponentAt
<1>4. Len(Components(k1)) <= Len(Components(k2))
  <2>1. NamesUpTo(k2, m) <= NamesUpTo(k2, Len(k2))
    BY <1>1, CountMeans DEF Agree
  <2>2. m \in 0..m
    BY <1>1
  <2>3. NamesUpTo(k1, m) = NamesUpTo(k2, m)
    BY <1>2, <2>2
  <2> HIDE DEF m
  <2> QED BY <1>3, <2>1, <2>3
<1>5. ASSUME NEW n \in 1..Len(Components(k1)) PROVE Components(k1)[n] = Components(k2)[n]
  <2>1. PICK i \in NameStarts(k1) : n = NamesUpTo(k1, i) /\ Components(k1)[n] = NameFrom(k1, i)
    BY ComponentAt
  <2>2. i \in 1..m /\ i \in 1..Len(k2) /\ k1[i] # Slash
    BY <1>1, CountAtStart DEF Agree, NameStarts
  <2>3. i \in NameStarts(k2) /\ n = NamesUpTo(k2, i)
    BY <1>2, <2>1, <2>2
  <2>4. Components(k2)[n] = NameFrom(k2, i)
    BY <2>3, ComponentAt
  <2> DEFINE nm == NameFrom(k1, i)
  <2>5. /\ nm \in Seq(C) /\ i + Len(nm) <= m + 1
        /\ \A j \in 1..Len(nm) : nm[j] = k1[i + j - 1] /\ k1[i + j - 1] # Slash
        /\ i + Len(nm) <= m => k1[i + Len(nm)] = Slash
    BY <1>1, <2>2, NameMeans
  <2>6. Len(nm) >= 1
    BY <2>2, NameLength
  <2> HIDE DEF nm
  <2>7. Len(nm) \in Nat /\ \A j \in 1..Len(nm) : i + j - 1 \in 1..m
    BY <2>2, <2>5
  <2>8. \A j \in 1..Len(nm) : nm[j] = k2[i + j - 1] /\ nm[j] # Slash
    BY <1>1, <2>5, <2>7 DEF Agree
  <2>9. i + Len(nm) <= Len(k2) => k2[i + Len(nm)] = Slash
    <3>1. CASE i + Len(nm) <= m
      BY <1>1, <2>2, <2>5, <2>7, <3>1 DEF Agree
    <3>2. CASE i + Len(nm) = m + 1
      <4>1. i + Len(nm) - 1 = m /\ Len(nm) \in 1..Len(nm)
        BY <1>1, <2>2, <2>6, <2>7, <3>2
      <4>2. k1[m] # Slash
        BY <2>5, <4>1
      <4> QED BY <1>1, <3>2, <4>2
    <3> QED BY <1>1, <2>2, <2>5, <2>7, <3>1, <3>2
  <2>10. i + Len(nm) <= Len(k2) + 1
    BY <1>1, <2>2, <2>5, <2>7 DEF Agree
  <2>11. NameFrom(k2, i) = nm
    <3>1. i \in 1..Len(k2) + 1
      BY <2>2
    <3> QED BY <2>5, <2>8, <2>9, <2>10, <3>1, NameIs
  <2> QED BY <2>1, <2>4, <2>11 DEF nm
<1>6. Agree(Components(k1), Components(k2), Len(Components(k1)))
  BY <1>3, <1>4, <1>5 DEF Agree
<1> QED BY <1>3, <1>6, PrefixMeans

LEMMA TrailingSlash ==
    ASSUME NEW C, Slash \in C, NEW k \in Seq(C), k # <<>>
    PROVE  Components(Append(k, Slash)) = Components(k)
<1> DEFINE l == Append(k, Slash)
<1>1. l \in Seq(C) /\ Len(l) = Len(k) + 1 /\ l[Len(k) + 1] = Slash /\ (\A i \in 1..Len(k) : l[i] = k[i]) /\ Len(k) \in Nat
  OBVIOUS
<1> HIDE DEF l
<1>2. Agree(k, l, Len(k))
  BY <1>1 DEF Agree
<1>3. IsPrefix(Components(k), Components(l))
  <2>1. IsPrefix(k, l)
    BY <1>1, <1>2, PrefixMeans
  <2>2. Below(l, k)
    BY <1>1, <2>1 DEF Below
  <2> QED BY <1>1, <2>2, BelowPath
<1>4. NamesUpTo(l, Len(l)) = NamesUpTo(k, Len(k))
  <2>1. Len(l) \notin NameStarts(l)
    BY <1>1 DEF NameStarts
  <2>2. NamesUpTo(l, Len(k) + 1) = NamesUpTo(l, Len(k)) + 0 /\ NamesUpTo(l, Len(k)) \in Nat
    BY <1>1, <2>1, CountMeans
  <2>3. NamesUpTo(l, Len(k)) = NamesUpTo(k, Len(k))
    BY <1>1, <1>2, AgreeMeans
  <2> QED BY <1>1, <2>2, <2>3
<1>5. /\ Components(k) \in Seq(Seq(C)) /\ Components(l) \in Seq(Seq(C))
      /\ Len(Components(k)) = Len(Components(l))
  BY <1>1, <1>4, ComponentAt
<1>6. Agree(Components(k), Components(l), Len(Components(k)))
  BY <1>3, <1>5, PrefixMeans
<1>7. Components(k) = Components(l)
  BY <1>5, <1>6, AgreeSame
<1> QED BY <1>7 DEF l

LEMMA PathBelow ==
    ASSUME NEW C, NEW k1 \in Seq(C), NEW k2 \in Seq(C), IsKey(k1), IsKey(k2), IsPrefix(Components(k1), Components(k2))
    PROVE  Below(k2, k1) \/ k1 = Append(k2, Slash)
<1> DEFINE bad == {i \in 1..Len(k1) : i > Len(k2) \/ k1[i] # k2[i]}
<1>0. Len(k1) \in Nat /\ Len(k2) \in Nat /\ Len(k1) >= 1 /\ Len(k2) >= 1 /\ k1[1] = Slash /\ k2[1] = Slash
  BY DEF IsKey
<1>n. Len(Components(k1)) <= Len(Components(k2)) /\ Len(Components(k1)) = NamesUpTo(k1, Len(k1)) /\ Len(Components(k2)) = NamesUpTo(k2, Len(k2))
  BY ComponentAt DEF IsPrefix
<1>1. CASE bad = {}
  <2> DEFINE m == Len(k1)
  <2>1. \A i \in 1..m : ~(i > Len(k2)) /\ k1[i] = k2[i]
    BY <1>1
  <2>2. Agree(k1, k2, m)
    BY <1>0, <2>1 DEF Agree
  <2>3. IsPrefix(k1, k2)
    BY <2>2, PrefixMeans
  <2> SUFFICES ASSUME Len(k2) # m, k1[m] # Slash, k2[m + 1] # Slash PROVE FALSE
    BY <2>3 DEF Below, Last
  <2>4. PICK i \in NameStarts(k1) : i \in 1..m /\ \A j \in i..m : k1[j] # Slash
    BY <1>0, CurrentName
  <2>5. i \in NameStarts(k2) /\ NameFrom(k1, i) = NameFrom(k2, i)
    BY <1>0, <2>2, <2>4, AgreeMeans, SameNames
  <2>6. Len(NameFrom(k1, i)) = m - i + 1
    BY <1>0, <2>4, NameLength
  <2>7. i \in 1..Len(k2) /\ m + 1 \in i..Len(k2) /\ \A j \in i..m + 1 : k2[j] # Slash
    BY <1>0, <2>1, <2>4
  <2>8. Len(NameFrom(k2, i)) >= m + 1 - i + 1
    BY <2>7, NameLength
  <2> QED BY <1>0, <2>4, <2>5, <2>6, <2>8
<1>2. CASE bad # {}
  <2>1. PICK i \in bad : \A j \in bad : i <= j
    <3>1. bad \in SUBSET Nat
      OBVIOUS
    <3> HIDE DEF bad
    <3> QED BY <1>2, <3>1, LeastIndex
  <2>2. i \in 1..Len(k1) /\ (i > Len(k2) \/ k1[i] # k2[i])
    BY <2>1
  <2>3. ASSUME NEW j \in 1..i - 1 PROVE j <= Len(k2) /\ k1[j] = k2[j]
    <3> SUFFICES ASSUME ~(j <= Len(k2) /\ k1[j] = k2[j]) PROVE FALSE
      OBVIOUS
    <3>1. j \in bad /\ ~(i <= j)
      BY <1>0, <2>2
    <3> HIDE DEF bad
    <3> QED BY <2>1, <3>1
  <2> HIDE DEF bad
  <2>4. i > 1 /\ i - 1 \in Nat /\ i - 1 >= 1 /\ (i - 1) + 1 = i
    BY <1>0, <2>2
  <2>5. i - 1 <= Len(k2) /\ Agree(k1, k2, i - 1)
    BY <1>0, <2>2, <2>3, <2>4 DEF Agree
  <2>6. NamesUpTo(k1, i - 1) = NamesUpTo(k2, i - 1)
    BY <2>4, <2>5, AgreeMeans
  <2>7. k1[i - 1] = k2[i - 1]
    <3>1. i - 1 \in 1..i - 1
      BY <2>4
    <3> QED BY <2>3, <3>1
  <2>8. ASSUME i > Len(k2), NEW s \in NameStarts(k1), s >= i PROVE FALSE
    <3>1. i - 1 = Len(k2) /\ s \in Nat /\ i - 1 \in 0..s - 1
      BY <1>0, <2>4, <2>5, <2>8, CountAtStart
    <3>2. NamesUpTo(k1, i - 1) < NamesUpTo(k1, s) /\ NamesUpTo(k1, s) \in 1..NamesUpTo(k1, Len(k1))
      BY <3>1, CountAtStart
    <3>3. NamesUpTo(k1, Len(k1)) \in Nat /\ NamesUpTo(k2, Len(k2)) \in Nat
      BY <1>0, CountMeans
    <3> QED BY <1>n, <2>6, <3>1, <3>2, <3>3
  <2>9. CASE k1[i - 1] = Slash
    <3>1. k1[i] # Slash /\ i \in NameStarts(k1)
      <4>1. i \in DOMAIN k1
        BY <2>2
      <4> QED BY <2>4, <2>9, <4>1 DEF IsKey, NameStarts
    <3>2. i <= Len(k2)
      BY <1>0, <2>2, <2>8, <3>1
    <3>3. k2[i] # Slash /\ i \in NameStarts(k2) /\ i \in 1..Len(k2)
      <4>1. i \in DOMAIN k2 /\ i \in 1..Len(k2)
        BY <1>0, <2>2, <3>2
      <4> QED BY <2>4, <2>7, <2>9, <4>1 DEF IsKey, NameStarts
    <3>4. NameFrom(k1, i) = NameFrom(k2, i)
      BY <2>4, <2>5, <3>1, <3>3, SameNames
    <3>5. Len(NameFrom(k1, i)) >= 1 /\ Len(NameFrom(k1, i)) \in Nat
      BY <2>2, <3>1, NameLength
    <3>6. NameFrom(k1, i)[1] = k1[i] /\ NameFrom(k2, i)[1] = k2[i]
      <4>1. 1 \in 1..Len(NameFrom(k1, i)) /\ i + 1 - 1 = i
        BY <2>2, <3>5
      <4>2. NameFrom(k1, i)[1] = k1[i + 1 - 1]
        BY <2>2, <4>1, NameMeans
      <4>3. NameFrom(k2, i)[1] = k2[i + 1 - 1]
        <5>1. 1 \in 1..Len(NameFrom(k2, i)) /\ i \in 1..Len(k2) + 1
          BY <1>0, <3>3, <3>4, <4>1
        <5>2. \A j \in 1..Len(NameFrom(k2, i)) : NameFrom(k2, i)[j] = k2[i + j - 1]
          BY <5>1, NameMeans
        <5> QED BY <5>1, <5>2
      <4> QED BY <4>1, <4>2, <4>3
    <3> QED BY <2>2, <3>2, <3>4, <3>6
  <2>10. CASE k1[i - 1] # Slash
    <3>1. PICK s \in NameStarts(k1) : s \in 1..i - 1 /\ \A j \in s..i - 1 : k1[j] # Slash
      <4>1. i - 1 \in 1..Len(k1)
        BY <2>2, <2>4
      <4> QED BY <2>10, <4>1, CurrentName
    <3>2. s \in NameStarts(k2) /\ NameFrom(k1, s) = NameFrom(k2, s)
      BY <2>4, <2>5, <3>1, AgreeMeans, SameNames
    <3>3. \A j \in s..i - 1 : k2[j] # Slash
      BY <2>3, <3>1
    <3>4. s \in 1..Len(k1) /\ s \in 1..Len(k2) /\ i - 1 \in s..Len(k1) /\ i - 1 \in s..Len(k2)
      BY <1>0, <2>2, <2>4, <2>5, <3>1
    <3>5. CASE k1[i] = Slash
      <4>1. Len(NameFrom(k1, s)) = (i - 1) - s + 1
        BY <2>4, <3>1, <3>4, <3>5, NameLength
      <4>2. CASE i <= Len(k2)
        <5>1. i \in s..Len(k2) /\ \A j \in s..i : k2[j] # Slash
          <6>1. k2[i] # Slash /\ i \in s..Len(k2)
            BY <2>2, <3>4, <3>5, <4>2
          <6>2. \A j \in s..i : j = i \/ j \in s..i - 1
            BY <2>2, <3>4
          <6> QED BY <3>3, <6>1, <6>2
        <5>2. Len(NameFrom(k2, s)) >= i - s + 1
          BY <3>4, <5>1, NameLength
        <5> QED BY <2>2, <3>2, <3>4, <4>1, <5>2
      <4>3. CASE i > Len(k2)
        <5>1. CASE i = Len(k1)
          <6>1. i - 1 = Len(k2)
            BY <1>0, <2>2, <2>5, <4>3
          <6>2. Len(k1) = Len(k2) + 1 /\ \A j \in 1..Len(k2) : k1[j] = k2[j]
            BY <1>0, <2>3, <2>2, <5>1, <6>1
          <6>3. k1 = Append(k2, Slash)
            BY <3>5, <5>1, <6>2
          <6> QED BY <6>3
        <5>2. CASE i # Len(k1)
          <6>1. i + 1 \in 1..Len(k1) /\ i + 1 > 1 /\ (i + 1) - 1 = i
            BY <2>2, <5>2
          <6>2. k1[i + 1] # Slash
            BY <3>5, <6>1 DEF IsKey
          <6>3. i + 1 \in NameStarts(k1)
            BY <3>5, <6>1, <6>2 DEF NameStarts
          <6> QED BY <2>2, <2>8, <4>3, <6>3
        <5> QED BY <5>1, <5>2
      <4> QED BY <1>0, <2>2, <4>2, <4>3
    <3>6. CASE k1[i] # Slash
      <4>1. i \in s..Len(k1) /\ \A j \in s..i : k1[j] # Slash
        <5>1. i \in s..Len(k1)
          BY <2>2, <3>1
        <5>2. \A j \in s..i : j = i \/ j \in s..i - 1
          BY <2>2, <3>4
        <5> QED BY <3>1, <3>6, <5>1, <5>2
      <4> DEFINE nm == NameFrom(k1, s)
      <4>2. Len(nm) >= i - s + 1 /\ Len(nm) \in Nat
        BY <3>4, <4>1, NameLength
      <4>3. /\ s + Len(nm) <= Len(k2) + 1
            /\ \A j \in 1..Len(nm) : nm[j] = k2[s + j - 1]
        <5>1. s \in 1..Len(k2) + 1
          BY <3>4
        <5> QED BY <3>2, <5>1, NameMeans
      <4>4. \A j \in 1..Len(nm) : nm[j] = k1[s + j - 1]
        <5>1. s \in 1..Len(k1) + 1
          BY <3>4
        <5> QED BY <5>1, NameMeans
      <4> HIDE DEF nm
      <4>5. i - s + 1 \in 1..Len(nm) /\ s + (i - s + 1) - 1 = i /\ i <= Len(k2)
        BY <1>0, <3>4, <4>1, <4>2, <4>3
      <4>6. k1[i] = k2[i]
        BY <4>3, <4>4, <4>5
      <4> QED BY <2>2, <4>5, <4>6
    <3> QED BY <3>5, <3>6
  <2> QED BY <2>9, <2>10
<1> QED BY <1>1, <1>2

(* The name that follows a directory in a key is the next one of its path.  *)
LEMMA NextName ==
    ASSUME NEW C, NEW k1 \in Seq(C), NEW k2 \in Seq(C), k1 # <<>>, Last(k1) = Slash, IsPrefix(k1, k2),
           Len(k2) > Len(k1), k2[Len(k1) + 1] # Slash
    PROVE  /\ Len(Components(k1)) + 1 \in 1..Len(Components(k2)) /\ Len(Components(k1)) \in Nat
           /\ Components(k2)[Len(Components(k1)) + 1] = NameFrom(k2, Len(k1) + 1)
<1> DEFINE m == Len(k1)
<1>1. m \in Nat /\ m >= 1 /\ Agree(k1, k2, m) /\ m + 1 \in DOMAIN k2 /\ (m + 1) - 1 = m
  BY PrefixMeans
<1>2. k1[m] = Slash /\ k2[m] = Slash
  <2>1. m \in 1..m
    BY <1>1
  <2> QED BY <1>1, <2>1 DEF Agree, Last
<1>3. m + 1 \in NameStarts(k2)
  BY <1>1, <1>2 DEF NameStarts
<1>4. NamesUpTo(k1, m) = NamesUpTo(k2, m) /\ NamesUpTo(k1, m) \in Nat
  <2>1. m \in 0..m
    BY <1>1
  <2> QED BY <1>1, <2>1, AgreeMeans, CountMeans
<1>5. NamesUpTo(k2, m + 1) = NamesUpTo(k2, m) + 1
  BY <1>1, <1>3, CountAtStart
<1>6. Len(Components(k1)) = NamesUpTo(k1, m)
  BY ComponentAt
<1>7. NamesUpTo(k2, m + 1) \in 1..Len(Components(k2)) /\ Components(k2)[NamesUpTo(k2, m + 1)] = NameFrom(k2, m + 1)
  BY <1>3, ComponentAt
<1> HIDE DEF m
<1>8. Len(Components(k1)) + 1 = NamesUpTo(k2, m + 1)
  BY <1>4, <1>5, <1>6
<1> QED BY <1>4, <1>6, <1>7, <1>8 DEF m

(* A name that is added to a key is added to its path.                      *)
LEMMA NameAppended ==
    ASSUME NEW C, NEW s \in Seq(C), s # <<>>, Last(s) = Slash, NEW name \in Seq(C \ {Slash}), name # <<>>
    PROVE  Components(s \o name) = Append(Components(s), name)
<1> DEFINE b == s \o name
           m == Len(s)
           spath == Components(s)
           n == Len(spath)
<1>1. m \in Nat /\ m >= 1 /\ spath \in Seq(Seq(C)) /\ n \in Nat
  BY ComponentAt
<1>2. /\ Len(name) \in Nat /\ Len(name) >= 1 /\ name \in Seq(C)
      /\ \A j \in 1..Len(name) : name[j] # Slash
  OBVIOUS
<1>3. /\ b \in Seq(C) /\ Len(b) = m + Len(name) /\ \A j \in 1..m : b[j] = s[j]
      /\ \A j \in 1..Len(name) : b[m + j] = name[j]
  BY <1>1, <1>2
<1> HIDE DEF b
<1>4. \A j \in m + 1..Len(b) : b[j] # Slash
  <2> TAKE j \in m + 1..Len(b)
  <2>1. j - m \in 1..Len(name) /\ m + (j - m) = j
    BY <1>1, <1>2, <1>3
  <2>2. b[m + (j - m)] # Slash
    BY <1>2, <1>3, <2>1
  <2> QED BY <2>1, <2>2
<1>5. s[m] = Slash /\ b[m] = Slash /\ m \in 1..m
  <2>1. s[m] = Slash
    BY DEF Last
  <2>2. m \in 1..m
    BY <1>1
  <2> QED BY <1>3, <2>1, <2>2
<1>6. Agree(s, b, m) /\ IsPrefix(s, b)
  <2>1. Agree(s, b, m)
    BY <1>1, <1>2, <1>3 DEF Agree
  <2> QED BY <1>1, <1>3, <2>1, PrefixMeans
<1>7. m + 1 \in m + 1..Len(b) /\ Len(b) > m /\ b[m + 1] # Slash
  <2>1. m + 1 \in m + 1..Len(b) /\ Len(b) > m
    BY <1>1, <1>2, <1>3
  <2> QED BY <1>4, <2>1
<1>8. Components(b)[n + 1] = NameFrom(b, m + 1)
  BY <1>1, <1>3, <1>6, <1>7, NextName
<1>9. NameFrom(b, m + 1) = name
  <2>1. m + 1 \in 1..Len(b) + 1 /\ m + 1 + Len(name) = Len(b) + 1
    BY <1>1, <1>2, <1>3
  <2>2. \A j \in 1..Len(name) : name[j] = b[m + 1 + j - 1] /\ name[j] # Slash
    <3> TAKE j \in 1..Len(name)
    <3>1. m + 1 + j - 1 = m + j
      BY <1>1, <1>2
    <3> QED BY <1>2, <1>3, <3>1
  <2>3. ~(m + 1 + Len(name) <= Len(b)) /\ m + 1 + Len(name) <= Len(b) + 1
    BY <1>1, <1>2, <1>3
  <2> QED BY <1>2, <1>3, <2>1, <2>2, <2>3, NameIs
<1>10. Len(Components(b)) = n + 1
  <2>1. m + 1 \in NameStarts(b)
    <3>1. m + 1 \in DOMAIN b /\ (m + 1) - 1 = m
      BY <1>1, <1>3, <1>7
    <3> QED BY <1>5, <1>7, <3>1 DEF NameStarts
  <2>2. NamesUpTo(b, m + 1) = n + 1
    <3>1. NamesUpTo(b, m + 1) = NamesUpTo(b, m) + 1
      <4>1. (m + 1) - 1 = m
        BY <1>1
      <4>2. NamesUpTo(b, m + 1) = NamesUpTo(b, (m + 1) - 1) + 1
        BY <1>3, <2>1, CountAtStart
      <4> QED BY <4>1, <4>2
    <3>2. NamesUpTo(b, m) = NamesUpTo(s, m) /\ n = NamesUpTo(s, m)
      <4>1. m \in 0..m
        BY <1>1
      <4> QED BY <1>1, <1>3, <1>6, <4>1, AgreeMeans, ComponentAt
    <3> QED BY <3>1, <3>2
  <2>3. PICK j \in NameStarts(b) : j \in 1..Len(b) /\ NamesUpTo(b, j) = NamesUpTo(b, Len(b)) /\ \A l \in j..Len(b) : b[l] # Slash
    <3>1. Len(b) \in 1..Len(b) /\ Len(b) \in m + 1..Len(b)
      BY <1>1, <1>2, <1>3
    <3>2. b[Len(b)] # Slash
      BY <1>4, <3>1
    <3> QED BY <1>3, <3>1, <3>2, CurrentName
  <2>4. j = m + 1
    <3>1. j > m
      <4> SUFFICES ASSUME j <= m PROVE FALSE
        BY <1>1, <2>3
      <4>1. m \in j..Len(b)
        BY <1>1, <1>7, <1>3, <2>3
      <4> QED BY <1>5, <2>3, <4>1
    <3>2. ~(j > m + 1)
      <4> SUFFICES ASSUME j > m + 1 PROVE FALSE
        OBVIOUS
      <4>1. j - 1 \in m + 1..Len(b) /\ j > 1
        BY <1>1, <1>3, <2>3
      <4>2. b[j - 1] = Slash
        BY <2>3, <4>1 DEF NameStarts
      <4> QED BY <1>4, <4>1, <4>2
    <3> QED BY <1>1, <2>3, <3>1, <3>2
  <2>5. Len(Components(b)) = NamesUpTo(b, Len(b))
    BY <1>3, ComponentAt
  <2> QED BY <2>2, <2>3, <2>4, <2>5
<1>11. Components(b) = Append(spath, name)
  <2>1. Components(b) \in Seq(Seq(C))
    BY <1>3, ComponentAt
  <2>2. \A j \in 1..n : Components(b)[j] = spath[j]
    <3>1. Below(b, s)
      BY <1>1, <1>6 DEF Below
    <3>2. IsPrefix(spath, Components(b))
      BY <1>1, <1>3, <3>1, BelowPath
    <3> QED BY <1>1, <2>1, <3>2, PrefixMeans DEF Agree
  <2> DEFINE longer == Append(spath, name)
             cs == Components(b)
  <2> HIDE DEF spath
  <2>3. longer \in Seq(Seq(C)) /\ Len(longer) = n + 1 /\ longer[n + 1] = name /\ (\A j \in 1..n : longer[j] = spath[j])
    BY <1>1, <1>2
  <2> HIDE DEF longer, cs, n
  <2>4. \A j \in 1..n + 1 : cs[j] = longer[j]
    <3> TAKE j \in 1..n + 1
    <3>1. CASE j = n + 1
      BY <1>8, <1>9, <2>3, <3>1 DEF cs
    <3>2. CASE j # n + 1
      <4>1. j \in 1..n
        BY <1>1, <3>2
      <4> QED BY <2>2, <2>3, <4>1 DEF cs
    <3> QED BY <3>1, <3>2
  <2>5. Len(cs) = n + 1 /\ cs \in Seq(Seq(C))
    BY <1>10, <2>1 DEF cs
  <2>6. Agree(cs, longer, Len(cs))
    BY <1>1, <2>3, <2>4, <2>5 DEF Agree
  <2>7. cs = longer
    BY <2>3, <2>5, <2>6, AgreeSame
  <2> QED BY <2>7 DEF cs, longer
<1> QED BY <1>11 DEF b

LEMMA NameAlone ==
    ASSUME NEW C, NEW name \in Seq(C \ {Slash}), name # <<>>
    PROVE  Components(name) = <<name>> /\ Components(<<>>) = <<>>
<1> DEFINE m == Len(name)
           cs == Components(name)
<1>1. m \in Nat /\ m >= 1 /\ name \in Seq(C) /\ \A j \in 1..m : name[j] # Slash
  OBVIOUS
<1>2. 1 \in NameStarts(name)
  BY <1>1 DEF NameStarts
<1>3. NamesUpTo(name, 1) = 1
  <2>1. NamesUpTo(name, 1) = NamesUpTo(name, 1 - 1) + 1
    BY <1>1, <1>2, CountAtStart
  <2>2. NamesUpTo(name, 0) = 0
    BY <1>1, CountMeans
  <2> QED BY <2>1, <2>2
<1>4. NamesUpTo(name, m) = 1
  <2>1. PICK i \in NameStarts(name) : i \in 1..m /\ NamesUpTo(name, i) = NamesUpTo(name, m)
    <3>1. m \in 1..Len(name) /\ name[m] # Slash
      BY <1>1
    <3> QED BY <1>1, <3>1, CurrentName
  <2>2. i = 1
    <3> SUFFICES ASSUME i > 1 PROVE FALSE
      BY <2>1
    <3>1. name[i - 1] = Slash /\ i - 1 \in 1..m
      BY <1>1, <2>1 DEF NameStarts
    <3> QED BY <1>1, <3>1
  <2> QED BY <1>3, <2>1, <2>2
<1>5. cs \in Seq(Seq(C)) /\ Len(cs) = 1 /\ cs[1] = NameFrom(name, 1)
  BY <1>1, <1>2, <1>3, <1>4, ComponentAt
<1>6. NameFrom(name, 1) = name
  <2>1. 1 \in 1..Len(name) + 1 /\ 1 + Len(name) <= Len(name) + 1 /\ ~(1 + Len(name) <= Len(name))
    BY <1>1
  <2>2. \A j \in 1..Len(name) : name[j] = name[1 + j - 1] /\ name[j] # Slash
    BY <1>1
  <2> QED BY <1>1, <2>1, <2>2, NameIs
<1>7. cs = <<name>>
  <2> HIDE DEF cs
  <2>1. <<name>> \in Seq(Seq(C)) /\ Len(<<name>>) = 1 /\ <<name>>[1] = name
    BY <1>1
  <2>2. Agree(cs, <<name>>, Len(cs))
    BY <1>5, <1>6, <2>1 DEF Agree
  <2> QED BY <1>5, <2>1, <2>2, AgreeSame
<1>8. Components(<<>>) = <<>>
  <2>1. <<>> \in Seq(C) /\ Len(<<>>) = 0
    OBVIOUS
  <2>2. Components(<<>>) \in Seq(Seq(C)) /\ Len(Components(<<>>)) = 0
    BY <2>1, ComponentAt, CountMeans
  <2> DEFINE none == Components(<<>>)
  <2> HIDE DEF none
  <2>3. none = <<>>
    BY <2>2 DEF none
  <2> QED BY <2>3 DEF none
<1> QED BY <1>7, <1>8

LEMMA KeyWithName ==
    ASSUME NEW C, NEW s \in Seq(C), IsKey(s), NEW name \in Seq(C \ {Slash}), name # <<>>
    PROVE  /\ s \o name \in Seq(C) /\ IsKey(s \o name) /\ s \o name # <<>> /\ Last(s \o name) # Slash
           /\ IsPrefix(s, s \o name)
<1> DEFINE k == s \o name
           m == Len(s)
<1>1. m \in Nat /\ m >= 1 /\ s[1] = Slash /\ Len(name) \in Nat /\ Len(name) >= 1
  BY DEF IsKey
<1>2. /\ k \in Seq(C) /\ Len(k) = m + Len(name) /\ \A j \in 1..m : k[j] = s[j]
      /\ \A j \in 1..Len(name) : k[m + j] = name[j] /\ name[j] # Slash
  BY <1>1
<1> HIDE DEF k
<1>3. \A j \in m + 1..Len(k) : k[j] # Slash
  <2> TAKE j \in m + 1..Len(k)
  <2>1. j - m \in 1..Len(name) /\ m + (j - m) = j
    BY <1>1, <1>2
  <2>2. k[m + (j - m)] # Slash
    BY <1>2, <2>1
  <2> QED BY <2>1, <2>2
<1>4. k # <<>> /\ k[1] = Slash
  <2>1. 1 \in 1..m /\ 1 \in 1..Len(k)
    BY <1>1, <1>2
  <2> QED BY <1>1, <1>2, <2>1
<1>5. ASSUME NEW j \in DOMAIN k, j > 1, k[j - 1] = Slash, k[j] = Slash PROVE FALSE
  <2>1. j \in 1..Len(k)
    BY <1>2
  <2>2. j <= m
    BY <1>1, <1>3, <1>5, <2>1
  <2>3. j \in DOMAIN s /\ j \in 1..m /\ j - 1 \in 1..m
    BY <1>1, <1>5, <2>1, <2>2
  <2>4. s[j] = Slash /\ s[j - 1] = Slash
    BY <1>2, <1>5, <2>3
  <2> QED BY <1>5, <2>3, <2>4 DEF IsKey
<1>6. k[Len(k)] # Slash
  <2>1. Len(k) \in m + 1..Len(k)
    BY <1>1, <1>2
  <2> QED BY <1>3, <2>1
<1>7. IsPrefix(s, k)
  <2>1. Agree(s, k, m)
    BY <1>1, <1>2 DEF Agree
  <2> QED BY <1>2, <2>1, PrefixMeans
<1> QED BY <1>2, <1>4, <1>5, <1>6, <1>7 DEF IsKey, Last, k

LEMMA KeyWithSlash ==
    ASSUME NEW C, Slash \in C, NEW k \in Seq(C), IsKey(k), Last(k) # Slash
    PROVE  /\ Append(k, Slash) \in Seq(C) /\ IsKey(Append(k, Slash)) /\ Append(k, Slash) # <<>> /\ Last(Append(k, Slash)) = Slash
           /\ IsPrefix(k, Append(k, Slash)) /\ ~IsPrefix(Append(k, Slash), k)
<1> DEFINE l == Append(k, Slash)
           m == Len(k)
<1>1. m \in Nat /\ m >= 1 /\ k[1] = Slash /\ k[m] # Slash
  BY DEF IsKey, Last
<1>2. /\ l \in Seq(C) /\ Len(l) = m + 1 /\ l[m + 1] = Slash /\ \A j \in 1..m : l[j] = k[j]
  BY <1>1
<1> HIDE DEF l
<1>3. l # <<>> /\ l[1] = Slash
  <2>1. 1 \in 1..m
    BY <1>1
  <2> QED BY <1>1, <1>2, <2>1
<1>4. ASSUME NEW j \in DOMAIN l, j > 1, l[j - 1] = Slash, l[j] = Slash PROVE FALSE
  <2>1. j \in 1..m + 1 /\ j - 1 \in 1..m
    BY <1>1, <1>2, <1>4
  <2>2. j # m + 1
    BY <1>1, <1>2, <1>4, <2>1
  <2>3. j \in DOMAIN k /\ j \in 1..m
    BY <1>1, <2>1, <2>2
  <2>4. k[j] = Slash /\ k[j - 1] = Slash
    BY <1>2, <1>4, <2>1, <2>3
  <2> QED BY <1>4, <2>3, <2>4 DEF IsKey
<1>5. IsPrefix(k, l)
  <2>1. Agree(k, l, m)
    BY <1>1, <1>2 DEF Agree
  <2> QED BY <1>2, <2>1, PrefixMeans
<1>6. ~IsPrefix(l, k)
  BY <1>1, <1>2 DEF IsPrefix
<1> QED BY <1>2, <1>3, <1>4, <1>5, <1>6 DEF IsKey, Last, l

-----------------------------------------------------------------------------
(* Keys and the roots of plugins. *)

LEMMA RootFacts ==
    /\ Slash \in Alphabet
    /\ \A i \in DOMAIN Roots : /\ Roots[i] \in Seq(Alphabet) /\ ValidKey(Roots[i]) /\ IsKey(Roots[i])
                              /\ Len(Roots[i]) > 1 /\ Last(Roots[i]) = Slash
    /\ \A i, j \in DOMAIN Roots : Related(Roots[i], Roots[j]) => i = j
<1>1. \A i \in DOMAIN Roots : Roots[i] \in Seq(Alphabet) /\ ValidKey(Roots[i]) /\ Len(Roots[i]) > 1 /\ Last(Roots[i]) = Slash
  BY RootsAssumption DEF PluginCheck
<1>2. \A i \in DOMAIN Roots : IsKey(Roots[i])
  BY <1>1 DEF ValidKey, IsKey
<1>3. Slash \in Alphabet
  <2>1. 1 \in DOMAIN Roots
    BY RootsAssumption
  <2>2. Roots[1][1] = Slash /\ 1 \in 1..Len(Roots[1]) /\ Roots[1] \in Seq(Alphabet)
    BY <1>1, <1>2, <2>1 DEF IsKey
  <2> QED BY <2>2
<1>4. ASSUME NEW i \in DOMAIN Roots, NEW j \in DOMAIN Roots, Related(Roots[i], Roots[j]) PROVE i = j
  <2>1. DOMAIN Roots = 1..Len(Roots) /\ Len(Roots) \in Nat
    BY RootsAssumption
  <2>2. ASSUME NEW a \in DOMAIN Roots, NEW b \in DOMAIN Roots, a < b, Related(Roots[a], Roots[b]) PROVE FALSE
    <3>1. b \in a + 1..Len(Roots)
      BY <2>1, <2>2
    <3> QED BY <2>2, <3>1, RootsAssumption DEF PluginCheck
  <2>3. Related(Roots[j], Roots[i])
    BY <1>4 DEF Related
  <2>4. i < j \/ j < i \/ i = j
    BY <2>1
  <2> QED BY <1>4, <2>2, <2>3, <2>4
<1> QED BY <1>1, <1>2, <1>3, <1>4

LEMMA ValidIsKey == ASSUME NEW k \in Seq(Alphabet), ValidKey(k) PROVE IsKey(k)
<1>1. k # <<>> /\ k[1] = Slash
  BY Zenon DEF ValidKey
<1>2. ASSUME NEW i \in DOMAIN k, i > 1 PROVE ~(k[i - 1] = Slash /\ k[i] = Slash)
  <2>1. <<k[i - 1], k[i]>> # <<Slash, Slash>>
    BY <1>2 DEF ValidKey
  <2> QED BY <2>1
<1> QED BY <1>1, <1>2 DEF IsKey

LEMMA KeyFacts ==
    ASSUME NEW k \in Seq(Alphabet), IsKey(k)
    PROVE  k # <<>> /\ Len(k) \in Nat /\ Len(k) >= 1 /\ Components(k) \in Seq(Seq(Alphabet))
<1>1. k # <<>> /\ Len(k) \in Nat /\ Len(k) >= 1
  BY DEF IsKey
<1>2. Components(k) \in Seq(Seq(Alphabet))
  BY ComponentAt
<1> QED BY <1>1, <1>2

(* A key with one more slash.                                               *)
LEMMA WithSlash ==
    ASSUME NEW C, NEW k \in Seq(C), NEW root \in Seq(C), root # <<>>, Last(root) = Slash
    PROVE  root = Append(k, Slash) <=> Len(root) = Len(k) + 1 /\ IsPrefix(k, root)
<1>1. ASSUME root = Append(k, Slash) PROVE Len(root) = Len(k) + 1 /\ IsPrefix(k, root)
  <2>1. Agree(k, root, Len(k)) /\ Len(root) = Len(k) + 1
    BY <1>1 DEF Agree
  <2> QED BY <2>1, PrefixMeans
<1>2. ASSUME Len(root) = Len(k) + 1, IsPrefix(k, root) PROVE root = Append(k, Slash)
  <2>1. Agree(k, root, Len(k)) /\ root[Len(k) + 1] = Slash
    BY <1>2, PrefixMeans DEF Last
  <2> QED BY <1>2, <2>1 DEF Agree
<1> QED BY <1>1, <1>2

LEMMA OwnsMeans ==
    ASSUME NEW k \in Seq(Alphabet), IsKey(k), NEW i \in DOMAIN Roots
    PROVE  Owns(i, Components(k)) <=> IsPrefix(Roots[i], k) \/ Roots[i] = Append(k, Slash)
<1> DEFINE root == Roots[i]
<1>1. /\ root \in Seq(Alphabet) /\ IsKey(root) /\ root # <<>> /\ Last(root) = Slash /\ Slash \in Alphabet
      /\ Components(root) \in Seq(Seq(Alphabet))
  BY RootFacts, ComponentAt DEF IsKey
<1>2. k # <<>> /\ Components(k) \in Seq(Seq(Alphabet))
  BY KeyFacts
<1> HIDE DEF root
<1>3. ASSUME IsPrefix(Components(root), Components(k)) PROVE IsPrefix(root, k) \/ root = Append(k, Slash)
  BY <1>1, <1>2, <1>3, PathBelow DEF Below
<1>4. ASSUME IsPrefix(root, k) PROVE IsPrefix(Components(root), Components(k))
  BY <1>1, <1>4, BelowPath DEF Below
<1>5. ASSUME root = Append(k, Slash) PROVE IsPrefix(Components(root), Components(k))
  <2>1. Components(root) = Components(k)
    BY <1>1, <1>2, <1>5, TrailingSlash
  <2> QED BY <2>1 DEF IsPrefix
<1> QED BY <1>3, <1>4, <1>5 DEF Owns, RootPath, root

LEMMA OwnerIsOne ==
    ASSUME NEW k \in Seq(Alphabet), IsKey(k), NEW i \in DOMAIN Roots, NEW j \in DOMAIN Roots,
           Owns(i, Components(k)), Owns(j, Components(k))
    PROVE  i = j
<1> DEFINE p == Roots[i]
           q == Roots[j]
<1>1. p \in Seq(Alphabet) /\ q \in Seq(Alphabet) /\ (Related(p, q) => i = j)
  BY RootFacts
<1>2. (IsPrefix(p, k) \/ p = Append(k, Slash)) /\ (IsPrefix(q, k) \/ q = Append(k, Slash))
  BY OwnsMeans
<1>a. Len(p) \in Nat /\ Len(q) \in Nat /\ Len(k) \in Nat
  BY <1>1
<1> HIDE DEF p, q
<1>3. CASE IsPrefix(p, k) /\ IsPrefix(q, k)
  <2>1. Agree(p, k, Len(p)) /\ Agree(q, k, Len(q))
    BY <1>1, <1>3, PrefixMeans
  <2>2. Agree(p, q, Len(p)) \/ Agree(q, p, Len(q))
    BY <1>a, <2>1 DEF Agree
  <2> QED BY <1>1, <2>2, PrefixMeans DEF Related
<1>4. ASSUME NEW r \in Seq(Alphabet), IsPrefix(r, k), NEW s \in Seq(Alphabet), s = Append(k, Slash) PROVE IsPrefix(r, s)
  <2>1. Agree(r, k, Len(r)) /\ Len(r) \in Nat
    BY <1>4, PrefixMeans
  <2>2. Agree(r, s, Len(r))
    BY <1>4, <2>1 DEF Agree
  <2> QED BY <2>2, PrefixMeans
<1>5. CASE p = Append(k, Slash) /\ q = Append(k, Slash)
  BY <1>1, <1>5 DEF Related, IsPrefix
<1> QED BY <1>1, <1>2, <1>3, <1>4, <1>5 DEF Related

Owners(k) == {i \in DOMAIN Roots : Owns(i, Components(k))}

LEMMA OwnersMean ==
    ASSUME NEW k \in Seq(Alphabet), IsKey(k)
    PROVE  Owners(k) \in SUBSET Nat /\ \A i \in Owners(k) : Owners(k) = {i} /\ i # 0 /\ i \in DOMAIN Roots
BY OwnerIsOne, RootsAssumption DEF Owners

(* Unless it has a root somewhere else, a key is of the plugin whose path   *)
(* it is below.                                                             *)
LEMMA IndexIsOwner ==
    ASSUME NEW k \in Seq(Alphabet), IsKey(k), ~Misleading(k)
    PROVE  FindIndex(Roots, k) = IF Owners(k) = {} THEN 0 ELSE CHOOSE i \in Owners(k) : TRUE
<1> DEFINE found == {i \in DOMAIN Roots : \/ Len(Roots[i]) = Len(k) + 1 /\ IsPrefix(k, Roots[i])
                                          \/ Occurs(Roots[i], k)}
<1>1. ASSUME NEW i \in DOMAIN Roots PROVE i \in found <=> i \in Owners(k)
  <2>1. Roots[i] \in Seq(Alphabet) /\ Roots[i] # <<>> /\ Last(Roots[i]) = Slash
    BY RootFacts DEF IsKey
  <2>2. Roots[i] = Append(k, Slash) <=> Len(Roots[i]) = Len(k) + 1 /\ IsPrefix(k, Roots[i])
    BY <2>1, WithSlash
  <2>3. Occurs(Roots[i], k) <=> IsPrefix(Roots[i], k)
    <3>1. ASSUME IsPrefix(Roots[i], k) PROVE Occurs(Roots[i], k)
      <4>1. SubSeq(k, 1, Len(k)) = k /\ 1 \in 1..Len(k)
        BY KeyFacts
      <4> QED BY <3>1, <4>1 DEF Occurs
    <3> QED BY <3>1 DEF Misleading
  <2>4. Owns(i, Components(k)) <=> IsPrefix(Roots[i], k) \/ Roots[i] = Append(k, Slash)
    BY OwnsMeans
  <2> QED BY <2>2, <2>3, <2>4 DEF Owners
<1>2. found = Owners(k)
  BY <1>1 DEF Owners
<1>3. FindIndex(Roots, k) = IF Owners(k) = {} THEN 0 ELSE Min(Owners(k))
  BY <1>2 DEF FindIndex
<1>4. ASSUME Owners(k) # {} PROVE Min(Owners(k)) = CHOOSE i \in Owners(k) : TRUE
  <2>1. PICK i \in Owners(k) : TRUE
    BY <1>4
  <2>2. Owners(k) = {i} /\ i \in Nat
    BY OwnersMean
  <2> QED BY <2>2 DEF Min
<1> QED BY <1>3, <1>4

(* The plugins below a key are those whose paths are below its own.         *)
LEMMA PluginsAreBelow ==
    ASSUME NEW k \in Seq(Alphabet), IsKey(k)
    PROVE  FindPlugins(Roots, k) = {i \in DOMAIN Roots : IsPrefix(Components(k), RootPath(i))}
<1>1. ASSUME NEW i \in DOMAIN Roots PROVE Below(Roots[i], k) <=> IsPrefix(Components(k), RootPath(i))
  <2> DEFINE root == Roots[i]
  <2>1. root \in Seq(Alphabet) /\ IsKey(root) /\ k # <<>> /\ Last(root) = Slash /\ Len(root) \in Nat /\ Len(root) > 1
    BY RootFacts, KeyFacts
  <2>2. k # Append(root, Slash)
    <3> SUFFICES ASSUME k = Append(root, Slash) PROVE FALSE
      OBVIOUS
    <3> HIDE DEF root
    <3>1. Len(root) + 1 \in DOMAIN k /\ k[Len(root) + 1] = Slash /\ k[(Len(root) + 1) - 1] = Slash
      BY <2>1 DEF Last
    <3>2. Len(root) + 1 > 1
      BY <2>1
    <3> QED BY <3>1, <3>2 DEF IsKey
  <2> HIDE DEF root
  <2>3. Below(root, k) <=> IsPrefix(Components(k), Components(root))
    BY <2>1, <2>2, BelowPath, PathBelow
  <2> QED BY <2>3 DEF root, RootPath
<1> QED BY <1>1 DEF FindPlugins

(* What follows in a root is the next name of its path.                     *)
LEMMA NextOfRoot ==
    ASSUME NEW k \in Seq(Alphabet), IsKey(k), NEW i \in DOMAIN Roots, Below(Roots[i], k), ~Owns(i, Components(k))
    PROVE  LET rest == SubSeq(Roots[i], Len(k) + 1, Len(Roots[i]))
           IN  FirstName(IF rest # <<>> /\ Head(rest) = Slash THEN Tail(rest) ELSE rest) = RootPath(i)[Len(Components(k)) + 1]
<1> DEFINE root == Roots[i]
           rest == SubSeq(root, Len(k) + 1, Len(root))
<1>1. root \in Seq(Alphabet) /\ IsKey(root) /\ Last(root) = Slash /\ Len(root) \in Nat /\ Slash \in Alphabet
  BY RootFacts
<1>2. k # <<>> /\ Len(k) \in Nat /\ Len(k) >= 1
  BY KeyFacts
<1>3. ~IsPrefix(root, k) /\ root # Append(k, Slash)
  BY OwnsMeans
<1>4. IsPrefix(k, root) /\ Agree(k, root, Len(k)) /\ (Len(k) = Len(root) \/ k[Len(k)] = Slash \/ root[Len(k) + 1] = Slash)
  BY <1>1, PrefixMeans DEF Below, Last
<1>r. RootPath(i) = Components(root)
  BY DEF RootPath
<1> HIDE DEF root
<1>5. Len(k) < Len(root)
  <2> SUFFICES ASSUME Len(k) = Len(root) PROVE FALSE
    BY <1>1, <1>2, <1>4 DEF Agree
  <2>1. Agree(root, k, Len(root))
    BY <1>4 DEF Agree
  <2> QED BY <1>1, <1>3, <2>1, PrefixMeans
<1>6. rest # <<>> /\ Head(rest) = root[Len(k) + 1] /\ Tail(rest) = SubSeq(root, Len(k) + 2, Len(root))
  <2>1. rest \in Seq(Alphabet) /\ Len(rest) = Len(root) - Len(k) /\ \A j \in 1..Len(rest) : rest[j] = root[Len(k) + j]
    BY <1>1, <1>2, <1>5
  <2>2. Tail(rest) \in Seq(Alphabet) /\ Len(Tail(rest)) = Len(rest) - 1 /\ \A j \in 1..Len(rest) - 1 : Tail(rest)[j] = rest[j + 1]
    <3> HIDE DEF rest
    <3> QED BY <1>1, <1>2, <1>5, <2>1
  <2> DEFINE t == SubSeq(root, Len(k) + 2, Len(root))
             u == Tail(rest)
  <2>3. t \in Seq(Alphabet) /\ Len(t) = Len(root) - Len(k) - 1 /\ \A j \in 1..Len(t) : t[j] = root[Len(k) + 1 + j]
    BY <1>1, <1>2, <1>5
  <2> HIDE DEF rest, t
  <2>4. Len(u) = Len(t) /\ Len(t) \in Nat
    BY <1>1, <1>2, <2>1, <2>2, <2>3
  <2>5. \A j \in 1..Len(t) : u[j] = t[j]
    <3> TAKE j \in 1..Len(t)
    <3>1. j \in 1..Len(rest) - 1 /\ j + 1 \in 1..Len(rest) /\ Len(k) + (j + 1) = Len(k) + 1 + j
      BY <1>1, <1>2, <1>5, <2>1, <2>3
    <3> QED BY <2>1, <2>2, <2>3, <3>1
  <2>6. u \in Seq(Alphabet)
    BY <2>2
  <2> HIDE DEF u
  <2>7. Agree(u, t, Len(u))
    BY <2>4, <2>5 DEF Agree
  <2>8. u = t
    BY <2>3, <2>4, <2>6, <2>7, AgreeSame
  <2>9. rest # <<>> /\ Head(rest) = root[Len(k) + 1]
    BY <1>1, <1>2, <1>5, <2>1
  <2> QED BY <2>8, <2>9 DEF t, u
<1>7. CASE root[Len(k) + 1] # Slash
  <2>1. Last(k) = Slash
    BY <1>4, <1>5, <1>1, <1>2, <1>7 DEF Last
  <2>2. Components(root)[Len(Components(k)) + 1] = NameFrom(root, Len(k) + 1)
    BY <1>1, <1>2, <1>4, <1>5, <1>7, <2>1, NextName
  <2> QED BY <1>6, <1>7, <1>r, <2>2 DEF NameFrom, root
<1>8. CASE root[Len(k) + 1] = Slash
  <2> DEFINE l == Append(k, Slash)
  <2>1. l \in Seq(Alphabet) /\ Len(l) = Len(k) + 1 /\ l[Len(k) + 1] = Slash /\ \A j \in 1..Len(k) : l[j] = k[j]
    BY <1>1
  <2>2. Components(l) = Components(k)
    BY <1>1, <1>2, TrailingSlash
  <2>3. root # l
    BY <1>3
  <2> HIDE DEF l
  <2>4. Agree(l, root, Len(l))
    BY <1>1, <1>2, <1>4, <1>5, <1>8, <2>1 DEF Agree
  <2>5. Len(l) < Len(root)
    <3> SUFFICES ASSUME Len(l) = Len(root) PROVE FALSE
      BY <1>1, <1>2, <1>5, <2>1
    <3> QED BY <1>1, <2>1, <2>3, <2>4, AgreeSame
  <2>6. root[Len(l) + 1] # Slash
    <3>1. Len(l) + 1 \in DOMAIN root /\ Len(l) + 1 > 1 /\ (Len(l) + 1) - 1 = Len(k) + 1
      BY <1>1, <1>2, <2>1, <2>5
    <3> QED BY <1>1, <1>8, <3>1 DEF IsKey
  <2>7. l # <<>> /\ Last(l) = Slash /\ IsPrefix(l, root)
    BY <1>1, <1>2, <2>1, <2>4, PrefixMeans DEF Last
  <2>8. Components(root)[Len(Components(l)) + 1] = NameFrom(root, Len(l) + 1)
    BY <1>1, <2>1, <2>5, <2>6, <2>7, NextName
  <2>9. Len(l) + 1 = Len(k) + 2
    BY <1>2, <2>1
  <2> QED BY <1>6, <1>8, <1>r, <2>2, <2>8, <2>9 DEF NameFrom, root
<1> QED BY <1>7, <1>8

LEMMA DirectChildren ==
    ASSUME NEW k \in Seq(Alphabet), IsKey(k), Owners(k) = {}
    PROVE  FindDirectChildren(Roots, k) = {RootPath(i)[Len(Components(k)) + 1] : i \in FindPlugins(Roots, k)}
<1> DEFINE rest(i) == SubSeq(Roots[i], Len(k) + 1, Len(Roots[i]))
           first(i) == FirstName(IF rest(i) # <<>> /\ Head(rest(i)) = Slash THEN Tail(rest(i)) ELSE rest(i))
<1>1. FindDirectChildren(Roots, k) = {first(i) : i \in FindPlugins(Roots, k)}
  BY DEF FindDirectChildren
<1>2. ASSUME NEW i \in FindPlugins(Roots, k) PROVE first(i) = RootPath(i)[Len(Components(k)) + 1]
  <2>1. i \in DOMAIN Roots /\ Below(Roots[i], k) /\ ~Owns(i, Components(k))
    BY DEF FindPlugins, Owners
  <2> QED BY <2>1, NextOfRoot
<1> HIDE DEF first
<1> QED BY <1>1, <1>2

(* The account of a key, and what is forgotten with it.                     *)
LEMMA AccountOfKey ==
    ASSUME NEW k \in Seq(Alphabet), IsKey(k), NEW i \in DOMAIN Roots, NEW account \in Seq(Alphabet), account # <<>>
    PROVE  account \in GetContexts({k}, Roots[i]) <=> IsPrefix(Append(RootPath(i), account), Components(k))
<1> DEFINE root == Roots[i]
           path == Components(k)
           rootPath == Components(root)
           n == Len(rootPath)
<1>1. root \in Seq(Alphabet) /\ IsKey(root) /\ root # <<>> /\ Last(root) = Slash /\ Len(root) \in Nat /\ Len(root) > 1 /\ Slash \in Alphabet
  BY RootFacts DEF IsKey
<1>2. k # <<>> /\ Len(k) \in Nat /\ Len(k) >= 1 /\ path \in Seq(Seq(Alphabet)) /\ rootPath \in Seq(Seq(Alphabet))
  BY <1>1, KeyFacts, ComponentAt
<1>3. IsPrefix(rootPath, path) <=> IsPrefix(root, k) \/ root = Append(k, Slash)
  BY OwnsMeans DEF Owns, RootPath
<1>4. GetContexts({k}, root) = GetContextFromKey(k, root)
  BY DEF GetContexts
<1>5. IsPrefix(Append(rootPath, account), path) <=> IsPrefix(rootPath, path) /\ Len(path) > n /\ path[n + 1] = account
  <2> HIDE DEF path, rootPath
  <2> DEFINE longer == Append(rootPath, account)
  <2>1. longer \in Seq(Seq(Alphabet)) /\ Len(longer) = n + 1 /\ longer[n + 1] = account /\ (\A j \in 1..n : longer[j] = rootPath[j]) /\ n \in Nat
    BY <1>2
  <2> HIDE DEF longer
  <2>2. Agree(longer, path, n + 1) <=> Agree(rootPath, path, n) /\ Len(path) > n /\ path[n + 1] = account
    <3>1. \A j \in 1..n + 1 : j = n + 1 \/ j \in 1..n
      BY <2>1
    <3>2. n + 1 \in 1..n + 1 /\ Len(path) \in Nat /\ \A j \in 1..n : j \in 1..n + 1
      BY <1>2, <2>1
    <3>3. ASSUME Agree(longer, path, n + 1) PROVE Agree(rootPath, path, n) /\ Len(path) > n /\ path[n + 1] = account
      <4>1. \A j \in 1..n : rootPath[j] = path[j]
        BY <2>1, <3>2, <3>3 DEF Agree
      <4>2. path[n + 1] = account /\ n + 1 <= Len(path)
        BY <2>1, <3>2, <3>3 DEF Agree
      <4> QED BY <2>1, <3>2, <4>1, <4>2 DEF Agree
    <3>4. ASSUME Agree(rootPath, path, n), Len(path) > n, path[n + 1] = account PROVE Agree(longer, path, n + 1)
      <4>1. \A j \in 1..n + 1 : longer[j] = path[j]
        BY <2>1, <3>1, <3>4 DEF Agree
      <4>2. n + 1 <= Len(path) /\ n + 1 <= Len(longer)
        BY <2>1, <3>2, <3>4
      <4> QED BY <4>1, <4>2 DEF Agree
    <3> QED BY <3>3, <3>4
  <2> QED BY <1>2, <2>1, <2>2, PrefixMeans DEF longer
<1>6. ASSUME IsPrefix(root, k), Len(k) > Len(root), k[Len(root) + 1] # Slash
      PROVE  /\ Len(path) > n /\ path[n + 1] = NameFrom(k, Len(root) + 1)
  <2>1. n + 1 \in 1..Len(path) /\ n \in Nat /\ path[n + 1] = NameFrom(k, Len(root) + 1)
    BY <1>1, <1>6, NextName
  <2> HIDE DEF path, n
  <2> QED BY <1>2, <2>1
<1>7. ASSUME account \in GetContextFromKey(k, root) PROVE IsPrefix(rootPath, path) /\ Len(path) > n /\ path[n + 1] = account
  <2>1. IsPrefix(root, k) /\ account = NameFrom(k, Len(root) + 1)
    BY <1>7 DEF GetContextFromKey, NameFrom
  <2>2. Len(root) <= Len(k) /\ Len(root) + 1 \in 1..Len(k) + 1
    BY <1>1, <1>2, <2>1 DEF IsPrefix
  <2>3. /\ Len(root) + 1 + Len(account) <= Len(k) + 1
        /\ \A j \in 1..Len(account) : k[Len(root) + 1 + j - 1] # Slash
    BY <2>1, <2>2, NameMeans
  <2>4. Len(account) >= 1 /\ Len(account) \in Nat
    OBVIOUS
  <2>5. Len(k) > Len(root) /\ 1 \in 1..Len(account) /\ Len(root) + 1 + 1 - 1 = Len(root) + 1
    BY <1>1, <1>2, <2>3, <2>4
  <2> HIDE DEF root, path, rootPath, n
  <2> QED BY <1>3, <1>6, <2>1, <2>3, <2>5
<1>8. ASSUME IsPrefix(rootPath, path), Len(path) > n, path[n + 1] = account PROVE account \in GetContextFromKey(k, root)
  <2>1. IsPrefix(root, k)
    <3> SUFFICES ASSUME root = Append(k, Slash) PROVE FALSE
      BY <1>3, <1>8
    <3>1. rootPath = path
      BY <1>1, <1>2, TrailingSlash
    <3> QED BY <1>2, <1>8, <3>1
  <2>2. Agree(root, k, Len(root)) /\ Len(root) <= Len(k)
    BY <1>1, <2>1, PrefixMeans DEF Agree
  <2>3. Len(k) # Len(root)
    <3> SUFFICES ASSUME Len(k) = Len(root) PROVE FALSE
      OBVIOUS
    <3>1. root = k
      BY <1>1, <2>2, AgreeSame
    <3> QED BY <1>2, <1>8, <3>1
  <2>4. Len(k) > Len(root) /\ Len(root) + 1 \in DOMAIN k /\ k[Len(root)] = Slash
    <3>1. Len(root) \in 1..Len(root)
      BY <1>1
    <3>2. k[Len(root)] = root[Len(root)]
      BY <2>2, <3>1 DEF Agree
    <3>3. root[Len(root)] = Slash
      BY <1>1 DEF Last
    <3> HIDE DEF root
    <3> QED BY <1>1, <1>2, <2>2, <2>3, <3>2, <3>3
  <2>5. k[Len(root) + 1] # Slash
    <3>1. Len(root) + 1 > 1 /\ (Len(root) + 1) - 1 = Len(root)
      BY <1>1
    <3> HIDE DEF root
    <3> QED BY <2>4, <3>1 DEF IsKey
  <2>6. account = NameFrom(k, Len(root) + 1)
    BY <1>6, <1>8, <2>1, <2>4, <2>5
  <2> QED BY <2>1, <2>6 DEF GetContextFromKey, NameFrom
<1> HIDE DEF root, path, rootPath
<1>9. account \in GetContexts({k}, root) <=> IsPrefix(Append(rootPath, account), path)
  BY <1>4, <1>5, <1>7, <1>8
<1> QED BY <1>9 DEF root, path, rootPath, RootPath

(* The key of an account, with a slash at the end, has the path of it.      *)
LEMMA AccountKey ==
    ASSUME NEW i \in DOMAIN Roots, NEW account \in Seq(Alphabet \ {Slash}), account # <<>>
    PROVE  LET accountKey == Roots[i] \o account \o <<Slash>>
           IN  /\ accountKey \in Seq(Alphabet) /\ IsKey(accountKey) /\ Last(accountKey) = Slash
               /\ Components(accountKey) = Append(RootPath(i), account)
<1> DEFINE root == Roots[i]
           b == root \o account
           a == root \o account \o <<Slash>>
<1>1. root \in Seq(Alphabet) /\ IsKey(root) /\ root # <<>> /\ Last(root) = Slash /\ Slash \in Alphabet
  BY RootFacts DEF IsKey
<1> HIDE DEF root
<1>2. b \in Seq(Alphabet) /\ IsKey(b) /\ b # <<>> /\ Last(b) # Slash
  BY <1>1, KeyWithName
<1>3. Components(b) = Append(Components(root), account)
  BY <1>1, NameAppended
<1>4. a = b \o <<Slash>>
  OBVIOUS
<1> HIDE DEF a, b
<1>5. a = Append(b, Slash)
  BY <1>1, <1>2, <1>4
<1>6. a \in Seq(Alphabet) /\ IsKey(a) /\ Last(a) = Slash /\ Components(a) = Components(b)
  BY <1>1, <1>2, <1>5, KeyWithSlash, TrailingSlash
<1> QED BY <1>3, <1>6 DEF a, root, RootPath

(* To forget an account is to forget the keys below it.                     *)
LEMMA ForgottenAreBelow ==
    ASSUME NEW k \in Seq(Alphabet), IsKey(k), NEW i \in DOMAIN Roots,
           NEW account \in Seq(Alphabet \ {Slash}), account # <<>>
    PROVE  RemoveAccount({k}, Roots[i], account) = {} <=> IsStrictPrefix(Append(RootPath(i), account), Components(k))
<1> DEFINE a == Roots[i] \o account \o <<Slash>>
           path == Components(k)
<1>1. a \in Seq(Alphabet) /\ IsKey(a) /\ Last(a) = Slash /\ Components(a) = Append(RootPath(i), account)
  BY AccountKey
<1>2. k # <<>> /\ Len(k) \in Nat /\ path \in Seq(Seq(Alphabet)) /\ Slash \in Alphabet
  BY KeyFacts, RootFacts
<1>3. RemoveAccount({k}, Roots[i], account) = {} <=> Len(k) > Len(a) /\ IsPrefix(a, k)
  BY DEF RemoveAccount
<1> HIDE DEF a
<1>4. a # <<>> /\ Len(a) \in Nat /\ Len(a) >= 1 /\ a[Len(a)] = Slash
  <2>1. a # <<>>
    BY <1>1 DEF IsKey
  <2> QED BY <1>1, <2>1 DEF Last
<1>5. ASSUME Len(k) > Len(a), IsPrefix(a, k) PROVE IsPrefix(Components(a), path) /\ Components(a) # path
  <2>1. Below(k, a)
    BY <1>1, <1>5 DEF Below
  <2>2. IsPrefix(Components(a), path)
    BY <1>1, <1>4, <2>1, BelowPath
  <2>3. k[Len(a)] = Slash /\ Len(a) + 1 \in DOMAIN k /\ (Len(a) + 1) - 1 = Len(a) /\ Len(a) + 1 > 1
    <3>1. Agree(a, k, Len(a)) /\ Len(a) \in 1..Len(a)
      BY <1>1, <1>4, <1>5, PrefixMeans
    <3>2. k[Len(a)] = Slash
      BY <1>4, <3>1 DEF Agree
    <3> QED BY <1>2, <1>4, <1>5, <3>2
  <2>4. k[Len(a) + 1] # Slash
    BY <2>3 DEF IsKey
  <2>5. Len(Components(a)) + 1 \in 1..Len(path) /\ Len(Components(a)) \in Nat
    BY <1>1, <1>4, <1>5, <2>4, NextName
  <2> HIDE DEF path
  <2> QED BY <2>2, <2>5
<1>6. ASSUME IsPrefix(Components(a), path), Components(a) # path PROVE Len(k) > Len(a) /\ IsPrefix(a, k)
  <2>1. a # Append(k, Slash)
    BY <1>2, <1>6, TrailingSlash
  <2>2. IsPrefix(a, k)
    BY <1>1, <1>2, <1>6, <2>1, PathBelow DEF Below
  <2>3. Len(a) # Len(k)
    <3>1. Agree(a, k, Len(a))
      BY <1>1, <2>2, PrefixMeans
    <3> QED BY <1>1, <1>6, <3>1, AgreeSame
  <2> QED BY <1>2, <1>4, <2>2, <2>3 DEF IsPrefix
<1>7. RemoveAccount({k}, Roots[i], account) = {} <=> IsStrictPrefix(Components(a), path)
  BY <1>3, <1>5, <1>6 DEF IsStrictPrefix
<1> QED BY <1>1, <1>7

-----------------------------------------------------------------------------
(* What is read is a tree at any time, what is open is a directory of it,   *)
(* and clients make keys of the alphabet.                                   *)
KeyInv == key \in Seq(Alphabet) /\ IsTree(schema) /\ at \in DOMAIN schema /\ schema[at].type = "dir"

LEMMA FirstOfFound ==
    ASSUME NEW k PROVE FindIndex(Roots, k) = 0 \/ FindIndex(Roots, k) \in DOMAIN Roots
<1> DEFINE found == {i \in DOMAIN Roots : \/ Len(Roots[i]) = Len(k) + 1 /\ IsPrefix(k, Roots[i])
                                          \/ Occurs(Roots[i], k)}
<1>1. found \in SUBSET Nat /\ found \subseteq DOMAIN Roots
  BY RootsAssumption
<1>2. FindIndex(Roots, k) = IF found = {} THEN 0 ELSE Min(found)
  BY DEF FindIndex
<1> HIDE DEF found
<1>3. found # {} => Min(found) \in found
  BY <1>1, LeastIndex DEF Min
<1> QED BY <1>1, <1>2, <1>3

LEMMA TreeOf == ASSUME KeyInv, NEW i PROVE IsTree(SchemaOf(i))
BY OthersAssumption DEF KeyInv, SchemaOf

(* Nothing is set in a plugin that a key is not below.                      *)
LEMMA SetOfOwner ==
    ASSUME KeyInv, NEW k \in Seq(Alphabet), NEW value, CanSet(k, value)
    PROVE  Owners(k) = {FindIndex(Roots, k)}
<1> DEFINE i == FindIndex(Roots, k)
<1>1. IsKey(k) /\ i \in DOMAIN Roots
  BY FirstOfFound, ValidIsKey DEF CanSet
<1>2. PICK path \in Locate(i, k) \ {Crash} : SchemaOf(i)[path].type # "dir"
  BY DEF CanSet
<1> HIDE DEF i
<1>3. IsPrefix(Roots[i], k)
  <2> SUFFICES ASSUME ~IsPrefix(Roots[i], k) PROVE FALSE
    OBVIOUS
  <2>1. path = <<>>
    BY <1>2 DEF Locate
  <2> QED BY <1>2, <2>1, TreeOf DEF IsTree
<1>4. i \in Owners(k)
  BY <1>1, <1>3, OwnsMeans DEF Owners
<1> QED BY <1>1, <1>4, OwnersMean DEF i

LEMMA KeysDoAgree == ASSUME KeyInv PROVE KeysAgree
<1> DEFINE path == Components(key)
           owners == {i \in DOMAIN Roots : Owns(i, path)}
           below == {i \in DOMAIN Roots : IsPrefix(path, RootPath(i))}
<1> SUFFICES ASSUME ValidKey(key)
    PROVE  /\ ~Misleading(key) =>
                 /\ FindIndex(Roots, key) = (IF owners = {} THEN 0 ELSE CHOOSE i \in owners : TRUE)
                 /\ owners = {} => /\ FindPlugins(Roots, key) = below
                                   /\ FindDirectChildren(Roots, key) = {RootPath(i)[Len(path) + 1] : i \in below}
           /\ \A value \in {"1", "on", "any"} : CanSet(key, value) => owners = {FindIndex(Roots, key)}
           /\ \A i \in DOMAIN Roots, account \in Names \ {<<>>} :
                 LET accountPath == Append(RootPath(i), account)
                 IN  /\ account \in GetContexts({key}, Roots[i]) <=> IsPrefix(accountPath, path)
                     /\ RemoveAccount({key}, Roots[i], account) = {} <=> IsStrictPrefix(accountPath, path)
  BY DEF KeysAgree
<1>0. key \in Seq(Alphabet) /\ IsKey(key) /\ owners = Owners(key)
  BY ValidIsKey DEF KeyInv, Owners
<1>1. ASSUME ~Misleading(key) PROVE FindIndex(Roots, key) = (IF owners = {} THEN 0 ELSE CHOOSE i \in owners : TRUE)
  BY <1>0, <1>1, IndexIsOwner
<1>2. FindPlugins(Roots, key) = below
  BY <1>0, PluginsAreBelow
<1>3. ASSUME owners = {} PROVE FindDirectChildren(Roots, key) = {RootPath(i)[Len(path) + 1] : i \in below}
  <2>1. Owners(key) = {}
    BY <1>0, <1>3
  <2> QED BY <1>0, <1>2, <2>1, DirectChildren
<1>4. ASSUME NEW value, CanSet(key, value) PROVE owners = {FindIndex(Roots, key)}
  BY <1>0, <1>4, SetOfOwner
<1>5. ASSUME NEW i \in DOMAIN Roots, NEW account \in Names \ {<<>>}
      PROVE  /\ account \in GetContexts({key}, Roots[i]) <=> IsPrefix(Append(RootPath(i), account), path)
             /\ RemoveAccount({key}, Roots[i], account) = {} <=> IsStrictPrefix(Append(RootPath(i), account), path)
  <2>1. account \in Seq(Alphabet \ {Slash}) /\ account # <<>>
    BY NamesAssumption
  <2>2. account \in Seq(Alphabet)
    BY <2>1
  <2> QED BY <1>0, <2>1, <2>2, AccountOfKey, ForgottenAreBelow
<1> HIDE DEF path, owners, below
<1> QED BY <1>1, <1>2, <1>3, <1>4, <1>5

LEMMA KeyInvInit == Init => KeyInv
BY DEF Init, KeyInv, Dir, IsTree

(* A tree with one more directory or setting in it is a tree.               *)
LEMMA TreeGrows ==
    ASSUME NEW tree, IsTree(tree), NEW dir \in DOMAIN tree, tree[dir].type = "dir", NEW name \in Names, NEW node,
           node.type \in {"dir", "string", "int", "enum"}, Append(dir, name) \notin DOMAIN tree
    PROVE  IsTree(With(tree, Append(dir, name), node)) /\ With(tree, Append(dir, name), node)[dir] = tree[dir]
<1> DEFINE new == Append(dir, name)
           t == With(tree, new, node)
<1>0. dir \in Seq(Names) /\ new \notin DOMAIN tree
  BY DEF IsTree
<1>1. new \in Seq(Names) /\ new # <<>> /\ Front(new) = dir
  BY <1>0, Appended
<1> HIDE DEF new
<1>2. DOMAIN t = DOMAIN tree \cup {new} /\ t[new] = node /\ \A p \in DOMAIN tree : t[p] = tree[p]
  BY <1>0 DEF With
<1> HIDE DEF t
<1>3. DOMAIN t \subseteq Seq(Names) /\ <<>> \in DOMAIN t /\ t[<<>>].type = "dir"
  BY <1>1, <1>2 DEF IsTree
<1>4. ASSUME NEW p \in DOMAIN t
      PROVE  /\ t[p].type \in {"dir", "string", "int", "enum"}
             /\ p # <<>> => Front(p) \in DOMAIN t /\ t[Front(p)].type = "dir"
  <2>1. CASE p = new
    BY <1>1, <1>2, <2>1
  <2>2. CASE p \in DOMAIN tree
    <3>1. /\ tree[p].type \in {"dir", "string", "int", "enum"}
          /\ p # <<>> => Front(p) \in DOMAIN tree /\ tree[Front(p)].type = "dir"
      BY <2>2 DEF IsTree
    <3> QED BY <1>2, <2>2, <3>1
  <2> QED BY <1>2, <2>1, <2>2
<1> QED BY <1>2, <1>3, <1>4 DEF IsTree, t, new

LEMMA KeyInvNext == ASSUME KeyInv, [Next]_vars PROVE KeyInv'
<1>1. ASSUME UNCHANGED <<schema, at, key>> PROVE KeyInv'
  BY <1>1 DEF KeyInv
<1>2. CASE StartDir
  <2>1. PICK name \in Names :
           IF UnnamedHere \/ DirRefused(name) THEN Corrupt
           ELSE at' = Append(at, name) /\ schema' = With(schema, at', Dir(TRUE)) /\ UNCHANGED key
    BY <1>2 DEF StartDir
  <2>2. CASE UnnamedHere \/ DirRefused(name)
    BY <1>1, <2>1, <2>2 DEF Corrupt
  <2>3. CASE ~(UnnamedHere \/ DirRefused(name))
    <3>1. at' = Append(at, name) /\ schema' = With(schema, Append(at, name), Dir(TRUE)) /\ key' = key /\ Append(at, name) \notin DOMAIN schema
      BY <2>1, <2>3 DEF DirRefused
    <3>a. IsTree(schema) /\ at \in DOMAIN schema /\ schema[at].type = "dir"
      BY DEF KeyInv
    <3>b. Dir(TRUE).type \in {"dir", "string", "int", "enum"}
      BY DEF Dir
    <3>2. IsTree(schema')
      <4> DEFINE node == Dir(TRUE)
      <4> HIDE DEF node
      <4>1. IsTree(With(schema, Append(at, name), node))
        <5>1. Append(at, name) \notin DOMAIN schema
          BY <3>1
        <5>2. node.type \in {"dir", "string", "int", "enum"}
          BY <3>b DEF node
        <5> QED BY <3>a, <5>1, <5>2, TreeGrows
      <4> QED BY <3>1, <4>1 DEF node
    <3>3. at' \in DOMAIN schema' /\ schema'[at'].type = "dir"
      BY <3>1 DEF With, Dir
    <3> QED BY <3>1, <3>2, <3>3 DEF KeyInv
  <2> QED BY <2>2, <2>3
<1>3. CASE ParseKey
  <2>1. PICK name \in Names, type \in LeafTypes, canWrite \in BOOLEAN :
           IF UnnamedHere \/ Append(at, name) \in DOMAIN schema THEN Corrupt
           ELSE schema' = With(schema, Append(at, name), Setting(type, FALSE, canWrite)) /\ UNCHANGED <<at, key>>
    BY <1>3 DEF ParseKey
  <2>2. CASE UnnamedHere \/ Append(at, name) \in DOMAIN schema
    BY <1>1, <2>1, <2>2 DEF Corrupt
  <2>3. CASE ~(UnnamedHere \/ Append(at, name) \in DOMAIN schema)
    <3>1. schema' = With(schema, Append(at, name), Setting(type, FALSE, canWrite)) /\ UNCHANGED <<at, key>>
      BY <2>1, <2>3
    <3>2. Setting(type, FALSE, canWrite).type \in {"dir", "string", "int", "enum"}
      BY LimitsAssumption DEF Setting
    <3>3. IsTree(schema') /\ schema'[at] = schema[at]
      <4> DEFINE node == Setting(type, FALSE, canWrite)
      <4> HIDE DEF node
      <4>1. IsTree(With(schema, Append(at, name), node)) /\ With(schema, Append(at, name), node)[at] = schema[at]
        <5>1. IsTree(schema) /\ at \in DOMAIN schema /\ schema[at].type = "dir"
          BY DEF KeyInv
        <5>2. node.type \in {"dir", "string", "int", "enum"}
          BY <3>2 DEF node
        <5> QED BY <2>3, <5>1, <5>2, TreeGrows
      <4> QED BY <3>1, <4>1 DEF node
    <3>4. at \in DOMAIN schema'
      BY <3>1 DEF With, KeyInv
    <3> QED BY <3>1, <3>3, <3>4 DEF KeyInv
  <2> QED BY <2>2, <2>3
<1>4. CASE NameKey
  BY <1>4 DEF NameKey, KeyInv
<1>5. CASE EndDir
  BY <1>5 DEF EndDir, KeyInv, IsTree
<1>6. CASE EndSchema \/ UNCHANGED vars
  BY <1>1, <1>6 DEF EndSchema, vars
<1> QED BY <1>2, <1>3, <1>4, <1>5, <1>6 DEF Next

(* For any plugins whose roots pass the check at start, any schema that is  *)
(* not refused, and any key that is well formed, however long: comparing    *)
(* characters finds the plugin, the plugins below, and the account, that    *)
(* comparing paths would, and nothing is set in a plugin that the key is    *)
(* not below (provman_plugin_find_index, provman_plugin_find_plugins,       *)
(* provman_plugin_find_direct_children, prv_set_common,                     *)
(* provman_utils_get_contexts, provman_utils_remove_account).               *)
THEOREM KeysAreFoundAsPaths == Spec => []KeysAgree
<1>1. Init => KeyInv
  BY KeyInvInit
<1>2. KeyInv /\ [Next]_vars => KeyInv'
  BY KeyInvNext
<1>3. KeyInv => KeysAgree
  BY KeysDoAgree
<1> QED BY <1>1, <1>2, <1>3, PTL DEF Spec

-----------------------------------------------------------------------------
(* Where names lead in a tree: by a fold whose stages are the sets of the   *)
(* places of the names that have been followed.                             *)

StepTo(tree, dirs, name) == UNION {Child(tree, dir, name) : dir \in dirs}

Walk(tree, names) == FoldLeft(LAMBDA dirs, name : UNION {Child(tree, dir, name) : dir \in dirs}, {<<>>}, names)

Found(tree) == SUBSET (DOMAIN tree \cup {Crash})

IsWalk(it, tree, names) ==
    it[{}] = {<<>>} /\ \A s \in (SUBSET DOMAIN names) \ {{}} : it[s] = StepTo(tree, it[s \ {Max(s)}], names[Max(s)])

LEMMA LastIsThere ==
    ASSUME NEW N, NEW names \in Seq(N)
    PROVE  /\ IsFiniteSet(DOMAIN names) /\ DOMAIN names = 1..Len(names) /\ Len(names) \in Nat
           /\ \A s \in (SUBSET DOMAIN names) \ {{}} : Max(s) \in s /\ \A i \in s : i <= Max(s)
<1>1. DOMAIN names = 1..Len(names) /\ Len(names) \in Nat
  OBVIOUS
<1>2. ASSUME NEW s \in (SUBSET DOMAIN names) \ {{}} PROVE Max(s) \in s /\ \A i \in s : Max(s) >= i
  <2>1. \E j \in s : \A i \in s : j >= i
    BY <1>1, GreatestIndex
  <2> QED BY <2>1 DEF Max
<1>3. IsFiniteSet(DOMAIN names)
  BY <1>1, FS_Interval
<1>4. ASSUME NEW s \in (SUBSET DOMAIN names) \ {{}} PROVE \A i \in s : i <= Max(s)
  <2>1. \A i \in s : i \in Nat
    BY <1>1
  <2>2. Max(s) \in s /\ \A i \in s : Max(s) >= i
    BY <1>2
  <2> DEFINE m == Max(s)
  <2> HIDE DEF m
  <2>3. \A i \in s : m \in Nat /\ m >= i
    BY <2>1, <2>2 DEF m
  <2>4. \A i \in s : i <= m
    BY <2>1, <2>3
  <2> QED BY <2>4 DEF m
<1> QED BY <1>1, <1>2, <1>3, <1>4

LEMMA StepTypes ==
    ASSUME NEW tree, NEW dirs \in Found(tree), NEW name
    PROVE  StepTo(tree, dirs, name) \in Found(tree)
<1>1. \A dir \in dirs : Child(tree, dir, name) \in Found(tree)
  BY DEF Child, Found
<1> QED BY <1>1 DEF StepTo, Found

LEMMA WalkExists ==
    ASSUME NEW tree, <<>> \in DOMAIN tree, NEW N, NEW names \in Seq(N)
    PROVE  \E it \in [SUBSET DOMAIN names -> Found(tree)] : IsWalk(it, tree, names) /\ it[DOMAIN names] = Walk(tree, names)
<1> DEFINE S == DOMAIN names
           T == Found(tree)
           last(s) == Max(s)
           pick == [s \in (SUBSET S) \ {{}} |-> last(s)]
           step(s, u) == UNION {Child(tree, dir, names[last(s)]) : dir \in u}
           g == [p \in (SUBSET S) \X T |-> IF p[1] = {} THEN p[2] ELSE step(p[1], p[2])]
           IsFold(f) == f = [s \in SUBSET S |-> IF s = {} THEN {<<>>} ELSE step(s, f[s \ {last(s)}])]
           it == CHOOSE f : IsFold(f)
<1>1. IsFiniteSet(S) /\ \A s \in (SUBSET S) \ {{}} : last(s) \in s
  BY LastIsThere
<1>2. Walk(tree, names) = it[S]
  BY DEF Walk, FoldLeft, MapThenFoldSet
<1>b. IsPick(pick, S) /\ \A s \in (SUBSET S) \ {{}} : Rest(pick, s) = s \ {last(s)}
  BY <1>1 DEF IsPick, Rest
<1>c. \A s \in (SUBSET S) \ {{}}, u \in T : step(s, u) \in T
  <2> HIDE DEF last
  <2> QED BY StepTypes DEF StepTo
<1>e. \A u : \A s \in SUBSET S : step(s, u) = StepTo(tree, u, names[last(s)])
  BY DEF StepTo
<1>d. g \in [(SUBSET S) \X T -> T] /\ \A s \in (SUBSET S) \ {{}}, u \in T : g[<<s, u>>] = step(s, u)
  <2> HIDE DEF step
  <2> QED BY <1>c
<1>0. {<<>>} \in T
  BY DEF Found
<1> HIDE DEF pick, g, step, S, T
<1>3. PICK h \in [SUBSET S -> T] : IsFold(h)
  <2> HIDE DEF last
  <2>1. PICK h \in [SUBSET S -> T] : Stages(h, pick, S, {<<>>}, g)
    BY <1>0, <1>1, <1>b, <1>d, FoldExists
  <2>2. ASSUME NEW s \in SUBSET S PROVE h[s] = IF s = {} THEN {<<>>} ELSE step(s, h[s \ {last(s)}])
    <3>1. h[s \ {last(s)}] \in T
      OBVIOUS
    <3>2. CASE s = {}
      BY <2>1, <3>2 DEF Stages
    <3>3. CASE s # {}
      <4>1. h[s] = g[<<s, h[Rest(pick, s)]>>]
        BY <2>1, <3>3 DEF Stages
      <4>2. Rest(pick, s) = s \ {last(s)}
        BY <1>b, <3>3
      <4>3. g[<<s, h[s \ {last(s)}]>>] = step(s, h[s \ {last(s)}])
        BY <1>d, <3>1, <3>3
      <4> QED BY <3>3, <4>1, <4>2, <4>3
    <3> QED BY <3>2, <3>3
  <2>3. IsFold(h)
    BY <2>2
  <2> QED BY <2>3
<1>4. IsFold(it)
  BY <1>3
<1> HIDE DEF it
<1>5. ASSUME NEW f, IsFold(f) PROVE f[{}] = {<<>>} /\ \A s \in (SUBSET S) \ {{}} : f[s] = step(s, f[s \ {last(s)}])
  BY <1>5
<1>6. \A s \in SUBSET S : it[s] = h[s]
  <2> DEFINE bad == {s \in SUBSET S : it[s] # h[s]}
  <2> SUFFICES ASSUME bad # {} PROVE FALSE
    OBVIOUS
  <2>0. bad \in SUBSET (SUBSET S)
    OBVIOUS
  <2>1. \E s \in bad : \A r \in bad : r \subseteq s => r = s
    <3> HIDE DEF bad
    <3> QED BY <1>1, <2>0, LeastSet
  <2>2. PICK s \in bad : \A r \in bad : r \subseteq s => r = s
    BY <2>1
  <2>3. s \in SUBSET S /\ s # {}
    BY <1>3, <1>4, <1>5
  <2> DEFINE r == s \ {last(s)}
  <2>4. r \in SUBSET S /\ r \subseteq s /\ r # s
    BY <1>1, <2>3
  <2> HIDE DEF last
  <2>5. it[r] = h[r]
    BY <2>2, <2>4
  <2>6. it[s] = step(s, it[r]) /\ h[s] = step(s, h[r])
    BY <1>3, <1>4, <1>5, <2>3
  <2> QED BY <2>2, <2>5, <2>6
<1>7. h[S] = Walk(tree, names)
  BY <1>2, <1>6
<1>8. IsWalk(h, tree, names)
  <2>1. \A s \in (SUBSET S) \ {{}} : h[s] = StepTo(tree, h[s \ {Max(s)}], names[Max(s)])
    BY <1>3, <1>5, <1>e
  <2>2. h[{}] = {<<>>}
    BY <1>3, <1>5
  <2> QED BY <2>1, <2>2 DEF IsWalk, S
<1> QED BY <1>7, <1>8 DEF S, T

(* Names lead to one place at most.                                         *)
AtMostOne(dirs) == dirs = {} \/ \E dir : dirs = {dir}

LEMMA WalkOne ==
    ASSUME NEW tree, <<>> \in DOMAIN tree, NEW N, NEW names \in Seq(N)
    PROVE  Walk(tree, names) \in Found(tree) /\ AtMostOne(Walk(tree, names))
<1>1. PICK it \in [SUBSET DOMAIN names -> Found(tree)] : IsWalk(it, tree, names) /\ it[DOMAIN names] = Walk(tree, names)
  BY WalkExists
<1> DEFINE bad == {s \in SUBSET DOMAIN names : ~AtMostOne(it[s])}
<1> SUFFICES ASSUME bad # {} PROVE FALSE
  BY <1>1
<1>2. \E s \in bad : \A r \in bad : r \subseteq s => r = s
  <2>1. bad \in SUBSET (SUBSET DOMAIN names)
    OBVIOUS
  <2> HIDE DEF bad
  <2> QED BY <2>1, LastIsThere, LeastSet
<1>3. PICK s \in bad : \A r \in bad : r \subseteq s => r = s
  BY <1>2
<1>4. s \in (SUBSET DOMAIN names) \ {{}}
  BY <1>1 DEF IsWalk, AtMostOne
<1> DEFINE r == s \ {Max(s)}
           name == names[Max(s)]
<1>5. r \in SUBSET DOMAIN names /\ r \subseteq s /\ r # s
  BY <1>4, LastIsThere
<1>6. AtMostOne(it[r])
  BY <1>3, <1>5
<1>7. it[s] = StepTo(tree, it[r], name)
  BY <1>1, <1>4 DEF IsWalk
<1> HIDE DEF name, r
<1>8. ASSUME NEW dir PROVE AtMostOne(Child(tree, dir, name))
  <2>1. \A S, x : {x} \cap S = {} \/ {x} \cap S = {x}
    OBVIOUS
  <2>2. \/ Child(tree, dir, name) = {Crash}
        \/ Child(tree, dir, name) = {Append(dir, name)}
        \/ Child(tree, dir, name) = {Append(dir, <<>>)} \cap DOMAIN tree
    BY Zenon DEF Child
  <2> QED BY <2>1, <2>2, Zenon DEF AtMostOne
<1>9. AtMostOne(StepTo(tree, it[r], name))
  BY <1>6, <1>8 DEF AtMostOne, StepTo
<1> QED BY <1>3, <1>7, <1>9

(* To follow one name more is to go one step further.                       *)
LEMMA WalkFurther ==
    ASSUME NEW tree, <<>> \in DOMAIN tree, NEW N, NEW names \in Seq(N), NEW name \in N
    PROVE  /\ Walk(tree, Append(names, name)) = StepTo(tree, Walk(tree, names), name)
           /\ Walk(tree, <<>>) = {<<>>}
<1> DEFINE more == Append(names, name)
           S == DOMAIN names
<1>1. PICK it \in [SUBSET S -> Found(tree)] : IsWalk(it, tree, names) /\ it[S] = Walk(tree, names)
  BY WalkExists
<1>2. more \in Seq(N) /\ Len(more) = Len(names) + 1 /\ more[Len(more)] = name /\ \A i \in 1..Len(names) : more[i] = names[i]
  OBVIOUS
<1> HIDE DEF more
<1>3. PICK to \in [SUBSET DOMAIN more -> Found(tree)] : IsWalk(to, tree, more) /\ to[DOMAIN more] = Walk(tree, more)
  BY <1>2, WalkExists
<1>4. S = 1..Len(names) /\ Len(names) \in Nat /\ DOMAIN more = 1..Len(names) + 1
  BY <1>2
<1>5. \A s \in SUBSET S : it[s] = to[s]
  <2> DEFINE bad == {s \in SUBSET S : it[s] # to[s]}
  <2> SUFFICES ASSUME bad # {} PROVE FALSE
    OBVIOUS
  <2>1. bad \in SUBSET (SUBSET S) /\ IsFiniteSet(S)
    BY LastIsThere
  <2>2. PICK s \in bad : \A r \in bad : r \subseteq s => r = s
    <3>1. \E s \in bad : \A r \in bad : r \subseteq s => r = s
      <4> HIDE DEF bad, S
      <4> QED BY <2>1, LeastSet
    <3> QED BY <3>1
  <2>a. it[{}] = to[{}]
    BY <1>1, <1>3 DEF IsWalk
  <2>b. s # {} /\ s \in SUBSET S
    BY <2>a
  <2>3. s \in (SUBSET S) \ {{}} /\ s \in (SUBSET DOMAIN more) \ {{}}
    BY <1>4, <2>b
  <2> DEFINE m == Max(s)
             r == s \ {m}
  <2>4. m \in s /\ r \in SUBSET S /\ r \subseteq s /\ r # s
    BY <2>3, LastIsThere
  <2>5. it[r] = to[r]
    BY <2>2, <2>4
  <2>6. it[s] = StepTo(tree, it[r], names[m]) /\ to[s] = StepTo(tree, to[r], more[m])
    BY <1>1, <1>3, <2>3 DEF IsWalk
  <2>7. names[m] = more[m]
    <3> HIDE DEF m
    <3> QED BY <1>2, <1>4, <2>3, <2>4
  <2> QED BY <2>2, <2>5, <2>6, <2>7
<1> DEFINE all == DOMAIN more
<1>6. all \in (SUBSET DOMAIN more) \ {{}} /\ Max(all) \in all /\ \A i \in all : i <= Max(all)
  BY <1>2, <1>4, LastIsThere
<1>7. Max(all) = Len(names) + 1
  <2> DEFINE m == Max(all)
             l == Len(names) + 1
  <2>1. l \in all
    BY <1>4
  <2>2. m \in all /\ l <= m
    BY <1>6, <2>1
  <2> HIDE DEF m
  <2>3. m = l
    BY <1>4, <2>2
  <2> QED BY <2>3 DEF m
<1>8. all \ {Max(all)} = S
  BY <1>4, <1>7
<1>9. to[all] = StepTo(tree, to[S], name)
  BY <1>2, <1>3, <1>6, <1>7, <1>8 DEF IsWalk
<1>10. Walk(tree, <<>>) = {<<>>}
  <2>1. <<>> \in Seq(N) /\ DOMAIN <<>> = {}
    OBVIOUS
  <2>2. PICK f \in [SUBSET DOMAIN <<>> -> Found(tree)] : IsWalk(f, tree, <<>>) /\ f[DOMAIN <<>>] = Walk(tree, <<>>)
    BY <2>1, WalkExists
  <2> QED BY <2>1, <2>2 DEF IsWalk
<1> QED BY <1>1, <1>3, <1>5, <1>9, <1>10 DEF more

-----------------------------------------------------------------------------
(* The keys of a directory and of what is in it. *)

(* A key with a slash at its end.                                           *)
Within(k) == IF Last(k) = Slash THEN k ELSE Append(k, Slash)

After(k, n) == SubSeq(k, n + 1, Len(k))

LEMMA AfterAppended ==
    ASSUME NEW C, NEW s \in Seq(C), NEW t \in Seq(C), NEW n \in 0..Len(s)
    PROVE  After(s \o t, n) = After(s, n) \o t
<1> DEFINE a == After(s \o t, n)
           b == After(s, n) \o t
<1>1. s \o t \in Seq(C) /\ Len(s \o t) = Len(s) + Len(t) /\ Len(s) \in Nat /\ Len(t) \in Nat
  OBVIOUS
<1>2. a \in Seq(C) /\ Len(a) = Len(s) + Len(t) - n /\ \A j \in 1..Len(a) : a[j] = (s \o t)[n + j]
  <2> DEFINE l == s \o t
  <2> HIDE DEF l
  <2>1. l \in Seq(C) /\ Len(l) = Len(s) + Len(t)
    BY <1>1 DEF l
  <2>2. SubSeq(l, n + 1, Len(l)) \in Seq(C) /\ Len(SubSeq(l, n + 1, Len(l))) = Len(s) + Len(t) - n
        /\ \A j \in 1..Len(SubSeq(l, n + 1, Len(l))) : SubSeq(l, n + 1, Len(l))[j] = l[n + j]
    BY <1>1, <2>1
  <2> QED BY <2>2 DEF After, l
<1>3. After(s, n) \in Seq(C) /\ Len(After(s, n)) = Len(s) - n /\ \A j \in 1..Len(s) - n : After(s, n)[j] = s[n + j]
  BY DEF After
<1>4. b \in Seq(C) /\ Len(b) = Len(s) - n + Len(t)
  <2> DEFINE c == After(s, n)
  <2> HIDE DEF c
  <2>1. c \in Seq(C) /\ Len(c) = Len(s) - n
    BY <1>3 DEF c
  <2>2. c \o t \in Seq(C) /\ Len(c \o t) = Len(c) + Len(t)
    BY <2>1
  <2> QED BY <2>1, <2>2 DEF c
<1>5. \A j \in 1..Len(s) + Len(t) - n : (s \o t)[n + j] = b[j]
  <2> TAKE j \in 1..Len(s) + Len(t) - n
  <2>1. n + j \in 1..Len(s) + Len(t)
    BY <1>1
  <2>2. (s \o t)[n + j] = IF n + j <= Len(s) THEN s[n + j] ELSE t[n + j - Len(s)]
    BY <2>1
  <2>3. b[j] = IF j <= Len(s) - n THEN After(s, n)[j] ELSE t[j - (Len(s) - n)]
    <3> DEFINE c == After(s, n)
    <3> HIDE DEF c
    <3>1. c \in Seq(C) /\ Len(c) = Len(s) - n
      BY <1>3 DEF c
    <3>2. j \in 1..Len(c) + Len(t)
      BY <3>1
    <3>3. (c \o t)[j] = IF j <= Len(c) THEN c[j] ELSE t[j - Len(c)]
      BY <3>1, <3>2
    <3> QED BY <3>1, <3>3 DEF c
  <2>4. n + j <= Len(s) <=> j <= Len(s) - n
    BY <1>1
  <2>5. n + j - Len(s) = j - (Len(s) - n)
    BY <1>1
  <2>6. j <= Len(s) - n => j \in 1..Len(s) - n
    OBVIOUS
  <2> QED BY <1>3, <2>2, <2>3, <2>4, <2>5, <2>6
<1> HIDE DEF a, b
<1>6. Len(a) = Len(b) /\ Len(a) \in Nat /\ \A j \in 1..Len(a) : a[j] = b[j]
  <2>1. Len(a) = Len(s) + Len(t) - n /\ Len(b) = Len(s) + Len(t) - n
    BY <1>1, <1>2, <1>4
  <2>2. Len(a) \in Nat /\ Len(a) = Len(b)
    BY <1>1, <2>1
  <2>3. ASSUME NEW j \in 1..Len(a) PROVE a[j] = b[j]
    <3>1. j \in 1..Len(s) + Len(t) - n
      BY <2>1
    <3>2. (s \o t)[n + j] = b[j]
      BY <1>5, <3>1
    <3> QED BY <1>2, <3>2
  <2> QED BY <2>2, <2>3
<1>7. Agree(a, b, Len(a))
  BY <1>6 DEF Agree
<1>8. a = b
  BY <1>2, <1>4, <1>6, <1>7, AgreeSame
<1> QED BY <1>8 DEF a, b

LEMMA PrefixOfPrefix ==
    ASSUME NEW C, NEW r \in Seq(C), NEW s \in Seq(C), NEW t \in Seq(C), IsPrefix(r, s), IsPrefix(s, t)
    PROVE  IsPrefix(r, t) /\ Len(r) <= Len(t)
<1>1. Agree(r, s, Len(r)) /\ Agree(s, t, Len(s)) /\ Len(r) \in Nat /\ Len(s) \in Nat /\ Len(t) \in Nat
  BY PrefixMeans
<1>2. Agree(r, t, Len(r)) /\ Len(r) <= Len(t)
  <2>1. \A j \in 1..Len(r) : j \in 1..Len(s)
    BY <1>1 DEF Agree
  <2> QED BY <1>1, <2>1 DEF Agree
<1> QED BY <1>2, PrefixMeans

LEMMA WithinMeans ==
    ASSUME NEW k \in Seq(Alphabet), IsKey(k)
    PROVE  /\ Within(k) \in Seq(Alphabet) /\ IsKey(Within(k)) /\ Within(k) # <<>> /\ Last(Within(k)) = Slash
           /\ Components(Within(k)) = Components(k) /\ IsPrefix(k, Within(k))
<1>0. k # <<>> /\ Slash \in Alphabet
  BY KeyFacts, RootFacts
<1>1. CASE Last(k) = Slash
  BY <1>0, <1>1 DEF Within, IsPrefix
<1>2. CASE Last(k) # Slash
  BY <1>0, <1>2, KeyWithSlash, TrailingSlash DEF Within
<1> QED BY <1>1, <1>2

LEMMA ChildMeans ==
    ASSUME NEW k \in Seq(Alphabet), IsKey(k), NEW name \in Seq(Alphabet \ {Slash}), name # <<>>
    PROVE  /\ KeyWithin(k, name) = Within(k) \o name
           /\ KeyWithin(k, name) \in Seq(Alphabet) /\ IsKey(KeyWithin(k, name)) /\ Last(KeyWithin(k, name)) # Slash
           /\ Components(KeyWithin(k, name)) = Append(Components(k), name)
           /\ IsPrefix(Within(k), KeyWithin(k, name)) /\ IsPrefix(k, KeyWithin(k, name))
<1> DEFINE w == Within(k)
           c == w \o name
<1>1. KeyWithin(k, name) = c
  BY DEF KeyWithin, Within
<1>2. w \in Seq(Alphabet) /\ IsKey(w) /\ w # <<>> /\ Last(w) = Slash /\ Components(w) = Components(k) /\ IsPrefix(k, w)
  BY WithinMeans
<1> HIDE DEF w
<1>3. c \in Seq(Alphabet) /\ IsKey(c) /\ Last(c) # Slash /\ IsPrefix(w, c)
  BY <1>2, KeyWithName
<1>4. Components(c) = Append(Components(w), name)
  BY <1>2, NameAppended
<1> HIDE DEF c
<1>5. IsPrefix(k, c)
  BY <1>2, <1>3, PrefixOfPrefix
<1> QED BY <1>1, <1>2, <1>3, <1>4, <1>5 DEF w, c

(* The root of the plugin that a key is below begins it, but for a slash.   *)
LEMMA RootWithin ==
    ASSUME NEW k \in Seq(Alphabet), IsKey(k), NEW i \in DOMAIN Roots, Owns(i, Components(k))
    PROVE  /\ IsPrefix(Roots[i], Within(k)) /\ Len(Roots[i]) \in 0..Len(Within(k))
           /\ ~IsPrefix(Roots[i], k) => Roots[i] = Append(k, Slash) /\ Last(k) # Slash
<1> DEFINE root == Roots[i]
           w == Within(k)
<1>1. root \in Seq(Alphabet) /\ IsKey(root) /\ Len(root) > 1 /\ Len(root) \in Nat
  BY RootFacts
<1>2. IsPrefix(root, k) \/ root = Append(k, Slash)
  BY OwnsMeans
<1>3. w \in Seq(Alphabet) /\ IsPrefix(k, w)
  BY WithinMeans
<1> HIDE DEF root, w
<1>4. ASSUME root = Append(k, Slash) PROVE Last(k) # Slash
  <2> SUFFICES ASSUME Last(k) = Slash PROVE FALSE
    OBVIOUS
  <2>1. Len(k) \in Nat /\ Len(k) >= 1 /\ k[Len(k)] = Slash
    BY KeyFacts DEF Last
  <2>2. Len(k) + 1 \in DOMAIN Append(k, Slash) /\ Append(k, Slash)[Len(k)] = Slash /\ Append(k, Slash)[Len(k) + 1] = Slash
        /\ Len(k) + 1 > 1 /\ (Len(k) + 1) - 1 = Len(k)
    BY <2>1
  <2> QED BY <1>1, <1>4, <2>2 DEF IsKey
<1>5. IsPrefix(root, w)
  <2>1. CASE IsPrefix(root, k)
    BY <1>1, <1>3, <2>1, PrefixOfPrefix
  <2>2. CASE root = Append(k, Slash)
    <3>1. w = root
      BY <1>4, <2>2 DEF Within, w
    <3>2. IsPrefix(root, root)
      BY <1>1 DEF IsPrefix
    <3> QED BY <3>1, <3>2
  <2> QED BY <1>2, <2>1, <2>2
<1>6. Len(root) <= Len(w) /\ Len(w) \in Nat
  BY <1>3, <1>5 DEF IsPrefix
<1> QED BY <1>1, <1>2, <1>4, <1>5, <1>6 DEF root, w

(* Where a key is found is where the names lead that follow the root.       *)
LEMMA LocateWithin ==
    ASSUME KeyInv, NEW k \in Seq(Alphabet), IsKey(k), NEW i \in DOMAIN Roots, Owns(i, Components(k))
    PROVE  /\ Locate(i, k) = Walk(SchemaOf(i), Components(After(Within(k), Len(Roots[i]))))
           /\ Locate(i, Within(k)) = Locate(i, k)
<1> DEFINE root == Roots[i]
           n == Len(root)
           w == Within(k)
           tree == SchemaOf(i)
<1>1. IsPrefix(root, w) /\ n \in 0..Len(w) /\ (~IsPrefix(root, k) => root = Append(k, Slash) /\ Last(k) # Slash)
  BY RootWithin
<1>2. root \in Seq(Alphabet) /\ w \in Seq(Alphabet) /\ Last(root) = Slash /\ Slash \in Alphabet /\ n \in Nat /\ n > 1
  BY RootFacts, WithinMeans
<1>3. \A key1 : IsPrefix(root, key1) => Locate(i, key1) = Walk(tree, Components(After(key1, n)))
  BY DEF Locate, Walk, After
<1>4. Locate(i, w) = Walk(tree, Components(After(w, n)))
  BY <1>1, <1>3
<1>5. CASE Last(k) = Slash
  BY <1>1, <1>4, <1>5 DEF Within
<1>6. CASE IsPrefix(root, k) /\ Last(k) # Slash
  <2>1. w = Append(k, Slash) /\ w = k \o <<Slash>> /\ <<Slash>> \in Seq(Alphabet)
    BY <1>2, <1>6 DEF Within
  <2>2. Len(k) \in Nat /\ n <= Len(k) /\ k # root
    BY <1>2, <1>6 DEF IsPrefix
  <2>3. n < Len(k)
    <3> SUFFICES ASSUME n = Len(k) PROVE FALSE
      BY <1>2, <2>2
    <3> HIDE DEF root
    <3>1. Agree(root, k, Len(root))
      BY <1>2, <1>6, PrefixMeans
    <3> QED BY <1>2, <2>2, <3>1, AgreeSame
  <2>4. After(w, n) = After(k, n) \o <<Slash>>
    <3>1. n \in 0..Len(k)
      BY <1>2, <2>2
    <3> HIDE DEF n, w
    <3> QED BY <2>1, <3>1, AfterAppended
  <2>5. After(k, n) \in Seq(Alphabet) /\ After(k, n) # <<>>
    <3>1. After(k, n) \in Seq(Alphabet) /\ Len(After(k, n)) = Len(k) - n
      BY <1>2, <2>2, <2>3 DEF After
    <3> HIDE DEF n
    <3> QED BY <1>2, <2>2, <2>3, <3>1
  <2>6. Components(After(w, n)) = Components(After(k, n))
    <3> DEFINE a == After(k, n)
    <3> HIDE DEF a
    <3>1. a \in Seq(Alphabet) /\ a # <<>> /\ After(w, n) = Append(a, Slash)
      BY <1>2, <2>4, <2>5 DEF a
    <3>2. Components(Append(a, Slash)) = Components(a)
      BY <1>2, <3>1, TrailingSlash
    <3> QED BY <3>1, <3>2 DEF a
  <2> QED BY <1>3, <1>4, <1>6, <2>6
<1>7. CASE ~IsPrefix(root, k)
  <2>1. w = root /\ root = Append(k, Slash)
    BY <1>1, <1>7 DEF Within
  <2>2. Locate(i, k) = {<<>>}
    <3>1. Front(root) = k
      <4>1. Front(Append(k, Slash)) = k
        BY <1>2, Appended
      <4> QED BY <2>1, <4>1
    <3> QED BY <1>7, <3>1 DEF Locate
  <2>3. After(w, n) = <<>>
    <3> HIDE DEF root
    <3> QED BY <1>2, <2>1 DEF After
  <2>4. Components(After(w, n)) = <<>>
    <3>1. <<"a">> \in Seq({"a"} \ {Slash}) /\ <<"a">> # <<>>
      BY DEF Slash
    <3>2. Components(<<>>) = <<>>
      BY <3>1, NameAlone
    <3> QED BY <2>3, <3>2
  <2>5. Walk(tree, <<>>) = {<<>>}
    <3>1. <<>> \in DOMAIN tree
      BY TreeOf DEF IsTree
    <3>2. <<>> \in Seq({1}) /\ 1 \in {1}
      OBVIOUS
    <3> HIDE DEF tree
    <3> QED BY <3>1, <3>2, WalkFurther
  <2> QED BY <1>4, <2>2, <2>4, <2>5
<1> QED BY <1>5, <1>6, <1>7

(* What is in a directory is one step further.                              *)
LEMMA LocateChild ==
    ASSUME KeyInv, NEW k \in Seq(Alphabet), IsKey(k), NEW i \in DOMAIN Roots, Owns(i, Components(k)),
           NEW name \in Seq(Alphabet \ {Slash}), name # <<>>
    PROVE  Locate(i, KeyWithin(k, name)) = StepTo(SchemaOf(i), Locate(i, k), name)
<1> DEFINE root == Roots[i]
           n == Len(root)
           w == Within(k)
           c == w \o name
           a == After(w, n)
           tree == SchemaOf(i)
<1>1. IsPrefix(root, w) /\ n \in 0..Len(w)
  BY RootWithin
<1>2. root \in Seq(Alphabet) /\ w \in Seq(Alphabet) /\ w # <<>> /\ Last(w) = Slash /\ n \in Nat
  BY RootFacts, WithinMeans
<1>3. KeyWithin(k, name) = c /\ c \in Seq(Alphabet) /\ IsPrefix(w, c)
  BY ChildMeans
<1>4. Locate(i, k) = Walk(tree, Components(a))
  BY LocateWithin
<1>5. Locate(i, c) = Walk(tree, Components(After(c, n)))
  <2>1. IsPrefix(root, c)
    <3> HIDE DEF root, c, w
    <3> QED BY <1>1, <1>2, <1>3, PrefixOfPrefix
  <2> QED BY <2>1 DEF Locate, Walk, After
<1>6. <<>> \in DOMAIN tree
  BY TreeOf DEF IsTree
<1> HIDE DEF root, n, w, tree
<1>7. After(c, n) = a \o name
  <2>1. name \in Seq(Alphabet)
    OBVIOUS
  <2> QED BY <1>1, <1>2, <2>1, AfterAppended
<1>8. a \in Seq(Alphabet) /\ (a # <<>> => Last(a) = Slash)
  <2>1. a \in Seq(Alphabet) /\ Len(a) = Len(w) - n /\ \A j \in 1..Len(w) - n : a[j] = w[n + j]
    BY <1>1, <1>2 DEF After
  <2> HIDE DEF a
  <2>2. ASSUME a # <<>> PROVE Last(a) = Slash
    <3>1. Len(a) \in 1..Len(w) - n /\ n + Len(a) = Len(w)
      BY <1>1, <1>2, <2>1, <2>2
    <3> QED BY <1>2, <2>1, <3>1 DEF Last
  <2> QED BY <2>1, <2>2
<1> HIDE DEF a, c
<1>9. Components(a) \in Seq(Seq(Alphabet)) /\ Components(a \o name) = Append(Components(a), name)
  <2>1. CASE a = <<>>
    <3>1. <<>> \o name = name
      OBVIOUS
    <3>2. Components(name) = <<name>> /\ Components(<<>>) = <<>>
      BY NameAlone
    <3>3. Components(a \o name) = <<name>> /\ Components(a) = <<>>
      BY <2>1, <3>1, <3>2
    <3> QED BY <3>3
  <2>2. CASE a # <<>>
    BY <1>8, <2>2, NameAppended, ComponentAt
  <2> QED BY <2>1, <2>2
<1>10. name \in Seq(Alphabet)
  OBVIOUS
<1>11. Walk(tree, Append(Components(a), name)) = StepTo(tree, Walk(tree, Components(a)), name)
  BY <1>6, <1>9, <1>10, WalkFurther
<1> QED BY <1>3, <1>4, <1>5, <1>7, <1>9, <1>11 DEF tree

(* What begins a key that misleads nobody misleads nobody.                  *)
LEMMA MisleadingMore ==
    ASSUME NEW k \in Seq(Alphabet), NEW l \in Seq(Alphabet), IsPrefix(k, l), Misleading(k)
    PROVE  Misleading(l)
<1>1. PICK i \in DOMAIN Roots : Occurs(Roots[i], k) /\ ~IsPrefix(Roots[i], k)
  BY DEF Misleading
<1> DEFINE root == Roots[i]
<1>2. root \in Seq(Alphabet) /\ Len(root) \in Nat
  BY RootFacts
<1>3. PICK m \in 1..Len(k) : IsPrefix(root, SubSeq(k, m, Len(k)))
  BY <1>1 DEF Occurs
<1>4. Agree(k, l, Len(k)) /\ Len(k) \in Nat /\ Len(l) \in Nat /\ Len(k) <= Len(l)
  BY PrefixMeans DEF Agree
<1>5. ~IsPrefix(root, k)
  BY <1>1
<1> HIDE DEF root
<1> DEFINE s == SubSeq(k, m, Len(k))
           t == SubSeq(l, m, Len(l))
<1>6. s \in Seq(Alphabet) /\ Len(s) = Len(k) - m + 1 /\ \A j \in 1..Len(k) - m + 1 : s[j] = k[m + j - 1]
  BY <1>4
<1>7. t \in Seq(Alphabet) /\ Len(t) = Len(l) - m + 1 /\ \A j \in 1..Len(l) - m + 1 : t[j] = l[m + j - 1]
  BY <1>4
<1> HIDE DEF s, t
<1>8. Agree(root, s, Len(root)) /\ Len(root) <= Len(k) - m + 1 /\ Len(root) <= Len(k)
  <2>1. Agree(root, s, Len(root))
    BY <1>2, <1>3, <1>6, PrefixMeans DEF s
  <2> QED BY <1>2, <1>4, <1>6, <2>1 DEF Agree
<1>9. Agree(s, t, Len(s))
  <2>1. ASSUME NEW j \in 1..Len(s) PROVE s[j] = t[j]
    <3>1. j \in 1..Len(k) - m + 1 /\ j \in 1..Len(l) - m + 1 /\ m + j - 1 \in 1..Len(k)
      BY <1>4, <1>6
    <3> QED BY <1>4, <1>6, <1>7, <3>1 DEF Agree
  <2> QED BY <1>4, <1>6, <1>7, <2>1 DEF Agree
<1>10. IsPrefix(root, t)
  <2>1. IsPrefix(s, t) /\ IsPrefix(root, s)
    BY <1>2, <1>6, <1>7, <1>8, <1>9, PrefixMeans
  <2> QED BY <1>2, <1>6, <1>7, <2>1, PrefixOfPrefix
<1>11. Occurs(root, l)
  <2>1. m \in 1..Len(l)
    BY <1>4
  <2> QED BY <1>10, <2>1 DEF Occurs, t
<1>12. ~IsPrefix(root, l)
  <2> SUFFICES ASSUME IsPrefix(root, l) PROVE FALSE
    OBVIOUS
  <2>1. Agree(root, l, Len(root))
    BY <1>2, PrefixMeans
  <2>2. Agree(root, k, Len(root))
    <3>1. \A j \in 1..Len(root) : j \in 1..Len(k)
      BY <1>2, <1>4, <1>8
    <3> QED BY <1>4, <1>8, <2>1, <3>1 DEF Agree
  <2> QED BY <1>2, <1>5, <2>2, PrefixMeans
<1> QED BY <1>11, <1>12 DEF Misleading, root

-----------------------------------------------------------------------------
(* What is told of a place in a tree and of what is in it. *)

TypeAt(tree, found) ==
    IF found = {} THEN NotFound ELSE IF found = {Crash} THEN "crash" ELSE tree[CHOOSE path \in found : TRUE].type

ChildrenAt(tree, found) ==
    IF TypeAt(tree, found) # "dir" THEN NoChildren
    ELSE LET dir == CHOOSE path \in found : TRUE
         IN  [name \in {Last(path) : path \in Children(tree, dir)} |-> tree[Append(dir, name)].type]

(* The type of a name, among those of the children.                         *)
TypeAmong(children, name) ==
    IF name \in DOMAIN children THEN children[name]
    ELSE IF <<>> \in DOMAIN children THEN children[<<>>] ELSE NotFound

LEMMA NoCrashInside == ASSUME NEW tree, IsTree(tree) PROVE Crash \notin DOMAIN tree
<1> SUFFICES ASSUME Crash \in DOMAIN tree PROVE FALSE
  OBVIOUS
<1>1. Crash \in Seq(Names)
  BY DEF IsTree
<1>2. 1 \in DOMAIN Crash /\ Crash[1] = <<"crash">>
  BY DEF Crash
<1>3. <<"crash">> \in Names
  BY <1>1, <1>2
<1>4. <<"crash">> \in Seq(Alphabet \ {Slash})
  BY <1>3, NamesAssumption
<1>5. 1 \in DOMAIN <<"crash">> /\ <<"crash">>[1] = "crash"
  OBVIOUS
<1>6. "crash" \in Alphabet
  <2> DEFINE s == <<"crash">>
  <2>1. s \in Seq(Alphabet \ {Slash}) /\ 1 \in DOMAIN s /\ s[1] = "crash"
    BY <1>4, <1>5
  <2> HIDE DEF s
  <2>2. s[1] \in Alphabet \ {Slash}
    BY <2>1
  <2> QED BY <2>1, <2>2
<1> QED BY <1>6, NamesAssumption

(* The names in a directory.                                                *)
LEMMA NamesInside ==
    ASSUME NEW tree, IsTree(tree), NEW dir \in DOMAIN tree, NEW name
    PROVE  /\ name \in {Last(path) : path \in Children(tree, dir)} => Append(dir, name) \in DOMAIN tree
           /\ name \in Names /\ Append(dir, name) \in DOMAIN tree => name \in {Last(path) : path \in Children(tree, dir)}
<1>0. DOMAIN tree \subseteq Seq(Names) /\ dir \in Seq(Names)
  BY DEF IsTree
<1>1. ASSUME NEW path \in Children(tree, dir), name = Last(path) PROVE Append(dir, name) \in DOMAIN tree
  <2>1. path \in DOMAIN tree /\ path # <<>> /\ Front(path) = dir /\ path \in Seq(Names)
    BY <1>0 DEF Children
  <2>2. \E x : x \in Names
    <3>1. Len(path) \in DOMAIN path /\ path[Len(path)] \in Names
      BY <2>1
    <3> QED BY <3>1
  <2>3. path = Append(Front(path), Last(path))
    BY <2>1, FrontAndLast
  <2> QED BY <1>1, <2>1, <2>3
<1>2. ASSUME name \in Names, Append(dir, name) \in DOMAIN tree PROVE name \in {Last(path) : path \in Children(tree, dir)}
  <2> DEFINE new == Append(dir, name)
  <2>1. new # <<>> /\ Front(new) = dir /\ Last(new) = name
    BY <1>0, <1>2, Appended
  <2>2. new \in DOMAIN tree
    BY <1>2
  <2> HIDE DEF new
  <2>3. new \in Children(tree, dir)
    BY <2>1, <2>2 DEF Children
  <2> QED BY <2>1, <2>3
<1> QED BY <1>1, <1>2

(* What is found one step further is what is told of it from here.          *)
LEMMA StepAgrees ==
    ASSUME NEW tree, IsTree(tree), NEW found \in Found(tree), AtMostOne(found), NEW name \in Names
    PROVE  TypeAt(tree, StepTo(tree, found, name)) \in {"crash", TypeAmong(ChildrenAt(tree, found), name)}
<1>1. CASE found = {}
  <2>1. StepTo(tree, found, name) = {} /\ TypeAt(tree, found) = NotFound
    BY <1>1 DEF StepTo, TypeAt
  <2>2. ChildrenAt(tree, found) = NoChildren /\ DOMAIN NoChildren = {}
    BY <2>1 DEF ChildrenAt, NotFound, NoChildren
  <2> QED BY <2>1, <2>2 DEF TypeAt, TypeAmong
<1>2. CASE found = {Crash}
  <2>1. StepTo(tree, found, name) = Child(tree, Crash, name)
    BY <1>2 DEF StepTo
  <2>2. Child(tree, Crash, name) = {Crash}
    BY DEF Child
  <2> QED BY <2>1, <2>2 DEF TypeAt
<1>3. CASE found # {} /\ found # {Crash}
  <2>1. PICK dir : found = {dir}
    BY <1>3 DEF AtMostOne
  <2>2. dir \in DOMAIN tree /\ dir # Crash
    BY <1>3, <2>1 DEF Found
  <2>3. StepTo(tree, found, name) = Child(tree, dir, name)
    BY <2>1 DEF StepTo
  <2>4. (CHOOSE path \in found : TRUE) = dir
    BY <2>1
  <2>5. TypeAt(tree, found) = tree[dir].type
    BY <1>3, <2>4 DEF TypeAt
  <2>6. dir \in Seq(Names) /\ tree[dir].type \in {"dir", "string", "int", "enum"}
    BY <2>2 DEF IsTree
  <2>7. ASSUME NEW path \in DOMAIN tree PROVE TypeAt(tree, {path}) = tree[path].type
    <3>1. path # Crash
      BY NoCrashInside
    <3>2. {path} # {} /\ {path} # {Crash} /\ (CHOOSE p \in {path} : TRUE) = path
      BY <3>1
    <3> QED BY <3>2 DEF TypeAt
  <2>8. CASE tree[dir].type \in {"int", "enum"}
    <3>1. StepTo(tree, found, name) = {Crash}
      BY <2>3, <2>8 DEF Child
    <3> QED BY <3>1 DEF TypeAt
  <2>9. CASE tree[dir].type = "string"
    <3>1. ASSUME NEW nm, Append(dir, nm) \in DOMAIN tree PROVE FALSE
      <4>1. Append(dir, nm) \in Seq(Names)
        BY <3>1 DEF IsTree
      <4>2. nm \in Names
        <5> DEFINE new == Append(dir, nm)
        <5>1. Len(dir) + 1 \in DOMAIN new /\ new[Len(dir) + 1] = nm
          BY <2>6
        <5>2. new \in Seq(Names)
          BY <4>1
        <5> HIDE DEF new
        <5> QED BY <5>1, <5>2
      <4>3. Append(dir, nm) # <<>> /\ Front(Append(dir, nm)) = dir
        BY <2>6, <4>2, Appended
      <4>4. tree[dir].type = "dir"
        BY <3>1, <4>3 DEF IsTree
      <4> QED BY <2>9, <4>4
    <3>2. Child(tree, dir, name) = {}
      BY <2>2, <2>9, <3>1 DEF Child
    <3>3. ChildrenAt(tree, found) = NoChildren /\ DOMAIN NoChildren = {}
      BY <2>5, <2>9 DEF ChildrenAt, NoChildren
    <3> QED BY <2>3, <3>2, <3>3 DEF TypeAt, TypeAmong
  <2>10. CASE tree[dir].type = "dir"
    <3> DEFINE cs == ChildrenAt(tree, found)
               names == {Last(path) : path \in Children(tree, dir)}
    <3>1. cs = [nm \in names |-> tree[Append(dir, nm)].type]
      <4> DEFINE inside(d) == [nm \in {Last(path) : path \in Children(tree, d)} |-> tree[Append(d, nm)].type]
      <4>1. TypeAt(tree, found) = "dir"
        BY <2>5, <2>10
      <4>2. ChildrenAt(tree, found) = inside(CHOOSE path \in found : TRUE)
        BY <4>1, Zenon DEF ChildrenAt
      <4>3. inside(dir) = [nm \in names |-> tree[Append(dir, nm)].type]
        OBVIOUS
      <4> HIDE DEF inside
      <4> QED BY <2>4, <4>2, <4>3
    <3>2. Append(dir, name) \in DOMAIN tree <=> name \in names
      BY <2>2, NamesInside
    <3>3. Append(dir, <<>>) \in DOMAIN tree <=> <<>> \in names
      <4>1. ASSUME Append(dir, <<>>) \in DOMAIN tree PROVE <<>> \in Names
        <5> DEFINE new == Append(dir, <<>>)
        <5>1. Len(dir) + 1 \in DOMAIN new /\ new[Len(dir) + 1] = <<>>
          BY <2>6
        <5>2. new \in Seq(Names)
          BY <4>1 DEF IsTree
        <5> HIDE DEF new
        <5> QED BY <5>1, <5>2
      <4> QED BY <2>2, <4>1, NamesInside
    <3> HIDE DEF names, cs
    <3>4. Child(tree, dir, name) = IF Append(dir, name) \in DOMAIN tree THEN {Append(dir, name)}
                                   ELSE IF Append(dir, <<>>) \in DOMAIN tree THEN {Append(dir, <<>>)} ELSE {}
      BY <2>2, <2>10 DEF Child
    <3>5. CASE name \in names
      <4>1. Child(tree, dir, name) = {Append(dir, name)} /\ Append(dir, name) \in DOMAIN tree
        BY <3>2, <3>4, <3>5
      <4>2. TypeAt(tree, Child(tree, dir, name)) = tree[Append(dir, name)].type
        BY <2>7, <4>1
      <4>3. TypeAmong(cs, name) = tree[Append(dir, name)].type
        BY <3>1, <3>5 DEF TypeAmong
      <4> QED BY <2>3, <4>2, <4>3 DEF cs
    <3>6. CASE name \notin names /\ <<>> \in names
      <4>1. Child(tree, dir, name) = {Append(dir, <<>>)} /\ Append(dir, <<>>) \in DOMAIN tree
        BY <3>2, <3>3, <3>4, <3>6
      <4>2. TypeAt(tree, Child(tree, dir, name)) = tree[Append(dir, <<>>)].type
        BY <2>7, <4>1
      <4>3. TypeAmong(cs, name) = tree[Append(dir, <<>>)].type
        BY <3>1, <3>6 DEF TypeAmong
      <4> QED BY <2>3, <4>2, <4>3 DEF cs
    <3>7. CASE name \notin names /\ <<>> \notin names
      <4>1. Child(tree, dir, name) = {}
        BY <3>2, <3>3, <3>4, <3>7
      <4>2. TypeAmong(cs, name) = NotFound
        BY <3>1, <3>7 DEF TypeAmong
      <4> QED BY <2>3, <4>1, <4>2 DEF cs, TypeAt
    <3> QED BY <3>5, <3>6, <3>7
  <2> QED BY <2>6, <2>8, <2>9, <2>10
<1> QED BY <1>1, <1>2, <1>3

-----------------------------------------------------------------------------
(* Paths that are one name longer. *)

LEMMA PrefixAppended ==
    ASSUME NEW C, NEW p \in Seq(C), NEW q \in Seq(C), NEW x \in C
    PROVE  IsPrefix(Append(p, x), q) <=> IsPrefix(p, q) /\ Len(p) + 1 <= Len(q) /\ q[Len(p) + 1] = x
<1> DEFINE l == Append(p, x)
           n == Len(p)
<1>1. l \in Seq(C) /\ Len(l) = n + 1 /\ l[n + 1] = x /\ (\A j \in 1..n : l[j] = p[j]) /\ n \in Nat /\ Len(q) \in Nat
  OBVIOUS
<1> HIDE DEF l
<1>2. \A j \in 1..n + 1 : j = n + 1 \/ j \in 1..n
  BY <1>1
<1>3. n + 1 \in 1..n + 1 /\ \A j \in 1..n : j \in 1..n + 1
  BY <1>1
<1>4. ASSUME Agree(l, q, n + 1) PROVE Agree(p, q, n) /\ n + 1 <= Len(q) /\ q[n + 1] = x
  <2>1. \A j \in 1..n : p[j] = q[j]
    BY <1>1, <1>3, <1>4 DEF Agree
  <2>2. n + 1 <= Len(q) /\ q[n + 1] = x
    BY <1>1, <1>3, <1>4 DEF Agree
  <2> QED BY <1>1, <2>1, <2>2 DEF Agree
<1>5. ASSUME Agree(p, q, n), n + 1 <= Len(q), q[n + 1] = x PROVE Agree(l, q, n + 1)
  <2>1. \A j \in 1..n + 1 : l[j] = q[j]
    BY <1>1, <1>2, <1>5 DEF Agree
  <2> QED BY <1>1, <1>5, <2>1 DEF Agree
<1> QED BY <1>1, <1>4, <1>5, PrefixMeans DEF l

LEMMA PrefixIsWhole ==
    ASSUME NEW C, NEW p \in Seq(C), NEW q \in Seq(C), NEW x \in C, IsPrefix(q, Append(p, x)), ~IsPrefix(q, p)
    PROVE  q = Append(p, x)
<1> DEFINE l == Append(p, x)
           n == Len(p)
<1>1. l \in Seq(C) /\ Len(l) = n + 1 /\ (\A j \in 1..n : l[j] = p[j]) /\ n \in Nat /\ Len(q) \in Nat
  OBVIOUS
<1>2. IsPrefix(q, l)
  OBVIOUS
<1> HIDE DEF l
<1>3. Agree(q, l, Len(q)) /\ Len(q) <= n + 1
  BY <1>1, <1>2, PrefixMeans DEF Agree
<1>4. Len(q) = n + 1
  <2> SUFFICES ASSUME Len(q) <= n PROVE FALSE
    BY <1>1, <1>3
  <2>1. \A j \in 1..Len(q) : j \in 1..n
    BY <1>1
  <2>2. Agree(q, p, Len(q))
    BY <1>1, <1>3, <2>1 DEF Agree
  <2> QED BY <2>2, PrefixMeans
<1>5. q = l
  BY <1>1, <1>3, <1>4, AgreeSame
<1> QED BY <1>5 DEF l

LEMMA NameNotEmpty ==
    ASSUME NEW C, NEW k \in Seq(C), NEW n \in 1..Len(Components(k))
    PROVE  Components(k)[n] # <<>>
<1>1. PICK i \in NameStarts(k) : Components(k)[n] = NameFrom(k, i)
  BY ComponentAt
<1>2. i \in 1..Len(k) /\ k[i] # Slash
  BY DEF NameStarts
<1>3. i \in i..Len(k) /\ \A j \in i..i : k[j] # Slash
  BY <1>2
<1>4. Len(NameFrom(k, i)) >= i - i + 1 /\ Len(NameFrom(k, i)) \in Nat
  BY <1>2, <1>3, NameLength
<1>5. Len(NameFrom(k, i)) # 0
  BY <1>2, <1>4
<1>6. Len(<<>>) = 0
  OBVIOUS
<1> QED BY <1>1, <1>5, <1>6

(* A key with the path of a root, and no slash at its end, is shorter.      *)
LEMMA RootIsNoPrefix ==
    ASSUME NEW k \in Seq(Alphabet), IsKey(k), Last(k) # Slash, NEW i \in DOMAIN Roots, RootPath(i) = Components(k)
    PROVE  ~IsPrefix(Roots[i], k)
<1> DEFINE root == Roots[i]
<1> SUFFICES ASSUME IsPrefix(root, k) PROVE FALSE
  OBVIOUS
<1>1. root \in Seq(Alphabet) /\ IsKey(root) /\ root # <<>> /\ Last(root) = Slash /\ Len(root) \in Nat /\ Len(root) > 1
  BY RootFacts DEF IsKey
<1>2. Components(root) = Components(k)
  BY DEF RootPath
<1> HIDE DEF root
<1>3. Agree(root, k, Len(root)) /\ Len(root) <= Len(k) /\ Len(k) \in Nat
  BY <1>1, PrefixMeans DEF Agree
<1>4. Len(root) < Len(k)
  <2> SUFFICES ASSUME Len(root) = Len(k) PROVE FALSE
    BY <1>1, <1>3
  <2>1. root = k
    BY <1>1, <1>3, AgreeSame
  <2> QED BY <1>1, <2>1
<1>5. k[Len(root)] = Slash
  <2>1. Len(root) \in 1..Len(root)
    BY <1>1
  <2>2. k[Len(root)] = root[Len(root)] /\ root[Len(root)] = Slash
    BY <1>1, <1>3, <2>1 DEF Agree, Last
  <2> QED BY <2>2
<1>6. k[Len(root) + 1] # Slash
  <2>1. Len(root) + 1 \in DOMAIN k /\ Len(root) + 1 > 1 /\ (Len(root) + 1) - 1 = Len(root)
    BY <1>1, <1>3, <1>4
  <2> QED BY <1>5, <2>1 DEF IsKey
<1>7. Len(Components(root)) + 1 \in 1..Len(Components(k)) /\ Len(Components(root)) \in Nat
  BY <1>1, <1>4, <1>6, NextName
<1> DEFINE n == Len(Components(root))
<1>8. n + 1 \in 1..n /\ n \in Nat
  BY <1>2, <1>7
<1> HIDE DEF n
<1> QED BY <1>8

(* The schema of a plugin, looked up for a key.                             *)
LEMMA Located ==
    ASSUME KeyInv, NEW k \in Seq(Alphabet), IsKey(k), NEW i \in DOMAIN Roots
    PROVE  Locate(i, k) \in Found(SchemaOf(i)) /\ AtMostOne(Locate(i, k))
<1> DEFINE tree == SchemaOf(i)
           names == Components(SubSeq(k, Len(Roots[i]) + 1, Len(k)))
<1>1. <<>> \in DOMAIN tree
  BY TreeOf DEF IsTree
<1>2. CASE IsPrefix(Roots[i], k)
  <2>1. Locate(i, k) = Walk(tree, names)
    BY <1>2 DEF Locate, Walk
  <2>2. SubSeq(k, Len(Roots[i]) + 1, Len(k)) \in Seq(Alphabet)
    <3>1. Len(Roots[i]) \in Nat /\ Len(Roots[i]) <= Len(k)
      BY <1>2, RootFacts DEF IsPrefix
    <3> QED BY <3>1
  <2>3. names \in Seq(Seq(Alphabet))
    BY <2>2, ComponentAt
  <2> HIDE DEF names, tree
  <2> QED BY <1>1, <2>1, <2>3, WalkOne DEF tree
<1>3. CASE ~IsPrefix(Roots[i], k)
  <2>1. Locate(i, k) = {<<>>} \/ Locate(i, k) = {}
    BY <1>3 DEF Locate
  <2> QED BY <1>1, <2>1 DEF Found, AtMostOne
<1> QED BY <1>2, <1>3

LEMMA Told ==
    ASSUME NEW k
    PROVE  LET i == FindIndex(Roots, k)
           IN  /\ i = 0 => GetTypeInfo(k) = IF FindPlugins(Roots, k) # {} THEN "dir" ELSE NotFound
               /\ i # 0 => GetTypeInfo(k) = TypeAt(SchemaOf(i), Locate(i, k))
BY DEF GetTypeInfo, TypeAt, UriExists

LEMMA ChildrenTold ==
    ASSUME NEW k
    PROVE  LET i == FindIndex(Roots, k)
           IN  /\ i = 0 => GetChildrenTypeInfo(k) = [name \in FindDirectChildren(Roots, k) |-> "dir"]
               /\ i # 0 => GetChildrenTypeInfo(k) = ChildrenAt(SchemaOf(i), Locate(i, k))
<1> DEFINE i == FindIndex(Roots, k)
<1>1. i # 0 => GetTypeInfo(k) = TypeAt(SchemaOf(i), Locate(i, k))
  BY Told
<1>2. i # 0 => GetChildrenTypeInfo(k) = ChildrenAt(SchemaOf(i), Locate(i, k))
  <2> DEFINE inside(tree, d) == [nm \in {Last(path) : path \in Children(tree, d)} |-> tree[Append(d, nm)].type]
             d == CHOOSE path \in Locate(i, k) : TRUE
  <2>1. i # 0 => GetChildrenTypeInfo(k) = IF GetTypeInfo(k) # "dir" THEN NoChildren ELSE inside(SchemaOf(i), d)
    BY Zenon DEF GetChildrenTypeInfo
  <2>2. ChildrenAt(SchemaOf(i), Locate(i, k)) = IF TypeAt(SchemaOf(i), Locate(i, k)) # "dir" THEN NoChildren ELSE inside(SchemaOf(i), d)
    BY Zenon DEF ChildrenAt
  <2> HIDE DEF inside, d, i
  <2> QED BY <1>1, <2>1, <2>2
<1>3. i = 0 => GetChildrenTypeInfo(k) = [name \in FindDirectChildren(Roots, k) |-> "dir"]
  BY DEF GetChildrenTypeInfo
<1> QED BY <1>2, <1>3

(* The plugin of a key that misleads nobody.                                *)
LEMMA IndexMeans ==
    ASSUME NEW k \in Seq(Alphabet), IsKey(k), ~Misleading(k)
    PROVE  LET i == FindIndex(Roots, k)
           IN  /\ i # 0 <=> Owners(k) # {}
               /\ i # 0 => i \in DOMAIN Roots /\ Owns(i, Components(k))
               /\ \A j \in DOMAIN Roots : Owns(j, Components(k)) => i = j /\ i # 0
<1> DEFINE i == FindIndex(Roots, k)
<1>1. i = IF Owners(k) = {} THEN 0 ELSE CHOOSE j \in Owners(k) : TRUE
  BY IndexIsOwner
<1>2. ASSUME NEW j \in Owners(k) PROVE i = j /\ j # 0 /\ j \in DOMAIN Roots /\ Owns(j, Components(k))
  <2>1. Owners(k) = {j} /\ j # 0
    BY OwnersMean
  <2>2. j \in DOMAIN Roots /\ Owns(j, Components(k))
    BY DEF Owners
  <2>3. (CHOOSE l \in {j} : TRUE) = j
    OBVIOUS
  <2> HIDE DEF i
  <2> QED BY <1>1, <2>1, <2>2, <2>3
<1>3. \A j \in DOMAIN Roots : Owns(j, Components(k)) => j \in Owners(k)
  BY DEF Owners
<1> HIDE DEF i
<1>4. i # 0 <=> Owners(k) # {}
  BY <1>1, <1>2
<1> QED BY <1>2, <1>3, <1>4 DEF i

(* A slash at the end makes no difference.                                  *)
LEMMA SlashIsNoName ==
    ASSUME KeyInv, NEW k \in Seq(Alphabet), IsKey(k), Last(k) # Slash, ~Misleading(k), ~Misleading(Append(k, Slash))
    PROVE  GetTypeInfo(Append(k, Slash)) = GetTypeInfo(k)
<1> DEFINE l == Append(k, Slash)
           i == FindIndex(Roots, k)
<1>1. l = Within(k) /\ l \in Seq(Alphabet) /\ IsKey(l) /\ Components(l) = Components(k)
  BY WithinMeans DEF Within
<1>2. Owners(l) = Owners(k)
  BY <1>1 DEF Owners
<1> HIDE DEF l
<1>3. FindIndex(Roots, l) = i
  BY <1>1, <1>2, IndexIsOwner DEF l
<1>4. FindPlugins(Roots, l) = FindPlugins(Roots, k)
  BY <1>1, PluginsAreBelow
<1>5. i # 0 => Locate(i, l) = Locate(i, k)
  BY <1>1, IndexMeans, LocateWithin
<1> QED BY <1>3, <1>4, <1>5, Told DEF l

(* Among the plugins.                                                       *)
LEMMA ChildOfNone ==
    ASSUME KeyInv, NEW k \in Seq(Alphabet), IsKey(k), ~Misleading(k), FindIndex(Roots, k) = 0,
           NEW name \in Names, name # <<>>, ~Misleading(KeyWithin(k, name))
    PROVE  GetTypeInfo(KeyWithin(k, name)) = TypeAmong(GetChildrenTypeInfo(k), name)
<1> DEFINE c == KeyWithin(k, name)
           path == Components(k)
           below == FindPlugins(Roots, c)
           children == GetChildrenTypeInfo(k)
           n == Len(path)
<1>0. name \in Seq(Alphabet \ {Slash}) /\ name \in Seq(Alphabet)
  BY NamesAssumption
<1>1. c \in Seq(Alphabet) /\ IsKey(c) /\ Last(c) # Slash /\ Components(c) = Append(path, name)
  BY <1>0, ChildMeans
<1>2. path \in Seq(Seq(Alphabet)) /\ n \in Nat
  BY ComponentAt
<1>3. Owners(k) = {} /\ \A i \in DOMAIN Roots : ~IsPrefix(RootPath(i), path)
  BY IndexMeans DEF Owns
<1>4. \A i \in DOMAIN Roots : RootPath(i) \in Seq(Seq(Alphabet)) /\ \A m \in 1..Len(RootPath(i)) : RootPath(i)[m] # <<>>
  <2> TAKE i \in DOMAIN Roots
  <2>1. Roots[i] \in Seq(Alphabet)
    BY RootFacts
  <2>2. RootPath(i) \in Seq(Seq(Alphabet))
    BY <2>1, ComponentAt DEF RootPath
  <2>3. ASSUME NEW m \in 1..Len(RootPath(i)) PROVE RootPath(i)[m] # <<>>
    BY <2>1, <2>3, NameNotEmpty DEF RootPath
  <2> QED BY <2>2, <2>3
<1>5. children = [nm \in FindDirectChildren(Roots, k) |-> "dir"]
  BY ChildrenTold
<1>6. FindDirectChildren(Roots, k) = {RootPath(i)[n + 1] : i \in FindPlugins(Roots, k)}
  BY <1>3, DirectChildren
<1>7. FindPlugins(Roots, k) = {i \in DOMAIN Roots : IsPrefix(path, RootPath(i))}
  BY PluginsAreBelow
<1>8. below = {i \in DOMAIN Roots : IsPrefix(Append(path, name), RootPath(i))}
  BY <1>1, PluginsAreBelow
<1> HIDE DEF path, below, children
<1>9. ASSUME NEW i \in FindPlugins(Roots, k) PROVE n + 1 \in 1..Len(RootPath(i)) /\ RootPath(i)[n + 1] # <<>>
  <2>1. i \in DOMAIN Roots /\ IsPrefix(path, RootPath(i)) /\ ~IsPrefix(RootPath(i), path)
    BY <1>3, <1>7
  <2>2. Len(path) <= Len(RootPath(i)) /\ Len(RootPath(i)) \in Nat /\ Agree(path, RootPath(i), n)
    BY <1>2, <1>4, <2>1, PrefixMeans DEF Agree
  <2>3. n # Len(RootPath(i))
    <3> SUFFICES ASSUME n = Len(RootPath(i)) PROVE FALSE
      OBVIOUS
    <3>1. Agree(RootPath(i), path, n)
      BY <2>2 DEF Agree
    <3>2. Agree(RootPath(i), path, Len(RootPath(i)))
      BY <3>1
    <3> QED BY <1>2, <1>4, <2>1, <3>2, PrefixMeans
  <2>4. n + 1 \in 1..Len(RootPath(i))
    BY <1>2, <2>2, <2>3
  <2> QED BY <1>4, <2>1, <2>4
<1>10. <<>> \notin DOMAIN children
  BY <1>5, <1>6, <1>9
<1>11. name \in DOMAIN children <=> below # {}
  <2>1. ASSUME NEW i \in DOMAIN Roots
        PROVE  IsPrefix(Append(path, name), RootPath(i)) <=> IsPrefix(path, RootPath(i)) /\ n + 1 <= Len(RootPath(i)) /\ RootPath(i)[n + 1] = name
    BY <1>0, <1>2, <1>4, PrefixAppended
  <2>2. \A i \in FindPlugins(Roots, k) : n + 1 <= Len(RootPath(i))
    BY <1>2, <1>9
  <2> QED BY <1>5, <1>6, <1>7, <1>8, <2>1, <2>2
<1>12. TypeAmong(children, name) = IF below # {} THEN "dir" ELSE NotFound
  BY <1>5, <1>10, <1>11 DEF TypeAmong
<1>13. CASE FindIndex(Roots, c) = 0
  BY <1>12, <1>13, Told DEF below, children
<1>14. CASE FindIndex(Roots, c) # 0
  <2> DEFINE i == FindIndex(Roots, c)
  <2>1. i \in DOMAIN Roots /\ Owns(i, Append(path, name))
    BY <1>1, <1>14, IndexMeans
  <2>2. IsPrefix(RootPath(i), Append(path, name)) /\ ~IsPrefix(RootPath(i), path) /\ RootPath(i) \in Seq(Seq(Alphabet))
    BY <1>3, <1>4, <2>1 DEF Owns
  <2> HIDE DEF i
  <2>3. RootPath(i) = Append(path, name)
    BY <1>0, <1>2, <2>2, PrefixIsWhole
  <2>4. i \in below
    BY <1>8, <2>1, <2>3 DEF IsPrefix
  <2>5. ~IsPrefix(Roots[i], c)
    BY <1>1, <2>1, <2>3, RootIsNoPrefix
  <2>6. Roots[i] = Append(c, Slash)
    BY <1>1, <2>1, <2>5, RootWithin
  <2>7. Front(Roots[i]) = c
    <3>1. Slash \in Alphabet
      BY RootFacts
    <3>2. c \in Seq(Alphabet)
      BY <1>1
    <3> HIDE DEF c
    <3> QED BY <2>6, <3>1, <3>2, Appended
  <2>8. Locate(i, c) = {<<>>}
    BY <2>5, <2>7 DEF Locate
  <2>9. TypeAt(SchemaOf(i), {<<>>}) = "dir"
    <3>1. SchemaOf(i)[<<>>].type = "dir"
      BY TreeOf DEF IsTree
    <3>2. <<>> # Crash
      <4>1. IsTree(SchemaOf(i))
        BY TreeOf
      <4>2. Crash \notin DOMAIN SchemaOf(i)
        BY <4>1, NoCrashInside
      <4>3. <<>> \in DOMAIN SchemaOf(i)
        BY <4>1 DEF IsTree
      <4> QED BY <4>2, <4>3
    <3>3. {<<>>} # {} /\ {<<>>} # {Crash} /\ (CHOOSE p \in {<<>>} : TRUE) = <<>>
      BY <3>2
    <3> QED BY <3>1, <3>3 DEF TypeAt
  <2>10. GetTypeInfo(c) = TypeAt(SchemaOf(i), Locate(i, c))
    BY <1>14, Told DEF i
  <2> QED BY <1>12, <2>4, <2>8, <2>9, <2>10 DEF children
<1> QED BY <1>13, <1>14

(* In a plugin.                                                             *)
LEMMA ChildOfOwner ==
    ASSUME KeyInv, NEW k \in Seq(Alphabet), IsKey(k), ~Misleading(k), FindIndex(Roots, k) # 0,
           NEW name \in Names, name # <<>>, ~Misleading(KeyWithin(k, name))
    PROVE  GetTypeInfo(KeyWithin(k, name)) \in {"crash", TypeAmong(GetChildrenTypeInfo(k), name)}
<1> DEFINE c == KeyWithin(k, name)
           path == Components(k)
           i == FindIndex(Roots, k)
           tree == SchemaOf(i)
           found == Locate(i, k)
<1>0. name \in Seq(Alphabet \ {Slash}) /\ name \in Seq(Alphabet)
  BY NamesAssumption
<1>1. c \in Seq(Alphabet) /\ IsKey(c) /\ Components(c) = Append(path, name)
  BY <1>0, ChildMeans
<1>2. i \in DOMAIN Roots /\ Owns(i, path)
  BY IndexMeans
<1>3. Owns(i, Components(c))
  <2>1. RootPath(i) \in Seq(Seq(Alphabet)) /\ path \in Seq(Seq(Alphabet))
    <3>1. Roots[i] \in Seq(Alphabet)
      BY <1>2, RootFacts
    <3> QED BY <3>1, ComponentAt DEF RootPath
  <2> HIDE DEF path, i, c
  <2>2. IsPrefix(RootPath(i), Append(path, name))
    <3>1. IsPrefix(path, Append(path, name)) /\ Append(path, name) \in Seq(Seq(Alphabet))
      <4>1. Append(path, name) \in Seq(Seq(Alphabet)) /\ Len(Append(path, name)) = Len(path) + 1
            /\ \A j \in 1..Len(path) : Append(path, name)[j] = path[j]
        BY <1>0, <2>1
      <4>2. Agree(path, Append(path, name), Len(path))
        BY <2>1, <4>1 DEF Agree
      <4> QED BY <2>1, <4>1, <4>2, PrefixMeans
    <3>2. IsPrefix(RootPath(i), path)
      BY <1>2 DEF Owns
    <3> QED BY <2>1, <3>1, <3>2, PrefixOfPrefix
  <2> QED BY <1>1, <2>2 DEF Owns
<1>4. FindIndex(Roots, c) = i
  BY <1>1, <1>2, <1>3, IndexMeans
<1>5. Locate(i, c) = StepTo(tree, found, name)
  BY <1>0, <1>2, LocateChild
<1>6. IsTree(tree) /\ found \in Found(tree) /\ AtMostOne(found)
  BY <1>2, TreeOf, Located
<1>7. GetTypeInfo(c) = TypeAt(tree, Locate(i, c))
  BY <1>4, Told
<1>8. GetChildrenTypeInfo(k) = ChildrenAt(tree, found)
  BY ChildrenTold
<1> HIDE DEF tree, found, i, c
<1>9. TypeAt(tree, StepTo(tree, found, name)) \in {"crash", TypeAmong(ChildrenAt(tree, found), name)}
  BY <1>6, StepAgrees
<1> QED BY <1>5, <1>7, <1>8, <1>9 DEF c

(* What can be removed is there.                                            *)
LEMMA RemovedIsThere ==
    ASSUME KeyInv, NEW k \in Seq(Alphabet), CanRemove(k)
    PROVE  GetTypeInfo(k) # NotFound
<1> DEFINE i == FindIndex(Roots, k)
<1>1. IsKey(k) /\ (i = 0 \/ i \in DOMAIN Roots)
  BY ValidIsKey, FirstOfFound DEF CanRemove
<1>2. CASE i = 0
  <2>1. GetTypeInfo(k) = "dir"
    BY <1>2, Told DEF CanRemove
  <2> QED BY <2>1 DEF NotFound
<1>3. CASE i # 0
  <2> DEFINE found == Locate(i, k)
             tree == SchemaOf(i)
  <2>1. PICK path \in found : path # Crash
    BY <1>3 DEF CanRemove
  <2>2. GetTypeInfo(k) = TypeAt(tree, found)
    BY <1>3, Told
  <2>3. IsTree(tree) /\ found \in Found(tree) /\ AtMostOne(found)
    BY <1>1, <1>3, TreeOf, Located
  <2> HIDE DEF tree, found
  <2>4. found = {path} /\ path \in DOMAIN tree
    BY <2>1, <2>3 DEF AtMostOne, Found
  <2>5. TypeAt(tree, found) = tree[path].type
    <3>1. found # {} /\ found # {Crash} /\ (CHOOSE p \in found : TRUE) = path
      BY <2>1, <2>4
    <3> QED BY <3>1 DEF TypeAt
  <2>6. tree[path].type \in {"dir", "string", "int", "enum"}
    BY <2>3, <2>4 DEF IsTree
  <2> QED BY <2>2, <2>5, <2>6 DEF NotFound
<1> QED BY <1>2, <1>3

LEMMA TreeIsSo == ASSUME KeyInv PROVE TreeIsOne
<1> SUFFICES ASSUME ValidKey(key), NEW name \in Names \ {<<>>}
    PROVE  LET k == KeyWithin(key, name)
               children == GetChildrenTypeInfo(key)
           IN  /\ ~Misleading(Append(k, Slash)) =>
                     /\ GetTypeInfo(k) \in {"crash", IF name \in DOMAIN children THEN children[name]
                                                     ELSE IF <<>> \in DOMAIN children THEN children[<<>>]
                                                     ELSE NotFound}
                     /\ GetTypeInfo(Append(k, Slash)) = GetTypeInfo(k)
               /\ CanRemove(k) => GetTypeInfo(k) # NotFound
  BY DEF TreeIsOne
<1> DEFINE k == KeyWithin(key, name)
<1>1. key \in Seq(Alphabet) /\ IsKey(key) /\ name \in Seq(Alphabet \ {Slash}) /\ name # <<>> /\ name \in Names
  BY ValidIsKey, NamesAssumption DEF KeyInv
<1>2. k \in Seq(Alphabet) /\ IsKey(k) /\ Last(k) # Slash /\ IsPrefix(key, k)
  BY <1>1, ChildMeans
<1>3. ASSUME ~Misleading(Append(k, Slash))
      PROVE  /\ GetTypeInfo(k) \in {"crash", TypeAmong(GetChildrenTypeInfo(key), name)}
             /\ GetTypeInfo(Append(k, Slash)) = GetTypeInfo(k)
  <2>1. ~Misleading(k) /\ ~Misleading(key)
    <3> HIDE DEF k
    <3>1. Append(k, Slash) \in Seq(Alphabet) /\ IsPrefix(k, Append(k, Slash))
      BY <1>2, KeyWithSlash, RootFacts
    <3>2. ~Misleading(k)
      BY <1>2, <1>3, <3>1, MisleadingMore
    <3> QED BY <1>1, <1>2, <3>2, MisleadingMore
  <2>2. GetTypeInfo(Append(k, Slash)) = GetTypeInfo(k)
    <3> HIDE DEF k
    <3> QED BY <1>2, <1>3, <2>1, SlashIsNoName
  <2>3. GetTypeInfo(k) \in {"crash", TypeAmong(GetChildrenTypeInfo(key), name)}
    BY <1>1, <2>1, ChildOfNone, ChildOfOwner
  <2> QED BY <2>2, <2>3
<1>4. CanRemove(k) => GetTypeInfo(k) # NotFound
  BY <1>2, RemovedIsThere
<1> HIDE DEF k
<1> QED BY <1>3, <1>4 DEF TypeAmong, k

(* For any plugins and schemas of theirs that are not refused, and any key: *)
(* what is told of the children of a key is what is told of them when they  *)
(* are asked for themselves, whether they are inferred from roots or looked *)
(* up in a schema, a slash at the end makes no difference, and what may be  *)
(* removed is there (plugin_manager_get_type_info,                          *)
(* plugin_manager_get_children_type_info, prv_remove_common,                *)
(* provman_schema_locate, provman_plugin_find_direct_children).             *)
THEOREM TreeIsInOnePiece == Spec => []TreeIsOne
<1>1. Init => KeyInv
  BY KeyInvInit
<1>2. KeyInv /\ [Next]_vars => KeyInv'
  BY KeyInvNext
<1>3. KeyInv => TreeIsOne
  BY TreeIsSo
<1> QED BY <1>1, <1>2, <1>3, PTL DEF Spec
=============================================================================
