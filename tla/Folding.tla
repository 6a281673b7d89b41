------------------------------- MODULE Folding -------------------------------
(***************************************************************************)
(* What a fold of the community modules makes, for any number of elements   *)
(* and in any order: that there is a function with its equation, and what   *)
(* each step keeps holds at the end.  An operator cannot be a parameter of  *)
(* these lemmas, so steps are given as functions, and a stage of the fold   *)
(* is a pair of a set and a value.                                          *)
(***************************************************************************)
EXTENDS FiniteSetTheorems, TLAPS

(* There is a least number in a set of them. *)
LEMMA LeastIndex ==
    ASSUME NEW S \in SUBSET Nat, S # {}
    PROVE  \E i \in S : \A j \in S : i <= j
<1> DEFINE R == {ss \in Nat \X Nat : ss[1] < ss[2]}
<1>1. IsWellFoundedOn(R, Nat)
  BY NatLessThanWellFounded DEF OpToRel
<1> HIDE DEF R
<1>2. PICK i \in S : \A j \in S : <<j, i>> \notin R
  BY <1>1, WFMin
<1>3. ASSUME NEW j \in S PROVE ~(j < i)
  <2>1. j < i => <<j, i>> \in R
    BY DEF R
  <2> QED BY <1>2, <2>1
<1> QED BY <1>2, <1>3

(* And a greatest, if they are bounded. *)
LEMMA GreatestIndex ==
    ASSUME NEW n \in Nat, NEW s \in SUBSET (1..n), s # {}
    PROVE  \E i \in s : \A j \in s : i >= j
<1> DEFINE turned == {n - i : i \in s}
<1>0. \A i \in s : i \in Nat /\ n - i \in Nat
  OBVIOUS
<1>1. turned \in SUBSET Nat /\ turned # {}
  BY <1>0
<1>2. PICK m \in turned : \A j \in turned : m <= j
  <2> HIDE DEF turned
  <2> QED BY <1>1, LeastIndex
<1>3. PICK i \in s : m = n - i
  OBVIOUS
<1>4. ASSUME NEW j \in s PROVE i >= j
  <2>1. n - i <= n - j
    BY <1>2, <1>3
  <2> QED BY <1>0, <2>1
<1> QED BY <1>4

-----------------------------------------------------------------------------
(* Of the elements of a set one is taken last. *)
IsPick(pick, S) == pick \in [(SUBSET S) \ {{}} -> S] /\ \A s \in (SUBSET S) \ {{}} : pick[s] \in s

Rest(pick, s) == s \ {pick[s]}

(* The stages of a fold, and a step that keeps what is in K.                *)
Stages(h, pick, S, base, g) ==
    h[{}] = base /\ \A s \in (SUBSET S) \ {{}} : h[s] = g[<<s, h[Rest(pick, s)]>>]

Keeps(it, pick, S, g, K) ==
    \A s \in (SUBSET S) \ {{}} :
        <<Rest(pick, s), it[Rest(pick, s)]>> \in K =>
           it[s] = g[<<s, it[Rest(pick, s)]>>] /\ <<s, g[<<s, it[Rest(pick, s)]>>]>> \in K

(* There is a least set among those that are not as they should be.         *)
LEMMA LeastSet ==
    ASSUME NEW S, IsFiniteSet(S), NEW bad \in SUBSET (SUBSET S), bad # {}
    PROVE  \E s \in bad : \A r \in bad : r \subseteq s => r = s
<1>1. IsWellFoundedOn(StrictSubsetOrdering(S), SUBSET S)
  BY FS_StrictSubsetOrderingWellFounded, FS_FiniteSubsetsOfFinite
<1>2. PICK s \in bad : \A r \in bad : <<r, s>> \notin StrictSubsetOrdering(S)
  BY <1>1, WFMin
<1>3. ASSUME NEW r \in bad, r \subseteq s, r # s PROVE FALSE
  BY <1>2, <1>3 DEF StrictSubsetOrdering
<1> QED BY <1>2, <1>3

(* What is so at the beginning, and what each step keeps.                   *)
LEMMA FoldKeeps ==
    ASSUME NEW S, IsFiniteSet(S), NEW pick, IsPick(pick, S), NEW T,
           NEW g \in [(SUBSET S) \X T -> T], NEW K \in SUBSET ((SUBSET S) \X T),
           NEW it, <<{}, it[{}]>> \in K, Keeps(it, pick, S, g, K)
    PROVE  \A s \in SUBSET S : <<s, it[s]>> \in K
<1> DEFINE bad == {s \in SUBSET S : <<s, it[s]>> \notin K}
<1> SUFFICES ASSUME bad # {} PROVE FALSE
  OBVIOUS
<1>0. bad \in SUBSET (SUBSET S)
  OBVIOUS
<1>1. \E s \in bad : \A r \in bad : r \subseteq s => r = s
  <2> HIDE DEF bad
  <2> QED BY <1>0, LeastSet
<1>2. PICK s \in bad : \A r \in bad : r \subseteq s => r = s
  BY <1>1
<1>3. s # {} /\ s \in SUBSET S
  OBVIOUS
<1>4. pick[s] \in s
  BY <1>3 DEF IsPick
<1>5. Rest(pick, s) \in SUBSET S /\ Rest(pick, s) \subseteq s /\ Rest(pick, s) # s
  BY <1>3, <1>4 DEF Rest
<1>6. <<Rest(pick, s), it[Rest(pick, s)]>> \in K
  BY <1>2, <1>5
<1> QED BY <1>3, <1>6 DEF Keeps

(* The fold is there: its stages are what the steps make of the empty set.  *)
LEMMA FoldExists ==
    ASSUME NEW S, IsFiniteSet(S), NEW pick, IsPick(pick, S), NEW T, NEW base \in T,
           NEW g \in [(SUBSET S) \X T -> T]
    PROVE  \E h \in [SUBSET S -> T] : Stages(h, pick, S, base, g)
<1> DEFINE Pairs == (SUBSET S) \X T
           Closed(Q) == /\ <<{}, base>> \in Q
                        /\ \A s \in (SUBSET S) \ {{}}, t \in T :
                              <<Rest(pick, s), t>> \in Q => <<s, g[<<s, t>>]>> \in Q
           Made == {p \in Pairs : \A Q \in SUBSET Pairs : Closed(Q) => p \in Q}
           Once(s) == \E t \in T : <<s, t>> \in Made /\ \A u \in T : <<s, u>> \in Made => u = t
<1>a. \A s \in (SUBSET S) \ {{}} : /\ Rest(pick, s) \in SUBSET S /\ Rest(pick, s) \subseteq s /\ Rest(pick, s) # s
                                   /\ \A t \in T : <<s, t>> \in Pairs /\ g[<<s, t>>] \in T
  BY DEF IsPick, Rest
<1>1. Closed(Made)
  <2>1. <<{}, base>> \in Made
    OBVIOUS
  <2>2. ASSUME NEW s \in (SUBSET S) \ {{}}, NEW t \in T, <<Rest(pick, s), t>> \in Made
        PROVE  <<s, g[<<s, t>>]>> \in Made
    <3>1. <<s, g[<<s, t>>]>> \in Pairs
      BY <1>a
    <3>2. ASSUME NEW Q \in SUBSET Pairs, Closed(Q) PROVE <<s, g[<<s, t>>]>> \in Q
      BY <2>2, <3>2
    <3> QED BY <3>1, <3>2
  <2> QED BY <2>1, <2>2
<1>2. ASSUME NEW u \in T, <<{}, u>> \in Made PROVE u = base
  <2> SUFFICES ASSUME u # base PROVE FALSE
    OBVIOUS
  <2> DEFINE Q == Made \ {<<{}, u>>}
  <2>1. Q \in SUBSET Pairs /\ <<{}, base>> \in Q
    BY <1>1
  <2>2. \A s \in (SUBSET S) \ {{}}, t \in T : <<Rest(pick, s), t>> \in Q => <<s, g[<<s, t>>]>> \in Q
    <3> SUFFICES ASSUME NEW s \in (SUBSET S) \ {{}}, NEW t \in T, <<Rest(pick, s), t>> \in Q
                 PROVE  <<s, g[<<s, t>>]>> \in Q
      OBVIOUS
    <3>1. <<s, g[<<s, t>>]>> \in Made
      BY <1>1
    <3>2. <<s, g[<<s, t>>]>> # <<{}, u>>
      OBVIOUS
    <3> QED BY <3>1, <3>2
  <2>3. Closed(Q)
    BY <2>1, <2>2
  <2>4. <<{}, u>> \in Q
    BY <1>2, <2>1, <2>3
  <2> QED BY <2>4
<1>3. ASSUME NEW s \in (SUBSET S) \ {{}}, NEW u \in T, <<s, u>> \in Made
      PROVE  \E t \in T : <<Rest(pick, s), t>> \in Made /\ u = g[<<s, t>>]
  <2> SUFFICES ASSUME \A t \in T : <<Rest(pick, s), t>> \in Made => u # g[<<s, t>>] PROVE FALSE
    OBVIOUS
  <2> DEFINE Q == Made \ {<<s, u>>}
  <2>1. Q \in SUBSET Pairs /\ <<{}, base>> \in Q
    BY <1>1
  <2>2. \A r \in (SUBSET S) \ {{}}, t \in T : <<Rest(pick, r), t>> \in Q => <<r, g[<<r, t>>]>> \in Q
    <3> SUFFICES ASSUME NEW r \in (SUBSET S) \ {{}}, NEW t \in T, <<Rest(pick, r), t>> \in Q
                 PROVE  <<r, g[<<r, t>>]>> \in Q
      OBVIOUS
    <3>1. <<r, g[<<r, t>>]>> \in Made
      BY <1>1
    <3>2. <<r, g[<<r, t>>]>> # <<s, u>>
      OBVIOUS
    <3> QED BY <3>1, <3>2
  <2>3. Closed(Q)
    BY <2>1, <2>2
  <2>4. <<s, u>> \in Q
    BY <1>3, <2>1, <2>3
  <2> QED BY <2>4
<1>4. \A s \in SUBSET S : Once(s)
  <2> DEFINE bad == {s \in SUBSET S : ~Once(s)}
  <2> SUFFICES ASSUME bad # {} PROVE FALSE
    OBVIOUS
  <2> HIDE DEF Once
  <2>0. bad \in SUBSET (SUBSET S)
    OBVIOUS
  <2>a. \E s \in bad : \A r \in bad : r \subseteq s => r = s
    <3> HIDE DEF bad
    <3> QED BY <2>0, LeastSet
  <2>1. PICK s \in bad : \A r \in bad : r \subseteq s => r = s
    BY <2>a
  <2>2. s \in SUBSET S /\ ~Once(s)
    OBVIOUS
  <2>3. CASE s = {}
    <3>1. Once({})
      BY <1>1, <1>2 DEF Once
    <3> QED BY <2>2, <2>3, <3>1
  <2>4. CASE s # {}
    <3>1. Once(Rest(pick, s))
      BY <1>a, <2>1, <2>2, <2>4
    <3>2. PICK t \in T : <<Rest(pick, s), t>> \in Made /\ \A u \in T : <<Rest(pick, s), u>> \in Made => u = t
      BY <3>1 DEF Once
    <3>3. <<s, g[<<s, t>>]>> \in Made /\ g[<<s, t>>] \in T
      BY <1>1, <1>a, <2>2, <2>4, <3>2
    <3>4. ASSUME NEW u \in T, <<s, u>> \in Made PROVE u = g[<<s, t>>]
      <4>1. PICK v \in T : <<Rest(pick, s), v>> \in Made /\ u = g[<<s, v>>]
        BY <1>3, <2>2, <2>4, <3>4
      <4> QED BY <3>2, <4>1
    <3>5. Once(s)
      BY <3>3, <3>4 DEF Once
    <3> QED BY <2>2, <3>5
  <2> QED BY <2>3, <2>4
<1> DEFINE h == [s \in SUBSET S |-> CHOOSE t \in T : <<s, t>> \in Made]
<1> HIDE DEF Made
<1>5. \A s \in SUBSET S : h[s] \in T /\ <<s, h[s]>> \in Made /\ \A u \in T : <<s, u>> \in Made => u = h[s]
  BY <1>4
<1>6. h \in [SUBSET S -> T]
  BY <1>5
<1>7. h[{}] = base
  BY <1>1, <1>5
<1>8. ASSUME NEW s \in (SUBSET S) \ {{}} PROVE h[s] = g[<<s, h[Rest(pick, s)]>>]
  <2>1. Rest(pick, s) \in SUBSET S
    BY <1>a
  <2> HIDE DEF h
  <2>2. <<s, g[<<s, h[Rest(pick, s)]>>]>> \in Made /\ g[<<s, h[Rest(pick, s)]>>] \in T
    BY <1>1, <1>5, <1>a, <2>1
  <2> QED BY <1>5, <2>2
<1> HIDE DEF h
<1> QED BY <1>6, <1>7, <1>8 DEF Stages
=============================================================================
