----------------------------- MODULE MaxTheorems ----------------------------
(***************************************************************************)
(* Maximal elements of finite sets.  Max is a CHOOSE expression: what it   *)
(* denotes is known only once a maximum is known to exist.                 *)
(***************************************************************************)
EXTENDS Naturals, FiniteSetsExt, FiniteSetTheorems, WellFoundedInduction, TLAPS

\* A non-empty finite set has a maximal element for every strict partial
\* order R: a minimal finite set without one would contain a smaller one.
LEMMA MaximalElement ==
  ASSUME NEW R,
         \A x, y, z : <<x, y>> \in R /\ <<y, z>> \in R => <<x, z>> \in R,
         \A x : <<x, x>> \notin R,
         NEW S, IsFiniteSet(S), S # {}
  PROVE  \E x \in S : \A y \in S : <<x, y>> \notin R
<1> DEFINE HasMax(U) == \E x \in U : \A y \in U : <<x, y>> \notin R
           Bad == {U \in FiniteSubsetsOf(S) : U # {} /\ ~HasMax(U)}
<1>1. SUFFICES ASSUME Bad # {} PROVE FALSE
  <2>1. S \in FiniteSubsetsOf(S)
    BY DEF FiniteSubsetsOf
  <2> QED BY <2>1
<1>2. PICK U \in Bad : \A V \in Bad : <<V, U>> \notin StrictSubsetOrdering(S)
  <2>1. IsWellFoundedOn(StrictSubsetOrdering(S), FiniteSubsetsOf(S))
    BY FS_StrictSubsetOrderingWellFounded
  <2>2. Bad \subseteq FiniteSubsetsOf(S)
    OBVIOUS
  <2> HIDE DEF Bad
  <2> QED BY <1>1, <2>1, <2>2, WFMin
<1>3. PICK x \in U : TRUE
  OBVIOUS
<1> DEFINE V == U \ {x}
<1>4. V \in FiniteSubsetsOf(S) /\ <<V, U>> \in StrictSubsetOrdering(S)
  <2>1. IsFiniteSet(V)
    BY FS_RemoveElement DEF FiniteSubsetsOf
  <2> QED BY <2>1, <1>3 DEF FiniteSubsetsOf, StrictSubsetOrdering
<1>5. V = {} \/ HasMax(V)
  BY <1>2, <1>4
<1>6. HasMax(U)
  <2>1. CASE V = {}
    BY <2>1, <1>3
  <2>2. CASE HasMax(V)
    <3>1. PICK m \in V : \A y \in V : <<m, y>> \notin R
      BY <2>2
    <3>2. CASE <<m, x>> \in R
      BY <3>1, <3>2
    <3>3. CASE <<m, x>> \notin R
      BY <3>1, <3>3
    <3> QED BY <3>2, <3>3
  <2> QED BY <2>1, <2>2, <1>5
<1> QED BY <1>6

\* Max of a non-empty set of numbers up to r is its greatest member.
LEMMA MaxInterval ==
  ASSUME NEW r \in Nat, NEW S \in SUBSET (1 .. r), S # {}
  PROVE  Max(S) \in S /\ \A x \in S : x <= Max(S)
<1> DEFINE R == {p \in Nat \X Nat : p[1] < p[2]}
<1>1. IsFiniteSet(S)
  BY FS_Interval, FS_Subset, 1 \in Int, r \in Int
<1>2. /\ \A x, y, z : <<x, y>> \in R /\ <<y, z>> \in R => <<x, z>> \in R
      /\ \A x : <<x, x>> \notin R
  OBVIOUS
<1>3. \A x, y \in Nat : x < y => <<x, y>> \in R
  OBVIOUS
<1>4. S \subseteq Nat
  OBVIOUS
<1> HIDE DEF R
<1>5. PICK m \in S : \A y \in S : <<m, y>> \notin R
  BY <1>1, <1>2, MaximalElement
<1>6. ASSUME NEW y \in S PROVE m >= y
  <2>1. m \in Nat /\ y \in Nat
    BY <1>4
  <2>2. ~(m < y)
    BY <1>3, <1>5, <2>1
  <2> QED BY <2>1, <2>2
<1>7. Max(S) \in S /\ \A y \in S : Max(S) >= y
  BY <1>6 DEF Max
<1> QED BY <1>4, <1>7

\* A member that bounds the set is its Max.
LEMMA MaxIs ==
  ASSUME NEW r \in Nat, NEW S \in SUBSET (1 .. r), NEW m \in S, \A x \in S : x <= m
  PROVE  Max(S) = m
<1>1. Max(S) \in S /\ m <= Max(S)
  BY MaxInterval
<1>2. Max(S) <= m
  BY <1>1
<1>3. Max(S) \in Nat /\ m \in Nat
  <2>1. S \subseteq Nat
    OBVIOUS
  <2> QED BY <1>1, <2>1
<1> QED BY <1>1, <1>2, <1>3
=============================================================================
