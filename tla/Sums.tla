-------------------------------- MODULE Sums --------------------------------
(***************************************************************************)
(* Sums over finite sets, counting, and the room that is left for those    *)
(* who check an amount before they take it, with the induction over finite *)
(* sets and numbers that facts about them need.  An induction is by the    *)
(* least counterexample: a set of counterexamples that is not empty has a  *)
(* least member.                                                           *)
(***************************************************************************)
EXTENDS Integers, FiniteSetsExt, FiniteSetTheorems, TLAPS

LEMMA LeastNumber ==
  ASSUME NEW T \in SUBSET Nat, T # {}
  PROVE  \E n \in T : \A m \in T : n <= m
<1> DEFINE R == OpToRel(<, Nat)
<1>1. IsWellFoundedOn(R, Nat)
  BY NatLessThanWellFounded
<1>2. PICK n \in T : \A m \in T : <<m, n>> \notin R
  BY <1>1, WFMin
<1>3. \A m \in T : ~(m < n)
  BY <1>2 DEF OpToRel
<1> QED
  BY <1>3

LEMMA LeastSubset ==
  ASSUME NEW S, IsFiniteSet(S), NEW T \in SUBSET (SUBSET S), T # {}
  PROVE  \E least \in T : \A s \in T : s \subseteq least => s = least
<1> DEFINE R == StrictSubsetOrdering(S)
<1>1. IsWellFoundedOn(R, SUBSET S)
  BY FS_StrictSubsetOrderingWellFounded, FS_FiniteSubsetsOfFinite
<1>2. PICK least \in T : \A s \in T : <<s, least>> \notin R
  BY <1>1, WFMin
<1> QED
  BY <1>2 DEF StrictSubsetOrdering

(***************************************************************************)
(* Max is the greatest member of a finite set of integers.                 *)
(***************************************************************************)
LEMMA MaxIsGreatest ==
  ASSUME NEW S, IsFiniteSet(S), S # {}, \A x \in S : x \in Int
  PROVE  Max(S) \in S /\ \A x \in S : x <= Max(S)
<1> DEFINE Bad == {s \in SUBSET S : s # {} /\ ~ \E m \in s : \A x \in s : m >= x}
<1>1. Bad = {}
  <2> SUFFICES ASSUME Bad # {} PROVE FALSE
    OBVIOUS
  <2>1. PICK s \in Bad : \A r \in Bad : r \subseteq s => r = s
    <3>1. Bad \in SUBSET (SUBSET S)
      OBVIOUS
    <3> HIDE DEF Bad
    <3> QED
      BY <3>1, LeastSubset
  <2>2. PICK y \in s : TRUE
    OBVIOUS
  <2>3. s \in SUBSET S /\ s \ {y} \in SUBSET S /\ s \ {y} # s
    BY <2>2
  <2>4. CASE s \ {y} = {}
    <3>1. \A x \in s : x = y
      BY <2>4
    <3> QED
      BY <2>2, <2>3, <3>1
  <2>5. CASE s \ {y} # {}
    <3>1. PICK m \in s \ {y} : \A x \in s \ {y} : m >= x
      BY <2>1, <2>3, <2>5
    <3>2. CASE m >= y
      BY <2>3, <3>1, <3>2
    <3>3. CASE ~(m >= y)
      BY <2>2, <2>3, <3>1, <3>3
    <3> QED
      BY <3>2, <3>3
  <2> QED
    BY <2>4, <2>5
<1>2. \E m \in S : \A x \in S : m >= x
  BY <1>1
<1> QED
  BY <1>2 DEF Max

-----------------------------------------------------------------------------
(***************************************************************************)
(* SumFunctionOnSet: the recursion behind it has one solution.             *)
(***************************************************************************)
Pick(s) == CHOOSE x \in s : TRUE
Adds(g, w, S) == g = [s \in SUBSET S |-> IF s = {} THEN 0 ELSE w[Pick(s)] + g[s \ {Pick(s)}]]

LEMMA SumIsChosen == \A w, S : SumFunctionOnSet(w, S) = (CHOOSE g : Adds(g, w, S))[S]
  BY DEF SumFunctionOnSet, FoldFunctionOnSet, MapThenFoldSet, Adds, Pick

LEMMA PickIsMember == \A s : s # {} => Pick(s) \in s
  BY DEF Pick

LEMMA AddsAgree ==
  ASSUME NEW w, NEW S, IsFiniteSet(S), NEW T \in SUBSET S, NEW g, NEW h, Adds(g, w, S), Adds(h, w, T)
  PROVE  g[T] = h[T]
<1> DEFINE Bad == {s \in SUBSET T : g[s] # h[s]}
<1>1. IsFiniteSet(T)
  BY FS_Subset
<1>2. Bad = {}
  <2> SUFFICES ASSUME Bad # {} PROVE FALSE
    OBVIOUS
  <2>1. PICK s \in Bad : \A r \in Bad : r \subseteq s => r = s
    <3>1. Bad \in SUBSET (SUBSET T)
      OBVIOUS
    <3> HIDE DEF Bad
    <3> QED
      BY <1>1, <3>1, LeastSubset
  <2>2. s \in SUBSET T /\ s \in SUBSET S /\ g[s] # h[s]
    OBVIOUS
  <2>3. g[s] = (IF s = {} THEN 0 ELSE w[Pick(s)] + g[s \ {Pick(s)}]) /\ h[s] = (IF s = {} THEN 0 ELSE w[Pick(s)] + h[s \ {Pick(s)}])
    BY <2>2 DEF Adds
  <2>4. s # {}
    BY <2>2, <2>3
  <2>5. Pick(s) \in s
    BY <2>4, PickIsMember
  <2>6. s \ {Pick(s)} \notin Bad /\ s \ {Pick(s)} \in SUBSET T
    BY <2>1, <2>2, <2>5
  <2>7. g[s \ {Pick(s)}] = h[s \ {Pick(s)}]
    BY <2>6
  <2> QED
    BY <2>2, <2>3, <2>7
<1> QED
  BY <1>2

LEMMA AddsExists ==
  ASSUME NEW w, NEW S, IsFiniteSet(S)
  PROVE  \E g : Adds(g, w, S)
<1> DEFINE Bad == {s \in SUBSET S : ~ \E g : Adds(g, w, s)}
<1> SUFFICES ASSUME Bad # {} PROVE FALSE
  OBVIOUS
<1>1. PICK T \in Bad : \A r \in Bad : r \subseteq T => r = T
  <2>1. Bad \in SUBSET (SUBSET S)
    OBVIOUS
  <2> HIDE DEF Bad
  <2> QED
    BY <2>1, LeastSubset
<1>2. T \in SUBSET S /\ ~ \E g : Adds(g, w, T)
  OBVIOUS
<1> DEFINE value(s) == (CHOOSE g : Adds(g, w, s))[s]
           step(s) == IF s = {} THEN 0 ELSE w[Pick(s)] + value(s \ {Pick(s)})
           g0 == [s \in SUBSET T |-> step(s)]
<1> HIDE DEF Bad
<1>3. ASSUME NEW s \in SUBSET T, s # T PROVE Adds(CHOOSE g : Adds(g, w, s), w, s)
  <2>1. s \notin Bad /\ s \in SUBSET S
    BY <1>1, <1>2, <1>3
  <2>2. \E g : Adds(g, w, s)
    BY <2>1 DEF Bad
  <2> QED
    BY <2>2
<1>4. ASSUME NEW s \in SUBSET T, s # T PROVE value(s) = step(s)
  <2> DEFINE h == CHOOSE g : Adds(g, w, s)
  <2>1. Adds(h, w, s)
    BY <1>3, <1>4
  <2>2. h[s] = IF s = {} THEN 0 ELSE w[Pick(s)] + h[s \ {Pick(s)}]
    BY <2>1 DEF Adds
  <2>3. CASE s = {}
    BY <2>2, <2>3
  <2>4. CASE s # {}
    <3> DEFINE r == s \ {Pick(s)}
               k == CHOOSE g : Adds(g, w, r)
    <3>1. Pick(s) \in s
      BY <2>4, PickIsMember
    <3>2. r \in SUBSET T /\ r # T /\ r \in SUBSET s
      BY <3>1, <1>4
    <3>3. Adds(k, w, r)
      BY <1>3, <3>2
    <3>4. IsFiniteSet(s)
      BY <1>2, FS_Subset
    <3> HIDE DEF h, k
    <3>5. h[r] = k[r]
      BY <2>1, <3>2, <3>3, <3>4, AddsAgree
    <3> QED
      BY <2>2, <2>4, <3>5 DEF h, k
  <2> QED
    BY <2>3, <2>4
<1>5. Adds(g0, w, T)
  <2>1. ASSUME NEW s \in SUBSET T, s # {} PROVE g0[s \ {Pick(s)}] = value(s \ {Pick(s)})
    <3>1. s \ {Pick(s)} \in SUBSET T /\ s \ {Pick(s)} # T
      BY <2>1, PickIsMember
    <3>2. value(s \ {Pick(s)}) = step(s \ {Pick(s)})
      BY <1>4, <3>1
    <3> QED
      BY <3>1, <3>2
  <2>2. \A s \in SUBSET T : step(s) = IF s = {} THEN 0 ELSE w[Pick(s)] + g0[s \ {Pick(s)}]
    <3> SUFFICES ASSUME NEW s \in SUBSET T PROVE step(s) = IF s = {} THEN 0 ELSE w[Pick(s)] + g0[s \ {Pick(s)}]
      OBVIOUS
    <3>1. s # {} => g0[s \ {Pick(s)}] = value(s \ {Pick(s)})
      BY <2>1
    <3> HIDE DEF g0, value
    <3> QED
      BY <3>1 DEF step
  <2> HIDE DEF step
  <2>3. g0 = [s \in SUBSET T |-> IF s = {} THEN 0 ELSE w[Pick(s)] + g0[s \ {Pick(s)}]]
    BY <2>2
  <2> QED
    BY <2>3 DEF Adds
<1> QED
  BY <1>2, <1>5

LEMMA SumUnfolds ==
  ASSUME NEW w, NEW S, IsFiniteSet(S)
  PROVE  SumFunctionOnSet(w, S) = IF S = {} THEN 0 ELSE w[Pick(S)] + SumFunctionOnSet(w, S \ {Pick(S)})
<1> DEFINE g == CHOOSE h : Adds(h, w, S)
<1>1. Adds(g, w, S)
  BY AddsExists
<1>2. g[S] = IF S = {} THEN 0 ELSE w[Pick(S)] + g[S \ {Pick(S)}]
  BY <1>1 DEF Adds
<1>3. CASE S # {}
  <2> DEFINE T == S \ {Pick(S)}
             k == CHOOSE h : Adds(h, w, T)
  <2>1. IsFiniteSet(T) /\ T \in SUBSET S
    BY FS_Subset
  <2>2. Adds(k, w, T)
    BY <2>1, AddsExists
  <2> HIDE DEF g, k
  <2>3. g[T] = k[T]
    BY <1>1, <2>1, <2>2, AddsAgree
  <2> QED
    BY <1>2, <1>3, <2>3, SumIsChosen DEF g, k
<1> QED
  BY <1>2, <1>3, SumIsChosen

(***************************************************************************)
(* What a sum is: nothing for no members, and the member that is looked at *)
(* apart adds its value to the sum of the others, whichever it is.         *)
(***************************************************************************)
LEMMA SumOfNone == \A w : SumFunctionOnSet(w, {}) = 0
  BY FS_EmptySet, SumUnfolds

LEMMA SumIsInt ==
  ASSUME NEW S, IsFiniteSet(S), NEW w, \A x \in S : w[x] \in Int
  PROVE  SumFunctionOnSet(w, S) \in Int
<1> DEFINE Bad == {s \in SUBSET S : SumFunctionOnSet(w, s) \notin Int}
<1> SUFFICES ASSUME Bad # {} PROVE FALSE
  OBVIOUS
<1>1. PICK s \in Bad : \A r \in Bad : r \subseteq s => r = s
  <2>1. Bad \in SUBSET (SUBSET S)
    OBVIOUS
  <2> HIDE DEF Bad
  <2> QED
    BY <2>1, LeastSubset
<1>2. IsFiniteSet(s) /\ s \in SUBSET S
  BY FS_Subset
<1>3. CASE s = {}
  BY <1>3, SumOfNone
<1>4. CASE s # {}
  <2>1. Pick(s) \in s
    BY <1>4, PickIsMember
  <2>2. SumFunctionOnSet(w, s \ {Pick(s)}) \in Int
    BY <1>1, <1>2, <2>1
  <2> QED
    BY <1>2, <1>4, <2>1, <2>2, SumUnfolds
<1> QED
  BY <1>3, <1>4

LEMMA SumApart ==
  ASSUME NEW S, IsFiniteSet(S), NEW w, \A x \in S : w[x] \in Int, NEW x \in S
  PROVE  SumFunctionOnSet(w, S) = w[x] + SumFunctionOnSet(w, S \ {x})
<1> DEFINE Apart(s, y) == SumFunctionOnSet(w, s) = w[y] + SumFunctionOnSet(w, s \ {y})
           Bad == {s \in SUBSET S : \E y \in s : ~Apart(s, y)}
<1>1. Bad = {}
  <2> SUFFICES ASSUME Bad # {} PROVE FALSE
    OBVIOUS
  <2>1. PICK s \in Bad : \A r \in Bad : r \subseteq s => r = s
    <3>1. Bad \in SUBSET (SUBSET S)
      OBVIOUS
    <3> HIDE DEF Bad
    <3> QED
      BY <3>1, LeastSubset
  <2>2. PICK y \in s : ~Apart(s, y)
    OBVIOUS
  <2>3. s \in SUBSET S
    OBVIOUS
  <2> DEFINE p == Pick(s)
  <2>4. p \in s /\ Apart(s, p)
    <3>1. IsFiniteSet(s)
      BY <2>3, FS_Subset
    <3> QED
      BY <2>2, <3>1, PickIsMember, SumUnfolds
  <2> HIDE DEF p, Bad
  <2>5. \A r \in SUBSET S : r \subseteq s /\ r # s => \A z \in r : Apart(r, z)
    BY <2>1 DEF Bad
  <2>6. p # y
    BY <2>2, <2>4
  <2>7. Apart(s \ {p}, y) /\ Apart(s \ {y}, p)
    BY <2>2, <2>3, <2>4, <2>5, <2>6
  <2>8. (s \ {p}) \ {y} = (s \ {y}) \ {p}
    OBVIOUS
  <2>9. SumFunctionOnSet(w, (s \ {p}) \ {y}) \in Int /\ w[p] \in Int /\ w[y] \in Int
    <3>1. IsFiniteSet((s \ {p}) \ {y}) /\ (s \ {p}) \ {y} \in SUBSET S
      BY <2>3, FS_Subset
    <3> QED
      BY <2>2, <2>3, <2>4, <3>1, SumIsInt
  <2>10. SumFunctionOnSet(w, s) = w[p] + SumFunctionOnSet(w, s \ {p})
    BY <2>4
  <2>11. SumFunctionOnSet(w, s \ {p}) = w[y] + SumFunctionOnSet(w, (s \ {p}) \ {y})
    BY <2>7
  <2>12. SumFunctionOnSet(w, s \ {y}) = w[p] + SumFunctionOnSet(w, (s \ {p}) \ {y})
    BY <2>7, <2>8
  <2> HIDE DEF Apart
  <2>13. SumFunctionOnSet(w, s) = w[y] + SumFunctionOnSet(w, s \ {y})
    BY <2>9, <2>10, <2>11, <2>12
  <2> QED
    BY <2>2, <2>13 DEF Apart
<1> QED
  BY <1>1

(***************************************************************************)
(* Sums of the same values are the same, and of smaller values smaller.    *)
(***************************************************************************)
LEMMA SumIsMonotonic ==
  ASSUME NEW S, IsFiniteSet(S), NEW w, NEW v, \A x \in S : w[x] \in Int /\ v[x] \in Int /\ w[x] <= v[x]
  PROVE  SumFunctionOnSet(w, S) <= SumFunctionOnSet(v, S)
<1> DEFINE Bad == {s \in SUBSET S : ~(SumFunctionOnSet(w, s) <= SumFunctionOnSet(v, s))}
<1> SUFFICES ASSUME Bad # {} PROVE FALSE
  OBVIOUS
<1>1. PICK s \in Bad : \A r \in Bad : r \subseteq s => r = s
  <2>1. Bad \in SUBSET (SUBSET S)
    OBVIOUS
  <2> HIDE DEF Bad
  <2> QED
    BY <2>1, LeastSubset
<1>2. IsFiniteSet(s) /\ s \in SUBSET S
  BY FS_Subset
<1>3. CASE s = {}
  BY <1>3, SumOfNone
<1>4. CASE s # {}
  <2>1. PICK x \in s : TRUE
    BY <1>4
  <2> DEFINE r == s \ {x}
  <2>2. r \in SUBSET S /\ r \subseteq s /\ r # s
    BY <1>2, <2>1
  <2>3. SumFunctionOnSet(w, r) <= SumFunctionOnSet(v, r)
    BY <1>1, <2>2
  <2>4. SumFunctionOnSet(w, r) \in Int /\ SumFunctionOnSet(v, r) \in Int
    BY <2>2, FS_Subset, SumIsInt
  <2>5. SumFunctionOnSet(w, s) = w[x] + SumFunctionOnSet(w, r) /\ SumFunctionOnSet(v, s) = v[x] + SumFunctionOnSet(v, r)
    BY <1>2, <2>1, SumApart
  <2>6. w[x] \in Int /\ v[x] \in Int /\ w[x] <= v[x]
    BY <1>2, <2>1
  <2> QED
    BY <2>3, <2>4, <2>5, <2>6
<1> QED
  BY <1>3, <1>4

LEMMA SumOfSame ==
  ASSUME NEW S, IsFiniteSet(S), NEW w, NEW v, \A x \in S : w[x] \in Int /\ w[x] = v[x]
  PROVE  SumFunctionOnSet(w, S) = SumFunctionOnSet(v, S)
<1>1. SumFunctionOnSet(w, S) <= SumFunctionOnSet(v, S) /\ SumFunctionOnSet(v, S) <= SumFunctionOnSet(w, S)
  BY SumIsMonotonic
<1>2. SumFunctionOnSet(w, S) \in Int /\ SumFunctionOnSet(v, S) \in Int
  BY SumIsInt
<1> QED
  BY <1>1, <1>2

\* One value is changed.
LEMMA SumChanges ==
  ASSUME NEW S, IsFiniteSet(S), NEW w, NEW v, NEW x \in S,
         \A y \in S : w[y] \in Int /\ v[y] \in Int, \A y \in S \ {x} : w[y] = v[y]
  PROVE  SumFunctionOnSet(v, S) = SumFunctionOnSet(w, S) + v[x] - w[x]
<1> DEFINE r == S \ {x}
<1>1. IsFiniteSet(r) /\ r \in SUBSET S
  BY FS_Subset
<1>2. SumFunctionOnSet(w, r) = SumFunctionOnSet(v, r) /\ SumFunctionOnSet(w, r) \in Int
  BY <1>1, SumOfSame, SumIsInt
<1>3. SumFunctionOnSet(w, S) = w[x] + SumFunctionOnSet(w, r) /\ SumFunctionOnSet(v, S) = v[x] + SumFunctionOnSet(v, r)
  BY SumApart
<1> QED
  BY <1>2, <1>3

\* The values of some of the members, and nothing for the others.
LEMMA SumOfPart ==
  ASSUME NEW S, IsFiniteSet(S), NEW T \in SUBSET S, NEW w, NEW v,
         \A x \in T : w[x] \in Int /\ v[x] = w[x], \A x \in S \ T : v[x] = 0
  PROVE  SumFunctionOnSet(v, S) = SumFunctionOnSet(w, T)
<1> DEFINE Bad == {s \in SUBSET S : SumFunctionOnSet(v, s) # SumFunctionOnSet(w, s \intersect T)}
<1>1. Bad = {}
  <2> SUFFICES ASSUME Bad # {} PROVE FALSE
    OBVIOUS
  <2>1. PICK s \in Bad : \A r \in Bad : r \subseteq s => r = s
    <3>1. Bad \in SUBSET (SUBSET S)
      OBVIOUS
    <3> HIDE DEF Bad
    <3> QED
      BY <3>1, LeastSubset
  <2>2. s \in SUBSET S /\ IsFiniteSet(s) /\ IsFiniteSet(s \intersect T)
    BY FS_Subset
  <2>3. CASE s = {}
    <3>1. s \intersect T = {}
      BY <2>3
    <3> QED
      BY <2>3, <3>1, SumOfNone
  <2>4. CASE s # {}
    <3>1. PICK x \in s : TRUE
      BY <2>4
    <3> DEFINE r == s \ {x}
    <3>2. r \in SUBSET S /\ r \subseteq s /\ r # s /\ r \intersect T = (s \intersect T) \ {x}
      BY <2>2, <3>1
    <3>3. SumFunctionOnSet(v, r) = SumFunctionOnSet(w, r \intersect T)
      BY <2>1, <3>2
    <3>4. \A y \in s : v[y] \in Int
      BY <2>2
    <3>5. SumFunctionOnSet(v, s) = v[x] + SumFunctionOnSet(v, r)
      BY <2>2, <3>1, <3>4, SumApart
    <3>6. CASE x \in T
      <4>1. \A y \in s \intersect T : w[y] \in Int
        OBVIOUS
      <4>2. SumFunctionOnSet(w, s \intersect T) = w[x] + SumFunctionOnSet(w, (s \intersect T) \ {x})
        BY <2>2, <3>1, <3>6, <4>1, SumApart
      <4> QED
        BY <3>2, <3>3, <3>5, <3>6, <4>2
    <3>7. CASE x \notin T
      <4>1. r \intersect T = s \intersect T /\ v[x] = 0
        BY <2>2, <3>1, <3>7
      <4>2. SumFunctionOnSet(v, r) \in Int
        BY <2>2, <3>2, <3>4, FS_Subset, SumIsInt
      <4>3. SumFunctionOnSet(v, s) = SumFunctionOnSet(v, r)
        BY <3>5, <4>1, <4>2
      <4>4. SumFunctionOnSet(w, r \intersect T) = SumFunctionOnSet(w, s \intersect T)
        BY <4>1
      <4>5. SumFunctionOnSet(v, s) = SumFunctionOnSet(w, s \intersect T)
        BY <3>3, <4>3, <4>4
      <4> QED
        BY <2>1, <4>5
    <3> QED
      BY <3>6, <3>7
  <2> QED
    BY <2>3, <2>4
<1>2. S \intersect T = T /\ S \notin Bad
  BY <1>1
<1> QED
  BY <1>2

\* The sum of sums.
LEMMA SumAdds ==
  ASSUME NEW S, IsFiniteSet(S), NEW w, NEW v, NEW both,
         \A x \in S : w[x] \in Int /\ v[x] \in Int /\ both[x] = w[x] + v[x]
  PROVE  SumFunctionOnSet(both, S) = SumFunctionOnSet(w, S) + SumFunctionOnSet(v, S)
<1> DEFINE Bad == {s \in SUBSET S : SumFunctionOnSet(both, s) # SumFunctionOnSet(w, s) + SumFunctionOnSet(v, s)}
<1>1. Bad = {}
  <2> SUFFICES ASSUME Bad # {} PROVE FALSE
    OBVIOUS
  <2>1. PICK s \in Bad : \A r \in Bad : r \subseteq s => r = s
    <3>1. Bad \in SUBSET (SUBSET S)
      OBVIOUS
    <3> HIDE DEF Bad
    <3> QED
      BY <3>1, LeastSubset
  <2>2. s \in SUBSET S /\ IsFiniteSet(s)
    BY FS_Subset
  <2>3. CASE s = {}
    BY <2>3, SumOfNone
  <2>4. CASE s # {}
    <3>1. PICK x \in s : TRUE
      BY <2>4
    <3> DEFINE r == s \ {x}
    <3>2. r \in SUBSET S /\ r \subseteq s /\ r # s /\ IsFiniteSet(r)
      BY <2>2, <3>1, FS_Subset
    <3>3. SumFunctionOnSet(both, r) = SumFunctionOnSet(w, r) + SumFunctionOnSet(v, r)
      BY <2>1, <3>2
    <3>4. \A y \in s : w[y] \in Int /\ v[y] \in Int /\ both[y] \in Int /\ both[y] = w[y] + v[y]
      BY <2>2
    <3>5. SumFunctionOnSet(w, r) \in Int /\ SumFunctionOnSet(v, r) \in Int
      BY <3>2, <3>4, SumIsInt
    <3>6. /\ SumFunctionOnSet(both, s) = both[x] + SumFunctionOnSet(both, r)
          /\ SumFunctionOnSet(w, s) = w[x] + SumFunctionOnSet(w, r)
          /\ SumFunctionOnSet(v, s) = v[x] + SumFunctionOnSet(v, r)
      BY <2>2, <3>1, <3>4, SumApart
    <3>7. w[x] \in Int /\ v[x] \in Int /\ both[x] = w[x] + v[x]
      BY <3>1, <3>4
    <3>8. SumFunctionOnSet(both, s) = SumFunctionOnSet(w, s) + SumFunctionOnSet(v, s)
      BY <3>3, <3>5, <3>6, <3>7
    <3> QED
      BY <2>1, <3>8
  <2> QED
    BY <2>3, <2>4
<1> QED
  BY <1>1

-----------------------------------------------------------------------------
(***************************************************************************)
(* Counting: multiples of a natural number, and a set that gains or loses  *)
(* a member.                                                               *)
(***************************************************************************)
LEMMA MultiplesGrow ==
  ASSUME NEW m \in Nat, NEW n \in Nat, NEW c \in Nat, m <= n
  PROVE  m * c <= n * c /\ m * c \in Nat /\ n * c \in Nat /\ (m + 1) * c = m * c + c
<1>1. n - m \in Nat /\ n = m + (n - m)
  OBVIOUS
<1> DEFINE d == n - m
<1> HIDE DEF d
<1>2. d \in Nat /\ n = m + d
  BY <1>1 DEF d
<1>3. \A i, j \in Nat : i * j \in Nat
  OBVIOUS
<1>4. n * c = m * c + d * c
  BY <1>2
<1>5. (m + 1) * c = m * c + c
  OBVIOUS
<1> QED
  BY <1>2, <1>3, <1>4, <1>5

LEMMA SubsetCount ==
  ASSUME NEW S, IsFiniteSet(S), NEW T \in SUBSET S
  PROVE  /\ IsFiniteSet(T) /\ Cardinality(T) \in Nat /\ Cardinality(S) \in Nat
         /\ Cardinality(T) <= Cardinality(S)
         /\ \A x \in S : Cardinality(T \union {x}) = IF x \in T THEN Cardinality(T) ELSE Cardinality(T) + 1
         /\ \A x \in S : Cardinality(T \ {x}) = IF x \in T THEN Cardinality(T) - 1 ELSE Cardinality(T)
<1>1. IsFiniteSet(T) /\ Cardinality(T) <= Cardinality(S)
  BY FS_Subset
<1>2. Cardinality(T) \in Nat /\ Cardinality(S) \in Nat
  BY <1>1, FS_CardinalityType
<1> QED
  BY <1>1, <1>2, FS_AddElement, FS_RemoveElement

-----------------------------------------------------------------------------
(***************************************************************************)
(* Room for those who checked and have yet to take.  Each of a set S may   *)
(* see that an amount, of at most one unit, is left, and take it later,    *)
(* without looking again.  "holders" have seen theirs: there is room for   *)
(* one unit each beside one that is over, or, beside the amount of one of  *)
(* them, for a unit each of the others.                                    *)
(***************************************************************************)
Room(S, unit, holders, amount, left) ==
  \/ left >= -((Cardinality(S) - 1 - Cardinality(holders)) * unit)
  \/ \E c \in holders : left >= amount[c] - (Cardinality(S) - Cardinality(holders)) * unit

LEMMA MultiplesStep ==
  ASSUME NEW unit \in Nat, NEW n \in Int
  PROVE  n * unit \in Int /\ (n + 1) * unit = n * unit + unit /\ (n - 1) * unit = n * unit - unit
<1>1. unit \in Int
  OBVIOUS
<1> QED
  BY <1>1

\* One that has just seen its amount covered enters.
LEMMA RoomToEnter ==
  ASSUME NEW S, IsFiniteSet(S), S # {}, NEW unit \in Nat,
         NEW Q \in SUBSET S, NEW d \in Q, NEW a \in [S -> Nat], NEW b \in Int, b >= a[d]
  PROVE  Room(S, unit, Q, a, b)
<1>1. Cardinality(S) - Cardinality(Q) \in Nat
  BY SubsetCount
<1> DEFINE rest == (Cardinality(S) - Cardinality(Q)) * unit
<1>2. rest \in Nat
  BY <1>1, MultiplesGrow
<1> HIDE DEF rest
<1>3. b >= a[d] - rest
  BY <1>2
<1> QED
  BY <1>3 DEF Room, rest

\* One takes its amount, or gives up.
LEMMA RoomToLeave ==
  ASSUME NEW S, IsFiniteSet(S), S # {}, NEW unit \in Nat,
         NEW Q \in SUBSET S, NEW d \in Q, NEW a \in [S -> Nat], NEW b \in Int, Room(S, unit, Q, a, b),
         NEW a2 \in [S -> Nat], \A c \in Q \ {d} : a2[c] = a[c], a[d] <= unit,
         NEW b2 \in Int, b2 >= b - a[d]
  PROVE  Room(S, unit, Q \ {d}, a2, b2)
<1>1. Cardinality(S) \in Nat /\ Cardinality(Q) \in Nat /\ Cardinality(Q \ {d}) = Cardinality(Q) - 1
  BY SubsetCount
<1> DEFINE n == Cardinality(S) - Cardinality(Q)
           left == n * unit
<1>2. /\ n \in Int /\ Cardinality(S) - 1 - Cardinality(Q) = n - 1
      /\ Cardinality(S) - Cardinality(Q \ {d}) = n + 1 /\ Cardinality(S) - 1 - Cardinality(Q \ {d}) = n
  BY <1>1
<1>3. /\ left \in Int /\ unit \in Nat
      /\ (n + 1) * unit = left + unit /\ (n - 1) * unit = left - unit
  BY <1>2, MultiplesStep
<1> HIDE DEF n
<1>4. Room(S, unit, Q, a, b) <=> b >= -((n - 1) * unit) \/ \E c \in Q : b >= a[c] - n * unit
  BY <1>2 DEF Room, n
<1>5. Room(S, unit, Q \ {d}, a2, b2) <=> b2 >= -(n * unit) \/ \E c \in Q \ {d} : b2 >= a2[c] - (n + 1) * unit
  BY <1>2 DEF Room
<1> HIDE DEF left
<1>6. b >= -(left - unit) \/ \E c \in Q : b >= a[c] - left
  BY <1>3, <1>4 DEF left
<1>7. b2 >= -left \/ \E c \in Q \ {d} : b2 >= a2[c] - (left + unit)
  <2>1. \A c \in Q : a[c] \in Nat /\ a2[c] \in Nat
    OBVIOUS
  <2>2. CASE b >= -(left - unit)
    BY <1>3, <2>1, <2>2
  <2>3. ASSUME NEW c \in Q, b >= a[c] - left PROVE <1>7
    <3>1. CASE c = d
      BY <1>3, <2>1, <2>3, <3>1
    <3>2. CASE c # d
      <4>1. c \in Q \ {d} /\ a2[c] = a[c]
        BY <3>2
      <4>2. b2 >= a2[c] - (left + unit)
        BY <1>3, <2>1, <2>3, <4>1
      <4> QED
        BY <4>1, <4>2
    <3> QED
      BY <3>1, <3>2
  <2> QED
    BY <1>6, <2>2, <2>3
<1> QED
  BY <1>3, <1>5, <1>7 DEF left

\* Nobody enters or leaves.
LEMMA RoomStays ==
  ASSUME NEW S, IsFiniteSet(S), S # {}, NEW unit \in Nat,
         NEW Q \in SUBSET S, NEW a \in [S -> Nat], NEW b \in Int, Room(S, unit, Q, a, b),
         NEW a2 \in [S -> Nat], \A c \in Q : a2[c] = a[c], NEW b2 \in Int, b2 >= b
  PROVE  Room(S, unit, Q, a2, b2)
<1> DEFINE n == Cardinality(S) - Cardinality(Q)
           m == Cardinality(S) - 1 - Cardinality(Q)
           left == n * unit
           most == m * unit
<1>1. n \in Int /\ m \in Int
  BY SubsetCount
<1>2. left \in Int /\ most \in Int
  BY <1>1, MultiplesStep
<1> HIDE DEF left, most
<1>3. b >= -most \/ \E c \in Q : b >= a[c] - left
  BY DEF Room, left, most
<1>4. \A c \in Q : a[c] \in Nat /\ a2[c] = a[c]
  OBVIOUS
<1>5. b2 >= -most \/ \E c \in Q : b2 >= a2[c] - left
  <2>1. CASE b >= -most
    BY <1>2, <2>1
  <2>2. ASSUME NEW c \in Q, b >= a[c] - left PROVE b2 >= a2[c] - left
    BY <1>2, <1>4, <2>2
  <2> QED
    BY <1>3, <2>1, <2>2
<1> QED
  BY <1>5 DEF Room, left, most

LEMMA NoOneHolds ==
  ASSUME NEW S, IsFiniteSet(S), S # {}, NEW unit \in Nat,
         NEW a, NEW b \in Nat
  PROVE  Room(S, unit, {}, a, b)
<1>1. Cardinality(S) \in Nat /\ Cardinality(S) # 0 /\ Cardinality({}) = 0
  BY FS_CardinalityType, FS_EmptySet
<1> DEFINE most == (Cardinality(S) - 1 - Cardinality({})) * unit
<1>2. most \in Nat
  <2>1. Cardinality(S) - 1 - Cardinality({}) \in Nat
    BY <1>1
  <2> QED
    BY <2>1, MultiplesGrow
<1> HIDE DEF most
<1>3. b >= -most
  BY <1>2
<1> QED
  BY <1>3 DEF Room, most

LEMMA RoomBounds ==
  ASSUME NEW S, IsFiniteSet(S), S # {}, NEW unit \in Nat,
         NEW Q \in SUBSET S, NEW a \in [S -> Nat], NEW b \in Int, Room(S, unit, Q, a, b)
  PROVE  b >= -((Cardinality(S) - 1) * unit)
<1>1. /\ Cardinality(S) \in Nat /\ Cardinality(Q) \in Nat /\ Cardinality(Q) <= Cardinality(S)
      /\ Cardinality(S) # 0 /\ unit \in Nat
  <2>1. Cardinality(S) # 0
    BY FS_EmptySet
  <2>2. Cardinality(S) \in Nat /\ Cardinality(Q) \in Nat /\ Cardinality(Q) <= Cardinality(S)
    BY SubsetCount
  <2> QED
    BY <2>1, <2>2
<1> DEFINE all == Cardinality(S) - 1
           most == all * unit
           n == Cardinality(S) - Cardinality(Q)
           left == n * unit
<1>2. all \in Nat /\ n \in Nat /\ Cardinality(S) - 1 - Cardinality(Q) = n - 1 /\ most \in Int /\ left \in Int
      /\ (n - 1) * unit = left - unit
  <2>1. all \in Nat /\ n \in Nat /\ all \in Int /\ n \in Int /\ Cardinality(S) - 1 - Cardinality(Q) = n - 1
    BY <1>1
  <2> HIDE DEF all, n
  <2> QED
    BY <2>1, MultiplesStep
<1>3. CASE Q = {}
  <2>1. n = all + 1
    BY <1>1, <1>3, FS_EmptySet
  <2>2. left = most + unit
    BY <1>2, <2>1, MultiplesStep
  <2>3. b >= -((n - 1) * unit)
    BY <1>2, <1>3 DEF Room
  <2> HIDE DEF n, left, most
  <2> QED
    BY <1>1, <1>2, <2>2, <2>3 DEF most
<1>4. CASE Q # {}
  <2>1. Cardinality(Q) # 0
    <3>1. IsFiniteSet(Q)
      BY SubsetCount
    <3> QED
      BY <1>4, <3>1, FS_EmptySet
  <2>2. n <= all
    BY <1>1, <2>1
  <2>3. left <= most
    BY <1>1, <1>2, <2>2, MultiplesGrow
  <2>4. b >= -((n - 1) * unit) \/ \E c \in Q : b >= a[c] - left
    BY <1>2 DEF Room
  <2>5. \A c \in Q : a[c] \in Nat
    OBVIOUS
  <2> HIDE DEF n, left, most, all
  <2>6. b >= -most
    BY <1>1, <1>2, <2>3, <2>4, <2>5
  <2> QED
    BY <2>6 DEF most, all
<1> QED
  BY <1>3, <1>4
=============================================================================
