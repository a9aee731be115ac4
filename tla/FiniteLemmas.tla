------------------------------ MODULE FiniteLemmas ------------------------------
(***************************************************************************)
(* Facts about finite sets of numbers and about sums.                      *)
(*                                                                         *)
(* Least and greatest elements: where the loops of the threshold manager   *)
(* stop, which slot Server_AllocateClient returns, what the algorithms of  *)
(* sensors.c pick.  Sums: the means of sensors.c and temperature_filter.c. *)
(*                                                                         *)
(* Induction is by least counterexample: what fails fails of a least       *)
(* number, or of a set none of whose strict subsets fails.                 *)
(***************************************************************************)
EXTENDS Sequences, FiniteSetsExt, FiniteSetTheorems, TLAPS

\* Every non-empty set of naturals has a least element.
LEMMA LeastElement ==
    ASSUME NEW S, S \subseteq Nat, S # {}
    PROVE  \E x \in S : \A y \in S : x <= y
<1>1. PICK R : IsWellFoundedOn(R, Nat) /\ R = {ss \in Nat \X Nat : ss[1] < ss[2]}
  <2>1. OpToRel(<, Nat) = {ss \in Nat \X Nat : ss[1] < ss[2]}
    BY Zenon DEF OpToRel
  <2>. QED BY <2>1, NatLessThanWellFounded, Zenon
<1>2. \A x, y \in Nat : y < x => <<y, x>> \in R
  BY <1>1
<1>3. PICK x \in S : \A y \in S : ~ (<<y, x>> \in R)
  BY <1>1, WFMin, Zenon
<1>4. \A y \in S : ~ (y < x)
  BY <1>2, <1>3, Zenon
<1>. QED BY <1>4

\* Induction up to n, for the places of a set.
LEMMA UpToTheLast ==
    ASSUME NEW n \in Nat, NEW S, 1 \in S, \A m \in 2..n : m - 1 \in S => m \in S
    PROVE  1..n \subseteq S
<1>. DEFINE Bad == {m \in 1..n : m \notin S}
<1>1. SUFFICES ASSUME Bad # {} PROVE FALSE
  OBVIOUS
<1>2. PICK m \in Bad : \A l \in Bad : m <= l
  <2>1. Bad \subseteq Nat
    OBVIOUS
  <2>. HIDE DEF Bad
  <2>. QED BY <1>1, <2>1, LeastElement
<1>3. m \in 2..n /\ m - 1 \in 1..n /\ ~ (m <= m - 1)
  OBVIOUS
<1>4. m - 1 \notin Bad
  BY <1>2, <1>3
<1>. QED BY <1>3, <1>4

\* Every non-empty set of naturals with an upper bound has a greatest one.
LEMMA GreatestElement ==
    ASSUME NEW n \in Nat, NEW S, S \subseteq 0..n, S # {}
    PROVE  \E x \in S : \A y \in S : y <= x
<1>. DEFINE T == {m \in Nat : n - m \in S}
<1>1. T \subseteq Nat /\ T # {}
  <2>1. PICK x \in S : TRUE
    OBVIOUS
  <2>2. n - x \in T
    BY <2>1
  <2>. QED BY <2>2
<1>2. PICK m \in T : \A l \in T : m <= l
  BY <1>1, LeastElement, Zenon
<1>3. n - m \in S
  BY <1>2
<1>4. \A y \in S : n - y \in T
  OBVIOUS
<1>. QED BY <1>2, <1>3, <1>4

\* Min of the community modules is the least element, where there is one.
LEMMA MinOfNaturals ==
    ASSUME NEW S, S \subseteq Nat, S # {}
    PROVE  Min(S) \in S /\ \A y \in S : Min(S) <= y
BY LeastElement DEF Min

LEMMA MinOfTwo ==
    ASSUME NEW a \in Int, NEW b \in Int
    PROVE  Min({a, b}) = IF a <= b THEN a ELSE b
BY DEF Min

-----------------------------------------------------------------------------
(* The same for the temperatures of a fan, which may be below zero: a finite *)
(* set that is not empty has a least and a greatest element.                 *)

LEMMA LeastOfFinite ==
    ASSUME NEW S, IsFiniteSet(S), S \subseteq Int, S # {}
    PROVE  \E x \in S : \A y \in S : x <= y
<1>. DEFINE Below(x) == {y \in S : y <= x}
            Starts == {Below(x) : x \in S}
            R == StrictSubsetOrdering(S)
<1>1. IsWellFoundedOn(R, FiniteSubsetsOf(S))
  BY FS_StrictSubsetOrderingWellFounded
<1>2. Starts \subseteq FiniteSubsetsOf(S) /\ Starts # {}
  <2>1. \A x \in S : Below(x) \subseteq S
    OBVIOUS
  <2>2. PICK x \in S : TRUE
    OBVIOUS
  <2>3. Below(x) \in Starts
    BY <2>2
  <2>4. FiniteSubsetsOf(S) = SUBSET S
    BY FS_FiniteSubsetsOfFinite
  <2>. HIDE DEF Below
  <2>. QED BY <2>1, <2>3, <2>4
<1>3. PICK T \in Starts : \A U \in Starts : ~ (<<U, T>> \in R)
  <2>. HIDE DEF Starts, R
  <2>. QED BY <1>1, <1>2, WFMin, Zenon
<1>4. PICK x \in S : T = Below(x)
  OBVIOUS
<1>5. ASSUME NEW y \in S, y < x PROVE FALSE
  <2>. x \in Int /\ y \in Int
    OBVIOUS
  <2>0. \A z \in S : z \in Int /\ (z <= y => z <= x)
    BY <1>5
  <2>1. Below(y) \subseteq Below(x)
    BY <2>0
  <2>2. x \in Below(x) /\ x \notin Below(y)
    BY <1>5
  <2>3. Below(x) \subseteq S
    OBVIOUS
  <2>4. <<Below(y), T>> \in R
    <3>. HIDE DEF Below
    <3>. QED BY <2>1, <2>2, <2>3, <1>4 DEF StrictSubsetOrdering
  <2>. QED BY <2>4, <1>3
<1>. QED BY <1>5

LEMMA GreatestOfFinite ==
    ASSUME NEW S, IsFiniteSet(S), S \subseteq Int, S # {}
    PROVE  \E x \in S : \A y \in S : x >= y
<1>. DEFINE Above(x) == {y \in S : y >= x}
            Ends == {Above(x) : x \in S}
            R == StrictSubsetOrdering(S)
<1>1. IsWellFoundedOn(R, FiniteSubsetsOf(S))
  BY FS_StrictSubsetOrderingWellFounded
<1>2. Ends \subseteq FiniteSubsetsOf(S) /\ Ends # {}
  <2>1. \A x \in S : Above(x) \subseteq S
    OBVIOUS
  <2>2. PICK x \in S : TRUE
    OBVIOUS
  <2>3. Above(x) \in Ends
    BY <2>2
  <2>4. FiniteSubsetsOf(S) = SUBSET S
    BY FS_FiniteSubsetsOfFinite
  <2>. HIDE DEF Above
  <2>. QED BY <2>1, <2>3, <2>4
<1>3. PICK T \in Ends : \A U \in Ends : ~ (<<U, T>> \in R)
  <2>. HIDE DEF Ends, R
  <2>. QED BY <1>1, <1>2, WFMin, Zenon
<1>4. PICK x \in S : T = Above(x)
  OBVIOUS
<1>5. ASSUME NEW y \in S, y > x PROVE FALSE
  <2>. x \in Int /\ y \in Int
    OBVIOUS
  <2>0. \A z \in S : z \in Int /\ (z >= y => z >= x)
    BY <1>5
  <2>1. Above(y) \subseteq Above(x)
    BY <2>0
  <2>2. x \in Above(x) /\ x \notin Above(y)
    BY <1>5
  <2>3. Above(x) \subseteq S
    OBVIOUS
  <2>4. <<Above(y), T>> \in R
    <3>. HIDE DEF Above
    <3>. QED BY <2>1, <2>2, <2>3, <1>4 DEF StrictSubsetOrdering
  <2>. QED BY <2>4, <1>3
<1>. QED BY <1>5

LEMMA MinOfFinite ==
    ASSUME NEW S, IsFiniteSet(S), S \subseteq Int, S # {}
    PROVE  Min(S) \in S /\ \A y \in S : Min(S) <= y
BY LeastOfFinite DEF Min

LEMMA MaxOfFinite ==
    ASSUME NEW S, IsFiniteSet(S), S \subseteq Int, S # {}
    PROVE  Max(S) \in S /\ \A y \in S : y <= Max(S)
BY GreatestOfFinite DEF Max

-----------------------------------------------------------------------------
(* Sums of functions over finite sets: SumFunctionOnSet of the community      *)
(* modules, a fold that picks the elements in any order.                      *)

\* The set that is chosen from, with what is chosen, one smaller.
Pick(s) == CHOOSE x \in s : TRUE

\* it is the running sum of f over the subsets of S, as the folds compute it.
Sums(f, S, it) ==
    it = [s \in SUBSET S |-> IF s = {} THEN 0 ELSE f[Pick(s)] + it[s \ {Pick(s)}]]

LEMMA SumIsChosen ==
    ASSUME NEW f, NEW S
    PROVE  SumFunctionOnSet(f, S) = (CHOOSE it : Sums(f, S, it))[S]
BY DEF SumFunctionOnSet, FoldFunctionOnSet, MapThenFoldSet, Sums, Pick

LEMMA PickIn == ASSUME NEW s, s # {} PROVE Pick(s) \in s
BY DEF Pick

\* A property of finite sets that fails fails of a smallest one.
LEMMA SmallestSet ==
    ASSUME NEW S, IsFiniteSet(S), NEW Bad, Bad \subseteq SUBSET S, Bad # {}
    PROVE  \E T \in Bad : \A U \in Bad : ~ (U \subseteq T /\ U # T)
<1>. DEFINE R == StrictSubsetOrdering(S)
<1>1. IsWellFoundedOn(R, FiniteSubsetsOf(S))
  BY FS_StrictSubsetOrderingWellFounded
<1>2. FiniteSubsetsOf(S) = SUBSET S
  BY FS_FiniteSubsetsOfFinite
<1>3. PICK T \in Bad : \A U \in Bad : ~ (<<U, T>> \in R)
  <2>. HIDE DEF R
  <2>. QED BY <1>1, <1>2, WFMin, Zenon
<1>. QED BY <1>3 DEF StrictSubsetOrdering

LEMMA SumsAgree ==
    ASSUME NEW f, NEW S, NEW T, IsFiniteSet(S), S \subseteq T,
           NEW a, Sums(f, S, a), NEW b, Sums(f, T, b)
    PROVE  a[S] = b[S]
<1>. DEFINE Bad == {s \in SUBSET S : a[s] # b[s]}
<1>1. SUFFICES ASSUME Bad # {} PROVE FALSE
  OBVIOUS
<1>2. PICK s \in Bad : \A u \in Bad : ~ (u \subseteq s /\ u # s)
  <2>1. Bad \subseteq SUBSET S
    OBVIOUS
  <2>. HIDE DEF Bad
  <2>. QED BY <1>1, <2>1, SmallestSet
<1>3. /\ a[s] = IF s = {} THEN 0 ELSE f[Pick(s)] + a[s \ {Pick(s)}]
      /\ b[s] = IF s = {} THEN 0 ELSE f[Pick(s)] + b[s \ {Pick(s)}]
  BY DEF Sums
<1>4. CASE s = {}
  BY <1>3, <1>4
<1>5. CASE s # {}
  <2>1. Pick(s) \in s
    BY <1>5, PickIn
  <2>2. s \ {Pick(s)} \subseteq s /\ s \ {Pick(s)} # s /\ s \ {Pick(s)} \in SUBSET S
    BY <2>1
  <2>3. a[s \ {Pick(s)}] = b[s \ {Pick(s)}]
    BY <1>2, <2>2
  <2>. QED BY <1>3, <1>5, <2>3
<1>. QED BY <1>4, <1>5

LEMMA SumsExist ==
    ASSUME NEW f, NEW S, IsFiniteSet(S)
    PROVE  \E it : Sums(f, S, it)
<1>. DEFINE Bad == {T \in SUBSET S : ~ \E it : Sums(f, T, it)}
            the(T) == CHOOSE it : Sums(f, T, it)
<1>1. SUFFICES ASSUME Bad # {} PROVE FALSE
  OBVIOUS
<1>2. PICK T \in Bad : \A U \in Bad : ~ (U \subseteq T /\ U # T)
  <2>1. Bad \subseteq SUBSET S
    OBVIOUS
  <2>. HIDE DEF Bad
  <2>. QED BY <1>1, <2>1, SmallestSet
<1>3. ASSUME NEW s \in SUBSET T, s # T PROVE Sums(f, s, the(s))
  <2>1. \E it : Sums(f, s, it)
    BY <1>2, <1>3
  <2>. QED BY <2>1, Zenon
<1>. DEFINE G == [s \in SUBSET T |->
                    IF s = T THEN (IF s = {} THEN 0 ELSE f[Pick(s)] + the(s \ {Pick(s)})[s \ {Pick(s)}])
                             ELSE the(s)[s]]
<1>4. ASSUME NEW s \in SUBSET T
      PROVE  G[s] = IF s = {} THEN 0 ELSE f[Pick(s)] + G[s \ {Pick(s)}]
  <2>. DEFINE r == s \ {Pick(s)}
  <2>1. CASE s = {}
    <3>1. CASE s = T
      BY <2>1, <3>1
    <3>2. CASE s # T
      <4>1. Sums(f, s, the(s)) /\ s \in SUBSET s
        BY <3>2, <1>3
      <4>2. the(s)[s] = 0
        <5>. HIDE DEF the
        <5>. QED BY <4>1, <2>1 DEF Sums
      <4>3. G[s] = the(s)[s]
        BY <3>2
      <4>. QED BY <2>1, <4>2, <4>3
    <3>. QED BY <3>1, <3>2
  <2>2. CASE s # {}
    <3>1. Pick(s) \in s
      BY <2>2, PickIn
    <3>2. r \in SUBSET T /\ r # T /\ r \in SUBSET s
      BY <3>1
    <3>3. G[r] = the(r)[r]
      BY <3>2
    <3>4. CASE s = T
      BY <2>2, <3>3, <3>4
    <3>5. CASE s # T
      <4>1. Sums(f, s, the(s)) /\ Sums(f, r, the(r))
        BY <3>2, <3>5, <1>3
      <4>2. IsFiniteSet(r)
        BY <3>2, FS_Subset
      <4>3. the(r)[r] = the(s)[r]
        <5>. HIDE DEF the, r
        <5>. QED BY <3>2, <4>1, <4>2, SumsAgree
      <4>4. the(s)[s] = f[Pick(s)] + the(s)[r]
        <5>. HIDE DEF the
        <5>. QED BY <4>1, <2>2 DEF Sums
      <4>5. G[s] = the(s)[s]
        BY <3>5
      <4>. HIDE DEF G, the, r
      <4>6. G[s] = f[Pick(s)] + G[r]
        BY <3>3, <4>3, <4>4, <4>5
      <4>. QED BY <2>2, <4>6 DEF r
    <3>. QED BY <3>4, <3>5
  <2>. QED BY <2>1, <2>2
<1>5. Sums(f, T, G)
  <2>1. G = [s \in SUBSET T |-> G[s]]
    OBVIOUS
  <2>. HIDE DEF G
  <2>. QED BY <1>4, <2>1 DEF Sums
<1>. QED BY <1>2, <1>5

LEMMA SumsOf ==
    ASSUME NEW f, NEW S, IsFiniteSet(S), NEW T \in SUBSET S,
           NEW it, Sums(f, S, it)
    PROVE  SumFunctionOnSet(f, T) = it[T]
<1>1. IsFiniteSet(T)
  BY FS_Subset
<1>2. Sums(f, T, CHOOSE a : Sums(f, T, a))
  BY <1>1, SumsExist
<1>. QED BY <1>1, <1>2, SumsAgree, SumIsChosen

LEMMA SumOfNone == ASSUME NEW f PROVE SumFunctionOnSet(f, {}) = 0
<1>1. IsFiniteSet({})
  BY FS_EmptySet
<1>2. PICK it : Sums(f, {}, it)
  BY <1>1, SumsExist
<1>3. it[{}] = 0
  BY <1>2 DEF Sums
<1>. QED BY <1>1, <1>2, <1>3, SumsOf

\* How the fold computes it: one element at a time, whichever it picks.
LEMMA SumPicks ==
    ASSUME NEW f, NEW S, IsFiniteSet(S), S # {}
    PROVE  SumFunctionOnSet(f, S) = f[Pick(S)] + SumFunctionOnSet(f, S \ {Pick(S)})
<1>1. PICK it : Sums(f, S, it)
  BY SumsExist
<1>2. it[S] = f[Pick(S)] + it[S \ {Pick(S)}]
  BY <1>1 DEF Sums
<1>3. SumFunctionOnSet(f, S) = it[S]
  BY <1>1, SumsOf
<1>4. SumFunctionOnSet(f, S \ {Pick(S)}) = it[S \ {Pick(S)}]
  BY <1>1, SumsOf
<1>. QED BY <1>2, <1>3, <1>4

LEMMA SumIsInt ==
    ASSUME NEW f, NEW S, IsFiniteSet(S), \A x \in S : f[x] \in Int
    PROVE  SumFunctionOnSet(f, S) \in Int
<1>. DEFINE Bad == {T \in SUBSET S : SumFunctionOnSet(f, T) \notin Int}
<1>1. SUFFICES ASSUME Bad # {} PROVE FALSE
  OBVIOUS
<1>2. PICK T \in Bad : \A U \in Bad : ~ (U \subseteq T /\ U # T)
  <2>1. Bad \subseteq SUBSET S
    OBVIOUS
  <2>. HIDE DEF Bad
  <2>. QED BY <1>1, <2>1, SmallestSet
<1>3. T # {}
  BY SumOfNone
<1>4. Pick(T) \in T /\ T \subseteq S
  BY <1>3, PickIn
<1>5. IsFiniteSet(T)
  BY FS_Subset
<1>6. SumFunctionOnSet(f, T \ {Pick(T)}) \in Int
  BY <1>2, <1>4
<1>7. SumFunctionOnSet(f, T) = f[Pick(T)] + SumFunctionOnSet(f, T \ {Pick(T)})
  BY <1>3, <1>5, SumPicks
<1>8. f[Pick(T)] \in Int
  BY <1>4
<1>. HIDE DEF Bad
<1>9. SumFunctionOnSet(f, T) \in Int
  BY <1>6, <1>7, <1>8
<1>. QED BY <1>9 DEF Bad

\* And any element may be the one: addition does not depend on the order.
LEMMA SumWithout ==
    ASSUME NEW f, NEW S, IsFiniteSet(S), \A x \in S : f[x] \in Int, NEW x \in S
    PROVE  SumFunctionOnSet(f, S) = f[x] + SumFunctionOnSet(f, S \ {x})
<1>. DEFINE sum(T) == SumFunctionOnSet(f, T)
            Splits(T, z) == sum(T) = f[z] + sum(T \ {z})
            Bad == {T \in SUBSET S : \E z \in T : ~ Splits(T, z)}
<1>. SUFFICES ASSUME Bad # {} PROVE FALSE
  OBVIOUS
<1>1. PICK T \in Bad : \A U \in Bad : ~ (U \subseteq T /\ U # T)
  <2>1. Bad \subseteq SUBSET S
    OBVIOUS
  <2>. HIDE DEF Bad
  <2>. QED BY <2>1, SmallestSet
<1>2. PICK z \in T : ~ Splits(T, z)
  OBVIOUS
<1>3. \A U \in SUBSET S : U \subseteq T /\ U # T => \A u \in U : Splits(U, u)
  BY <1>1
<1>4. \A U \in SUBSET S : IsFiniteSet(U) /\ sum(U) \in Int
  <2>1. ASSUME NEW U \in SUBSET S PROVE IsFiniteSet(U) /\ sum(U) \in Int
    BY FS_Subset, SumIsInt
  <2>. QED BY <2>1
<1>5. Pick(T) \in T /\ T \in SUBSET S
  BY PickIn
<1>6. Splits(T, Pick(T))
  BY <1>4, <1>5, SumPicks
<1>. DEFINE p == Pick(T)
            Rest == (T \ {z}) \ {p}
<1>. HIDE DEF Bad, p
<1>7. p \in T /\ p # z
  BY <1>2, <1>5, <1>6 DEF p
<1>8. /\ sum(T) = f[p] + sum(T \ {p})
      /\ sum(T \ {p}) = f[z] + sum((T \ {p}) \ {z})
      /\ sum(T \ {z}) = f[p] + sum(Rest)
  <2>1. T \ {p} \in SUBSET S /\ T \ {p} # T /\ z \in T \ {p}
    BY <1>2, <1>5, <1>7
  <2>2. T \ {z} \in SUBSET S /\ T \ {z} # T /\ p \in T \ {z}
    BY <1>2, <1>5, <1>7
  <2>3. Splits(T, p)
    BY <1>6 DEF p
  <2>4. Splits(T \ {p}, z) /\ Splits(T \ {z}, p)
    <3>. HIDE DEF Splits
    <3>. QED BY <2>1, <2>2, <1>3
  <2>. QED BY <2>3, <2>4
<1>9. (T \ {p}) \ {z} = Rest
  OBVIOUS
<1>10. f[p] \in Int /\ f[z] \in Int /\ sum(Rest) \in Int
  BY <1>2, <1>4, <1>5, <1>7
<1>11. sum((T \ {p}) \ {z}) = sum(Rest)
  BY <1>9
<1>. HIDE DEF Rest
<1>12. sum(T) = f[z] + sum(T \ {z})
  BY <1>8, <1>10, <1>11
<1>. QED BY <1>2, <1>12

\* Two functions that agree on a set have the same sum over it.
LEMMA SumsOfEqual ==
    ASSUME NEW f, NEW g, NEW S, IsFiniteSet(S), \A x \in S : f[x] = g[x]
    PROVE  SumFunctionOnSet(f, S) = SumFunctionOnSet(g, S)
<1>1. PICK it : Sums(f, S, it)
  BY SumsExist
<1>2. \A s \in SUBSET S : s # {} => f[Pick(s)] = g[Pick(s)]
  BY PickIn
<1>3. [s \in SUBSET S |-> IF s = {} THEN 0 ELSE f[Pick(s)] + it[s \ {Pick(s)}]]
        = [s \in SUBSET S |-> IF s = {} THEN 0 ELSE g[Pick(s)] + it[s \ {Pick(s)}]]
  BY <1>2
<1>4. Sums(g, S, it)
  BY <1>1, <1>3 DEF Sums
<1>. QED BY <1>1, <1>4, SumsOf

\* A sum lies between the multiples of a lower and an upper bound of its terms.
LEMMA SumIsBetween ==
    ASSUME NEW f, NEW S, IsFiniteSet(S), NEW lo \in Int, NEW hi \in Int,
           \A x \in S : f[x] \in Int /\ lo <= f[x] /\ f[x] <= hi
    PROVE  /\ lo * Cardinality(S) <= SumFunctionOnSet(f, S)
           /\ SumFunctionOnSet(f, S) <= hi * Cardinality(S)
<1>. DEFINE sum(T) == SumFunctionOnSet(f, T)
            Between(T) == /\ lo * Cardinality(T) <= sum(T)
                          /\ sum(T) <= hi * Cardinality(T)
            Bad == {T \in SUBSET S : ~ Between(T)}
<1>. SUFFICES ASSUME Bad # {} PROVE FALSE
  OBVIOUS
<1>1. PICK T \in Bad : \A U \in Bad : ~ (U \subseteq T /\ U # T)
  <2>1. Bad \subseteq SUBSET S
    OBVIOUS
  <2>. HIDE DEF Bad
  <2>. QED BY <2>1, SmallestSet
<1>2. ~ Between(T) /\ T \subseteq S /\ IsFiniteSet(T)
  BY FS_Subset
<1>3. T # {}
  <2>1. sum({}) = 0 /\ Cardinality({}) = 0
    BY SumOfNone, FS_EmptySet
  <2>. QED BY <1>2, <2>1
<1>4. PICK z \in T : TRUE
  BY <1>3
<1>. DEFINE U == T \ {z}
<1>5. Between(U)
  <2>1. U \in SUBSET S /\ U \subseteq T /\ U # T
    BY <1>2, <1>4
  <2>2. U \notin Bad
    BY <1>1, <2>1
  <2>. QED BY <2>1, <2>2
<1>6. sum(T) = f[z] + sum(U)
  BY <1>2, <1>4, SumWithout
<1>7. IsFiniteSet(U) /\ Cardinality(T) = Cardinality(U) + 1 /\ Cardinality(U) \in Nat
  <2>1. IsFiniteSet(U) /\ Cardinality(U) = Cardinality(T) - 1
    BY <1>2, <1>4, FS_RemoveElement
  <2>2. Cardinality(U) \in Nat /\ Cardinality(T) \in Nat
    BY <1>2, <2>1, FS_CardinalityType
  <2>. QED BY <2>1, <2>2
<1>8. sum(U) \in Int /\ f[z] \in Int /\ lo <= f[z] /\ f[z] <= hi
  BY <1>2, <1>4, <1>7, SumIsInt
<1>. HIDE DEF U, Bad
<1>9. ASSUME NEW n \in Nat, NEW b \in Int PROVE b * (n + 1) = b * n + b /\ b * n \in Int
  OBVIOUS
<1>10. /\ lo * Cardinality(T) = lo * Cardinality(U) + lo
       /\ hi * Cardinality(T) = hi * Cardinality(U) + hi
       /\ lo * Cardinality(U) \in Int /\ hi * Cardinality(U) \in Int
  BY <1>7, <1>9
<1>. HIDE DEF sum
<1>11. Between(T)
  BY <1>5, <1>6, <1>8, <1>10
<1>. QED BY <1>2, <1>11

-----------------------------------------------------------------------------
(* Sequences *)

\* The sum of a sequence that has one element more.
LEMMA SumOfAppend ==
    ASSUME NEW s \in Seq(Int), NEW t \in Int
    PROVE  SumFunction(Append(s, t)) = SumFunction(s) + t
<1>. DEFINE n == Len(s)
            a == Append(s, t)
<1>1. n \in Nat /\ IsFiniteSet(1..n) /\ IsFiniteSet(1..(n + 1))
  BY FS_Interval
<1>2. a \in Seq(Int) /\ DOMAIN a = 1..(n + 1) /\ a[n + 1] = t /\ \A i \in 1..n : a[i] = s[i]
  OBVIOUS
<1>3. DOMAIN s = 1..n /\ \A i \in 1..n : s[i] \in Int
  OBVIOUS
<1>4. (1..(n + 1)) \ {n + 1} = 1..n
  BY <1>1
<1>5. \A i \in 1..(n + 1) : a[i] \in Int
  BY <1>2
<1>. HIDE DEF n, a
<1>6. SumFunctionOnSet(a, 1..(n + 1)) = a[n + 1] + SumFunctionOnSet(a, (1..(n + 1)) \ {n + 1})
  BY <1>1, <1>5, SumWithout
<1>7. SumFunctionOnSet(a, 1..n) = SumFunctionOnSet(s, 1..n)
  BY <1>1, <1>2, SumsOfEqual
<1>8. SumFunctionOnSet(s, 1..n) \in Int
  BY <1>1, <1>3, SumIsInt
<1>9. SumFunction(a) = t + SumFunctionOnSet(s, 1..n) /\ SumFunction(s) = SumFunctionOnSet(s, 1..n)
  BY <1>2, <1>3, <1>4, <1>6, <1>7 DEF SumFunction
<1>. QED BY <1>8, <1>9 DEF a

\* A sum does not change with where its terms stand.
LEMMA SumShifted ==
    ASSUME NEW f, NEW g, NEW n \in Nat,
           \A i \in 1..n : g[i] = f[i + 1] /\ f[i + 1] \in Int
    PROVE  SumFunctionOnSet(g, 1..n) = SumFunctionOnSet(f, 2..(n + 1))
<1>. DEFINE Same(m) == SumFunctionOnSet(g, 1..m) = SumFunctionOnSet(f, 2..(m + 1))
            Bad == {m \in 0..n : ~ Same(m)}
<1>1. SUFFICES ASSUME Bad # {} PROVE FALSE
  OBVIOUS
<1>2. PICK m \in Bad : \A l \in Bad : m <= l
  <2>1. Bad \subseteq Nat
    OBVIOUS
  <2>. HIDE DEF Bad
  <2>. QED BY <1>1, <2>1, LeastElement
<1>3. m # 0
  <2>1. 1..0 = {} /\ 2..(0 + 1) = {}
    OBVIOUS
  <2>. QED BY <2>1, SumOfNone
<1>4. Same(m - 1) /\ m \in 1..n
  BY <1>2, <1>3
<1>5. SumFunctionOnSet(g, 1..m) = g[m] + SumFunctionOnSet(g, (1..m) \ {m})
  <2>1. m \in Int /\ m \in 1..m
    BY <1>4
  <2>2. IsFiniteSet(1..m)
    BY <2>1, FS_Interval
  <2>3. ASSUME NEW i \in 1..m PROVE g[i] \in Int
    <3>1. i \in 1..n
      BY <1>4
    <3>. QED BY <3>1
  <2>. HIDE DEF Bad
  <2>. QED BY <2>1, <2>2, <2>3, SumWithout
<1>6. SumFunctionOnSet(f, 2..(m + 1)) = f[m + 1] + SumFunctionOnSet(f, (2..(m + 1)) \ {m + 1})
  <2>1. m + 1 \in Int /\ m + 1 \in 2..(m + 1)
    BY <1>4
  <2>3. IsFiniteSet(2..(m + 1))
    BY <2>1, FS_Interval
  <2>2. ASSUME NEW i \in 2..(m + 1) PROVE f[i] \in Int
    <3>1. i - 1 \in 1..n /\ (i - 1) + 1 = i
      BY <1>4
    <3>. QED BY <3>1
  <2>. HIDE DEF Bad
  <2>. QED BY <2>1, <2>2, <2>3, SumWithout
<1>7. (1..m) \ {m} = 1..(m - 1) /\ (2..(m + 1)) \ {m + 1} = 2..((m - 1) + 1)
  BY <1>4
<1>8. g[m] = f[m + 1]
  BY <1>4
<1>9. Same(m)
  BY <1>4, <1>5, <1>6, <1>7, <1>8
<1>. QED BY <1>9

\* The sum of a sequence that has lost its first element.
LEMMA SumOfTail ==
    ASSUME NEW s \in Seq(Int), s # <<>>
    PROVE  SumFunction(Tail(s)) = SumFunction(s) - s[1]
<1>. DEFINE n == Len(s) - 1
            r == Tail(s)
<1>1. n \in Nat /\ DOMAIN s = 1..(n + 1) /\ \A i \in 1..(n + 1) : s[i] \in Int
  OBVIOUS
<1>2. r \in Seq(Int) /\ DOMAIN r = 1..n /\ \A i \in 1..n : r[i] = s[i + 1]
  OBVIOUS
<1>. HIDE DEF n, r
<1>3. \A i \in 1..n : r[i] = s[i + 1] /\ s[i + 1] \in Int
  BY <1>1, <1>2
<1>4. SumFunctionOnSet(r, 1..n) = SumFunctionOnSet(s, 2..(n + 1))
  BY <1>1, <1>3, SumShifted
<1>5. IsFiniteSet(1..(n + 1)) /\ IsFiniteSet(2..(n + 1)) /\ 1 \in 1..(n + 1)
  BY <1>1, FS_Interval
<1>6. SumFunctionOnSet(s, 1..(n + 1)) = s[1] + SumFunctionOnSet(s, (1..(n + 1)) \ {1})
  BY <1>1, <1>5, SumWithout
<1>7. (1..(n + 1)) \ {1} = 2..(n + 1)
  BY <1>1
<1>8. SumFunctionOnSet(s, 2..(n + 1)) \in Int /\ s[1] \in Int
  BY <1>1, <1>5, SumIsInt
<1>9. SumFunction(s) = s[1] + SumFunction(r)
  BY <1>1, <1>2, <1>4, <1>6, <1>7 DEF SumFunction
<1>10. SumFunction(r) \in Int
  BY <1>2, <1>4, <1>8 DEF SumFunction
<1>. QED BY <1>8, <1>9, <1>10 DEF r
------------------------------------------------------------------------------
(* Places in an order *)

\* Where each element of a set has the ones up to it, itself among them, and of two such
\* sets one holds the other, there is an element for each number up to the set's size.
LEMMA RanksAreTaken ==
    ASSUME NEW S, IsFiniteSet(S), NEW upTo, \A i \in S : upTo[i] \subseteq S /\ i \in upTo[i],
           \A i, j \in S : upTo[i] \subseteq upTo[j] \/ upTo[j] \subseteq upTo[i],
           \A i, j \in S : i \in upTo[j] /\ j \in upTo[i] => i = j
    PROVE  \A k \in 1..Cardinality(S) : \E i \in S : Cardinality(upTo[i]) = k
<1>. DEFINE rank == [i \in S |-> Cardinality(upTo[i])]
            n == Cardinality(S)
<1>1. n \in Nat /\ IsFiniteSet(1..n) /\ Cardinality(1..n) = n
  BY FS_CardinalityType, FS_Interval
<1>2. ASSUME NEW i \in S PROVE IsFiniteSet(upTo[i]) /\ Cardinality(upTo[i]) \in 1..n
  <2>1. IsFiniteSet(upTo[i]) /\ Cardinality(upTo[i]) <= n
    BY FS_Subset
  <2>2. Cardinality(upTo[i]) \in Nat /\ Cardinality(upTo[i]) # 0
    BY <2>1, FS_CardinalityType, FS_EmptySet
  <2>. QED BY <1>1, <2>1, <2>2
<1>3. ASSUME NEW i \in S, NEW j \in S, Cardinality(upTo[i]) = Cardinality(upTo[j]) PROVE i = j
  <2>1. upTo[i] = upTo[j]
    BY <1>2, <1>3, FS_Subset
  <2>. QED BY <2>1
<1>4. rank \in Injection(S, 1..n)
  BY <1>2, <1>3 DEF Injection, IsInjective
<1>5. rank \in Surjection(S, 1..n)
  <2>. HIDE DEF rank
  <2>. QED BY <1>1, <1>4, FS_Injection
<1>. QED BY <1>5 DEF Surjection
=================================================================================
