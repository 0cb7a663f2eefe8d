---------------------------- MODULE CountingLemmas ----------------------------
(***************************************************************************)
(* What the proofs need of counting and adding up: least numbers and least *)
(* sets, greatest elements, places in an order, and the sum                *)
(* SumFunctionOnSet of the community modules.                              *)
(*                                                                         *)
(* Every induction here is an argument by a least counterexample: the      *)
(* statement at hand is false for the members of a set, and that set has a *)
(* least member (a least number, or a least subset of a finite set).       *)
(***************************************************************************)
EXTENDS Integers, Functions, FiniteSetsExt, FiniteSetTheorems,
        WellFoundedInduction, TLAPS

-----------------------------------------------------------------------------
(* Least elements *)

\* A set of natural numbers that is not empty has a least element.
LEMMA LeastNumber ==
  ASSUME NEW S \in SUBSET Nat, S # {}
  PROVE  \E n \in S : \A m \in S : n <= m
<1>1. IsWellFoundedOn({ss \in Nat \X Nat : ss[1] < ss[2]}, Nat)
  BY NatLessThanWellFounded DEF OpToRel
<1>2. PICK n \in S : \A m \in S : ~(<<m, n>> \in {ss \in Nat \X Nat : ss[1] < ss[2]})
  BY <1>1, WFMin
<1>3. ASSUME NEW m \in S PROVE n <= m
  <2>1. n \in Nat /\ m \in Nat /\ ~(<<m, n>> \in {ss \in Nat \X Nat : ss[1] < ss[2]})
    BY <1>2
  <2>2. <<m, n>> \in Nat \X Nat /\ <<m, n>>[1] = m /\ <<m, n>>[2] = n
    BY <2>1
  <2> QED BY <2>1, <2>2
<1> QED BY <1>3

\* A family of subsets of a finite set that is not empty has a least member.
LEMMA LeastSet ==
  ASSUME NEW S, IsFiniteSet(S), NEW T \in SUBSET SUBSET S, T # {}
  PROVE  \E x \in T : \A y \in T : y \subseteq x => y = x
<1>1. T \subseteq FiniteSubsetsOf(S)
  BY FS_FiniteSubsetsOfFinite
<1>2. IsWellFoundedOn(StrictSubsetOrdering(S), FiniteSubsetsOf(S))
  BY FS_StrictSubsetOrderingWellFounded
<1>3. \E x \in T : \A y \in T : ~(<<y, x>> \in StrictSubsetOrdering(S))
  BY <1>1, <1>2, WFMin
<1> QED BY <1>3 DEF StrictSubsetOrdering

\* A finite set of integers that is not empty has a greatest element.
LEMMA GreatestExists ==
  ASSUME NEW S, S \subseteq Int, IsFiniteSet(S), S # {}
  PROVE  \E m \in S : \A n \in S : m >= n
<1> DEFINE Bad == {U \in SUBSET S : U # {} /\ ~\E m \in U : \A n \in U : m >= n}
<1>1. SUFFICES ASSUME Bad # {} PROVE FALSE
  OBVIOUS
<1>2. PICK U \in Bad : \A V \in Bad : V \subseteq U => V = U
  <2>1. Bad \in SUBSET SUBSET S
    OBVIOUS
  <2>2. IsFiniteSet(S)
    OBVIOUS
  <2> HIDE DEF Bad
  <2> QED BY ONLY <1>1, <2>1, <2>2, LeastSet
<1>3. PICK x \in U : TRUE
  OBVIOUS
<1>4. U \ {x} \notin Bad /\ U \ {x} \in SUBSET S
  BY <1>2, <1>3
<1>5. CASE U \ {x} = {}
  BY <1>3, <1>5
<1>6. CASE U \ {x} # {}
  <2>1. PICK m \in U \ {x} : \A n \in U \ {x} : m >= n
    BY <1>4, <1>6
  <2>2. m \in Int /\ x \in Int /\ U \subseteq Int
    BY <1>2
  <2>3. \E k \in U : \A n \in U : k >= n
    <3>1. CASE m >= x
      BY <2>1, <2>2, <3>1
    <3>2. CASE x >= m
      <4>1. \A n \in U : x >= n
        BY <2>1, <2>2, <3>2
      <4> QED BY <4>1
    <3> QED BY <2>2, <3>1, <3>2
  <2> QED BY <2>3
<1> QED BY <1>5, <1>6

LEMMA MaxIsGreatest ==
  ASSUME NEW S, S \subseteq Int, IsFiniteSet(S), S # {}
  PROVE  Max(S) \in S /\ \A n \in S : Max(S) >= n
BY GreatestExists DEF Max

\* The least of a set of natural numbers.
LEMMA MinIsLeast ==
  ASSUME NEW S \in SUBSET Nat, S # {}
  PROVE  Min(S) \in S /\ \A n \in S : Min(S) <= n
BY LeastNumber DEF Min

\* The greater and the lesser of two.
LEMMA OfTwo ==
  ASSUME NEW a \in Int, NEW b \in Int
  PROVE  /\ Max({a, b}) = IF a >= b THEN a ELSE b
         /\ Min({a, b}) = IF a <= b THEN a ELSE b
BY DEF Max, Min

\* Sets of one size: what corresponds one to one.
LEMMA SameSize ==
  ASSUME NEW S, NEW T, IsFiniteSet(S), NEW f \in [S -> T],
         \A x, y \in S : f[x] = f[y] => x = y,
         \A z \in T : \E x \in S : f[x] = z
  PROVE  IsFiniteSet(T) /\ Cardinality(T) = Cardinality(S)
<1>1. f \in Bijection(S, T)
  BY DEF Bijection, Injection, Surjection, IsInjective
<1>2. ExistsBijection(S, T)
  BY <1>1 DEF ExistsBijection
<1> QED BY <1>2, FS_Bijection

-----------------------------------------------------------------------------
(* Places *)

\* Any set of places in a sequence is finite.
LEMMA PlacesAreFinite ==
  ASSUME NEW n \in Nat, NEW S, S \subseteq 1..n
  PROVE  IsFiniteSet(S) /\ Cardinality(S) \in Nat /\ Cardinality(S) <= n
<1>1. IsFiniteSet(1..n) /\ Cardinality(1..n) = n
  BY FS_Interval
<1> QED BY <1>1, FS_Subset, FS_CardinalityType

\* When the sets B[i] grow strictly along the elements of a finite set I,
\* as the elements up to i do in any order, their sizes number the elements
\* from 1 to the size of I, each number once.
LEMMA PlacesAreNumbered ==
  ASSUME NEW I, IsFiniteSet(I), NEW B \in [I -> SUBSET I],
         \A i \in I : i \in B[i],
         \A i, j \in I : i # j => \/ B[i] \subseteq B[j] /\ B[i] # B[j]
                                  \/ B[j] \subseteq B[i] /\ B[j] # B[i]
  PROVE  \A k \in 1..Cardinality(I) :
           /\ \E i \in I : Cardinality(B[i]) = k
           /\ \A i, j \in I : Cardinality(B[i]) = k /\ Cardinality(B[j]) = k => i = j
<1> DEFINE P == [i \in I |-> Cardinality(B[i])]
<1>0. Cardinality(I) \in Nat
  BY FS_CardinalityType
<1>1. \A i \in I : /\ IsFiniteSet(B[i])
                   /\ Cardinality(B[i]) \in 1..Cardinality(I)
  <2> SUFFICES ASSUME NEW i \in I
               PROVE  IsFiniteSet(B[i]) /\ Cardinality(B[i]) \in 1..Cardinality(I)
    OBVIOUS
  <2>1. B[i] \in SUBSET I
    OBVIOUS
  <2>2. IsFiniteSet(B[i]) /\ Cardinality(B[i]) <= Cardinality(I)
    BY <2>1, FS_Subset
  <2>3. Cardinality(B[i]) \in Nat
    BY <2>2, FS_CardinalityType
  <2>4. Cardinality(B[i]) # 0
    BY <2>2, FS_EmptySet
  <2> QED BY <1>0, <2>2, <2>3, <2>4
<1>2. \A i, j \in I : Cardinality(B[i]) = Cardinality(B[j]) => i = j
  <2> SUFFICES ASSUME NEW i \in I, NEW j \in I, i # j,
                      Cardinality(B[i]) = Cardinality(B[j])
               PROVE  FALSE
    OBVIOUS
  <2>1. CASE B[i] \subseteq B[j] /\ B[i] # B[j]
    BY <1>1, <2>1, FS_Subset
  <2>2. CASE B[j] \subseteq B[i] /\ B[j] # B[i]
    BY <1>1, <2>2, FS_Subset
  <2> QED BY <2>1, <2>2
<1>3. P \in Injection(I, 1..Cardinality(I))
  BY <1>1, <1>2 DEF Injection, IsInjective
<1>4. IsFiniteSet(1..Cardinality(I)) /\ Cardinality(1..Cardinality(I)) = Cardinality(I)
  BY <1>0, FS_Interval
<1>5. P \in Surjection(I, 1..Cardinality(I))
  BY <1>3, <1>4, FS_Injection
<1> QED BY <1>2, <1>5 DEF Surjection

-----------------------------------------------------------------------------
(* Sums *)

Pick(s) == CHOOSE x \in s : TRUE
AddsUp(f, s, g) == g[s] = IF s = {} THEN 0 ELSE f[Pick(s)] + g[s \ {Pick(s)}]
Adding(f, S) ==
  CHOOSE g : g = [s \in SUBSET S |-> IF s = {} THEN 0 ELSE f[Pick(s)] + g[s \ {Pick(s)}]]

LEMMA SumByAdding ==
  ASSUME NEW f, NEW S
  PROVE  SumFunctionOnSet(f, S) = Adding(f, S)[S]
BY DEF SumFunctionOnSet, FoldFunctionOnSet, MapThenFoldSet, Adding, Pick

\* The recursive definition of the sum defines a function.
LEMMA AddingExists ==
  ASSUME NEW f, NEW S, IsFiniteSet(S), \A x \in S : f[x] \in Int
  PROVE  \E g \in [SUBSET S -> Int] : \A s \in SUBSET S : AddsUp(f, s, g)
<1> DEFINE Small(n) == {s \in SUBSET S : Cardinality(s) <= n}
           Ok(n)    == \E g \in [Small(n) -> Int] : \A s \in Small(n) : AddsUp(f, s, g)
           Bad      == {n \in Nat : ~Ok(n)}
<1>1. \A s \in SUBSET S : IsFiniteSet(s) /\ Cardinality(s) \in Nat
                          /\ Cardinality(s) <= Cardinality(S)
  BY FS_Subset, FS_CardinalityType
<1>2. \A s \in SUBSET S : s # {} =>
        /\ Pick(s) \in s
        /\ s \ {Pick(s)} \in SUBSET S
        /\ Cardinality(s \ {Pick(s)}) = Cardinality(s) - 1
  <2> SUFFICES ASSUME NEW s \in SUBSET S, s # {}
               PROVE  /\ Pick(s) \in s
                      /\ s \ {Pick(s)} \in SUBSET S
                      /\ Cardinality(s \ {Pick(s)}) = Cardinality(s) - 1
    OBVIOUS
  <2>1. Pick(s) \in s
    BY DEF Pick
  <2> QED BY <1>1, <2>1, FS_RemoveElement
<1>3. Ok(0)
  <2>1. Small(0) = {{}}
    BY <1>1, FS_EmptySet
  <2> DEFINE g == [s \in Small(0) |-> 0]
  <2>2. g \in [Small(0) -> Int] /\ \A s \in Small(0) : AddsUp(f, s, g)
    BY <2>1 DEF AddsUp
  <2> QED BY <2>2
<1>4. ASSUME NEW n \in Nat, Ok(n) PROVE Ok(n + 1)
  <2>1. PICK g \in [Small(n) -> Int] : \A s \in Small(n) : AddsUp(f, s, g)
    BY <1>4
  <2> DEFINE h == [s \in Small(n + 1) |->
                     IF s \in Small(n) THEN g[s] ELSE f[Pick(s)] + g[s \ {Pick(s)}]]
  <2>2. ASSUME NEW s \in Small(n + 1), s # {}
        PROVE  s \ {Pick(s)} \in Small(n) /\ f[Pick(s)] \in Int
    BY <1>1, <1>2, <2>2
  <2>3. ASSUME NEW s \in Small(n + 1), s = {} PROVE s \in Small(n)
    BY <2>3, FS_EmptySet
  <2>4. h \in [Small(n + 1) -> Int]
    BY <2>2, <2>3
  <2>5. Small(n) \subseteq Small(n + 1)
    BY <1>1
  <2>6. \A s \in Small(n + 1) : AddsUp(f, s, h)
    <3> SUFFICES ASSUME NEW s \in Small(n + 1)
                 PROVE  h[s] = IF s = {} THEN 0 ELSE f[Pick(s)] + h[s \ {Pick(s)}]
      BY DEF AddsUp
    <3>1. CASE s \in Small(n)
      <4>1. h[s] = g[s] /\ AddsUp(f, s, g)
        BY <2>1, <3>1
      <4>2. s # {} => h[s \ {Pick(s)}] = g[s \ {Pick(s)}]
        BY <2>2, <2>5
      <4> QED BY <4>1, <4>2 DEF AddsUp
    <3>2. CASE s \notin Small(n)
      <4>1. s # {}
        BY <2>3, <3>2
      <4>2. s \ {Pick(s)} \in Small(n) /\ s \ {Pick(s)} \in Small(n + 1)
        BY <2>2, <2>5, <4>1
      <4>3. h[s \ {Pick(s)}] = g[s \ {Pick(s)}]
        BY <4>2
      <4>4. h[s] = f[Pick(s)] + g[s \ {Pick(s)}]
        BY <3>2
      <4> QED BY <4>1, <4>3, <4>4
    <3> QED BY <3>1, <3>2
  <2> QED BY <2>4, <2>6
<1>5. Bad = {}
  <2> SUFFICES ASSUME Bad # {} PROVE FALSE
    OBVIOUS
  <2>1. PICK n \in Bad : \A m \in Bad : n <= m
    BY LeastNumber
  <2>2. n # 0
    <3>1. n \in Nat /\ ~Ok(n)
      OBVIOUS
    <3> HIDE DEF Ok
    <3> QED BY <1>3, <3>1
  <2> HIDE DEF Ok
  <2>3. n - 1 \in Nat /\ n - 1 \notin Bad
    BY <2>1, <2>2
  <2>4. Ok(n - 1)
    BY <2>3
  <2>5. Ok((n - 1) + 1)
    BY <1>4, <2>3, <2>4
  <2>6. (n - 1) + 1 = n
    BY <2>3
  <2> QED BY <2>5, <2>6
<1>6. Cardinality(S) \in Nat
  BY FS_CardinalityType
<1>7. Ok(Cardinality(S))
  <2> HIDE DEF Ok
  <2> QED BY <1>5, <1>6
<1>8. Small(Cardinality(S)) = SUBSET S
  BY <1>1
<1> QED BY <1>7, <1>8

LEMMA AddingAddsUp ==
  ASSUME NEW f, NEW S, IsFiniteSet(S), \A x \in S : f[x] \in Int
  PROVE  /\ Adding(f, S) \in [SUBSET S -> Int]
         /\ \A s \in SUBSET S : AddsUp(f, s, Adding(f, S))
<1> DEFINE Is(g) == g = [s \in SUBSET S |-> IF s = {} THEN 0 ELSE f[Pick(s)] + g[s \ {Pick(s)}]]
<1>1. PICK g \in [SUBSET S -> Int] : \A s \in SUBSET S : AddsUp(f, s, g)
  BY AddingExists
<1>2. Is(g)
  BY <1>1 DEF AddsUp
<1>3. Is(Adding(f, S))
  BY <1>2 DEF Adding
<1> DEFINE a == Adding(f, S)
<1> HIDE DEF a
<1>4. a = [s \in SUBSET S |-> IF s = {} THEN 0 ELSE f[Pick(s)] + a[s \ {Pick(s)}]]
  BY <1>3 DEF a
<1>5. \A s \in SUBSET S : AddsUp(f, s, a)
  BY <1>4 DEF AddsUp
<1>6. \A s \in SUBSET S : a[s] = g[s]
  <2> DEFINE Bad == {s \in SUBSET S : a[s] # g[s]}
  <2> SUFFICES ASSUME Bad # {} PROVE FALSE
    OBVIOUS
  <2>1. PICK s \in Bad : \A t \in Bad : t \subseteq s => t = s
    <3>1. Bad \in SUBSET SUBSET S
      OBVIOUS
    <3> HIDE DEF Bad
    <3> QED BY <3>1, LeastSet
  <2>2. AddsUp(f, s, a) /\ AddsUp(f, s, g)
    BY <1>1, <1>5
  <2>3. s # {}
    BY <2>2 DEF AddsUp
  <2>4. Pick(s) \in s
    BY <2>3 DEF Pick
  <2>5. s \ {Pick(s)} \in SUBSET S /\ s \ {Pick(s)} \notin Bad
    BY <2>1, <2>4
  <2> QED BY <2>2, <2>3, <2>5 DEF AddsUp
<1>7. a \in [SUBSET S -> Int]
  BY <1>4, <1>6
<1> QED BY <1>5, <1>7 DEF a

\* The sum over no elements, and the sum over some by the element picked.
LEMMA SumOfNone ==
  ASSUME NEW f
  PROVE  SumFunctionOnSet(f, {}) = 0
<1>1. IsFiniteSet({}) /\ \A x \in {} : f[x] \in Int
  BY FS_EmptySet
<1>2. AddsUp(f, {}, Adding(f, {}))
  BY <1>1, AddingAddsUp
<1> QED BY <1>2, SumByAdding DEF AddsUp

LEMMA SumByPick ==
  ASSUME NEW f, NEW S, IsFiniteSet(S), \A x \in S : f[x] \in Int
  PROVE  /\ SumFunctionOnSet(f, S) \in Int
         /\ S # {} => /\ Pick(S) \in S
                      /\ SumFunctionOnSet(f, S) =
                           f[Pick(S)] + SumFunctionOnSet(f, S \ {Pick(S)})
<1> DEFINE T == S \ {Pick(S)}
           a == Adding(f, S)
           b == Adding(f, T)
<1> HIDE DEF a, b
<1>1. IsFiniteSet(T) /\ \A x \in T : f[x] \in Int
  BY FS_Subset
<1>2. a \in [SUBSET S -> Int] /\ \A s \in SUBSET S : AddsUp(f, s, a)
  BY AddingAddsUp DEF a
<1>3. b \in [SUBSET T -> Int] /\ \A s \in SUBSET T : AddsUp(f, s, b)
  <2> HIDE DEF T
  <2> QED BY <1>1, AddingAddsUp DEF b
<1>4. \A s \in SUBSET T : a[s] = b[s]
  <2> DEFINE Bad == {s \in SUBSET T : a[s] # b[s]}
  <2> SUFFICES ASSUME Bad # {} PROVE FALSE
    OBVIOUS
  <2>1. PICK s \in Bad : \A t \in Bad : t \subseteq s => t = s
    <3>1. Bad \in SUBSET SUBSET T
      OBVIOUS
    <3> HIDE DEF Bad, T
    <3> QED BY <1>1, <3>1, LeastSet
  <2>2. s \in SUBSET S /\ AddsUp(f, s, a) /\ AddsUp(f, s, b)
    BY <1>2, <1>3
  <2>3. s # {}
    BY <2>2 DEF AddsUp
  <2>4. Pick(s) \in s
    BY <2>3 DEF Pick
  <2>5. s \ {Pick(s)} \in SUBSET T /\ s \ {Pick(s)} \notin Bad
    BY <2>1, <2>4
  <2> QED BY <2>2, <2>3, <2>5 DEF AddsUp
<1>5. SumFunctionOnSet(f, S) = a[S] /\ SumFunctionOnSet(f, T) = b[T]
  BY SumByAdding DEF a, b
<1>6. SumFunctionOnSet(f, S) \in Int
  BY <1>2, <1>5
<1>7. ASSUME S # {}
      PROVE  Pick(S) \in S /\ SumFunctionOnSet(f, S) = f[Pick(S)] + SumFunctionOnSet(f, T)
  <2>1. Pick(S) \in S
    BY <1>7 DEF Pick
  <2>2. a[S] = f[Pick(S)] + a[T]
    BY <1>2, <1>7 DEF AddsUp
  <2>3. a[T] = b[T]
    BY <1>4
  <2> QED BY <1>5, <2>1, <2>2, <2>3
<1> QED BY <1>6, <1>7

LEMMA SumIsInteger ==
  ASSUME NEW f, NEW S, IsFiniteSet(S), \A x \in S : f[x] \in Int
  PROVE  SumFunctionOnSet(f, S) \in Int
BY SumByPick

\* Any element may be added last.
LEMMA SumByElement ==
  ASSUME NEW f, NEW S, IsFiniteSet(S), \A x \in S : f[x] \in Int, NEW x \in S
  PROVE  SumFunctionOnSet(f, S) = f[x] + SumFunctionOnSet(f, S \ {x})
<1> DEFINE Sum(T) == SumFunctionOnSet(f, T)
           Bad    == {T \in SUBSET S : \E y \in T : Sum(T) # f[y] + Sum(T \ {y})}
<1> HIDE DEF Sum
<1>0. \A T \in SUBSET S : /\ Sum(T) \in Int
                          /\ T # {} => /\ Pick(T) \in T
                                       /\ Sum(T) = f[Pick(T)] + Sum(T \ {Pick(T)})
  <2> SUFFICES ASSUME NEW T \in SUBSET S
               PROVE  /\ Sum(T) \in Int
                      /\ T # {} => /\ Pick(T) \in T
                                   /\ Sum(T) = f[Pick(T)] + Sum(T \ {Pick(T)})
    OBVIOUS
  <2>1. IsFiniteSet(T) /\ \A y \in T : f[y] \in Int
    BY FS_Subset
  <2> QED BY <2>1, SumByPick DEF Sum
<1>1. SUFFICES ASSUME Bad # {} PROVE FALSE
  <2>1. Bad = {} => Sum(S) = f[x] + Sum(S \ {x})
    OBVIOUS
  <2> QED BY <2>1 DEF Sum
<1>2. PICK T \in Bad : \A U \in Bad : U \subseteq T => U = T
  <2>1. Bad \in SUBSET SUBSET S
    OBVIOUS
  <2> HIDE DEF Bad
  <2> QED BY <1>1, <2>1, LeastSet
<1>3. PICK y \in T : Sum(T) # f[y] + Sum(T \ {y})
  BY <1>2
<1> DEFINE p == Pick(T)
<1> HIDE DEF p
<1>4. p \in T /\ Sum(T) = f[p] + Sum(T \ {p})
  BY <1>0, <1>2, <1>3 DEF p
<1>5. p # y
  BY <1>3, <1>4
<1>6. T \ {p} \notin Bad /\ T \ {y} \notin Bad
  BY <1>2, <1>3, <1>4
<1>7. Sum(T \ {p}) = f[y] + Sum((T \ {p}) \ {y})
  BY <1>2, <1>3, <1>5, <1>6
<1>8. Sum(T \ {y}) = f[p] + Sum((T \ {y}) \ {p})
  BY <1>2, <1>4, <1>5, <1>6
<1>9. (T \ {p}) \ {y} = (T \ {y}) \ {p} /\ (T \ {p}) \ {y} \in SUBSET S
  OBVIOUS
<1>10. Sum((T \ {p}) \ {y}) \in Int /\ f[p] \in Int /\ f[y] \in Int
  BY <1>0, <1>2, <1>3, <1>4, <1>9
<1>11. Sum(T) = f[p] + (f[y] + Sum((T \ {p}) \ {y}))
  BY <1>4, <1>7
<1>12. f[y] + Sum(T \ {y}) = f[y] + (f[p] + Sum((T \ {p}) \ {y}))
  BY <1>8, <1>9
<1>13. \A a, b, c \in Int : a + (b + c) = b + (a + c)
  OBVIOUS
<1>14. Sum(T) = f[y] + Sum(T \ {y})
  BY <1>10, <1>11, <1>12, <1>13
<1> QED BY <1>3, <1>14

\* The sum over two sets that have no element in common.
LEMMA SumOfUnion ==
  ASSUME NEW f, NEW S, IsFiniteSet(S), \A x \in S : f[x] \in Int,
         NEW A \in SUBSET S, NEW C \in SUBSET S, A \cap C = {}
  PROVE  SumFunctionOnSet(f, A \cup C) = SumFunctionOnSet(f, A) + SumFunctionOnSet(f, C)
<1> DEFINE Sum(T) == SumFunctionOnSet(f, T)
           Bad    == {T \in SUBSET A : Sum(T \cup C) # Sum(T) + Sum(C)}
<1> HIDE DEF Sum
<1>0. /\ Sum({}) = 0
      /\ \A T \in SUBSET S : /\ Sum(T) \in Int
                             /\ \A x \in T : Sum(T) = f[x] + Sum(T \ {x})
  <2>1. Sum({}) = 0
    BY SumOfNone DEF Sum
  <2>2. ASSUME NEW T \in SUBSET S
        PROVE  Sum(T) \in Int /\ \A x \in T : Sum(T) = f[x] + Sum(T \ {x})
    <3>1. IsFiniteSet(T) /\ \A x \in T : f[x] \in Int
      BY FS_Subset
    <3> QED BY <3>1, SumIsInteger, SumByElement DEF Sum
  <2> QED BY <2>1, <2>2
<1>1. SUFFICES ASSUME Bad # {} PROVE FALSE
  <2>1. Bad = {} => Sum(A \cup C) = Sum(A) + Sum(C)
    OBVIOUS
  <2> QED BY <2>1 DEF Sum
<1>2. PICK T \in Bad : \A U \in Bad : U \subseteq T => U = T
  <2>1. Bad \in SUBSET SUBSET A /\ IsFiniteSet(A)
    BY FS_Subset
  <2> HIDE DEF Bad
  <2> QED BY <1>1, <2>1, LeastSet
<1>3. T # {}
  <2>1. Sum({} \cup C) = Sum({}) + Sum(C)
    BY <1>0
  <2> QED BY <1>2, <2>1
<1>4. PICK x \in T : TRUE
  BY <1>3
<1>5. T \ {x} \notin Bad /\ T \ {x} \in SUBSET A
  BY <1>2, <1>4
<1>6. Sum((T \ {x}) \cup C) = Sum(T \ {x}) + Sum(C)
  BY <1>5
<1>7. (T \cup C) \ {x} = (T \ {x}) \cup C /\ T \cup C \in SUBSET S /\ T \in SUBSET S
  BY <1>2, <1>4
<1>8. Sum(T \cup C) = f[x] + Sum((T \ {x}) \cup C) /\ Sum(T) = f[x] + Sum(T \ {x})
  BY <1>0, <1>4, <1>7
<1>9. Sum(T \ {x}) \in Int /\ Sum(C) \in Int /\ f[x] \in Int
  BY <1>0, <1>2, <1>4, <1>5
<1> QED BY <1>2, <1>6, <1>8, <1>9

\* A sum of numbers of one sign has that sign.
LEMMA SumOfLosses ==
  ASSUME NEW f, NEW S, IsFiniteSet(S), \A x \in S : f[x] \in Int /\ f[x] <= 0
  PROVE  /\ SumFunctionOnSet(f, S) \in Int
         /\ SumFunctionOnSet(f, S) <= 0
         /\ (\E x \in S : f[x] < 0) => SumFunctionOnSet(f, S) < 0
<1> DEFINE Sum(T) == SumFunctionOnSet(f, T)
           Bad    == {T \in SUBSET S : ~(Sum(T) <= 0)}
<1> HIDE DEF Sum
<1>0. /\ Sum({}) = 0
      /\ \A T \in SUBSET S : /\ Sum(T) \in Int
                             /\ \A x \in T : Sum(T) = f[x] + Sum(T \ {x})
  <2>1. Sum({}) = 0
    BY SumOfNone DEF Sum
  <2>2. ASSUME NEW T \in SUBSET S
        PROVE  Sum(T) \in Int /\ \A x \in T : Sum(T) = f[x] + Sum(T \ {x})
    <3>1. IsFiniteSet(T) /\ \A x \in T : f[x] \in Int
      BY FS_Subset
    <3> QED BY <3>1, SumIsInteger, SumByElement DEF Sum
  <2> QED BY <2>1, <2>2
<1>1. Bad = {}
  <2> SUFFICES ASSUME Bad # {} PROVE FALSE
    OBVIOUS
  <2>1. PICK T \in Bad : \A U \in Bad : U \subseteq T => U = T
    <3>1. Bad \in SUBSET SUBSET S
      OBVIOUS
    <3> HIDE DEF Bad
    <3> QED BY <3>1, LeastSet
  <2>2. T # {}
    <3>1. ~(Sum(T) <= 0)
      BY <2>1
    <3>2. T = {} => Sum(T) = 0
      BY <1>0
    <3> QED BY <3>1, <3>2
  <2>3. PICK x \in T : TRUE
    BY <2>2
  <2>4. T \ {x} \in SUBSET S /\ T \ {x} \notin Bad
    BY <2>1, <2>3
  <2>5. Sum(T) = f[x] + Sum(T \ {x}) /\ Sum(T \ {x}) \in Int /\ Sum(T \ {x}) <= 0
    BY <1>0, <2>1, <2>3, <2>4
  <2>6. f[x] \in Int /\ f[x] <= 0
    BY <2>1, <2>3
  <2> QED BY <2>1, <2>5, <2>6
<1>2. \A T \in SUBSET S : Sum(T) \in Int /\ Sum(T) <= 0
  BY <1>0, <1>1
<1>3. ASSUME NEW x \in S, f[x] < 0 PROVE Sum(S) < 0
  <2>1. Sum(S) = f[x] + Sum(S \ {x}) /\ Sum(S \ {x}) \in Int /\ Sum(S \ {x}) <= 0
    BY <1>0, <1>2
  <2>2. f[x] \in Int
    OBVIOUS
  <2> QED BY <1>3, <2>1, <2>2
<1> QED BY <1>2, <1>3 DEF Sum

\* A sum of gains is a gain or nothing.
LEMMA SumOfGains ==
  ASSUME NEW f, NEW S, IsFiniteSet(S), \A x \in S : f[x] \in Int /\ f[x] >= 0
  PROVE  SumFunctionOnSet(f, S) \in Int /\ SumFunctionOnSet(f, S) >= 0
<1> DEFINE Sum(T) == SumFunctionOnSet(f, T)
           Bad    == {T \in SUBSET S : ~(Sum(T) >= 0)}
<1> HIDE DEF Sum
<1>0. /\ Sum({}) = 0
      /\ \A T \in SUBSET S : /\ Sum(T) \in Int
                             /\ \A x \in T : Sum(T) = f[x] + Sum(T \ {x})
  <2>1. Sum({}) = 0
    BY SumOfNone DEF Sum
  <2>2. ASSUME NEW T \in SUBSET S
        PROVE  Sum(T) \in Int /\ \A x \in T : Sum(T) = f[x] + Sum(T \ {x})
    <3>1. IsFiniteSet(T) /\ \A x \in T : f[x] \in Int
      BY FS_Subset
    <3> QED BY <3>1, SumIsInteger, SumByElement DEF Sum
  <2> QED BY <2>1, <2>2
<1>1. Bad = {}
  <2> SUFFICES ASSUME Bad # {} PROVE FALSE
    OBVIOUS
  <2>1. PICK T \in Bad : \A U \in Bad : U \subseteq T => U = T
    <3>1. Bad \in SUBSET SUBSET S
      OBVIOUS
    <3> HIDE DEF Bad
    <3> QED BY <3>1, LeastSet
  <2>2. T # {}
    <3>1. ~(Sum(T) >= 0)
      BY <2>1
    <3> QED BY <1>0, <3>1
  <2>3. PICK x : x \in T
    BY <2>2
  <2>4. T \ {x} \notin Bad
    BY <2>1, <2>3
  <2>5. Sum(T \ {x}) >= 0 /\ Sum(T \ {x}) \in Int
    BY <1>0, <2>1, <2>4
  <2>6. Sum(T) = f[x] + Sum(T \ {x}) /\ f[x] \in Int /\ f[x] >= 0
    BY <1>0, <2>1, <2>3
  <2>7. Sum(T) >= 0
    BY <2>5, <2>6
  <2> QED BY <2>1, <2>7
<1> QED BY <1>0, <1>1 DEF Sum


\* The sums of two functions that agree on a set.
LEMMA SumOfSame ==
  ASSUME NEW f, NEW g, NEW S, IsFiniteSet(S), \A x \in S : f[x] \in Int /\ g[x] = f[x]
  PROVE  SumFunctionOnSet(g, S) = SumFunctionOnSet(f, S)
<1> DEFINE Bad == {T \in SUBSET S : SumFunctionOnSet(g, T) # SumFunctionOnSet(f, T)}
<1> SUFFICES ASSUME Bad # {} PROVE FALSE
  OBVIOUS
<1>1. PICK T \in Bad : \A U \in Bad : U \subseteq T => U = T
  <2>1. Bad \in SUBSET SUBSET S
    OBVIOUS
  <2> HIDE DEF Bad
  <2> QED BY <2>1, LeastSet
<1>2. T # {}
  BY <1>1, SumOfNone
<1>3. PICK x \in T : TRUE
  BY <1>2
<1>4. T \ {x} \notin Bad /\ T \ {x} \in SUBSET S
  BY <1>1, <1>3
<1>5. IsFiniteSet(T) /\ \A y \in T : f[y] \in Int /\ g[y] \in Int
  BY <1>1, FS_Subset
<1>6. SumFunctionOnSet(f, T) = f[x] + SumFunctionOnSet(f, T \ {x})
  BY <1>3, <1>5, SumByElement
<1>7. SumFunctionOnSet(g, T) = g[x] + SumFunctionOnSet(g, T \ {x})
  BY <1>3, <1>5, SumByElement
<1>8. g[x] = f[x]
  BY <1>1, <1>3
<1> QED BY <1>1, <1>4, <1>6, <1>7, <1>8
=============================================================================
