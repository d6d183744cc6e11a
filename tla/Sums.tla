--------------------------------- MODULE Sums ---------------------------------
(***************************************************************************)
(* Laws of sums over finite sets, for the totals of the reports.  The      *)
(* induction is over the subsets of a finite set: a law that fails for one *)
(* of them fails for a smallest one.                                       *)
(***************************************************************************)
EXTENDS Integers, FiniteSetsExt, Functions, FiniteSetTheorems,
        WellFoundedInduction, TLAPS

First(S) == CHOOSE x \in S : TRUE

\* The function that the definition of a sum over S chooses.
Adds(f, S, it) ==
  it = [s \in SUBSET S |-> IF s = {} THEN 0 ELSE f[First(s)] + it[s \ {First(s)}]]

LEMMA SumIsChosen ==
  ASSUME NEW f, NEW S
  PROVE  SumFunctionOnSet(f, S) = (CHOOSE it : Adds(f, S, it))[S]
BY DEF SumFunctionOnSet, FoldFunctionOnSet, MapThenFoldSet, Adds, First

LEMMA FirstIsElement ==
  ASSUME NEW S, S # {}
  PROVE  First(S) \in S
BY DEF First

\* A set of subsets of a finite set has a smallest one.
LEMMA Smallest ==
  ASSUME NEW S, IsFiniteSet(S), NEW T, T \subseteq SUBSET S, T # {}
  PROVE  \E s \in T : \A r \in T : r \subseteq s => r = s
<1>1. IsWellFoundedOn(StrictSubsetOrdering(S), SUBSET S)
  BY FS_StrictSubsetOrderingWellFounded, FS_FiniteSubsetsOfFinite
<1>2. \E s \in T : \A r \in T : ~(<<r, s>> \in StrictSubsetOrdering(S))
  BY <1>1, WFMin
<1> QED
  BY <1>2 DEF StrictSubsetOrdering

\* A function of finitely many elements has finitely many values.
LEMMA FiniteImage ==
  ASSUME NEW f, NEW S, IsFiniteSet(S)
  PROVE  IsFiniteSet({f[x] : x \in S})
<1> DEFINE T == {f[x] : x \in S}
           g == [x \in S |-> f[x]]
<1>1. g \in Surjection(S, T)
  BY DEF Surjection
<1>2. IsFiniteSet(T)
  <2> HIDE DEF T, g
  <2> QED
    BY <1>1, FS_Surjection
<1> QED
  BY <1>2

\* Two such functions agree where both are defined.
LEMMA AddsAgree ==
  ASSUME NEW f, NEW A, NEW B, IsFiniteSet(A), B \subseteq A,
         NEW i, NEW j, Adds(f, A, i), Adds(f, B, j)
  PROVE  i[B] = j[B]
<1> DEFINE T == {s \in SUBSET B : i[s] # j[s]}
<1> SUFFICES T = {}
  OBVIOUS
<1> SUFFICES ASSUME T # {} PROVE FALSE
  OBVIOUS
<1>1. IsFiniteSet(B)
  BY FS_Subset
<1>2. PICK s \in T : \A r \in T : r \subseteq s => r = s
  <2>1. T \subseteq SUBSET B
    OBVIOUS
  <2> HIDE DEF T
  <2> QED
    BY <1>1, <2>1, Smallest
<1>3. s \subseteq B /\ s \subseteq A /\ i[s] # j[s]
  BY <1>2
<1>4. \A r \in SUBSET s : r # s => i[r] = j[r]
  BY <1>2, <1>3
<1>5. i[s] = IF s = {} THEN 0 ELSE f[First(s)] + i[s \ {First(s)}]
  BY <1>3 DEF Adds
<1>6. j[s] = IF s = {} THEN 0 ELSE f[First(s)] + j[s \ {First(s)}]
  BY <1>3 DEF Adds
<1>7. s # {}
  BY <1>3, <1>5, <1>6
<1>8. i[s \ {First(s)}] = j[s \ {First(s)}]
  BY <1>4, <1>7, FirstIsElement
<1> QED
  BY <1>3, <1>5, <1>6, <1>7, <1>8

\* If there is such a function for every smaller set, its value is known.
LEMMA ChosenStep ==
  ASSUME NEW f, NEW S, IsFiniteSet(S), \E it : Adds(f, S, it),
         \A r \in SUBSET S : r # S => \E it : Adds(f, r, it)
  PROVE  SumFunctionOnSet(f, S) =
           IF S = {} THEN 0 ELSE f[First(S)] + SumFunctionOnSet(f, S \ {First(S)})
<1> DEFINE i == CHOOSE it : Adds(f, S, it)
           R == S \ {First(S)}
           j == CHOOSE it : Adds(f, R, it)
<1>1. Adds(f, S, i)
  OBVIOUS
<1>2. i[S] = IF S = {} THEN 0 ELSE f[First(S)] + i[R]
  BY <1>1 DEF Adds
<1>3. ASSUME S # {} PROVE i[R] = j[R]
  <2>1. R # S /\ R \subseteq S
    BY <1>3, FirstIsElement
  <2>2. Adds(f, R, j)
    BY <2>1
  <2> HIDE DEF i, j, R
  <2> QED
    BY <1>1, <2>1, <2>2, AddsAgree
<1>4. SumFunctionOnSet(f, S) = i[S] /\ SumFunctionOnSet(f, R) = j[R]
  BY SumIsChosen
<1> HIDE DEF i, j
<1> QED
  BY <1>2, <1>3, <1>4

\* There is such a function for every finite set.
LEMMA AddsExists ==
  ASSUME NEW f, NEW S, IsFiniteSet(S)
  PROVE  \E it : Adds(f, S, it)
<1> DEFINE T == {s \in SUBSET S : ~ \E it : Adds(f, s, it)}
<1> SUFFICES ASSUME T # {} PROVE FALSE
  OBVIOUS
<1>1. PICK s \in T : \A r \in T : r \subseteq s => r = s
  <2>1. T \subseteq SUBSET S
    OBVIOUS
  <2> HIDE DEF T
  <2> QED
    BY <2>1, Smallest
<1>2. s \subseteq S /\ ~ \E it : Adds(f, s, it)
  BY <1>1
<1>3. \A r \in SUBSET s : r # s => \E it : Adds(f, r, it)
  BY <1>1, <1>2
<1> DEFINE Value(r) == IF r = {} THEN 0
                       ELSE f[First(r)] + SumFunctionOnSet(f, r \ {First(r)})
           whole == [r \in SUBSET s |-> Value(r)]
<1>4. \A r \in SUBSET s : r # s => SumFunctionOnSet(f, r) = Value(r)
  <2> TAKE r \in SUBSET s
  <2> HAVE r # s
  <2>1. IsFiniteSet(r)
    BY <1>2, FS_Subset
  <2>2. \E it : Adds(f, r, it)
    BY <1>3
  <2>3. \A q \in SUBSET r : q # r => \E it : Adds(f, q, it)
    BY <1>3
  <2> QED
    BY <2>1, <2>2, <2>3, ChosenStep
<1>5. \A r \in SUBSET s : r # {} =>
        whole[r \ {First(r)}] = SumFunctionOnSet(f, r \ {First(r)})
  <2> TAKE r \in SUBSET s
  <2> HAVE r # {}
  <2>1. r \ {First(r)} \in SUBSET s /\ r \ {First(r)} # s
    BY FirstIsElement
  <2> QED
    BY <1>4, <2>1
<1>6. whole = [r \in SUBSET s |-> IF r = {} THEN 0
                                  ELSE f[First(r)] + whole[r \ {First(r)}]]
  BY <1>5
<1>7. Adds(f, s, whole)
  BY <1>6 DEF Adds
<1> QED
  BY <1>2, <1>7

\* A sum takes its elements one by one.
LEMMA SumStep ==
  ASSUME NEW f, NEW S, IsFiniteSet(S)
  PROVE  SumFunctionOnSet(f, S) =
           IF S = {} THEN 0 ELSE f[First(S)] + SumFunctionOnSet(f, S \ {First(S)})
<1>1. \A r \in SUBSET S : \E it : Adds(f, r, it)
  BY FS_Subset, AddsExists
<1> QED
  BY <1>1, ChosenStep

-----------------------------------------------------------------------------
\* The sum of finitely many integers is an integer.
LEMMA SumType ==
  ASSUME NEW f, NEW S, IsFiniteSet(S), \A x \in S : f[x] \in Int
  PROVE  SumFunctionOnSet(f, S) \in Int
<1> DEFINE T == {s \in SUBSET S : SumFunctionOnSet(f, s) \notin Int}
<1> SUFFICES ASSUME T # {} PROVE FALSE
  OBVIOUS
<1>1. PICK s \in T : \A r \in T : r \subseteq s => r = s
  <2>1. T \subseteq SUBSET S
    OBVIOUS
  <2> HIDE DEF T
  <2> QED
    BY <2>1, Smallest
<1>2. s \subseteq S /\ SumFunctionOnSet(f, s) \notin Int
  BY <1>1
<1>3. IsFiniteSet(s)
  BY <1>2, FS_Subset
<1>4. SumFunctionOnSet(f, s) =
        IF s = {} THEN 0 ELSE f[First(s)] + SumFunctionOnSet(f, s \ {First(s)})
  BY <1>3, SumStep
<1>5. s # {}
  BY <1>2, <1>4
<1>6. First(s) \in s
  BY <1>5, FirstIsElement
<1>7. SumFunctionOnSet(f, s \ {First(s)}) \in Int
  BY <1>1, <1>2, <1>6
<1> QED
  BY <1>2, <1>4, <1>5, <1>6, <1>7

\* It does not matter which element is taken first.
LEMMA SumTake ==
  ASSUME NEW f, NEW S, IsFiniteSet(S), \A x \in S : f[x] \in Int, NEW a \in S
  PROVE  SumFunctionOnSet(f, S) = f[a] + SumFunctionOnSet(f, S \ {a})
<1> DEFINE Sum(s) == SumFunctionOnSet(f, s)
           Takes(s) == \A x \in s : Sum(s) = f[x] + Sum(s \ {x})
           T == {s \in SUBSET S : ~Takes(s)}
<1> SUFFICES ASSUME T # {} PROVE FALSE
  OBVIOUS
<1>1. PICK s \in T : \A r \in T : r \subseteq s => r = s
  <2>1. T \subseteq SUBSET S
    OBVIOUS
  <2> HIDE DEF T
  <2> QED
    BY <2>1, Smallest
<1>2. s \subseteq S /\ ~Takes(s)
  BY <1>1
<1>3. \A r \in SUBSET s : r # s => Takes(r)
  BY <1>1, <1>2
<1>4. PICK x \in s : Sum(s) # f[x] + Sum(s \ {x})
  BY <1>2
<1> DEFINE p == First(s)
<1>5. p \in s
  BY <1>4, FirstIsElement
<1>6. Sum(s) = f[p] + Sum(s \ {p})
  BY <1>2, <1>4, FS_Subset, SumStep
<1>7. p # x
  BY <1>4, <1>6
<1> HIDE DEF p
<1>8. Sum(s \ {p}) = f[x] + Sum((s \ {p}) \ {x})
  <2>1. Takes(s \ {p})
    BY <1>3, <1>5
  <2> QED
    BY <2>1, <1>7
<1>9. Sum(s \ {x}) = f[p] + Sum((s \ {x}) \ {p})
  <2>1. Takes(s \ {x})
    BY <1>3
  <2> QED
    BY <2>1, <1>5, <1>7
<1>10. (s \ {p}) \ {x} = (s \ {x}) \ {p}
  OBVIOUS
<1>11. Sum((s \ {p}) \ {x}) \in Int
  <2>1. (s \ {p}) \ {x} \subseteq S
    BY <1>2
  <2>2. IsFiniteSet((s \ {p}) \ {x})
    BY <2>1, FS_Subset
  <2> QED
    BY <2>1, <2>2, SumType
<1>12. f[x] \in Int /\ f[p] \in Int
  BY <1>2, <1>5
<1> DEFINE rest == Sum((s \ {p}) \ {x})
<1>13. Sum(s) = f[p] + (f[x] + rest) /\ Sum(s \ {x}) = f[p] + rest
  BY <1>6, <1>8, <1>9, <1>10
<1>14. rest \in Int
  BY <1>11
<1> HIDE DEF T, Takes, rest
<1> QED
  BY <1>4, <1>12, <1>13, <1>14

\* Nothing adds up to 0, and one element to its value.
LEMMA SumFew ==
  ASSUME NEW f, NEW a, f[a] \in Int
  PROVE  /\ SumFunctionOnSet(f, {}) = 0
         /\ SumFunctionOnSet(f, {a}) = f[a]
<1>1. SumFunctionOnSet(f, {}) = 0
  BY FS_EmptySet, SumStep
<1>2. SumFunctionOnSet(f, {a}) = f[a] + SumFunctionOnSet(f, {a} \ {a})
  BY FS_Singleton, SumTake
<1>3. {a} \ {a} = {}
  OBVIOUS
<1> QED
  BY <1>1, <1>2, <1>3

\* Functions that agree on a set have the same sum.
LEMMA SumAgree ==
  ASSUME NEW f, NEW g, NEW S, IsFiniteSet(S), \A x \in S : f[x] = g[x]
  PROVE  SumFunctionOnSet(f, S) = SumFunctionOnSet(g, S)
<1> DEFINE T == {s \in SUBSET S : SumFunctionOnSet(f, s) # SumFunctionOnSet(g, s)}
<1> SUFFICES ASSUME T # {} PROVE FALSE
  OBVIOUS
<1>1. PICK s \in T : \A r \in T : r \subseteq s => r = s
  <2>1. T \subseteq SUBSET S
    OBVIOUS
  <2> HIDE DEF T
  <2> QED
    BY <2>1, Smallest
<1>2. s \subseteq S /\ SumFunctionOnSet(f, s) # SumFunctionOnSet(g, s)
  BY <1>1
<1>3. IsFiniteSet(s)
  BY <1>2, FS_Subset
<1>4. SumFunctionOnSet(f, s) =
        IF s = {} THEN 0 ELSE f[First(s)] + SumFunctionOnSet(f, s \ {First(s)})
  BY <1>3, SumStep
<1>5. SumFunctionOnSet(g, s) =
        IF s = {} THEN 0 ELSE g[First(s)] + SumFunctionOnSet(g, s \ {First(s)})
  BY <1>3, SumStep
<1>6. s # {}
  BY <1>2, <1>4, <1>5
<1>7. First(s) \in s
  BY <1>6, FirstIsElement
<1>8. SumFunctionOnSet(f, s \ {First(s)}) = SumFunctionOnSet(g, s \ {First(s)})
  BY <1>1, <1>2, <1>7
<1> QED
  BY <1>2, <1>4, <1>5, <1>6, <1>7, <1>8

\* The sum over two disjoint sets.
LEMMA SumOfUnion ==
  ASSUME NEW f, NEW A, NEW B, IsFiniteSet(A), IsFiniteSet(B), A \cap B = {},
         \A x \in A \cup B : f[x] \in Int
  PROVE  SumFunctionOnSet(f, A \cup B) = SumFunctionOnSet(f, A) + SumFunctionOnSet(f, B)
<1> DEFINE Sum(s) == SumFunctionOnSet(f, s)
           T == {s \in SUBSET A : Sum(s \cup B) # Sum(s) + Sum(B)}
<1> SUFFICES ASSUME T # {} PROVE FALSE
  OBVIOUS
<1>1. PICK s \in T : \A r \in T : r \subseteq s => r = s
  <2>1. T \subseteq SUBSET A
    OBVIOUS
  <2> HIDE DEF T
  <2> QED
    BY <2>1, Smallest
<1>2. s \subseteq A /\ Sum(s \cup B) # Sum(s) + Sum(B)
  BY <1>1
<1>3. IsFiniteSet(s) /\ IsFiniteSet(s \cup B)
  BY <1>2, FS_Subset, FS_Union
<1>4. Sum(B) \in Int
  BY SumType
<1>5. s # {}
  <2>1. Sum({}) = 0
    BY FS_EmptySet, SumStep
  <2>2. {} \cup B = B
    OBVIOUS
  <2>3. ASSUME s = {} PROVE FALSE
    <3>1. Sum(s \cup B) = Sum(B) /\ Sum(s) = 0
      BY <2>1, <2>2, <2>3
    <3> QED
      BY <1>2, <1>4, <3>1
  <2> QED
    BY <2>3
<1>6. PICK a : a \in s
  BY <1>5
<1> DEFINE r == s \ {a}
<1>7. Sum(r \cup B) = Sum(r) + Sum(B)
  BY <1>1, <1>2, <1>6
<1>8. Sum(s) = f[a] + Sum(r)
  BY <1>2, <1>3, <1>6, SumTake
<1>9. Sum(s \cup B) = f[a] + Sum(r \cup B)
  <2>1. (s \cup B) \ {a} = r \cup B
    BY <1>2, <1>6
  <2>2. Sum(s \cup B) = f[a] + Sum((s \cup B) \ {a})
    BY <1>2, <1>3, <1>6, SumTake
  <2> QED
    BY <2>1, <2>2
<1>10. Sum(r) \in Int /\ f[a] \in Int
  <2>1. r \subseteq A
    BY <1>2
  <2>2. IsFiniteSet(r)
    BY <2>1, FS_Subset
  <2> QED
    BY <1>2, <1>6, <2>1, <2>2, SumType
<1> HIDE DEF T, r
<1> QED
  BY <1>2, <1>4, <1>7, <1>8, <1>9, <1>10

\* The elements of S that k puts in class c.
Class(S, k, c) == {x \in S : k[x] = c}

\* k puts each element of S in a class of K.
Sorts(k, S, K) == \A x \in S : k[x] \in K

\* A sum may be taken class by class: t has the sum of each class.
LEMMA SumByClasses ==
  ASSUME NEW f, NEW S, NEW k, NEW K, NEW t,
         IsFiniteSet(S), IsFiniteSet(K),
         Sorts(k, S, K), \A x \in S : f[x] \in Int,
         \A c \in K : t[c] = SumFunctionOnSet(f, Class(S, k, c))
  PROVE  SumFunctionOnSet(f, S) = SumFunctionOnSet(t, K)
<1> DEFINE Of(C) == {x \in S : k[x] \in C}
           T == {C \in SUBSET K : SumFunctionOnSet(f, Of(C)) # SumFunctionOnSet(t, C)}
<1>1. Of(K) = S
  BY DEF Sorts
<1> SUFFICES ASSUME T # {} PROVE FALSE
  BY <1>1
<1>2. PICK C \in T : \A D \in T : D \subseteq C => D = C
  <2>1. T \subseteq SUBSET K
    OBVIOUS
  <2> HIDE DEF T
  <2> QED
    BY <2>1, Smallest
<1>3. C \subseteq K /\ SumFunctionOnSet(f, Of(C)) # SumFunctionOnSet(t, C)
  BY <1>2
<1>4. IsFiniteSet(C)
  BY <1>3, FS_Subset
<1>5. \A D : IsFiniteSet(Of(D)) /\ Of(D) \subseteq S
  BY FS_Subset
<1>6. \A c \in K : t[c] \in Int
  <2> TAKE c \in K
  <2> DEFINE One == Class(S, k, c)
  <2>1. IsFiniteSet(One) /\ \A x \in One : f[x] \in Int
    BY FS_Subset DEF Class
  <2>2. SumFunctionOnSet(f, One) \in Int
    <3> HIDE DEF One
    <3> QED
      BY <2>1, SumType
  <2> QED
    BY <2>2
<1>7. C # {}
  <2>1. Of({}) = {}
    OBVIOUS
  <2>2. SumFunctionOnSet(f, {}) = 0 /\ SumFunctionOnSet(t, {}) = 0
    BY FS_EmptySet, SumStep
  <2> QED
    BY <1>3, <2>1, <2>2
<1>8. PICK c : c \in C
  BY <1>7
<1> DEFINE D == C \ {c}
           One == Class(S, k, c)
<1>9. SumFunctionOnSet(f, Of(D)) = SumFunctionOnSet(t, D)
  BY <1>2, <1>3, <1>8
<1>10. SumFunctionOnSet(t, C) = t[c] + SumFunctionOnSet(t, D)
  BY <1>3, <1>4, <1>6, <1>8, SumTake
<1>11. SumFunctionOnSet(f, Of(C)) =
         SumFunctionOnSet(f, One) + SumFunctionOnSet(f, Of(D))
  <2>1. Of(C) = One \cup Of(D)
    BY <1>8 DEF Class
  <2>2. One \cap Of(D) = {}
    BY DEF Class
  <2>3. IsFiniteSet(One)
    BY FS_Subset DEF Class
  <2>4. \A x \in One \cup Of(D) : f[x] \in Int
    BY DEF Class
  <2>5. SumFunctionOnSet(f, One \cup Of(D)) =
          SumFunctionOnSet(f, One) + SumFunctionOnSet(f, Of(D))
    <3>1. IsFiniteSet(Of(D))
      BY <1>5
    <3> HIDE DEF One, Of
    <3> QED
      BY <2>2, <2>3, <2>4, <3>1, SumOfUnion
  <2> QED
    BY <2>1, <2>5
<1>12. t[c] = SumFunctionOnSet(f, One)
  BY <1>3, <1>8
<1> HIDE DEF Of, One, D
<1> QED
  BY <1>3, <1>9, <1>10, <1>11, <1>12

\* The number of elements is a sum of ones.
LEMMA SumOfOnes ==
  ASSUME NEW S, IsFiniteSet(S), NEW f, \A x \in S : f[x] = 1
  PROVE  SumFunctionOnSet(f, S) = Cardinality(S)
<1> DEFINE T == {s \in SUBSET S : SumFunctionOnSet(f, s) # Cardinality(s)}
<1> SUFFICES ASSUME T # {} PROVE FALSE
  OBVIOUS
<1>1. PICK s \in T : \A r \in T : r \subseteq s => r = s
  <2>1. T \subseteq SUBSET S
    OBVIOUS
  <2> HIDE DEF T
  <2> QED
    BY <2>1, Smallest
<1>2. s \subseteq S /\ SumFunctionOnSet(f, s) # Cardinality(s)
  BY <1>1
<1>3. IsFiniteSet(s)
  BY <1>2, FS_Subset
<1>4. SumFunctionOnSet(f, s) =
        IF s = {} THEN 0 ELSE f[First(s)] + SumFunctionOnSet(f, s \ {First(s)})
  BY <1>3, SumStep
<1>5. s # {}
  BY <1>2, <1>4, FS_EmptySet
<1>6. First(s) \in s
  BY <1>5, FirstIsElement
<1>7. SumFunctionOnSet(f, s \ {First(s)}) = Cardinality(s \ {First(s)})
  BY <1>1, <1>2, <1>6
<1>8. Cardinality(s \ {First(s)}) = Cardinality(s) - 1
  BY <1>3, <1>6, FS_RemoveElement
<1>9. Cardinality(s) \in Nat
  BY <1>3, FS_CardinalityType
<1>10. f[First(s)] = 1
  BY <1>2, <1>6
<1> QED
  BY <1>2, <1>4, <1>5, <1>7, <1>8, <1>9, <1>10

\* A set is as large as its classes together: t has the size of each class.
LEMMA CountByClasses ==
  ASSUME NEW S, NEW k, NEW K, NEW t, IsFiniteSet(S), IsFiniteSet(K),
         Sorts(k, S, K),
         \A c \in K : t[c] = Cardinality(Class(S, k, c))
  PROVE  Cardinality(S) = SumFunctionOnSet(t, K)
<1> DEFINE one == [x \in S |-> 1]
<1>1. \A s \in SUBSET S : SumFunctionOnSet(one, s) = Cardinality(s)
  <2> TAKE s \in SUBSET S
  <2>1. IsFiniteSet(s) /\ \A x \in s : one[x] = 1
    BY FS_Subset
  <2> HIDE DEF one
  <2> QED
    BY <2>1, SumOfOnes
<1>2. \A c \in K : t[c] = SumFunctionOnSet(one, Class(S, k, c))
  BY <1>1 DEF Class
<1>3. \A x \in S : one[x] \in Int
  OBVIOUS
<1>4. SumFunctionOnSet(one, S) = SumFunctionOnSet(t, K)
  <2> HIDE DEF one
  <2> QED
    BY <1>2, <1>3, SumByClasses
<1> QED
  BY <1>1, <1>4

\* Renaming the elements changes no sum: h gives each element of S a name of its own.
LEMMA SumRenamed ==
  ASSUME NEW f, NEW g, NEW h, NEW S, IsFiniteSet(S),
         \A x \in S : f[x] \in Int /\ f[x] = g[h[x]],
         \A x, y \in S : h[x] = h[y] => x = y
  PROVE  SumFunctionOnSet(f, S) = SumFunctionOnSet(g, {h[x] : x \in S})
<1> DEFINE K == {h[x] : x \in S}
<1>1. IsFiniteSet(K)
  BY FiniteImage
<1>2. Sorts(h, S, K)
  BY DEF Sorts
<1>3. \A c \in K : g[c] = SumFunctionOnSet(f, Class(S, h, c))
  <2> TAKE c \in K
  <2>1. PICK x \in S : c = h[x]
    OBVIOUS
  <2>2. Class(S, h, c) = {x}
    BY <2>1 DEF Class
  <2>3. SumFunctionOnSet(f, {x}) = f[x]
    BY SumFew
  <2> QED
    BY <2>1, <2>2, <2>3
<1>4. SumFunctionOnSet(f, S) = SumFunctionOnSet(g, K)
  <2> HIDE DEF K
  <2> QED
    BY <1>1, <1>2, <1>3, SumByClasses
<1> QED
  BY <1>4

LEMMA CountRenamed ==
  ASSUME NEW h, NEW S, IsFiniteSet(S), \A x, y \in S : h[x] = h[y] => x = y
  PROVE  Cardinality(S) = Cardinality({h[x] : x \in S})
<1> DEFINE T == {h[x] : x \in S}
           g == [x \in S |-> h[x]]
<1>1. g \in Bijection(S, T)
  BY DEF Bijection, Injection, Surjection, IsInjective
<1>2. ExistsBijection(S, T)
  BY <1>1 DEF ExistsBijection
<1>3. Cardinality(T) = Cardinality(S)
  <2> HIDE DEF T
  <2> QED
    BY <1>2, FS_Bijection
<1> QED
  BY <1>3
==============================================================================
