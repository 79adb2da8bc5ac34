-------------------------------- MODULE Sums --------------------------------
(***************************************************************************)
(* Facts about SumFunctionOnSet(f, S), the sum of the integers f[x] for x  *)
(* in a finite set S, which the models count holdings, volumes and amounts *)
(* with.                                                                   *)
(*                                                                         *)
(* The sum is a function that is defined by recursion over the subsets of  *)
(* S, each without its chosen element.  That there is such a function, and *)
(* only one, is shown level by level: Unfolds(g, T) for the sets of up to  *)
(* n elements.  Where an induction is needed, a least counterexample is    *)
(* refuted.                                                                *)
(***************************************************************************)
EXTENDS FiniteSetsExt, FiniteSetTheorems, FunctionTheorems, TLAPS

Chosen(S) == CHOOSE x \in S : TRUE

\* g computes the sums of f over the sets in the family T.
Unfolds(g, f, T) ==
  g = [s \in T |-> IF s = {} THEN 0 ELSE f[Chosen(s)] + g[s \ {Chosen(s)}]]

\* The subsets of S with at most n elements.
SubsetsUpTo(S, n) == {s \in SUBSET S : Cardinality(s) <= n}

-----------------------------------------------------------------------------
\* Every nonempty set of naturals has a least element.
LEMMA LeastNatural ==
  ASSUME NEW S \in SUBSET Nat, S # {}
  PROVE  \E m \in S : \A n \in S : m <= n
<1> DEFINE less == OpToRel(<, Nat)
<1>1. IsWellFoundedOn(less, Nat)
  BY NatLessThanWellFounded
<1> HIDE DEF less
<1>2. PICK m \in S : \A n \in S : ~(<<n, m>> \in less)
  BY <1>1, WFMin
<1>3. ASSUME NEW n \in S, n < m PROVE <<n, m>> \in less
  <2>1. <<n, m>> \in Nat \X Nat /\ <<n, m>>[1] < <<n, m>>[2]
    BY <1>3
  <2>. QED
    BY <2>1, Zenon DEF less, OpToRel
<1>4. \A n \in S : n \in Nat
  OBVIOUS
<1>5. \A n \in S : ~(n < m)
  BY <1>2, <1>3, Zenon
<1>. QED
  BY <1>4, <1>5

\* The least element of a nonempty set of naturals.
LEMMA MinFacts ==
  ASSUME NEW S \in SUBSET Nat, S # {}
  PROVE  Min(S) \in S /\ \A n \in S : Min(S) <= n
BY LeastNatural DEF Min

\* The greatest element of a nonempty set of bounded naturals.
LEMMA MaxFacts ==
  ASSUME NEW N \in Nat, NEW S \in SUBSET (0 .. N), S # {}
  PROVE  Max(S) \in S /\ \A n \in S : n <= Max(S)
<1> DEFINE T == {N - n : n \in S}
<1>1. T \in SUBSET Nat /\ T # {}
  <2>1. \A n \in S : N - n \in Nat
    OBVIOUS
  <2>2. T \subseteq Nat /\ T # {}
    BY <2>1
  <2>3. QED
    BY <2>2
<1>2. PICK t \in T : \A u \in T : t <= u
  BY <1>1, LeastNatural
<1>3. PICK m \in S : t = N - m
  OBVIOUS
<1>4. \A n \in S : N - m <= N - n
  BY <1>2, <1>3
<1>5. \A n \in S : m >= n
  BY <1>4
<1>6. QED
  BY <1>5 DEF Max

\* A set of naturals with 0 and with every successor is all of them.
LEMMA AllNaturals ==
  ASSUME NEW S, 0 \in S, \A n \in Nat : n \in S => n + 1 \in S
  PROVE  \A n \in Nat : n \in S
<1>. SUFFICES ASSUME Nat \ S # {} PROVE FALSE
  OBVIOUS
<1>1. PICK m \in Nat \ S : \A n \in Nat \ S : m <= n
  BY LeastNatural
<1>2. m - 1 \in Nat /\ m - 1 \in S
  BY <1>1
<1>. QED
  BY <1>1, <1>2

\* A family of finite sets with {} and, for each member, the member and one more
\* element of F, has all finite subsets of F.
LEMMA AllSubsets ==
  ASSUME NEW F, IsFiniteSet(F), NEW P, {} \in P,
         \A S \in SUBSET F : \A x \in F \ S : S \in P => S \cup {x} \in P
  PROVE  F \in P
<1>. DEFINE N == {n \in Nat : \A S \in SUBSET F : Cardinality(S) = n => S \in P}
<1>1. 0 \in N
  BY FS_Subset, FS_EmptySet
<1>2. ASSUME NEW n \in Nat, n \in N PROVE n + 1 \in N
  <2>. SUFFICES ASSUME NEW S \in SUBSET F, Cardinality(S) = n + 1 PROVE S \in P
    OBVIOUS
  <2>1. IsFiniteSet(S)
    BY FS_Subset
  <2>2. PICK x : x \in S
    BY <2>1, FS_EmptySet
  <2>3. Cardinality(S \ {x}) = n
    <3>1. Cardinality(S \ {x}) = Cardinality(S) - 1
      BY <2>1, <2>2, FS_RemoveElement
    <3>. QED BY <3>1
  <2>4. S \ {x} \in P /\ x \in F \ (S \ {x}) /\ S \ {x} \in SUBSET F
    BY <1>2, <2>2, <2>3
  <2>5. (S \ {x}) \cup {x} = S
    BY <2>2
  <2>. QED BY <2>4, <2>5
<1>. HIDE DEF N
<1>3. \A n \in Nat : n \in N
  BY <1>1, <1>2, AllNaturals
<1>4. Cardinality(F) \in Nat
  BY FS_CardinalityType
<1>. QED
  BY <1>3, <1>4 DEF N

-----------------------------------------------------------------------------
\* A nonempty set has its chosen element.
LEMMA ChosenIn == ASSUME NEW S, S # {} PROVE Chosen(S) \in S
  BY DEF Chosen

\* A set without its chosen element is one level down.
LEMMA LevelDown ==
  ASSUME NEW S, IsFiniteSet(S), NEW n \in Nat, NEW s \in SubsetsUpTo(S, n + 1), s # {}
  PROVE  s \ {Chosen(s)} \in SubsetsUpTo(S, n)
<1>1. s \subseteq S /\ IsFiniteSet(s) /\ Cardinality(s) <= n + 1
  BY FS_Subset DEF SubsetsUpTo
<1>2. Cardinality(s \ {Chosen(s)}) = Cardinality(s) - 1 /\ Cardinality(s) \in Nat
  BY <1>1, ChosenIn, FS_RemoveElement, FS_CardinalityType
<1>. QED
  BY <1>1, <1>2 DEF SubsetsUpTo

\* There is a function that computes the sums of f over the subsets of S: the
\* one for sets of up to n elements extends to those of n + 1.
LEMMA SumExists ==
  ASSUME NEW S, IsFiniteSet(S), NEW f
  PROVE  \E g : Unfolds(g, f, SUBSET S)
<1>. DEFINE N == {n \in Nat : \E g : Unfolds(g, f, SubsetsUpTo(S, n))}
<1>1. 0 \in N
  <2>. DEFINE g == [s \in SubsetsUpTo(S, 0) |-> 0]
  <2>1. \A s \in SubsetsUpTo(S, 0) : s = {}
    BY FS_Subset, FS_EmptySet, FS_CardinalityType DEF SubsetsUpTo
  <2>2. Unfolds(g, f, SubsetsUpTo(S, 0))
    BY <2>1 DEF Unfolds
  <2>. QED BY <2>2
<1>2. ASSUME NEW n \in Nat, n \in N PROVE n + 1 \in N
  <2>1. PICK g : Unfolds(g, f, SubsetsUpTo(S, n))
    BY <1>2
  <2>. DEFINE h == [s \in SubsetsUpTo(S, n + 1) |->
                      IF s = {} THEN 0 ELSE f[Chosen(s)] + g[s \ {Chosen(s)}]]
  <2>2. ASSUME NEW s \in SubsetsUpTo(S, n) PROVE h[s] = g[s]
    <3>1. s \in SubsetsUpTo(S, n + 1)
      BY FS_Subset, FS_CardinalityType DEF SubsetsUpTo
    <3>. QED BY <2>1, <3>1 DEF Unfolds
  <2>3. ASSUME NEW s \in SubsetsUpTo(S, n + 1)
        PROVE  h[s] = IF s = {} THEN 0 ELSE f[Chosen(s)] + h[s \ {Chosen(s)}]
    BY <2>2, LevelDown
  <2>4. h = [s \in SubsetsUpTo(S, n + 1) |->
               IF s = {} THEN 0 ELSE f[Chosen(s)] + h[s \ {Chosen(s)}]]
    BY <2>3
  <2>5. Unfolds(h, f, SubsetsUpTo(S, n + 1))
    BY <2>4 DEF Unfolds
  <2>. QED BY <2>5
<1>. HIDE DEF N
<1>3. \A n \in Nat : n \in N
  BY <1>1, <1>2, AllNaturals
<1>4. Cardinality(S) \in Nat /\ SubsetsUpTo(S, Cardinality(S)) = SUBSET S
  BY FS_CardinalityType, FS_Subset DEF SubsetsUpTo
<1>. QED
  BY <1>3, <1>4 DEF N

\* Two such functions agree where both are defined.
LEMMA SumUnique ==
  ASSUME NEW S, IsFiniteSet(S), NEW T \in SUBSET S, NEW f, NEW g, NEW h,
         Unfolds(g, f, SUBSET S), Unfolds(h, f, SUBSET T)
  PROVE  g[T] = h[T]
<1>. DEFINE N == {n \in Nat : \A s \in SubsetsUpTo(T, n) : g[s] = h[s]}
<1>0. IsFiniteSet(T)
  BY FS_Subset
<1>1. 0 \in N
  <2>1. \A s \in SubsetsUpTo(T, 0) : s = {} /\ s \in SUBSET S /\ s \in SUBSET T
    BY <1>0, FS_Subset, FS_EmptySet, FS_CardinalityType DEF SubsetsUpTo
  <2>. QED BY <2>1 DEF Unfolds
<1>2. ASSUME NEW n \in Nat, n \in N PROVE n + 1 \in N
  <2>1. ASSUME NEW s \in SubsetsUpTo(T, n + 1), s # {} PROVE g[s] = h[s]
    <3>1. s \in SUBSET S /\ s \in SUBSET T
      BY DEF SubsetsUpTo
    <3>2. g[s \ {Chosen(s)}] = h[s \ {Chosen(s)}]
      BY <1>0, <1>2, <2>1, LevelDown
    <3>3. /\ g[s] = f[Chosen(s)] + g[s \ {Chosen(s)}]
          /\ h[s] = f[Chosen(s)] + h[s \ {Chosen(s)}]
      BY <2>1, <3>1 DEF Unfolds
    <3>. QED BY <3>2, <3>3
  <2>2. g[{}] = 0 /\ h[{}] = 0
    BY DEF Unfolds
  <2>3. \A s \in SubsetsUpTo(T, n + 1) : g[s] = h[s]
    BY <2>1, <2>2
  <2>. QED BY <2>3
<1>. HIDE DEF N
<1>3. \A n \in Nat : n \in N
  BY <1>1, <1>2, AllNaturals
<1>4. Cardinality(T) \in Nat /\ T \in SubsetsUpTo(T, Cardinality(T))
  BY <1>0, FS_CardinalityType DEF SubsetsUpTo
<1>. QED
  BY <1>3, <1>4 DEF N

\* The sum is the value of such a function.
LEMMA SumIsUnfolded ==
  ASSUME NEW f, NEW S
  PROVE  SumFunctionOnSet(f, S) = (CHOOSE g : Unfolds(g, f, SUBSET S))[S]
  BY DEF SumFunctionOnSet, FoldFunctionOnSet, MapThenFoldSet, Unfolds, Chosen

\* The recursion that defines the sum.
LEMMA SumChosen ==
  ASSUME NEW f, NEW S, IsFiniteSet(S), S # {}
  PROVE  SumFunctionOnSet(f, S) = f[Chosen(S)] + SumFunctionOnSet(f, S \ {Chosen(S)})
<1>. DEFINE T == S \ {Chosen(S)}
            g == CHOOSE k : Unfolds(k, f, SUBSET S)
            h == CHOOSE k : Unfolds(k, f, SUBSET T)
<1>1. IsFiniteSet(T)
  BY FS_Subset
<1>2. Unfolds(g, f, SUBSET S)
  BY SumExists
<1>3. Unfolds(h, f, SUBSET T)
  BY <1>1, SumExists
<1>4. SumFunctionOnSet(f, S) = g[S] /\ SumFunctionOnSet(f, T) = h[T]
  BY SumIsUnfolded
<1>. HIDE DEF g, h
<1>5. g[S] = f[Chosen(S)] + g[T]
  BY <1>2 DEF Unfolds
<1>. HIDE DEF T
<1>6. g[T] = h[T]
  <2>1. T \in SUBSET S
    BY DEF T
  <2>. QED BY <1>2, <1>3, <2>1, SumUnique
<1>. QED
  BY <1>4, <1>5, <1>6 DEF T

\* Nothing adds up to zero.
LEMMA SumEmpty ==
  ASSUME NEW f
  PROVE  SumFunctionOnSet(f, {}) = 0
<1>. DEFINE g == CHOOSE k : Unfolds(k, f, SUBSET {})
<1>1. Unfolds(g, f, SUBSET {})
  BY SumExists, FS_EmptySet
<1>2. SumFunctionOnSet(f, {}) = g[{}]
  BY SumIsUnfolded
<1>. HIDE DEF g
<1>. QED
  BY <1>1, <1>2 DEF Unfolds

\* A sum of integers is an integer, and one of naturals a natural.
LEMMA SumType ==
  ASSUME NEW F, IsFiniteSet(F), NEW f, \A x \in F : f[x] \in Int
  PROVE  /\ SumFunctionOnSet(f, F) \in Int
         /\ (\A x \in F : f[x] \in Nat) => SumFunctionOnSet(f, F) \in Nat
<1>. DEFINE Typed(S) == /\ SumFunctionOnSet(f, S) \in Int
                        /\ (\A x \in S : f[x] \in Nat) => SumFunctionOnSet(f, S) \in Nat
            N == {n \in Nat : \A S \in SUBSET F : Cardinality(S) = n => Typed(S)}
<1>1. 0 \in N
  <2>1. \A S \in SUBSET F : Cardinality(S) = 0 => S = {}
    BY FS_Subset, FS_EmptySet
  <2>. QED BY <2>1, SumEmpty
<1>2. ASSUME NEW n \in Nat, n \in N PROVE n + 1 \in N
  <2>. SUFFICES ASSUME NEW S \in SUBSET F, Cardinality(S) = n + 1 PROVE Typed(S)
    OBVIOUS
  <2>1. IsFiniteSet(S) /\ S # {}
    BY FS_Subset, FS_EmptySet
  <2>2. Chosen(S) \in S /\ Cardinality(S \ {Chosen(S)}) = n
    <3>1. Cardinality(S \ {Chosen(S)}) = Cardinality(S) - 1
      BY <2>1, ChosenIn, FS_RemoveElement
    <3>. QED BY <2>1, <3>1, ChosenIn
  <2>3. Typed(S \ {Chosen(S)})
    BY <1>2, <2>2
  <2>4. SumFunctionOnSet(f, S) = f[Chosen(S)] + SumFunctionOnSet(f, S \ {Chosen(S)})
    BY <2>1, SumChosen
  <2>5. f[Chosen(S)] \in Int
    BY <2>2
  <2>. QED BY <2>2, <2>3, <2>4, <2>5
<1>. HIDE DEF N
<1>3. \A n \in Nat : n \in N
  BY <1>1, <1>2, AllNaturals
<1>4. Cardinality(F) \in Nat
  BY FS_CardinalityType
<1>. QED
  BY <1>3, <1>4 DEF N

\* Whatever element is taken out, it was summed once: the order of a sum is
\* immaterial.
LEMMA SumRemove ==
  ASSUME NEW F, IsFiniteSet(F), NEW f, \A x \in F : f[x] \in Int, NEW a \in F
  PROVE  SumFunctionOnSet(f, F) = f[a] + SumFunctionOnSet(f, F \ {a})
<1>. DEFINE Sum(S) == SumFunctionOnSet(f, S)
            Removes(S) == \A x \in S : Sum(S) = f[x] + Sum(S \ {x})
            N == {n \in Nat : \A S \in SUBSET F : Cardinality(S) = n => Removes(S)}
<1>0. \A S \in SUBSET F : IsFiniteSet(S) /\ Sum(S) \in Int
  <2>. SUFFICES ASSUME NEW S \in SUBSET F PROVE IsFiniteSet(S) /\ Sum(S) \in Int
    OBVIOUS
  <2>1. IsFiniteSet(S)
    BY FS_Subset
  <2>. QED BY <2>1, SumType
<1>1. 0 \in N
  BY <1>0, FS_EmptySet
<1>2. ASSUME NEW n \in Nat, n \in N PROVE n + 1 \in N
  <2>. SUFFICES ASSUME NEW S \in SUBSET F, Cardinality(S) = n + 1, NEW x \in S
                PROVE  Sum(S) = f[x] + Sum(S \ {x})
    OBVIOUS
  <2>. DEFINE c == Chosen(S)
  <2>1. c \in S /\ Sum(S) = f[c] + Sum(S \ {c})
    BY <1>0, ChosenIn, SumChosen
  <2>. HIDE DEF c
  <2>. SUFFICES ASSUME c # x PROVE Sum(S) = f[x] + Sum(S \ {x})
    BY <2>1
  <2>2. Cardinality(S \ {c}) = n /\ Cardinality(S \ {x}) = n
    <3>1. /\ Cardinality(S \ {c}) = Cardinality(S) - 1
          /\ Cardinality(S \ {x}) = Cardinality(S) - 1
      BY <1>0, <2>1, FS_RemoveElement
    <3>. QED BY <3>1
  <2>3. /\ Sum(S \ {c}) = f[x] + Sum((S \ {c}) \ {x})
        /\ Sum(S \ {x}) = f[c] + Sum((S \ {x}) \ {c})
    BY <1>2, <2>1, <2>2
  <2>4. Sum((S \ {c}) \ {x}) = Sum((S \ {x}) \ {c})
    <3>1. (S \ {c}) \ {x} = (S \ {x}) \ {c}
      OBVIOUS
    <3>. QED BY <3>1, Zenon
  <2>5. Sum((S \ {x}) \ {c}) \in Int /\ f[c] \in Int /\ f[x] \in Int
    BY <1>0, <2>1
  <2>. HIDE DEF Sum
  <2>. QED BY <2>1, <2>3, <2>4, <2>5
<1>. HIDE DEF N
<1>3. \A n \in Nat : n \in N
  BY <1>1, <1>2, AllNaturals
<1>4. Cardinality(F) \in Nat
  BY FS_CardinalityType
<1>. QED
  BY <1>3, <1>4 DEF N

\* A new element adds its value.
LEMMA SumAdd ==
  ASSUME NEW S, IsFiniteSet(S), NEW a, a \notin S,
         NEW f, \A x \in S \cup {a} : f[x] \in Int
  PROVE  SumFunctionOnSet(f, S \cup {a}) = f[a] + SumFunctionOnSet(f, S)
<1>1. IsFiniteSet(S \cup {a}) /\ (S \cup {a}) \ {a} = S /\ a \in S \cup {a}
  BY FS_AddElement
<1>. QED
  BY <1>1, SumRemove

-----------------------------------------------------------------------------
(***************************************************************************)
(* Comparing two sums                                                      *)
(***************************************************************************)

\* Sums over the same set add up element by element.
LEMMA SumPlus ==
  ASSUME NEW F, IsFiniteSet(F), NEW f, NEW g, NEW h,
         \A x \in F : g[x] \in Int /\ h[x] \in Int /\ f[x] = g[x] + h[x]
  PROVE  SumFunctionOnSet(f, F) = SumFunctionOnSet(g, F) + SumFunctionOnSet(h, F)
<1>. DEFINE P == {S \in SUBSET F : SumFunctionOnSet(f, S)
                                     = SumFunctionOnSet(g, S) + SumFunctionOnSet(h, S)}
<1>1. {} \in P
  BY SumEmpty
<1>2. ASSUME NEW S \in SUBSET F, NEW x \in F \ S, S \in P PROVE S \cup {x} \in P
  <2>1. IsFiniteSet(S)
    BY FS_Subset
  <2>2. /\ \A y \in S \cup {x} : f[y] \in Int
        /\ \A y \in S \cup {x} : g[y] \in Int
        /\ \A y \in S \cup {x} : h[y] \in Int
    OBVIOUS
  <2>3. /\ SumFunctionOnSet(f, S \cup {x}) = f[x] + SumFunctionOnSet(f, S)
        /\ SumFunctionOnSet(g, S \cup {x}) = g[x] + SumFunctionOnSet(g, S)
        /\ SumFunctionOnSet(h, S \cup {x}) = h[x] + SumFunctionOnSet(h, S)
    BY <2>1, <2>2, SumAdd
  <2>4. SumFunctionOnSet(g, S) \in Int /\ SumFunctionOnSet(h, S) \in Int
    BY <2>1, <2>2, SumType
  <2>5. SumFunctionOnSet(f, S) = SumFunctionOnSet(g, S) + SumFunctionOnSet(h, S)
    BY <1>2
  <2>6. S \cup {x} \in SUBSET F
    OBVIOUS
  <2>7. SumFunctionOnSet(f, S \cup {x})
          = SumFunctionOnSet(g, S \cup {x}) + SumFunctionOnSet(h, S \cup {x})
    BY <2>3, <2>4, <2>5
  <2>. QED BY <2>6, <2>7
<1>. HIDE DEF P
<1>3. F \in P
  BY <1>1, <1>2, AllSubsets
<1>. QED
  BY <1>3 DEF P

\* A sum of zeros is zero.
LEMMA SumZero ==
  ASSUME NEW F, IsFiniteSet(F), NEW f, \A x \in F : f[x] = 0
  PROVE  SumFunctionOnSet(f, F) = 0
<1>1. SumFunctionOnSet(f, F) = SumFunctionOnSet(f, F) + SumFunctionOnSet(f, F)
  BY SumPlus
<1>2. SumFunctionOnSet(f, F) \in Int
  BY SumType
<1>3. \A t \in Int : t = t + t => t = 0
  OBVIOUS
<1>. QED
  BY <1>1, <1>2, <1>3, Zenon

\* A sum depends on the values of its elements only.
LEMMA SumEqual ==
  ASSUME NEW F, IsFiniteSet(F), NEW f, NEW g,
         \A x \in F : f[x] \in Int /\ g[x] = f[x]
  PROVE  SumFunctionOnSet(g, F) = SumFunctionOnSet(f, F)
<1>. DEFINE zero == [x \in F |-> 0]
<1>1. \A x \in F : f[x] \in Int /\ zero[x] \in Int /\ g[x] = f[x] + zero[x]
  OBVIOUS
<1>2. SumFunctionOnSet(zero, F) = 0
  BY SumZero
<1>. HIDE DEF zero
<1>3. SumFunctionOnSet(g, F) = SumFunctionOnSet(f, F) + SumFunctionOnSet(zero, F)
  BY <1>1, SumPlus
<1>4. SumFunctionOnSet(f, F) \in Int
  BY SumType
<1>. QED
  BY <1>2, <1>3, <1>4

\* Larger elements make no smaller sum.
LEMMA SumMonotone ==
  ASSUME NEW F, IsFiniteSet(F), NEW f, NEW g,
         \A x \in F : f[x] \in Int /\ g[x] \in Int /\ f[x] <= g[x]
  PROVE  SumFunctionOnSet(f, F) <= SumFunctionOnSet(g, F)
<1>. DEFINE rest == [x \in F |-> g[x] - f[x]]
<1>1. \A x \in F : f[x] \in Int /\ rest[x] \in Int /\ g[x] = f[x] + rest[x]
  OBVIOUS
<1>2. \A x \in F : rest[x] \in Nat /\ rest[x] \in Int
  OBVIOUS
<1>. HIDE DEF rest
<1>3. SumFunctionOnSet(g, F) = SumFunctionOnSet(f, F) + SumFunctionOnSet(rest, F)
  BY <1>1, SumPlus
<1>4. SumFunctionOnSet(f, F) \in Int /\ SumFunctionOnSet(rest, F) \in Nat
  BY <1>2, SumType
<1>. QED
  BY <1>3, <1>4

\* One element changes.
LEMMA SumChange ==
  ASSUME NEW F, IsFiniteSet(F), NEW f, NEW g, NEW a \in F,
         \A x \in F : f[x] \in Int /\ g[x] \in Int,
         \A x \in F \ {a} : g[x] = f[x]
  PROVE  SumFunctionOnSet(g, F) = SumFunctionOnSet(f, F) + g[a] - f[a]
<1>0. IsFiniteSet(F \ {a})
  BY FS_Subset
<1>1. SumFunctionOnSet(g, F \ {a}) = SumFunctionOnSet(f, F \ {a})
  BY <1>0, SumEqual
<1>2. /\ SumFunctionOnSet(f, F) = f[a] + SumFunctionOnSet(f, F \ {a})
      /\ SumFunctionOnSet(g, F) = g[a] + SumFunctionOnSet(g, F \ {a})
  BY SumRemove
<1>3. SumFunctionOnSet(f, F \ {a}) \in Int
  BY <1>0, SumType
<1>. QED
  BY <1>1, <1>2, <1>3

\* Something moves between two elements.
LEMMA SumMove ==
  ASSUME NEW F, IsFiniteSet(F), NEW f, NEW g, NEW a \in F, NEW b \in F, a # b,
         \A x \in F : f[x] \in Int /\ g[x] \in Int,
         \A x \in F \ {a, b} : g[x] = f[x],
         g[a] + g[b] = f[a] + f[b]
  PROVE  SumFunctionOnSet(g, F) = SumFunctionOnSet(f, F)
<1>. DEFINE R == (F \ {a}) \ {b}
<1>1. /\ SumFunctionOnSet(f, F) = f[a] + SumFunctionOnSet(f, F \ {a})
      /\ SumFunctionOnSet(g, F) = g[a] + SumFunctionOnSet(g, F \ {a})
  BY SumRemove
<1>2. IsFiniteSet(F \ {a}) /\ IsFiniteSet(R) /\ b \in F \ {a}
  BY FS_Subset
<1>3. /\ SumFunctionOnSet(f, F \ {a}) = f[b] + SumFunctionOnSet(f, R)
      /\ SumFunctionOnSet(g, F \ {a}) = g[b] + SumFunctionOnSet(g, R)
  BY <1>2, SumRemove
<1>4. \A x \in R : f[x] \in Int /\ g[x] = f[x]
  OBVIOUS
<1>5. SumFunctionOnSet(g, R) = SumFunctionOnSet(f, R)
  BY <1>2, <1>4, SumEqual
<1>6. SumFunctionOnSet(f, R) \in Int
  BY <1>2, <1>4, SumType
<1>. HIDE DEF R
<1>7. f[a] \in Int /\ f[b] \in Int /\ g[a] \in Int /\ g[b] \in Int
  OBVIOUS
<1>. QED
  BY <1>1, <1>3, <1>5, <1>6, <1>7

\* Bounds of the elements, times their number, bound the sum.
LEMMA SumBounds ==
  ASSUME NEW F, IsFiniteSet(F), NEW f, NEW lo \in Int, NEW hi \in Int,
         \A x \in F : f[x] \in Int /\ lo <= f[x] /\ f[x] <= hi
  PROVE  /\ lo * Cardinality(F) <= SumFunctionOnSet(f, F)
         /\ SumFunctionOnSet(f, F) <= hi * Cardinality(F)
<1>. DEFINE P == {S \in SUBSET F : /\ lo * Cardinality(S) <= SumFunctionOnSet(f, S)
                                  /\ SumFunctionOnSet(f, S) <= hi * Cardinality(S)}
<1>1. {} \in P
  BY SumEmpty, FS_EmptySet
<1>2. ASSUME NEW S \in SUBSET F, NEW x \in F \ S, S \in P PROVE S \cup {x} \in P
  <2>. DEFINE c == Cardinality(S)
              t == SumFunctionOnSet(f, S)
  <2>1. IsFiniteSet(S) /\ \A y \in S \cup {x} : f[y] \in Int
    BY FS_Subset
  <2>2. Cardinality(S \cup {x}) = c + 1 /\ c \in Nat
    BY <2>1, FS_AddElement, FS_CardinalityType
  <2>3. SumFunctionOnSet(f, S \cup {x}) = f[x] + t
    BY <2>1, SumAdd
  <2>4. t \in Int
    BY <2>1, SumType
  <2>5. lo * c <= t /\ t <= hi * c
    BY <1>2
  <2>. HIDE DEF c, t
  <2>6. lo * (c + 1) = lo * c + lo /\ hi * (c + 1) = hi * c + hi
    BY <2>2
  <2>7. lo * c \in Int /\ hi * c \in Int
    BY <2>2
  <2>8. lo * (c + 1) <= f[x] + t /\ f[x] + t <= hi * (c + 1)
    BY <2>4, <2>5, <2>6, <2>7
  <2>. QED BY <2>2, <2>3, <2>8
<1>. HIDE DEF P
<1>3. F \in P
  BY <1>1, <1>2, AllSubsets
<1>. QED
  BY <1>3 DEF P

-----------------------------------------------------------------------------
(***************************************************************************)
(* Summing in groups                                                       *)
(***************************************************************************)

\* A single element is its sum.
LEMMA SumSingle ==
  ASSUME NEW f, NEW a, f[a] \in Int
  PROVE  SumFunctionOnSet(f, {a}) = f[a]
<1>1. SumFunctionOnSet(f, {} \cup {a}) = f[a] + SumFunctionOnSet(f, {})
  BY SumAdd, FS_EmptySet
<1>2. {} \cup {a} = {a}
  OBVIOUS
<1>3. SumFunctionOnSet(f, {} \cup {a}) = SumFunctionOnSet(f, {a})
  BY <1>2, Zenon
<1>. QED
  BY <1>1, <1>3, SumEmpty

\* The sums of the groups that key makes add up to the sum.
LEMMA SumPartition ==
  ASSUME NEW N, IsFiniteSet(N), NEW S, IsFiniteSet(S), NEW f, NEW key,
         \A x \in S : f[x] \in Int /\ key[x] \in N
  PROVE  SumFunctionOnSet([n \in N |-> SumFunctionOnSet(f, {x \in S : key[x] = n})], N)
           = SumFunctionOnSet(f, S)
<1>. DEFINE Group(T, n) == {x \in T : key[x] = n}
            sums(T) == [n \in N |-> SumFunctionOnSet(f, Group(T, n))]
            P == {T \in SUBSET S : SumFunctionOnSet(sums(T), N) = SumFunctionOnSet(f, T)}
<1>0. ASSUME NEW T \in SUBSET S
      PROVE  /\ IsFiniteSet(T) /\ SumFunctionOnSet(f, T) \in Int
             /\ \A n \in N : IsFiniteSet(Group(T, n)) /\ sums(T)[n] \in Int
             /\ SumFunctionOnSet(sums(T), N) \in Int
  <2>1. \A U \in SUBSET S : IsFiniteSet(U) /\ \A x \in U : f[x] \in Int
    BY FS_Subset
  <2>2. \A U \in SUBSET S : SumFunctionOnSet(f, U) \in Int
    BY <2>1, SumType
  <2>3. \A n \in N : Group(T, n) \in SUBSET S
    OBVIOUS
  <2>4. \A n \in N : IsFiniteSet(Group(T, n)) /\ SumFunctionOnSet(f, Group(T, n)) \in Int
    BY <2>1, <2>2, <2>3
  <2>5. \A n \in N : sums(T)[n] \in Int
    BY <2>4
  <2>. HIDE DEF sums
  <2>6. SumFunctionOnSet(sums(T), N) \in Int
    BY <2>5, SumType
  <2>. QED BY <2>1, <2>2, <2>4, <2>5, <2>6
<1>1. {} \in P
  <2>1. \A n \in N : Group({}, n) = {}
    OBVIOUS
  <2>2. \A n \in N : SumFunctionOnSet(f, Group({}, n)) = 0
    BY <2>1, SumEmpty
  <2>3. \A n \in N : sums({})[n] = 0
    BY <2>2
  <2>. HIDE DEF sums
  <2>4. SumFunctionOnSet(sums({}), N) = 0
    BY <2>3, SumZero
  <2>. QED BY <2>4, SumEmpty
<1>2. ASSUME NEW T \in SUBSET S, NEW a \in S \ T, T \in P PROVE T \cup {a} \in P
  <2>. DEFINE U == T \cup {a}
              k == key[a]
  <2>1. U \in SUBSET S /\ k \in N /\ f[a] \in Int
    OBVIOUS
  <2>2. ASSUME NEW n \in N \ {k} PROVE sums(U)[n] = sums(T)[n]
    <3>1. Group(U, n) = Group(T, n)
      BY <2>2
    <3>2. SumFunctionOnSet(f, Group(U, n)) = SumFunctionOnSet(f, Group(T, n))
      BY <3>1, Zenon
    <3>. QED BY <3>2
  <2>3. sums(U)[k] = f[a] + sums(T)[k]
    <3>1. Group(U, k) = Group(T, k) \cup {a} /\ a \notin Group(T, k)
      OBVIOUS
    <3>2. IsFiniteSet(Group(T, k)) /\ \A x \in Group(T, k) \cup {a} : f[x] \in Int
      BY <1>0, <2>1
    <3>. DEFINE G == Group(T, k)
    <3>3. SumFunctionOnSet(f, G \cup {a}) = f[a] + SumFunctionOnSet(f, G)
      <4>. HIDE DEF G
      <4>1. IsFiniteSet(G) /\ a \notin G /\ \A x \in G \cup {a} : f[x] \in Int
        BY <3>1, <3>2 DEF G
      <4>. QED BY <4>1, SumAdd
    <3>4. SumFunctionOnSet(f, Group(U, k)) = f[a] + SumFunctionOnSet(f, Group(T, k))
      BY <3>1, <3>3
    <3>. QED BY <2>1, <3>4
  <2>4. \A n \in N : sums(U)[n] \in Int /\ sums(T)[n] \in Int
    BY <1>0, <2>1
  <2>5. SumFunctionOnSet(f, U) = f[a] + SumFunctionOnSet(f, T)
    BY <1>0, <2>1, SumAdd
  <2>6. SumFunctionOnSet(sums(T), N) = SumFunctionOnSet(f, T)
    BY <1>2
  <2>7. SumFunctionOnSet(sums(T), N) \in Int /\ SumFunctionOnSet(f, T) \in Int
    BY <1>0
  <2>. HIDE DEF sums, k, U
  <2>8. SumFunctionOnSet(sums(U), N)
          = SumFunctionOnSet(sums(T), N) + sums(U)[k] - sums(T)[k]
    BY <2>1, <2>2, <2>4, SumChange
  <2>9. SumFunctionOnSet(sums(U), N) = SumFunctionOnSet(f, U)
    BY <2>1, <2>3, <2>4, <2>5, <2>6, <2>7, <2>8
  <2>. QED BY <2>1, <2>9 DEF U
<1>. HIDE DEF P
<1>3. S \in P
  BY <1>1, <1>2, AllSubsets
<1>. QED
  BY <1>3 DEF P

\* Summing over the indices of a list without repetitions, or over its elements.
LEMMA SumImage ==
  ASSUME NEW D, IsFiniteSet(D), NEW s, NEW f,
         \A i, j \in D : s[i] = s[j] => i = j,
         \A i \in D : f[s[i]] \in Int
  PROVE  SumFunctionOnSet([i \in D |-> f[s[i]]], D)
           = SumFunctionOnSet(f, {s[i] : i \in D})
<1>. DEFINE N == {s[i] : i \in D}
            h == [i \in D |-> f[s[i]]]
            group == [n \in N |-> SumFunctionOnSet(h, {i \in D : s[i] = n})]
<1>1. IsFiniteSet(N)
  <2>. DEFINE m == [i \in D |-> s[i]]
  <2>1. m \in Surjection(D, N)
    BY Fun_IsSurj
  <2>. HIDE DEF m, N
  <2>. QED BY <2>1, FS_Surjection
<1>2. \A i \in D : h[i] \in Int /\ s[i] \in N
  OBVIOUS
<1>3. ASSUME NEW n \in N PROVE group[n] = f[n] /\ f[n] \in Int
  <2>1. PICK i \in D : n = s[i]
    OBVIOUS
  <2>2. {j \in D : s[j] = n} = {i}
    BY <2>1
  <2>3. h[i] = f[n] /\ f[n] \in Int
    BY <2>1
  <2>. HIDE DEF h
  <2>4. SumFunctionOnSet(h, {i}) = f[n]
    BY <2>3, SumSingle
  <2>. QED BY <2>2, <2>3, <2>4
<1>. HIDE DEF h, N
<1>4. SumFunctionOnSet(group, N) = SumFunctionOnSet(h, D)
  BY <1>1, <1>2, SumPartition
<1>. HIDE DEF group
<1>5. SumFunctionOnSet(group, N) = SumFunctionOnSet(f, N)
  BY <1>1, <1>3, SumEqual
<1>. QED
  BY <1>4, <1>5 DEF h, N
=============================================================================
