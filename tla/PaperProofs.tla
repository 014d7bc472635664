----------------------------- MODULE PaperProofs -----------------------------
(***************************************************************************)
(* Proofs about Paper: sums over finite sets, how the pages lay a paper    *)
(* out, and that what they count and colour agrees with what the server    *)
(* has graded, for every paper.                                            *)
(*                                                                         *)
(* The induction is over finite sets: of the sets that do not have a       *)
(* property one is smallest, and the property of its subsets refutes it.   *)
(***************************************************************************)
EXTENDS Paper, TLAPS, FiniteSetTheorems

\* Every non-empty set of finite sets has a smallest element.
LEMMA SmallestSet ==
  ASSUME NEW S, IsFiniteSet(S), NEW Bad \in SUBSET (SUBSET S), Bad # {}
  PROVE  \E T \in Bad : /\ IsFiniteSet(T)
                        /\ \A U \in SUBSET T : U # T => U \notin Bad
  <1>1. IsWellFoundedOn(StrictSubsetOrdering(S), SUBSET S)
    BY FS_StrictSubsetOrderingWellFounded, FS_FiniteSubsetsOfFinite
  <1>2. PICK T \in Bad : \A U \in Bad : <<U, T>> \notin StrictSubsetOrdering(S)
    BY <1>1, WFMin
  <1>3. IsFiniteSet(T)
    BY FS_Subset
  <1>4. ASSUME NEW U \in SUBSET T, U # T PROVE U \notin Bad
    <2>1. U \in SUBSET S /\ T \in SUBSET S
      OBVIOUS
    <2>2. <<U, T>> \in StrictSubsetOrdering(S)
      BY <1>4, <2>1 DEF StrictSubsetOrdering
    <2>3. QED
      BY <1>2, <2>2
  <1>5. QED
    BY <1>3, <1>4

-----------------------------------------------------------------------------
(***************************************************************************)
(* Sums of the values of a function, as the community modules define them: *)
(* by a recursive function on the subsets.                                 *)
(***************************************************************************)
\* The element that is added next, and the rest.
Next1(s) == CHOOSE x \in s : TRUE
Rest(s) == s \ {Next1(s)}

\* it sums up w over the subsets of S.
Sums(w, it, S) == it = [s \in SUBSET S |-> IF s = {} THEN 0 ELSE w[Next1(s)] + it[Rest(s)]]

LEMMA RestIsSmaller ==
  ASSUME NEW s, s # {} PROVE Next1(s) \in s /\ Rest(s) \subseteq s /\ Rest(s) # s
  BY DEF Next1, Rest

LEMMA SumByDefinition ==
  ASSUME NEW w, NEW S PROVE SumFunctionOnSet(w, S) = (CHOOSE it : Sums(w, it, S))[S]
  BY Zenon DEF SumFunctionOnSet, FoldFunctionOnSet, MapThenFoldSet, Sums, Next1, Rest

\* Whatever sums up over a set and over a larger one agrees on the subsets of both.
LEMMA SumsAgree ==
  ASSUME NEW w, NEW S, NEW T \in SUBSET S, IsFiniteSet(T),
         NEW g, Sums(w, g, S), NEW h, Sums(w, h, T)
  PROVE  g[T] = h[T]
  <1> DEFINE Bad == {s \in SUBSET T : g[s] # h[s]}
  <1>1. SUFFICES ASSUME Bad # {} PROVE FALSE
    BY <1>1
  <1>2. PICK s \in Bad : \A u \in SUBSET s : u # s => u \notin Bad
    <2> HIDE DEF Bad
    <2>1. Bad \in SUBSET (SUBSET T)
      BY DEF Bad
    <2>2. QED
      BY <1>1, <2>1, SmallestSet
  <1>3. /\ g[s] = IF s = {} THEN 0 ELSE w[Next1(s)] + g[Rest(s)]
        /\ h[s] = IF s = {} THEN 0 ELSE w[Next1(s)] + h[Rest(s)]
    BY DEF Sums
  <1>4. CASE s = {}
    BY <1>3, <1>4
  <1>5. CASE s # {}
    <2>1. Rest(s) \in SUBSET T /\ Rest(s) \subseteq s /\ Rest(s) # s
      BY <1>5, RestIsSmaller
    <2>2. g[Rest(s)] = h[Rest(s)]
      BY <1>2, <2>1
    <2>3. QED
      BY <1>3, <1>5, <2>2
  <1>6. QED
    BY <1>4, <1>5

\* There is such a function over every finite set.
LEMMA SumsExist ==
  ASSUME NEW w, NEW S, IsFiniteSet(S) PROVE \E it : Sums(w, it, S)
  <1> DEFINE Bad == {T \in SUBSET S : ~ \E it : Sums(w, it, T)}
  <1>1. SUFFICES ASSUME Bad # {} PROVE FALSE
    BY <1>1
  <1>2. PICK T \in Bad : IsFiniteSet(T) /\ \A U \in SUBSET T : U # T => U \notin Bad
    <2> HIDE DEF Bad
    <2>1. Bad \in SUBSET (SUBSET S)
      BY DEF Bad
    <2>2. QED
      BY <1>1, <2>1, SmallestSet
  <1> DEFINE Below(U) == CHOOSE it : Sums(w, it, U)
             value(s) == IF s = {} THEN 0 ELSE w[Next1(s)] + Below(Rest(s))[Rest(s)]
             all == [s \in SUBSET T |-> value(s)]
  <1>3. ASSUME NEW U \in SUBSET T, U # T PROVE Sums(w, Below(U), U) /\ Below(U)[U] = value(U)
    <2>1. Sums(w, Below(U), U)
      BY <1>2, <1>3
    <2>2. Below(U)[U] = IF U = {} THEN 0 ELSE w[Next1(U)] + Below(U)[Rest(U)]
      BY <2>1 DEF Sums
    <2>3. CASE U # {}
      <3>1. Rest(U) \in SUBSET U /\ Rest(U) \in SUBSET T /\ Rest(U) # T
        BY <2>3, <1>3, RestIsSmaller
      <3>2. Sums(w, Below(Rest(U)), Rest(U))
        BY <1>2, <3>1
      <3>3. IsFiniteSet(Rest(U))
        BY <1>2, <3>1, FS_Subset
      <3> HIDE DEF Below
      <3>4. Below(U)[Rest(U)] = Below(Rest(U))[Rest(U)]
        BY <2>1, <3>1, <3>2, <3>3, SumsAgree
      <3>5. QED
        BY <2>1, <2>2, <2>3, <3>4
    <2>4. QED
      BY <2>1, <2>2, <2>3
  <1> HIDE DEF Below
  <1>4. ASSUME NEW s \in SUBSET T
        PROVE  value(s) = IF s = {} THEN 0 ELSE w[Next1(s)] + all[Rest(s)]
    <2>1. CASE s # {}
      <3>1. Rest(s) \in SUBSET T /\ Rest(s) # T
        BY <2>1, RestIsSmaller
      <3>2. all[Rest(s)] = Below(Rest(s))[Rest(s)]
        BY <1>3, <3>1
      <3>3. QED
        BY <2>1, <3>2
    <2>2. QED
      BY <2>1
  <1>5. Sums(w, all, T)
    BY <1>4 DEF Sums
  <1>6. QED
    BY <1>2, <1>5

\* The equation of the sum.
LEMMA SumEquation ==
  ASSUME NEW w, NEW S, IsFiniteSet(S)
  PROVE  SumFunctionOnSet(w, S) =
           IF S = {} THEN 0 ELSE w[Next1(S)] + SumFunctionOnSet(w, Rest(S))
  <1> DEFINE it(T) == CHOOSE g : Sums(w, g, T)
  <1>1. ASSUME NEW T, IsFiniteSet(T) PROVE Sums(w, it(T), T) /\ SumFunctionOnSet(w, T) = it(T)[T]
    BY <1>1, SumsExist, SumByDefinition
  <1> HIDE DEF it
  <1>2. it(S)[S] = IF S = {} THEN 0 ELSE w[Next1(S)] + it(S)[Rest(S)]
    BY <1>1 DEF Sums
  <1>3. ASSUME S # {} PROVE it(S)[Rest(S)] = SumFunctionOnSet(w, Rest(S))
    <2>1. Rest(S) \in SUBSET S /\ IsFiniteSet(Rest(S))
      BY <1>3, RestIsSmaller, FS_Subset
    <2>2. QED
      BY <2>1, <1>1, SumsAgree
  <1>4. QED
    BY <1>1, <1>2, <1>3

\* A sum of integers is one, whichever element is taken out first.
LEMMA SumRemove ==
  ASSUME NEW w, NEW S, IsFiniteSet(S), \A x \in S : w[x] \in Int
  PROVE  /\ SumFunctionOnSet(w, S) \in Int
         /\ S = {} => SumFunctionOnSet(w, S) = 0
         /\ \A x \in S : SumFunctionOnSet(w, S) = w[x] + SumFunctionOnSet(w, S \ {x})
  <1> DEFINE sum(T) == SumFunctionOnSet(w, T)
             good(T) == sum(T) \in Int /\ \A x \in T : sum(T) = w[x] + sum(T \ {x})
             Bad == {T \in SUBSET S : ~good(T)}
  <1>1. S = {} => sum(S) = 0
    BY SumEquation
  <1>2. SUFFICES ASSUME Bad # {} PROVE FALSE
    BY <1>1, <1>2
  <1>3. PICK T \in Bad : IsFiniteSet(T) /\ \A U \in SUBSET T : U # T => U \notin Bad
    <2> HIDE DEF Bad
    <2>1. Bad \in SUBSET (SUBSET S)
      BY DEF Bad
    <2>2. QED
      BY <1>2, <2>1, SmallestSet
  <1>4. ASSUME NEW U \in SUBSET T, U # T PROVE good(U)
    BY <1>3, <1>4
  <1>5. sum(T) = IF T = {} THEN 0 ELSE w[Next1(T)] + sum(Rest(T))
    BY <1>3, SumEquation
  <1> HIDE DEF sum
  <1>6. CASE T = {}
    BY <1>3, <1>5, <1>6
  <1>7. CASE T # {}
    <2> DEFINE c == Next1(T)
    <2>1. c \in T /\ T \ {c} \subseteq T /\ T \ {c} # T /\ sum(T) = w[c] + sum(T \ {c})
      BY <1>5, <1>7, RestIsSmaller DEF Rest
    <2> HIDE DEF c
    <2>2. w[c] \in Int /\ sum(T \ {c}) \in Int
      BY <1>4, <2>1
    <2>3. ASSUME NEW x \in T, x # c PROVE sum(T) = w[x] + sum(T \ {x})
      <3>1. /\ x \in T \ {c} /\ c \in T \ {x} /\ T \ {x} # T
            /\ (T \ {c}) \ {x} = (T \ {x}) \ {c} /\ (T \ {c}) \ {x} # T
        BY <2>1, <2>3
      <3>2. sum(T \ {c}) = w[x] + sum((T \ {c}) \ {x})
        BY <1>4, <2>1, <3>1
      <3>3. sum(T \ {x}) = w[c] + sum((T \ {c}) \ {x})
        BY <1>4, <3>1
      <3>4. sum((T \ {c}) \ {x}) \in Int /\ w[x] \in Int
        BY <1>4, <3>1
      <3>5. QED
        BY <2>1, <2>2, <3>2, <3>3, <3>4
    <2>4. good(T)
      BY <2>1, <2>2, <2>3
    <2>5. QED
      BY <1>3, <2>4
  <1>8. QED
    BY <1>6, <1>7

\* The same sum over two sets whose elements correspond: b leads from the one to
\* the other.
LEMMA SumMapped ==
  ASSUME NEW v, NEW w, NEW b, NEW S, IsFiniteSet(S),
         \A x, y \in S : b[x] = b[y] => x = y,
         \A x \in S : v[x] \in Int /\ v[x] = w[b[x]]
  PROVE  SumFunctionOnSet(v, S) = SumFunctionOnSet(w, {b[x] : x \in S})
  <1> DEFINE image(U) == {b[x] : x \in U}
             same(U) == SumFunctionOnSet(v, U) = SumFunctionOnSet(w, image(U))
             Bad == {U \in SUBSET S : ~same(U)}
  <1>1. SUFFICES ASSUME Bad # {} PROVE FALSE
    BY <1>1
  <1>2. PICK U \in Bad : IsFiniteSet(U) /\ \A V \in SUBSET U : V # U => V \notin Bad
    <2> HIDE DEF Bad
    <2>1. Bad \in SUBSET (SUBSET S)
      BY DEF Bad
    <2>2. QED
      BY <1>1, <2>1, SmallestSet
  <1>3. IsFiniteSet(image(U))
    <2> DEFINE f == [x \in U |-> b[x]]
    <2>1. f \in Surjection(U, image(U))
      BY DEF Surjection
    <2> HIDE DEF f
    <2>2. QED
      BY <1>2, <2>1, FS_Surjection
  <1>4. \A y \in image(U) : w[y] \in Int
    BY <1>2
  <1>5. CASE U = {}
    <2>1. image(U) = {}
      BY <1>5
    <2>2. SumFunctionOnSet(v, U) = 0 /\ SumFunctionOnSet(w, image(U)) = 0
      BY <1>2, <1>3, <1>5, <2>1, SumEquation
    <2>3. QED
      BY <1>2, <2>2
  <1>6. CASE U # {}
    <2>1. PICK c \in U : TRUE
      BY <1>6
    <2>2. image(U \ {c}) = image(U) \ {b[c]} /\ b[c] \in image(U)
      BY <1>2
    <2>3. same(U \ {c})
      BY <1>2
    <2> HIDE DEF image
    <2>4. SumFunctionOnSet(v, U) = v[c] + SumFunctionOnSet(v, U \ {c})
      BY <1>2, SumRemove
    <2>5. SumFunctionOnSet(w, image(U)) = w[b[c]] + SumFunctionOnSet(w, image(U) \ {b[c]})
      BY <1>3, <1>4, <2>2, SumRemove
    <2>6. QED
      BY <1>2, <2>2, <2>3, <2>4, <2>5
  <1>7. QED
    BY <1>5, <1>6

\* Summands that are equal have equal sums.
LEMMA SumSame ==
  ASSUME NEW v, NEW w, NEW S, IsFiniteSet(S), \A x \in S : v[x] \in Int /\ v[x] = w[x]
  PROVE  SumFunctionOnSet(v, S) = SumFunctionOnSet(w, S)
  <1> DEFINE b == [x \in S |-> x]
  <1>1. /\ \A x, y \in S : b[x] = b[y] => x = y
        /\ \A x \in S : v[x] \in Int /\ v[x] = w[b[x]]
        /\ {b[x] : x \in S} = S
    OBVIOUS
  <1> HIDE DEF b
  <1>2. SumFunctionOnSet(v, S) = SumFunctionOnSet(w, {b[x] : x \in S})
    BY <1>1, SumMapped
  <1>3. QED
    BY <1>1, <1>2

\* The sum over two sets without common elements.
LEMMA SumUnion ==
  ASSUME NEW w, NEW S, NEW T, IsFiniteSet(S), IsFiniteSet(T), S \cap T = {},
         \A x \in S \cup T : w[x] \in Int
  PROVE  SumFunctionOnSet(w, S \cup T) = SumFunctionOnSet(w, S) + SumFunctionOnSet(w, T)
  <1> DEFINE sum(U) == SumFunctionOnSet(w, U)
             both(U) == sum(S \cup U) = sum(S) + sum(U)
             Bad == {U \in SUBSET T : ~both(U)}
  <1>1. SUFFICES ASSUME Bad # {} PROVE FALSE
    BY <1>1
  <1>2. PICK U \in Bad : IsFiniteSet(U) /\ \A V \in SUBSET U : V # U => V \notin Bad
    <2> HIDE DEF Bad
    <2>1. Bad \in SUBSET (SUBSET T)
      BY DEF Bad
    <2>2. QED
      BY <1>1, <2>1, SmallestSet
  <1>3. IsFiniteSet(S \cup U)
    BY <1>2, FS_Union
  <1> HIDE DEF sum
  <1>4. sum(S) \in Int
    BY SumRemove DEF sum
  <1>5. CASE U = {}
    <2>1. S \cup U = S /\ sum(U) = 0
      BY <1>5, <1>2, SumRemove DEF sum
    <2>2. sum(S \cup U) = sum(S)
      BY <2>1, Zenon
    <2>3. QED
      BY <1>2, <1>4, <2>1, <2>2
  <1>6. CASE U # {}
    <2>1. PICK c \in U : TRUE
      BY <1>6
    <2>2. both(U \ {c}) /\ (S \cup U) \ {c} = S \cup (U \ {c}) /\ IsFiniteSet(U \ {c})
      BY <1>2, FS_Subset
    <2>3. sum(S \cup U) = w[c] + sum((S \cup U) \ {c}) /\ sum(U) = w[c] + sum(U \ {c})
      BY <1>2, <1>3, SumRemove DEF sum
    <2>4. w[c] \in Int /\ sum(U \ {c}) \in Int
      BY <1>2, <2>2, SumRemove DEF sum
    <2>5. QED
      BY <1>2, <1>4, <2>2, <2>3, <2>4
  <1>7. QED
    BY <1>5, <1>6

\* Summands that are 0 can be left out.
LEMMA SumWithoutZeros ==
  ASSUME NEW w, NEW S, NEW T \in SUBSET S, IsFiniteSet(S),
         \A x \in S : w[x] \in Int, \A x \in S \ T : w[x] = 0
  PROVE  SumFunctionOnSet(w, S) = SumFunctionOnSet(w, T)
  <1> DEFINE sum(U) == SumFunctionOnSet(w, U)
             Bad == {U \in SUBSET (S \ T) : sum(U) # 0}
  <1>1. IsFiniteSet(T) /\ IsFiniteSet(S \ T)
    BY FS_Subset
  <1>2. Bad = {}
    <2>1. SUFFICES ASSUME Bad # {} PROVE FALSE
      BY <2>1
    <2>2. PICK U \in Bad : IsFiniteSet(U) /\ \A V \in SUBSET U : V # U => V \notin Bad
      <3> HIDE DEF Bad
      <3>1. Bad \in SUBSET (SUBSET (S \ T))
        BY DEF Bad
      <3>2. QED
        BY <1>1, <2>1, <3>1, SmallestSet
    <2> HIDE DEF sum
    <2>3. CASE U = {}
      BY <2>2, <2>3, SumEquation DEF sum
    <2>4. CASE U # {}
      <3>1. PICK c \in U : TRUE
        BY <2>4
      <3>2. sum(U) = w[c] + sum(U \ {c})
        BY <2>2, SumRemove DEF sum
      <3>3. w[c] = 0 /\ sum(U \ {c}) = 0
        BY <2>2
      <3>4. QED
        BY <2>2, <3>2, <3>3
    <2>5. QED
      BY <2>3, <2>4
  <1>3. sum(S \ T) = 0
    BY <1>2
  <1> HIDE DEF sum
  <1>4. sum(T \cup (S \ T)) = sum(T) + sum(S \ T) /\ T \cup (S \ T) = S /\ sum(T) \in Int
    BY <1>1, SumUnion, SumRemove DEF sum
  <1>5. sum(S) = sum(T) + sum(S \ T)
    BY <1>4, Zenon
  <1>6. sum(S) = sum(T)
    BY <1>3, <1>4, <1>5
  <1>7. QED
    BY <1>6 DEF sum

\* The size of two sets without common elements.
LEMMA TwoSets ==
  ASSUME NEW S, NEW T, IsFiniteSet(S), IsFiniteSet(T), S \cap T = {},
         NEW U, U = S \cup T
  PROVE  IsFiniteSet(U) /\ Cardinality(U) = Cardinality(S) + Cardinality(T)
  <1>1. Cardinality(S \cap T) = 0
    BY FS_EmptySet, Zenon
  <1>2. Cardinality(S) \in Nat /\ Cardinality(T) \in Nat
    BY FS_CardinalityType
  <1>3. /\ IsFiniteSet(S \cup T)
        /\ Cardinality(S \cup T) = Cardinality(S) + Cardinality(T) - Cardinality(S \cap T)
    BY FS_Union, Zenon
  <1>4. /\ IsFiniteSet(U)
        /\ Cardinality(U) = Cardinality(S) + Cardinality(T) - Cardinality(S \cap T)
    BY <1>3, Zenon
  <1>5. QED
    BY <1>1, <1>2, <1>4

\* The sizes of sets without common elements add up to that of their union.
LEMMA SumOfSizes ==
  ASSUME NEW S, IsFiniteSet(S), NEW A, \A x \in S : IsFiniteSet(A[x]),
         \A x, y \in S : x # y => A[x] \cap A[y] = {},
         NEW w, \A x \in S : w[x] = Cardinality(A[x])
  PROVE  SumFunctionOnSet(w, S) = Cardinality(UNION {A[x] : x \in S})
  <1> DEFINE all(U) == UNION {A[x] : x \in U}
             same(U) == SumFunctionOnSet(w, U) = Cardinality(all(U)) /\ IsFiniteSet(all(U))
             Bad == {U \in SUBSET S : ~same(U)}
  <1>1. SUFFICES ASSUME Bad # {} PROVE FALSE
    BY <1>1
  <1>2. PICK U \in Bad : IsFiniteSet(U) /\ \A V \in SUBSET U : V # U => V \notin Bad
    <2> HIDE DEF Bad
    <2>1. Bad \in SUBSET (SUBSET S)
      BY DEF Bad
    <2>2. QED
      BY <1>1, <2>1, SmallestSet
  <1>3. \A x \in S : w[x] \in Int
    BY FS_CardinalityType
  <1>4. CASE U = {}
    <2>1. all(U) = {}
      BY <1>4
    <2>2. SumFunctionOnSet(w, U) = 0 /\ Cardinality(all(U)) = 0 /\ IsFiniteSet(all(U))
      BY <1>2, <1>4, <2>1, FS_EmptySet, SumEquation
    <2>3. QED
      BY <1>2, <2>2
  <1>5. CASE U # {}
    <2>1. PICK c \in U : TRUE
      BY <1>5
    <2>2. same(U \ {c})
      BY <1>2
    <2>3. all(U) = all(U \ {c}) \cup A[c] /\ all(U \ {c}) \cap A[c] = {}
      BY <1>2
    <2> HIDE DEF all
    <2>4. SumFunctionOnSet(w, U) = w[c] + SumFunctionOnSet(w, U \ {c})
      BY <1>2, <1>3, SumRemove
    <2>5. IsFiniteSet(all(U \ {c})) /\ IsFiniteSet(A[c])
      BY <1>2, <2>2
    <2>6. /\ IsFiniteSet(all(U))
          /\ Cardinality(all(U)) = Cardinality(all(U \ {c})) + Cardinality(A[c])
      BY <2>3, <2>5, TwoSets
    <2>7. QED
      BY <1>2, <1>3, <2>2, <2>4, <2>5, <2>6, FS_CardinalityType
  <1>6. QED
    BY <1>4, <1>5

-----------------------------------------------------------------------------
(***************************************************************************)
(* The layout: the rows at some positions, the sections, the numbers.      *)
(***************************************************************************)
\* The rows of a paper are finitely many.
LEMMA RowsFinite ==
  ASSUME NEW paper, WellFormed(paper)
  PROVE  IsFiniteSet(ToSet(paper))
  <1> DEFINE f == [i \in 1 .. Len(paper) |-> paper[i]]
  <1>1. Len(paper) \in Nat /\ DOMAIN paper = 1 .. Len(paper)
    BY DEF WellFormed
  <1>2. f \in Surjection(1 .. Len(paper), ToSet(paper))
    BY <1>1 DEF Surjection, ToSet
  <1>3. IsFiniteSet(1 .. Len(paper))
    BY <1>1, FS_Interval
  <1> HIDE DEF f
  <1>4. QED
    BY <1>2, <1>3, FS_Surjection

\* The number of the position i among the positions I.
Rank(I, i) == Cardinality({j \in I : j <= i})

\* The positions are numbered from 1 on, without a gap.
LEMMA RankNumbers ==
  ASSUME NEW I \in SUBSET Int, IsFiniteSet(I)
  PROVE  /\ \A i \in I : Rank(I, i) \in 1 .. Cardinality(I)
         /\ \A i, j \in I : Rank(I, i) = Rank(I, j) => i = j
         /\ \A n \in 1 .. Cardinality(I) : \E i \in I : Rank(I, i) = n
  <1> DEFINE below(i) == {j \in I : j <= i}
             f == [i \in I |-> Rank(I, i)]
  <1>1. \A i \in I : IsFiniteSet(below(i)) /\ Cardinality(below(i)) <= Cardinality(I)
    BY FS_Subset
  <1>2. \A i \in I : i \in below(i)
    OBVIOUS
  <1>3. ASSUME NEW i \in I PROVE Rank(I, i) \in 1 .. Cardinality(I)
    <2>1. Cardinality(below(i)) \in Nat /\ Cardinality(I) \in Nat
      BY <1>1, FS_CardinalityType
    <2>2. Cardinality(below(i)) # 0
      BY <1>1, <1>2, FS_EmptySet
    <2>3. QED
      BY <1>1, <2>1, <2>2 DEF Rank
  <1>4. ASSUME NEW i \in I, NEW j \in I, i < j PROVE Rank(I, i) # Rank(I, j)
    <2> \A l \in I : l \in Int
      OBVIOUS
    <2>1. (\A l \in below(i) : l \in below(j)) /\ j \in below(j) /\ j \notin below(i)
      BY <1>4
    <2>2. below(i) \in SUBSET below(j) /\ below(i) # below(j)
      BY <2>1
    <2> HIDE DEF below
    <2>3. Cardinality(below(i)) # Cardinality(below(j))
      BY <1>1, <2>2, FS_Subset
    <2>4. QED
      BY <2>3 DEF Rank, below
  <1>5. \A i, j \in I : Rank(I, i) = Rank(I, j) => i = j
    <2>1. SUFFICES ASSUME NEW i \in I, NEW j \in I, Rank(I, i) = Rank(I, j), i # j
                   PROVE  FALSE
      BY <2>1
    <2>2. i < j \/ j < i
      BY <2>1
    <2>3. QED
      BY <1>4, <2>1, <2>2
  <1>6. f \in Injection(I, 1 .. Cardinality(I))
    BY <1>3, <1>5 DEF Injection, IsInjective
  <1>7. Cardinality(I) \in Nat
    BY FS_CardinalityType
  <1>8. IsFiniteSet(1 .. Cardinality(I)) /\ Cardinality(1 .. Cardinality(I)) = Cardinality(I)
    BY <1>7, FS_Interval
  <1> HIDE DEF f
  <1>9. f \in Surjection(I, 1 .. Cardinality(I))
    BY <1>6, <1>8, FS_Injection
  <1>10. \A n \in 1 .. Cardinality(I) : \E i \in I : f[i] = n
    BY <1>9 DEF Surjection
  <1>11. \A n \in 1 .. Cardinality(I) : \E i \in I : Rank(I, i) = n
    BY <1>10 DEF f
  <1>12. QED
    BY <1>3, <1>5, <1>11

\* RowsAt shows the rows at the positions it is given, each of them once.
LEMMA RowsAtShows ==
  ASSUME NEW paper, WellFormed(paper), NEW I \in SUBSET DOMAIN paper
  PROVE  /\ Cardinality(I) \in 0 .. Len(paper)
         /\ RowsAt(paper, I) \in [1 .. Cardinality(I) -> {paper[i] : i \in I}]
         /\ \A i \in I : \E n \in 1 .. Cardinality(I) : RowsAt(paper, I)[n] = paper[i]
         /\ \A m, n \in 1 .. Cardinality(I) :
              RowsAt(paper, I)[m].id = RowsAt(paper, I)[n].id => m = n
  <1> DEFINE at(n) == CHOOSE i \in I : Rank(I, i) = n
  <1>1. /\ Len(paper) \in Nat /\ DOMAIN paper = 1 .. Len(paper)
        /\ \A i, j \in DOMAIN paper : paper[i].id = paper[j].id => i = j
    BY DEF WellFormed
  <1>2. I \in SUBSET Int /\ I \in SUBSET (1 .. Len(paper))
    BY <1>1
  <1>3. IsFiniteSet(I) /\ Cardinality(I) \in 0 .. Len(paper)
    <2>1. IsFiniteSet(1 .. Len(paper)) /\ Cardinality(1 .. Len(paper)) = Len(paper)
      BY <1>1, FS_Interval
    <2>2. IsFiniteSet(I) /\ Cardinality(I) <= Cardinality(1 .. Len(paper))
      BY <1>2, <2>1, FS_Subset
    <2>3. QED
      BY <1>1, <2>1, <2>2, FS_CardinalityType
  <1>4. \A n \in 1 .. Cardinality(I) : at(n) \in I /\ Rank(I, at(n)) = n
    BY <1>2, <1>3, RankNumbers
  <1>5. ASSUME NEW i \in I PROVE Rank(I, i) \in 1 .. Cardinality(I) /\ at(Rank(I, i)) = i
    <2>1. Rank(I, i) \in 1 .. Cardinality(I)
      BY <1>2, <1>3, RankNumbers
    <2>2. at(Rank(I, i)) \in I /\ Rank(I, at(Rank(I, i))) = Rank(I, i)
      BY <1>4, <2>1
    <2> HIDE DEF at
    <2>3. QED
      BY <1>2, <1>3, <2>1, <2>2, RankNumbers
  <1>6. RowsAt(paper, I) = [n \in 1 .. Cardinality(I) |-> paper[at(n)]]
    BY Zenon DEF RowsAt, Rank
  <1> HIDE DEF at
  <1>7. RowsAt(paper, I) \in [1 .. Cardinality(I) -> {paper[i] : i \in I}]
    BY <1>4, <1>6
  <1>8. \A i \in I : \E n \in 1 .. Cardinality(I) : RowsAt(paper, I)[n] = paper[i]
    BY <1>5, <1>6
  <1>9. ASSUME NEW m \in 1 .. Cardinality(I), NEW n \in 1 .. Cardinality(I),
               RowsAt(paper, I)[m].id = RowsAt(paper, I)[n].id
        PROVE  m = n
    <2>1. paper[at(m)].id = paper[at(n)].id
      BY <1>6, <1>9
    <2>2. at(m) = at(n)
      BY <1>1, <1>4, <2>1
    <2>3. QED
      BY <1>4, <2>2
  <1>10. QED
    BY <1>3, <1>7, <1>8, <1>9

\* The types of the sections, in their order, and the rows that are questions.
Types == <<"single_choice", "cluster_context", "short_answer">>
Questions(paper) == {r \in ToSet(paper) : r.type # "true_false"}

\* What a well-formed paper says of its rows.
LEMMA RowFacts ==
  ASSUME NEW paper, WellFormed(paper)
  PROVE  /\ \A r, s \in ToSet(paper) : r.id = s.id => r = s
         /\ \A r \in ToSet(paper) :
              /\ r.id # NoParent
              /\ r.type \in {"single_choice", "short_answer", "cluster_context", "true_false"}
              /\ r.type = "true_false" <=> r.parent # NoParent
              /\ r.type = "true_false" =>
                   \E q \in ToSet(paper) : q.id = r.parent /\ q.type = "cluster_context"
  BY DEF WellFormed, ToSet

\* The questions of the k-th section.
Rows(paper, k) == {r \in Questions(paper) : r.type = Types[k]}

\* s shows the c elements of S, each of them once.
Shows(s, S, c) ==
  /\ s \in [1 .. c -> S]
  /\ \A r \in S : \E n \in 1 .. c : s[n] = r
  /\ \A m, n \in 1 .. c : s[m] = s[n] => m = n

\* A section shows the questions of its type.
LEMMA SectionShows ==
  ASSUME NEW paper, WellFormed(paper), NEW k \in 1 .. 3
  PROVE  \E c \in 0 .. Len(paper) : Shows(Sections(paper)[k], Rows(paper, k), c)
  <1> DEFINE I == {i \in DOMAIN paper : paper[i].parent = NoParent /\ paper[i].type = Types[k]}
             s == Sections(paper)[k]
             c == Cardinality(I)
  <1>1. s = RowsAt(paper, I)
    <2>1. CASE k = 1
      BY <2>1, Zenon DEF Sections, Section, Types
    <2>2. CASE k = 2
      BY <2>2, Zenon DEF Sections, Section, Types
    <2>3. CASE k = 3
      BY <2>3, Zenon DEF Sections, Section, Types
    <2>4. QED
      BY <2>1, <2>2, <2>3
  <1>2. {paper[i] : i \in I} = Rows(paper, k)
    <2>1. Types[k] # "true_false"
      BY DEF Types
    <2>2. QED
      BY <2>1, RowFacts DEF Questions, Rows, ToSet
  <1>3. I \in SUBSET DOMAIN paper
    OBVIOUS
  <1> HIDE DEF s, I
  <1>4. /\ c \in 0 .. Len(paper)
        /\ s \in [1 .. c -> {paper[i] : i \in I}]
        /\ \A i \in I : \E n \in 1 .. c : s[n] = paper[i]
        /\ \A m, n \in 1 .. c : s[m].id = s[n].id => m = n
    BY <1>1, <1>3, RowsAtShows
  <1> HIDE DEF c
  <1>5. \A m, n \in 1 .. c : s[m] = s[n] => m = n
    BY <1>4
  <1>6. Shows(s, {paper[i] : i \in I}, c)
    BY <1>4, <1>5 DEF Shows
  <1>7. Shows(s, Rows(paper, k), c)
    BY <1>2, <1>6, Zenon
  <1>8. QED
    BY <1>4, <1>7 DEF s

\* Two sequences one after the other show what both show.
LEMMA BothShow ==
  ASSUME NEW S, NEW T, S \cap T = {}, NEW a \in Nat, NEW b \in Nat,
         NEW s, Shows(s, S, a), NEW t, Shows(t, T, b)
  PROVE  Shows(s \o t, S \cup T, a + b)
  <1> DEFINE both == s \o t
  <1>0. s \in [1 .. a -> S] /\ t \in [1 .. b -> T]
    BY DEF Shows
  <1>1. s \in Seq(S \cup T) /\ t \in Seq(S \cup T) /\ Len(s) = a /\ Len(t) = b
    BY <1>0
  <1>2. both \in Seq(S \cup T) /\ Len(both) = a + b
    BY <1>1
  <1>3. \A n \in 1 .. (a + b) : both[n] = IF n <= a THEN s[n] ELSE t[n - a]
    BY <1>1
  <1>4. both \in [1 .. (a + b) -> S \cup T]
    <2> HIDE DEF both
    <2>1. both \in [1 .. Len(both) -> S \cup T]
      BY <1>2
    <2>2. QED
      BY <1>2, <2>1, Zenon
  <1> HIDE DEF both
  <1>5. /\ \A n \in 1 .. a : n \in 1 .. (a + b) /\ both[n] = s[n] /\ both[n] \in S
        /\ \A n \in 1 .. b : a + n \in 1 .. (a + b) /\ both[a + n] = t[n]
    <2>1. \A n \in 1 .. b : a + n \in 1 .. (a + b) /\ ~(a + n <= a) /\ (a + n) - a = n
      OBVIOUS
    <2>2. QED
      BY <1>0, <1>3, <2>1
  <1>6. \A n \in 1 .. (a + b) :
          \/ n \in 1 .. a /\ both[n] = s[n] /\ both[n] \in S
          \/ n - a \in 1 .. b /\ both[n] = t[n - a] /\ both[n] \in T
    BY <1>0, <1>3
  <1>7. ASSUME NEW r \in S \cup T PROVE \E n \in 1 .. (a + b) : both[n] = r
    <2>1. CASE r \in S
      BY <1>5, <2>1 DEF Shows
    <2>2. CASE r \in T
      <3>1. PICK n \in 1 .. b : t[n] = r
        BY <2>2 DEF Shows
      <3>2. QED
        BY <1>5, <3>1
    <2>3. QED
      BY <2>1, <2>2
  <1>8. ASSUME NEW m \in 1 .. (a + b), NEW n \in 1 .. (a + b), both[m] = both[n]
        PROVE  m = n
    <2>1. CASE both[m] \in S
      <3>1. m \in 1 .. a /\ n \in 1 .. a /\ s[m] = s[n]
        BY <1>6, <1>8, <2>1
      <3>2. QED
        BY <3>1 DEF Shows
    <2>2. CASE both[m] \in T
      <3>1. m - a \in 1 .. b /\ n - a \in 1 .. b /\ t[m - a] = t[n - a]
        BY <1>6, <1>8, <2>2
      <3>2. m - a = n - a
        BY <3>1 DEF Shows
      <3>3. QED
        BY <3>2
    <2>3. QED
      BY <1>6, <2>1, <2>2
  <1>9. Shows(both, S \cup T, a + b)
    BY <1>4, <1>7, <1>8 DEF Shows
  <1>10. QED
    BY <1>9 DEF both

\* The questions are those of the three sections, which have none in common.
LEMMA ThreeSections ==
  ASSUME NEW paper, WellFormed(paper)
  PROVE  /\ Questions(paper) = (Rows(paper, 1) \cup Rows(paper, 2)) \cup Rows(paper, 3)
         /\ Rows(paper, 1) \cap Rows(paper, 2) = {}
         /\ (Rows(paper, 1) \cup Rows(paper, 2)) \cap Rows(paper, 3) = {}
         /\ Types[1] = "single_choice" /\ Types[2] = "cluster_context"
         /\ Types[3] = "short_answer"
  <1>1. Types[1] = "single_choice" /\ Types[2] = "cluster_context" /\ Types[3] = "short_answer"
    BY DEF Types
  <1>2. \A r \in Questions(paper) :
          r.type \in {"single_choice", "short_answer", "cluster_context"}
    BY RowFacts DEF Questions
  <1>3. QED
    BY <1>1, <1>2 DEF Rows

\* The pages number every question of the paper once, and nothing else.
THEOREM EveryQuestionHasANumber ==
  ASSUME NEW paper, WellFormed(paper)
  PROVE  \E c \in Nat : Shows(Grouped(paper), Questions(paper), c)
  <1> DEFINE s(k) == Sections(paper)[k]
             S(k) == Rows(paper, k)
  <1>1. Len(paper) \in Nat
    BY DEF WellFormed
  <1>2. \A k \in 1 .. 3 : \E c \in 0 .. Len(paper) : Shows(s(k), S(k), c)
    BY SectionShows
  <1>3. PICK a \in Nat, b \in Nat, c \in Nat :
          Shows(s(1), S(1), a) /\ Shows(s(2), S(2), b) /\ Shows(s(3), S(3), c)
    <2> HIDE DEF s, S
    <2>1. QED
      BY <1>1, <1>2
  <1>4. /\ Questions(paper) = (S(1) \cup S(2)) \cup S(3)
        /\ S(1) \cap S(2) = {} /\ (S(1) \cup S(2)) \cap S(3) = {}
    BY ThreeSections
  <1>5. Grouped(paper) = (s(1) \o s(2)) \o s(3)
    BY Zenon DEF Grouped
  <1> HIDE DEF s, S
  <1>6. Shows(s(1) \o s(2), S(1) \cup S(2), a + b)
    <2>1. S(1) \cap S(2) = {} /\ Shows(s(1), S(1), a) /\ Shows(s(2), S(2), b)
      BY <1>3, <1>4
    <2>2. QED
      BY <2>1, BothShow, Zenon
  <1>7. Shows((s(1) \o s(2)) \o s(3), (S(1) \cup S(2)) \cup S(3), (a + b) + c)
    <2>1. /\ (S(1) \cup S(2)) \cap S(3) = {} /\ Shows(s(3), S(3), c)
          /\ a + b \in Nat
      BY <1>3, <1>4
    <2>2. QED
      BY <1>6, <2>1, BothShow, Zenon
  <1>8. Shows(Grouped(paper), Questions(paper), (a + b) + c)
    BY <1>4, <1>5, <1>7, Zenon
  <1>9. (a + b) + c \in Nat
    OBVIOUS
  <1>10. QED
    BY <1>8, <1>9

-----------------------------------------------------------------------------
(***************************************************************************)
(* The answers: each belongs to one question.                              *)
(***************************************************************************)
\* The rows that are graded, by their ids.
Graded(paper) == {r.id : r \in {x \in ToSet(paper) : x.type # "cluster_context"}}

\* As many ids as rows.
LEMMA IdsOfRows ==
  ASSUME NEW paper, WellFormed(paper), NEW X \in SUBSET ToSet(paper)
  PROVE  /\ IsFiniteSet({r.id : r \in X})
         /\ Cardinality({r.id : r \in X}) = Cardinality(X)
  <1> DEFINE f == [r \in X |-> r.id]
             ids == {r.id : r \in X}
  <1>1. IsFiniteSet(X)
    BY RowsFinite, FS_Subset
  <1>2. f \in Bijection(X, ids)
    <2>1. \A r, s \in X : r.id = s.id => r = s
      BY RowFacts
    <2>2. f \in Injection(X, ids) /\ f \in Surjection(X, ids)
      BY <2>1 DEF Injection, IsInjective, Surjection
    <2>3. QED
      BY <2>2 DEF Bijection
  <1>3. ExistsBijection(X, ids)
    BY <1>2 DEF ExistsBijection
  <1> HIDE DEF ids
  <1>4. IsFiniteSet(ids) /\ Cardinality(ids) = Cardinality(X)
    BY <1>1, <1>3, FS_Bijection
  <1>5. QED
    BY <1>4 DEF ids

\* The statements are graded rows with a parent; the other questions are graded
\* rows themselves.
LEMMA PartsOfQuestions ==
  ASSUME NEW paper, WellFormed(paper)
  PROVE  /\ \A q \in Questions(paper) : IsFiniteSet(Parts(paper, q))
         /\ \A q, x \in Questions(paper) : q # x => Parts(paper, q) \cap Parts(paper, x) = {}
         /\ UNION {Parts(paper, q) : q \in Questions(paper)} = Graded(paper)
  <1> DEFINE Q == Questions(paper)
             R == ToSet(paper)
  <1>1. ASSUME NEW q \in Q PROVE IsFiniteSet(Parts(paper, q))
    <2>1. CASE q.type = "cluster_context"
      <3>1. Children(paper, q.id) \in SUBSET R
        BY DEF Children
      <3>2. IsFiniteSet(Statements(paper, q.id))
        BY <3>1, IdsOfRows DEF Statements
      <3>3. QED
        BY <2>1, <3>2, Zenon DEF Parts
    <2>2. CASE q.type # "cluster_context"
      BY <2>2, FS_Singleton DEF Parts
    <2>3. QED
      BY <2>1, <2>2
  <1>2. ASSUME NEW q \in Q, NEW p \in Parts(paper, q)
        PROVE  \E r \in R : /\ r.id = p
                            /\ r.type = "true_false" => r.parent = q.id
                            /\ r.type # "true_false" => r = q
                            /\ r.type # "cluster_context"
    <2>1. CASE q.type = "cluster_context"
      <3>1. PICK r \in R : r.parent = q.id /\ r.id = p
        BY <1>2, <2>1 DEF Parts, Statements, Children
      <3>2. q \in R /\ q.id # NoParent
        BY RowFacts DEF Questions
      <3>3. r.type = "true_false"
        BY <3>1, <3>2, RowFacts
      <3>4. QED
        BY <3>1, <3>3
    <2>2. CASE q.type # "cluster_context"
      <3>1. q \in R /\ q.type # "true_false"
        BY DEF Questions
      <3>2. p = q.id
        BY <1>2, <2>2 DEF Parts
      <3>3. QED
        BY <2>2, <3>1, <3>2
    <2>3. QED
      BY <2>1, <2>2
  <1>3. ASSUME NEW q \in Q, NEW x \in Q, NEW p \in Parts(paper, q), p \in Parts(paper, x)
        PROVE  q = x
    <2>1. PICK r \in R : /\ r.id = p
                         /\ r.type = "true_false" => r.parent = q.id
                         /\ r.type # "true_false" => r = q
      BY <1>2
    <2>2. PICK s \in R : /\ s.id = p
                         /\ s.type = "true_false" => s.parent = x.id
                         /\ s.type # "true_false" => s = x
      BY <1>2, <1>3
    <2>3. q \in R /\ x \in R /\ \A y, z \in R : y.id = z.id => y = z
      BY RowFacts DEF Questions
    <2> HIDE DEF R
    <2>4. r = s
      BY <2>1, <2>2, <2>3
    <2>5. CASE r.type = "true_false"
      BY <2>1, <2>2, <2>3, <2>4, <2>5
    <2>6. CASE r.type # "true_false"
      BY <2>1, <2>2, <2>4, <2>6
    <2>7. QED
      BY <2>5, <2>6
  <1>4. ASSUME NEW p \in Graded(paper) PROVE \E q \in Q : p \in Parts(paper, q)
    <2>1. PICK r \in R : r.type # "cluster_context" /\ r.id = p
      BY DEF Graded
    <2>2. CASE r.type = "true_false"
      <3>1. PICK q \in R : q.id = r.parent /\ q.type = "cluster_context"
        BY <2>2, RowFacts
      <3>2. q \in Q /\ p \in Parts(paper, q)
        BY <2>1, <3>1 DEF Questions, Parts, Statements, Children
      <3>3. QED
        BY <3>2
    <2>3. CASE r.type # "true_false"
      BY <2>1, <2>3 DEF Questions, Parts
    <2>4. QED
      BY <2>2, <2>3
  <1>5. \A q \in Q : Parts(paper, q) \subseteq Graded(paper)
    BY <1>2 DEF Graded
  <1> HIDE DEF Q
  <1>6. UNION {Parts(paper, q) : q \in Q} = Graded(paper)
    BY <1>4, <1>5
  <1>7. \A q, x \in Q : q # x => Parts(paper, q) \cap Parts(paper, x) = {}
    BY <1>3
  <1>8. QED
    BY <1>1, <1>6, <1>7, Zenon DEF Q

\* Every answer that is graded belongs to one number: the navigator and the dots
\* leave none out and show none twice.
THEOREM EveryAnswerHasANumber ==
  ASSUME NEW paper, WellFormed(paper), NEW p \in Graded(paper)
  PROVE  \E n \in DOMAIN Grouped(paper) :
           /\ p \in Parts(paper, Grouped(paper)[n])
           /\ \A m \in DOMAIN Grouped(paper) : p \in Parts(paper, Grouped(paper)[m]) => m = n
  <1>1. PICK c \in Nat : Shows(Grouped(paper), Questions(paper), c)
    BY EveryQuestionHasANumber
  <1>2. PICK q \in Questions(paper) : p \in Parts(paper, q)
    BY PartsOfQuestions
  <1>3. DOMAIN Grouped(paper) = 1 .. c
    BY <1>1 DEF Shows
  <1>4. PICK n \in 1 .. c : Grouped(paper)[n] = q
    BY <1>1 DEF Shows
  <1>5. ASSUME NEW m \in 1 .. c, p \in Parts(paper, Grouped(paper)[m]) PROVE m = n
    <2>1. Grouped(paper)[m] \in Questions(paper)
      BY <1>1 DEF Shows
    <2>2. Grouped(paper)[m] = q
      BY <1>2, <1>5, <2>1, PartsOfQuestions
    <2>3. QED
      BY <1>1, <1>4, <2>2 DEF Shows
  <1>6. QED
    BY <1>2, <1>3, <1>4, <1>5

-----------------------------------------------------------------------------
(***************************************************************************)
(* Marking: what the client counts again is what the server has graded.    *)
(***************************************************************************)
Verdicts == {"correct", "wrong", "skipped"}

\* What the server makes of the answer to a row.
Verdict(sheet, p) ==
  IF sheet.given[p] = Blank THEN "skipped" ELSE IF Right(sheet, p) THEN "correct" ELSE "wrong"

\* The answers to a question with a verdict.
Judged(sheet, q, v) == {p \in Parts(sheet.paper, q) : Verdict(sheet, p) = v}

\* The dot of a question counts its answers.
LEMMA DotCounts ==
  ASSUME NEW sheet, WellFormed(sheet.paper), NEW q \in Questions(sheet.paper),
         NEW v \in Verdicts
  PROVE  /\ Dot(sheet, q)[v] = Cardinality(Judged(sheet, q, v))
         /\ Dot(sheet, q)[v] \in Nat
         /\ IsFiniteSet(Judged(sheet, q, v))
  <1> DEFINE J(u) == Judged(sheet, q, u)
  <1>1. IsFiniteSet(J(v))
    <2>1. IsFiniteSet(Parts(sheet.paper, q))
      BY PartsOfQuestions
    <2>2. J(v) \in SUBSET Parts(sheet.paper, q)
      BY DEF Judged
    <2>3. QED
      BY <2>1, <2>2, FS_Subset
  <1>2. v = "correct" \/ v = "wrong" \/ v = "skipped"
    BY DEF Verdicts
  <1>3. CASE q.type = "cluster_context"
    <2> DEFINE statements == Statements(sheet.paper, q.id)
               skipped == {s \in statements : sheet.given[s] = Blank}
               correct == {s \in statements \ skipped : sheet.given[s] = Normalized(sheet, s)}
    <2>1. Parts(sheet.paper, q) = statements
      BY <1>3 DEF Parts
    <2>2. /\ J("skipped") = skipped
          /\ J("correct") = correct
          /\ J("wrong") = statements \ (skipped \cup correct)
      BY <2>1 DEF Judged, Verdict, Right, Normalized
    <2>3. Dot(sheet, q) = [correct |-> Cardinality(correct),
                           wrong   |-> Cardinality(statements \ (skipped \cup correct)),
                           skipped |-> Cardinality(skipped)]
      BY <1>3, Zenon DEF Dot, TrueFalseDot
    <2> HIDE DEF statements, skipped, correct
    <2>4. /\ Cardinality(J("skipped")) = Cardinality(skipped)
          /\ Cardinality(J("correct")) = Cardinality(correct)
          /\ Cardinality(J("wrong")) = Cardinality(statements \ (skipped \cup correct))
      BY <2>2, Zenon
    <2> HIDE DEF J
    <2>5. Dot(sheet, q)[v] = Cardinality(J(v))
      BY <1>2, <2>3, <2>4
    <2>6. QED
      BY <1>1, <2>5, FS_CardinalityType DEF J
  <1>4. CASE q.type # "cluster_context"
    <2>1. Dot(sheet, q) = SimpleDot(sheet, q.id) /\ Parts(sheet.paper, q) = {q.id}
      BY <1>4 DEF Dot, Parts
    <2>2. J(v) = IF Verdict(sheet, q.id) = v THEN {q.id} ELSE {}
      BY <2>1 DEF Judged
    <2>3. Cardinality(J(v)) = IF Verdict(sheet, q.id) = v THEN 1 ELSE 0
      BY <2>2, FS_Singleton, FS_EmptySet, Zenon
    <2>4. SimpleDot(sheet, q.id)[v] = IF Verdict(sheet, q.id) = v THEN 1 ELSE 0
      BY <1>2 DEF SimpleDot, Verdict, Right, Normalized
    <2>5. QED
      BY <1>1, <2>1, <2>3, <2>4
  <1>5. QED
    BY <1>3, <1>4

\* The dots of all questions add up to what the result counts.
LEMMA DotsAddUp ==
  ASSUME NEW sheet, WellFormed(sheet.paper), NEW v \in Verdicts
  PROVE  SumFunctionOnSet([q \in Questions(sheet.paper) |-> Dot(sheet, q)[v]],
                          Questions(sheet.paper)) = Counts(sheet)[v]
  <1> DEFINE Q == Questions(sheet.paper)
             w == [q \in Q |-> Dot(sheet, q)[v]]
             A == [q \in Q |-> Judged(sheet, q, v)]
             graded == Graded(sheet.paper)
             judged(u) == {p \in graded : Verdict(sheet, p) = u}
  <1>1. IsFiniteSet(Q)
    BY RowsFinite, FS_Subset DEF Questions
  <1>2. \A q \in Q : IsFiniteSet(A[q]) /\ w[q] = Cardinality(A[q])
    BY DotCounts
  <1>3. /\ \A q, x \in Q : q # x => Parts(sheet.paper, q) \cap Parts(sheet.paper, x) = {}
        /\ UNION {Parts(sheet.paper, q) : q \in Q} = graded
    BY PartsOfQuestions
  <1>4. \A q, x \in Q : q # x => A[q] \cap A[x] = {}
    BY <1>3 DEF Judged
  <1>5. UNION {A[q] : q \in Q} = judged(v)
    <2> HIDE DEF Q, graded
    <2>1. \A p \in graded : \E q \in Q : p \in Parts(sheet.paper, q)
      BY <1>3
    <2>2. \A q \in Q : Parts(sheet.paper, q) \subseteq graded
      BY <1>3
    <2>3. QED
      BY <2>1, <2>2 DEF Judged
  <1> HIDE DEF A, w, Q
  <1>6. SumFunctionOnSet(w, Q) = Cardinality(UNION {A[q] : q \in Q})
    BY <1>1, <1>2, <1>4, SumOfSizes
  <1>7. Counts(sheet)[v] = Cardinality(judged(v))
    <2> DEFINE skipped == {q \in graded : sheet.given[q] = Blank}
               correct == {q \in graded : Right(sheet, q)}
    <2>1. /\ judged("skipped") = skipped
          /\ judged("correct") = correct
          /\ judged("wrong") = graded \ (skipped \cup correct)
      BY DEF Verdict, Right
    <2>2. Counts(sheet) = [correct |-> Cardinality(correct),
                           wrong   |-> Cardinality(graded \ (skipped \cup correct)),
                           skipped |-> Cardinality(skipped)]
      BY Zenon DEF Counts, Graded
    <2> HIDE DEF graded, skipped, correct
    <2>3. /\ Cardinality(judged("skipped")) = Cardinality(skipped)
          /\ Cardinality(judged("correct")) = Cardinality(correct)
          /\ Cardinality(judged("wrong")) = Cardinality(graded \ (skipped \cup correct))
      BY <2>1, Zenon
    <2> HIDE DEF judged
    <2>4. v = "correct" \/ v = "wrong" \/ v = "skipped"
      BY DEF Verdicts
    <2>5. QED
      BY <2>2, <2>3, <2>4
  <1>8. Cardinality(UNION {A[q] : q \in Q}) = Cardinality(judged(v))
    BY <1>5, Zenon
  <1>9. SumFunctionOnSet(w, Q) = Counts(sheet)[v]
    BY <1>6, <1>7, <1>8, Zenon
  <1>10. QED
    BY <1>9 DEF w, Q

\* The points of a question as the result page shows them.
PointsShown(sheet, q) ==
  CASE q.type = "single_choice" -> 25 * Dot(sheet, q).correct
    [] q.type = "cluster_context" -> GroupPoints(Dot(sheet, q).correct)
    [] OTHER -> 50 * Dot(sheet, q).correct

\* The rows below g that are right, as the server groups them.
RightRows(sheet, g) == {r \in ToSet(sheet.paper) : r.parent = g /\ Right(sheet, r.id)}

\* A question without statements gives its points exactly for the right answer.
LEMMA SimplePoints ==
  ASSUME NEW sheet, WellFormed(sheet.paper), NEW q \in Questions(sheet.paper),
         q.type # "cluster_context"
  PROVE  PointsShown(sheet, q) = IF Right(sheet, q.id) THEN Points(q.type) ELSE 0
  <1>1. Dot(sheet, q).correct = IF Right(sheet, q.id) THEN 1 ELSE 0
    BY DEF Dot, SimpleDot, Right, Normalized
  <1>2. q.type \in {"single_choice", "short_answer"}
    BY RowFacts DEF Questions
  <1>3. QED
    BY <1>1, <1>2 DEF PointsShown, Points

\* A cluster gives the points of its group.
LEMMA ClusterPoints ==
  ASSUME NEW sheet, WellFormed(sheet.paper), NEW q \in Questions(sheet.paper),
         q.type = "cluster_context"
  PROVE  PointsShown(sheet, q) = GroupPoints(Cardinality(RightRows(sheet, q.id)))
  <1> DEFINE X == RightRows(sheet, q.id)
             judged == Judged(sheet, q, "correct")
             ids == {r.id : r \in X}
  <1>1. X \in SUBSET ToSet(sheet.paper)
    BY DEF RightRows
  <1>2. Cardinality(ids) = Cardinality(X)
    BY <1>1, IdsOfRows
  <1>3. judged = ids
    BY DEF Judged, Verdict, Right, RightRows, Parts, Statements, Children
  <1>4. Dot(sheet, q).correct = Cardinality(judged)
    BY DotCounts DEF Verdicts
  <1> HIDE DEF X, judged, ids
  <1>5. Dot(sheet, q).correct = Cardinality(X)
    BY <1>2, <1>3, <1>4, Zenon
  <1>6. PointsShown(sheet, q) = GroupPoints(Dot(sheet, q).correct)
    BY DEF PointsShown
  <1>7. QED
    BY <1>5, <1>6, Zenon DEF X

LEMMA GroupPointsInt ==
  ASSUME NEW n PROVE GroupPoints(n) \in Int /\ GroupPoints(0) = 0
  BY DEF GroupPoints

LEMMA PointsInt ==
  ASSUME NEW sheet, WellFormed(sheet.paper), NEW q \in Questions(sheet.paper)
  PROVE  PointsShown(sheet, q) \in Int
  <1>1. CASE q.type = "cluster_context"
    BY <1>1, ClusterPoints, GroupPointsInt
  <1>2. CASE q.type # "cluster_context"
    BY <1>2, SimplePoints DEF Points
  <1>3. QED
    BY <1>1, <1>2

\* The groups of the server are the clusters with statements; a cluster without
\* any is not a group and gives no points.
LEMMA GroupsAddUp ==
  ASSUME NEW sheet, WellFormed(sheet.paper), NEW w,
         \A q \in Rows(sheet.paper, 2) : w[q] = PointsShown(sheet, q)
  PROVE  SumFunctionOnSet(w, Rows(sheet.paper, 2)) =
           LET groups == {r.parent : r \in {x \in ToSet(sheet.paper) : x.type = "true_false"}}
           IN SumFunction([g \in groups |-> GroupPoints(Cardinality(RightRows(sheet, g)))])
  <1> DEFINE R == ToSet(sheet.paper)
             groups == {r.parent : r \in {x \in R : x.type = "true_false"}}
             v == [g \in groups |-> GroupPoints(Cardinality(RightRows(sheet, g)))]
             C == Rows(sheet.paper, 2)
             D == {q \in C : q.id \in groups}
             b == [q \in D |-> q.id]
  <1>1. /\ IsFiniteSet(C) /\ IsFiniteSet(D)
        /\ C \in SUBSET R /\ C \in SUBSET Questions(sheet.paper) /\ D \in SUBSET C
        /\ \A q \in C : q.type = "cluster_context"
    BY RowsFinite, FS_Subset, ThreeSections DEF Rows, Questions
  <1>2. \A q \in C : w[q] = GroupPoints(Cardinality(RightRows(sheet, q.id))) /\ w[q] \in Int
    BY <1>1, ClusterPoints, GroupPointsInt
  <1>3. ASSUME NEW q \in C \ D PROVE w[q] = 0
    <2>1. q.id # NoParent
      BY <1>1, RowFacts
    <2>2. RightRows(sheet, q.id) = {}
      BY <1>3, <2>1, RowFacts DEF RightRows
    <2>3. Cardinality(RightRows(sheet, q.id)) = 0
      BY <2>2, FS_EmptySet, Zenon
    <2>4. QED
      BY <1>2, <2>3, GroupPointsInt
  <1>4. {b[q] : q \in D} = groups
    <2>1. \A g \in groups : \E q \in C : q.id = g
      BY RowFacts, ThreeSections DEF Rows, Questions
    <2>2. QED
      BY <2>1
  <1>5. \A x, y \in D : b[x] = b[y] => x = y
    <2>1. \A x, y \in R : x.id = y.id => x = y
      BY RowFacts
    <2>2. QED
      BY <1>1, <2>1
  <1>6. \A q \in D : w[q] \in Int /\ w[q] = v[b[q]]
    BY <1>1, <1>2
  <1> HIDE DEF b, v, C, D, groups
  <1>7. SumFunctionOnSet(w, C) = SumFunctionOnSet(w, D)
    BY <1>1, <1>2, <1>3, SumWithoutZeros
  <1>8. SumFunctionOnSet(w, D) = SumFunctionOnSet(v, {b[q] : q \in D})
    BY <1>1, <1>5, <1>6, SumMapped
  <1>9. SumFunctionOnSet(w, C) = SumFunctionOnSet(v, groups)
    BY <1>4, <1>7, <1>8, Zenon
  <1>10. DOMAIN v = groups
    BY DEF v
  <1>11. SumFunctionOnSet(w, C) = SumFunction(v)
    BY <1>9, <1>10, Zenon DEF SumFunction
  <1>12. QED
    BY <1>11, Zenon DEF v, groups, C

\* The points of all questions add up to the score.
LEMMA PointsAddUp ==
  ASSUME NEW sheet, WellFormed(sheet.paper)
  PROVE  SumFunctionOnSet([q \in Questions(sheet.paper) |-> PointsShown(sheet, q)],
                          Questions(sheet.paper)) = Score(sheet)
  <1> DEFINE R == ToSet(sheet.paper)
             Q == Questions(sheet.paper)
             w == [q \in Q |-> PointsShown(sheet, q)]
             C == Rows(sheet.paper, 2)
             simple == {r \in R : r.type \in {"single_choice", "short_answer"}}
             right == {x \in simple : Right(sheet, x.id)}
             v == [r \in right |-> Points(r.type)]
             groups == {r.parent : r \in {x \in R : x.type = "true_false"}}
             u == [g \in groups |-> GroupPoints(Cardinality(RightRows(sheet, g)))]
  <1>1. Score(sheet) = SumFunction(v) + SumFunction(u)
    BY Zenon DEF Score, RightRows
  <1>2. /\ IsFiniteSet(simple) /\ IsFiniteSet(C) /\ right \in SUBSET simple
        /\ IsFiniteSet(right)
    BY RowsFinite, FS_Subset DEF Rows, Questions
  <1>3. Q = simple \cup C /\ simple \cap C = {}
    BY ThreeSections, RowFacts DEF Questions, Rows
  <1>4. \A q \in Q : w[q] \in Int /\ w[q] = PointsShown(sheet, q)
    BY PointsInt
  <1>5. \A q \in simple : w[q] = IF Right(sheet, q.id) THEN Points(q.type) ELSE 0
    <2>1. \A q \in simple : q \in Q /\ q.type # "cluster_context"
      BY DEF Questions
    <2>2. QED
      BY <1>4, <2>1, SimplePoints
  <1>6. (\A q \in simple \ right : w[q] = 0) /\ (\A q \in right : w[q] = v[q])
    BY <1>5
  <1> HIDE DEF w, v, u, groups, C, simple, right, Q
  <1>7. SumFunctionOnSet(w, simple \cup C) = SumFunctionOnSet(w, simple) + SumFunctionOnSet(w, C)
    <2>1. \A q \in simple \cup C : w[q] \in Int
      BY <1>3, <1>4
    <2>2. QED
      BY <1>2, <1>3, <2>1, SumUnion
  <1>8. SumFunctionOnSet(w, simple) = SumFunctionOnSet(w, right)
    BY <1>2, <1>3, <1>4, <1>6, SumWithoutZeros
  <1>9. SumFunctionOnSet(w, right) = SumFunctionOnSet(v, right)
    BY <1>2, <1>3, <1>4, <1>6, SumSame
  <1>10. SumFunctionOnSet(w, C) = SumFunction(u)
    <2>1. \A q \in Rows(sheet.paper, 2) : w[q] = PointsShown(sheet, q)
      BY <1>3, <1>4 DEF C
    <2>2. QED
      BY <2>1, GroupsAddUp DEF C, u, groups
  <1>11. SumFunctionOnSet(v, right) = SumFunction(v)
    <2>1. DOMAIN v = right
      BY DEF v
    <2>2. QED
      BY <2>1, Zenon DEF SumFunction
  <1>12. SumFunctionOnSet(w, Q) = SumFunction(v) + SumFunction(u)
    BY <1>3, <1>7, <1>8, <1>9, <1>10, <1>11, Zenon
  <1>13. SumFunctionOnSet(w, Q) = Score(sheet)
    BY <1>1, <1>12, Zenon
  <1>14. QED
    BY <1>13 DEF w, Q

-----------------------------------------------------------------------------
(***************************************************************************)
(* The result page.                                                        *)
(***************************************************************************)
\* The places of the dots: a section and a number in it.
DotPlaces(paper) ==
  {d \in (1 .. 3) \X (1 .. Len(paper)) : d[2] \in DOMAIN Sections(paper)[d[1]]}

\* Every question has one place, in the section of its type.
LEMMA PlacesShow ==
  ASSUME NEW paper, WellFormed(paper)
  PROVE  LET at == [d \in DotPlaces(paper) |-> Sections(paper)[d[1]][d[2]]] IN
         /\ IsFiniteSet(DotPlaces(paper))
         /\ {at[d] : d \in DotPlaces(paper)} = Questions(paper)
         /\ \A d, e \in DotPlaces(paper) : at[d] = at[e] => d = e
         /\ \A d \in DotPlaces(paper) : d[1] \in 1 .. 3 /\ at[d].type = Types[d[1]]
  <1> DEFINE P == DotPlaces(paper)
             s(k) == Sections(paper)[k]
             at == [d \in P |-> s(d[1])[d[2]]]
             S(k) == Rows(paper, k)
             Q == Questions(paper)
  <1>1. Len(paper) \in Nat
    BY DEF WellFormed
  <1>2. IsFiniteSet(P)
    <2>1. 1 \in Int /\ 3 \in Int /\ Len(paper) \in Int
      BY <1>1
    <2>2. IsFiniteSet(1 .. 3) /\ IsFiniteSet(1 .. Len(paper))
      BY <2>1, FS_Interval, Zenon
    <2>3. IsFiniteSet((1 .. 3) \X (1 .. Len(paper)))
      BY <2>2, FS_Product
    <2>4. QED
      BY <2>3, FS_Subset DEF DotPlaces
  <1>3. \A k \in 1 .. 3 : \E c \in 0 .. Len(paper) : Shows(s(k), S(k), c)
    BY SectionShows
  <1>4. /\ \A k \in 1 .. 3 : S(k) \subseteq Q /\ \A q \in S(k) : q.type = Types[k]
        /\ \A q \in Q : \E k \in 1 .. 3 : q \in S(k)
        /\ \A j, k \in 1 .. 3 : Types[j] = Types[k] => j = k
    <2>1. \A q \in Q : q \in S(1) \/ q \in S(2) \/ q \in S(3)
      BY ThreeSections
    <2>2. \A j, k \in 1 .. 3 : Types[j] = Types[k] => j = k
      BY DEF Types
    <2>3. QED
      BY <2>1, <2>2 DEF Rows
  <1> HIDE DEF s, S, Q
  <1>5. \A k \in 1 .. 3 :
          /\ DOMAIN s(k) \subseteq 1 .. Len(paper)
          /\ \A n \in DOMAIN s(k) : s(k)[n] \in S(k)
          /\ \A q \in S(k) : \E n \in DOMAIN s(k) : s(k)[n] = q
          /\ \A m, n \in DOMAIN s(k) : s(k)[m] = s(k)[n] => m = n
    <2>1. SUFFICES ASSUME NEW k \in 1 .. 3
          PROVE  /\ DOMAIN s(k) \subseteq 1 .. Len(paper)
                 /\ \A n \in DOMAIN s(k) : s(k)[n] \in S(k)
                 /\ \A q \in S(k) : \E n \in DOMAIN s(k) : s(k)[n] = q
                 /\ \A m, n \in DOMAIN s(k) : s(k)[m] = s(k)[n] => m = n
      OBVIOUS
    <2>2. PICK c \in 0 .. Len(paper) : Shows(s(k), S(k), c)
      BY <1>3
    <2>3. QED
      BY <1>1, <2>2 DEF Shows
  <1>6. \A d \in P : d[1] \in 1 .. 3 /\ d[2] \in DOMAIN s(d[1]) /\ d = <<d[1], d[2]>>
    BY DEF DotPlaces, s
  <1>7. \A k \in 1 .. 3 : \A n \in DOMAIN s(k) : <<k, n>> \in P /\ at[<<k, n>>] = s(k)[n]
    BY <1>5 DEF DotPlaces, s
  <1>8. \A d \in P : at[d] \in S(d[1]) /\ at[d] \in Q /\ at[d].type = Types[d[1]]
    BY <1>4, <1>5, <1>6
  <1>9. ASSUME NEW q \in Q PROVE \E d \in P : at[d] = q
    <2>1. PICK k \in 1 .. 3 : q \in S(k)
      BY <1>4
    <2>2. PICK n \in DOMAIN s(k) : s(k)[n] = q
      BY <1>5, <2>1
    <2>3. QED
      BY <1>7, <2>2
  <1>10. ASSUME NEW d \in P, NEW e \in P, at[d] = at[e] PROVE d = e
    <2>1. d[1] = e[1]
      BY <1>4, <1>6, <1>8, <1>10
    <2>2. s(d[1])[d[2]] = s(d[1])[e[2]]
      BY <1>10, <2>1
    <2>3. d[2] = e[2]
      BY <1>5, <1>6, <2>1, <2>2
    <2>4. QED
      BY <1>6, <2>1, <2>3
  <1> HIDE DEF at, P
  <1>11. {at[d] : d \in P} = Q
    BY <1>8, <1>9
  <1>12. /\ \A d, e \in P : at[d] = at[e] => d = e
         /\ \A d \in P : d[1] \in 1 .. 3 /\ at[d].type = Types[d[1]]
    BY <1>6, <1>8, <1>10
  <1>13. QED
    BY <1>2, <1>11, <1>12, Zenon DEF at, P, s, Q

\* For every sheet with a well-formed paper the dots of the result page add up to
\* what the server counts, and their points to its score.
THEOREM DotsAgreeWithScore ==
  ASSUME NEW sheet, WellFormed(sheet.paper)
  PROVE  LET dots == DetailSections(sheet)
             all == {d \in (1 .. 3) \X (1 .. Len(sheet.paper)) : d[2] \in DOMAIN dots[d[1]]}
             total(v) == SumFunction([d \in all |-> dots[d[1]][d[2]][v]])
             points(d) == CASE d[1] = 1 -> 25 * dots[d[1]][d[2]].correct
                            [] d[1] = 2 -> GroupPoints(dots[d[1]][d[2]].correct)
                            [] OTHER -> 50 * dots[d[1]][d[2]].correct
         IN /\ \A v \in {"correct", "wrong", "skipped"} : total(v) = Counts(sheet)[v]
            /\ SumFunction([d \in all |-> points(d)]) = Score(sheet)
  <1> DEFINE dots == DetailSections(sheet)
             all == {d \in (1 .. 3) \X (1 .. Len(sheet.paper)) : d[2] \in DOMAIN dots[d[1]]}
             points(d) == CASE d[1] = 1 -> 25 * dots[d[1]][d[2]].correct
                            [] d[1] = 2 -> GroupPoints(dots[d[1]][d[2]].correct)
                            [] OTHER -> 50 * dots[d[1]][d[2]].correct
             P == DotPlaces(sheet.paper)
             at == [d \in P |-> Sections(sheet.paper)[d[1]][d[2]]]
             Q == Questions(sheet.paper)
  <1>1. \A i \in 1 .. 3 : DOMAIN dots[i] = DOMAIN Sections(sheet.paper)[i]
    BY DEF DetailSections
  <1>2. all = P
    BY <1>1 DEF DotPlaces
  <1>3. \A d \in P : dots[d[1]][d[2]] = Dot(sheet, at[d])
    BY DEF DetailSections, DotPlaces
  <1>4. /\ IsFiniteSet(P) /\ {at[d] : d \in P} = Q
        /\ \A d, e \in P : at[d] = at[e] => d = e
        /\ \A d \in P : d[1] \in 1 .. 3 /\ at[d].type = Types[d[1]]
    BY PlacesShow
  <1>5. \A d \in P : at[d] \in Q
    <2> HIDE DEF at
    <2>1. QED
      BY <1>4
  <1>6. \A d \in P : points(d) = PointsShown(sheet, at[d])
    <2>1. SUFFICES ASSUME NEW d \in P PROVE points(d) = PointsShown(sheet, at[d])
      OBVIOUS
    <2>2. dots[d[1]][d[2]] = Dot(sheet, at[d]) /\ at[d].type = Types[d[1]] /\ d[1] \in 1 .. 3
      BY <1>3, <1>4
    <2>3. /\ Types[1] = "single_choice" /\ Types[2] = "cluster_context"
          /\ Types[3] = "short_answer"
      BY DEF Types
    <2> HIDE DEF at, dots
    <2>4. CASE d[1] = 1
      <3>1. at[d].type = "single_choice"
        BY <2>2, <2>3, <2>4
      <3>2. QED
        BY <2>2, <2>4, <3>1 DEF PointsShown
    <2>5. CASE d[1] = 2
      <3>1. at[d].type = "cluster_context"
        BY <2>2, <2>3, <2>5
      <3>2. QED
        BY <2>2, <2>5, <3>1 DEF PointsShown
    <2>6. CASE d[1] = 3
      <3>1. at[d].type = "short_answer"
        BY <2>2, <2>3, <2>6
      <3>2. QED
        BY <2>2, <2>6, <3>1 DEF PointsShown
    <2>7. QED
      BY <2>2, <2>4, <2>5, <2>6
  <1> HIDE DEF at, dots, all, P, Q, points
  <1>7. ASSUME NEW v \in {"correct", "wrong", "skipped"}
        PROVE  SumFunction([d \in all |-> dots[d[1]][d[2]][v]]) = Counts(sheet)[v]
    <2> DEFINE f == [d \in all |-> dots[d[1]][d[2]][v]]
               w == [q \in Q |-> Dot(sheet, q)[v]]
    <2>1. \A d \in P : f[d] \in Int /\ f[d] = w[at[d]]
      BY <1>2, <1>3, <1>5, DotCounts DEF Q, Verdicts
    <2>2. SumFunctionOnSet(w, Q) = Counts(sheet)[v]
      BY DotsAddUp DEF Q, Verdicts
    <2>3. DOMAIN f = P
      BY <1>2
    <2> HIDE DEF f, w
    <2>4. SumFunctionOnSet(f, P) = SumFunctionOnSet(w, {at[d] : d \in P})
      BY <1>4, <2>1, SumMapped
    <2>5. SumFunctionOnSet(f, P) = Counts(sheet)[v]
      BY <1>4, <2>2, <2>4, Zenon
    <2>6. SumFunction(f) = Counts(sheet)[v]
      BY <2>3, <2>5, Zenon DEF SumFunction
    <2>7. QED
      BY <2>6 DEF f
  <1>8. SumFunction([d \in all |-> points(d)]) = Score(sheet)
    <2> DEFINE f == [d \in all |-> points(d)]
               w == [q \in Q |-> PointsShown(sheet, q)]
    <2>1. \A d \in P : f[d] \in Int /\ f[d] = w[at[d]]
      BY <1>2, <1>5, <1>6, PointsInt DEF Q
    <2>2. SumFunctionOnSet(w, Q) = Score(sheet)
      BY PointsAddUp DEF Q
    <2>3. DOMAIN f = P
      BY <1>2
    <2> HIDE DEF f, w
    <2>4. SumFunctionOnSet(f, P) = SumFunctionOnSet(w, {at[d] : d \in P})
      BY <1>4, <2>1, SumMapped
    <2>5. SumFunctionOnSet(f, P) = Score(sheet)
      BY <1>4, <2>2, <2>4, Zenon
    <2>6. SumFunction(f) = Score(sheet)
      BY <2>3, <2>5, Zenon DEF SumFunction
    <2>7. QED
      BY <2>6 DEF f
  <1>9. QED
    BY <1>7, <1>8, Zenon DEF dots, all, points

-----------------------------------------------------------------------------
(***************************************************************************)
(* The review page.                                                        *)
(***************************************************************************)
\* Of a question without statements: the colour of the number, the mark of the
\* answer and the dot depend on the same comparison.
LEMMA SimpleReview ==
  ASSUME NEW sheet, WellFormed(sheet.paper), NEW q \in Questions(sheet.paper),
         q.type # "cluster_context"
  PROVE  /\ AnswerMarks(sheet, q) =
              {IF sheet.given[q.id] = Blank THEN "plain"
               ELSE IF Matches(sheet, q.id) THEN "chosen" ELSE "wrong"}
         /\ Parts(sheet.paper, q) = {q.id}
  <1>1. Parts(sheet.paper, q) = {q.id}
    BY DEF Parts
  <1>2. CASE q.type = "short_answer"
    BY <1>1, <1>2 DEF AnswerMarks, BoxMark
  <1>3. CASE q.type = "single_choice"
    <2>1. CASE sheet.given[q.id] = Blank
      <3>1. AnswerMarks(sheet, q) = {"plain"}
        BY <1>1, <1>3, <2>1 DEF AnswerMarks
      <3>2. QED
        BY <1>1, <2>1, <3>1
    <2>2. CASE sheet.given[q.id] # Blank
      <3>1. AnswerMarks(sheet, q) = {OptionMark(sheet, q.id, sheet.given[q.id])}
        BY <1>1, <1>3, <2>2 DEF AnswerMarks
      <3>2. OptionMark(sheet, q.id, sheet.given[q.id]) =
              IF Matches(sheet, q.id) THEN "chosen" ELSE "wrong"
        BY DEF OptionMark, Matches
      <3>3. QED
        BY <1>1, <2>2, <3>1, <3>2
    <2>3. QED
      BY <1>1, <2>1, <2>2
  <1>4. q.type \in {"short_answer", "single_choice"}
    BY RowFacts DEF Questions
  <1>5. QED
    BY <1>1, <1>2, <1>3, <1>4

\* Of a cluster: every statement is marked by the same comparison.
LEMMA ClusterReview ==
  ASSUME NEW sheet, WellFormed(sheet.paper), NEW q \in Questions(sheet.paper),
         q.type = "cluster_context"
  PROVE  AnswerMarks(sheet, q) =
           {IF sheet.given[p] = Blank THEN "plain"
            ELSE IF Matches(sheet, p) THEN "chosen" ELSE "wrong" : p \in Parts(sheet.paper, q)}
  <1> DEFINE mark(p) ==
               CASE q.type = "short_answer" -> BoxMark(sheet, p)
                 [] q.type # "short_answer" /\ sheet.given[p] = Blank -> "plain"
                 [] q.type = "single_choice" /\ sheet.given[p] # Blank ->
                      OptionMark(sheet, p, sheet.given[p])
                 [] OTHER -> StatementMark(sheet, p, sheet.given[p])
             plain(p) == IF sheet.given[p] = Blank THEN "plain"
                         ELSE IF Matches(sheet, p) THEN "chosen" ELSE "wrong"
             parts == Parts(sheet.paper, q)
  <1>1. ASSUME NEW p \in parts PROVE mark(p) = plain(p)
    <2>1. CASE sheet.given[p] = Blank
      BY <2>1
    <2>2. CASE sheet.given[p] # Blank
      <3>1. mark(p) = StatementMark(sheet, p, sheet.given[p])
        BY <2>2
      <3> HIDE DEF mark
      <3>2. StatementMark(sheet, p, sheet.given[p]) =
              IF Matches(sheet, p) THEN "chosen" ELSE "wrong"
        BY DEF StatementMark, Matches
      <3>3. QED
        BY <2>2, <3>1, <3>2
    <2>3. QED
      BY <2>1, <2>2
  <1>2. AnswerMarks(sheet, q) = {mark(p) : p \in parts}
    BY Zenon DEF AnswerMarks
  <1> HIDE DEF mark, plain, parts
  <1>3. AnswerMarks(sheet, q) = {plain(p) : p \in parts}
    BY <1>1, <1>2
  <1>4. QED
    BY <1>3, Zenon DEF plain, parts

\* For every sheet with a well-formed paper whose statements have a key: a number of
\* the review page is green exactly if all answers to it are marked as right, plain
\* exactly if there is none, and with a plain key that is what the dot says.
THEOREM ColoursAgreeWithMarks ==
  ASSUME NEW sheet, WellFormed(sheet.paper), StatementsKeyed(sheet),
         NEW n \in DOMAIN Grouped(sheet.paper)
  PROVE  LET q == Grouped(sheet.paper)[n]
             colour == NavigatorColour(ResultsMap(sheet), n)
             marks == AnswerMarks(sheet, q)
             dot == Dot(sheet, q)
             parts == Parts(sheet.paper, q)
         IN /\ colour = "green" <=> marks = {"chosen"}
            /\ colour = "plain" <=> marks \subseteq {"plain"}
            /\ (\A p \in parts : sheet.key[p].plain) =>
                 /\ colour = "green" <=> dot.wrong + dot.skipped = 0 /\ dot.correct > 0
                 /\ colour = "plain" <=> dot.correct + dot.wrong = 0
  <1> DEFINE q == Grouped(sheet.paper)[n]
             colour == NavigatorColour(ResultsMap(sheet), n)
             marks == AnswerMarks(sheet, q)
             dot == Dot(sheet, q)
             parts == Parts(sheet.paper, q)
             mark(p) == IF sheet.given[p] = Blank THEN "plain"
                        ELSE IF Matches(sheet, p) THEN "chosen" ELSE "wrong"
             answered == \E p \in parts : sheet.given[p] # Blank
             matched == \A p \in parts : Matches(sheet, p)
  <1>1. q \in Questions(sheet.paper)
    <2>1. PICK c \in Nat : Shows(Grouped(sheet.paper), Questions(sheet.paper), c)
      BY EveryQuestionHasANumber
    <2>2. QED
      BY <2>1 DEF Shows
  <1>2. colour = IF ~answered THEN "plain" ELSE IF matched THEN "green" ELSE "red"
    <2>1. n \in DOMAIN ResultsMap(sheet) <=> answered
      BY DEF ResultsMap, Answered
    <2>2. answered => ResultsMap(sheet)[n] = matched
      BY DEF ResultsMap, Answered
    <2> HIDE DEF answered, matched
    <2>3. QED
      BY <2>1, <2>2 DEF NavigatorColour
  <1>3. marks = {mark(p) : p \in parts}
    <2>1. CASE q.type = "cluster_context"
      BY <1>1, <2>1, ClusterReview, Zenon
    <2>2. CASE q.type # "cluster_context"
      <3>1. marks = {mark(q.id)} /\ parts = {q.id}
        BY <1>1, <2>2, SimpleReview
      <3> HIDE DEF marks, parts, mark, q
      <3>2. QED
        BY <3>1
    <2>3. QED
      BY <2>1, <2>2
  <1>4. \A p \in parts : Matches(sheet, p) /\ q.type = "cluster_context" => sheet.given[p] # Blank
    <2>1. SUFFICES ASSUME NEW p \in parts, Matches(sheet, p), q.type = "cluster_context"
                   PROVE  sheet.given[p] # Blank
      OBVIOUS
    <2>2. PICK r \in ToSet(sheet.paper) : r.parent = q.id /\ r.id = p
      BY <2>1 DEF Parts, Statements, Children
    <2>3. q \in ToSet(sheet.paper) /\ q.id # NoParent
      BY <1>1, RowFacts DEF Questions
    <2>4. r.type = "true_false"
      BY <2>2, <2>3, RowFacts
    <2>5. sheet.key[p].text # Blank
      BY <2>2, <2>4 DEF StatementsKeyed
    <2>6. QED
      BY <2>1, <2>5 DEF Matches
  <1>5. q.type # "cluster_context" => parts = {q.id}
    BY DEF Parts
  <1>6. /\ dot.correct = Cardinality(Judged(sheet, q, "correct"))
        /\ dot.wrong = Cardinality(Judged(sheet, q, "wrong"))
        /\ dot.skipped = Cardinality(Judged(sheet, q, "skipped"))
        /\ dot.correct \in Nat /\ dot.wrong \in Nat /\ dot.skipped \in Nat
        /\ IsFiniteSet(Judged(sheet, q, "correct")) /\ IsFiniteSet(Judged(sheet, q, "wrong"))
        /\ IsFiniteSet(Judged(sheet, q, "skipped"))
    BY <1>1, DotCounts DEF Verdicts
  <1>7. /\ dot.correct = 0 <=> \A p \in parts : Verdict(sheet, p) # "correct"
        /\ dot.wrong = 0 <=> \A p \in parts : Verdict(sheet, p) # "wrong"
        /\ dot.skipped = 0 <=> \A p \in parts : Verdict(sheet, p) # "skipped"
    <2>1. /\ dot.correct = 0 <=> Judged(sheet, q, "correct") = {}
          /\ dot.wrong = 0 <=> Judged(sheet, q, "wrong") = {}
          /\ dot.skipped = 0 <=> Judged(sheet, q, "skipped") = {}
      BY <1>6, FS_EmptySet
    <2> HIDE DEF dot
    <2>2. QED
      BY <2>1 DEF Judged
  <1> HIDE DEF q, colour, marks, dot, parts
  <1>8. colour = "plain" <=> marks \subseteq {"plain"}
    BY <1>2, <1>3
  <1>9. colour = "green" <=> marks = {"chosen"}
    <2>1. answered /\ matched <=> parts # {} /\ \A p \in parts : mark(p) = "chosen"
      <3>1. CASE q.type = "cluster_context"
        BY <1>4, <3>1
      <3>2. CASE q.type # "cluster_context"
        <4>1. parts = {q.id}
          BY <1>5, <3>2
        <4>2. QED
          BY <4>1
      <3>3. QED
        BY <3>1, <3>2
    <2>2. marks = {"chosen"} <=> parts # {} /\ \A p \in parts : mark(p) = "chosen"
      <3> HIDE DEF mark
      <3>1. QED
        BY <1>3
    <2> HIDE DEF answered, matched
    <2>3. QED
      BY <1>2, <2>1, <2>2
  <1>10. ASSUME \A p \in parts : sheet.key[p].plain
         PROVE  /\ colour = "green" <=> dot.wrong + dot.skipped = 0 /\ dot.correct > 0
                /\ colour = "plain" <=> dot.correct + dot.wrong = 0
    <2>1. \A p \in parts : Verdict(sheet, p) = IF sheet.given[p] = Blank THEN "skipped"
                             ELSE IF Matches(sheet, p) THEN "correct" ELSE "wrong"
      BY <1>10 DEF Verdict, Right, Matches
    <2>2. /\ dot.wrong + dot.skipped = 0 <=> dot.wrong = 0 /\ dot.skipped = 0
          /\ dot.correct > 0 <=> dot.correct # 0
          /\ dot.correct + dot.wrong = 0 <=> dot.correct = 0 /\ dot.wrong = 0
      BY <1>6
    <2>3. dot.correct = 0 /\ dot.wrong = 0 <=> ~answered
      BY <1>7, <2>1
    <2>4. dot.wrong = 0 /\ dot.skipped = 0 /\ dot.correct # 0
            <=> parts # {} /\ \A p \in parts : mark(p) = "chosen"
      BY <1>7, <2>1
    <2>5. marks = {"chosen"} <=> parts # {} /\ \A p \in parts : mark(p) = "chosen"
      <3> HIDE DEF mark
      <3>1. QED
        BY <1>3
    <2>6. colour = "plain" <=> ~answered
      <3> HIDE DEF answered, matched
      <3>1. QED
        BY <1>2
    <2> HIDE DEF answered, matched, mark
    <2>7. QED
      BY <1>9, <2>2, <2>3, <2>4, <2>5, <2>6
  <1>11. QED
    BY <1>8, <1>9, <1>10, Zenon DEF q, colour, marks, dot, parts

=============================================================================
