---------------------------- MODULE AlgorithmLemmas ----------------------------
(***************************************************************************)
(* What folds, sums and the two algorithms of gdeliveryd compute, for      *)
(* inputs of any size: the merge of goods into a pocket (MergeInventory)   *)
(* and the matching of orders (OrderBook).                                 *)
(*                                                                         *)
(* Induction rests on the well-foundedness of < on Nat and of strict       *)
(* inclusion among the subsets of a finite set: a set of natural numbers   *)
(* or of subsets that has a member has a least one, so the least place, or *)
(* a smallest subset, at which a claim would fail is looked at.            *)
(***************************************************************************)
EXTENDS MergeInventory, OrderBook, SequenceTheorems, FiniteSetTheorems, TLAPS

\* A set of natural numbers that has a member has a least one.
LEMMA LeastNatural ==
    ASSUME NEW T \in SUBSET Nat, T # {}
    PROVE  \E n \in T : \A m \in T : n <= m
  <1> DEFINE R == OpToRel(<, Nat)
  <1>1. IsWellFoundedOn(R, Nat)
    BY NatLessThanWellFounded
  <1>2. \A m, n \in Nat : m < n => <<m, n>> \in R
    BY DEF OpToRel
  <1> HIDE DEF R
  <1>3. \E n \in T : \A m \in T : ~ (<<m, n>> \in R)
    BY <1>1, WFMin
  <1>4. PICK n \in T : \A m \in T : ~ (<<m, n>> \in R)
    BY <1>3
  <1>5. ASSUME NEW m \in T PROVE n <= m
    <2>1. m \in Nat /\ n \in Nat
      OBVIOUS
    <2>2. ~ (m < n)
      BY <1>2, <1>4, <2>1
    <2> QED
      BY <2>1, <2>2
  <1> QED
    BY <1>5

\* The function it holds the values of a fold on the subsets of D: one step from the
\* value on the subset without the member that is picked from it.
FoldsTo(it, D, base, step, pick) ==
    it = [s \in SUBSET D |-> IF s = {} THEN base ELSE step[<<it[s \ {pick[s]}], pick[s]>>]]

\* The recursion by which MapThenFoldSet defines a fold has a solution.
LEMMA FoldExists ==
    ASSUME NEW D, IsFiniteSet(D), NEW A, NEW base \in A, NEW step \in [A \X D -> A],
           NEW pick, \A s \in SUBSET D : s # {} => pick[s] \in s
    PROVE  \E it \in [SUBSET D -> A] : FoldsTo(it, D, base, step, pick)
  <1> DEFINE Next(it, s) == IF s = {} THEN base ELSE step[<<it[s \ {pick[s]}], pick[s]>>]
  <1> DEFINE Good(n) == \E it \in [SUBSET D -> A] :
                           \A s \in SUBSET D : Cardinality(s) <= n => it[s] = Next(it, s)
  <1> DEFINE Bad == {n \in Nat : ~Good(n)}
  <1>0. \A s \in SUBSET D : IsFiniteSet(s) /\ Cardinality(s) \in Nat /\ (Cardinality(s) = 0 <=> s = {})
                            /\ (s # {} => Cardinality(s \ {pick[s]}) = Cardinality(s) - 1)
    BY FS_Subset, FS_CardinalityType, FS_EmptySet, FS_RemoveElement
  <1>a. ASSUME NEW it \in [SUBSET D -> A], NEW s \in SUBSET D PROVE Next(it, s) \in A
    <2>1. CASE s = {}
      BY <2>1
    <2>2. CASE s # {}
      <3>1. pick[s] \in D /\ s \ {pick[s]} \in SUBSET D
        BY <2>2
      <3>2. <<it[s \ {pick[s]}], pick[s]>> \in A \X D
        BY <3>1
      <3> QED
        BY <2>2, <3>2
    <2> QED BY <2>1, <2>2
  <1>1. Bad = {}
    <2> SUFFICES ASSUME Bad # {} PROVE FALSE
      OBVIOUS
    <2>1. PICK n \in Bad : \A m \in Bad : n <= m
      BY LeastNatural
    <2>2. n # 0
      <3> DEFINE it == [s \in SUBSET D |-> base]
      <3>1. it \in [SUBSET D -> A]
        OBVIOUS
      <3>2. ASSUME NEW s \in SUBSET D, Cardinality(s) <= 0 PROVE s = {}
        <4>1. Cardinality(s) \in Nat /\ (Cardinality(s) = 0 <=> s = {})
          BY <1>0
        <4> QED
          BY <3>2, <4>1
      <3>4. \A s \in SUBSET D : Cardinality(s) <= 0 => it[s] = Next(it, s)
        BY <3>2
      <3>3. Good(0)
        BY <3>1, <3>4
      <3> HIDE DEF Good
      <3> QED
        BY <3>3
    <2>3. n - 1 \in Nat /\ Good(n - 1)
      <3> HIDE DEF Good
      <3>1. n \in Nat /\ n - 1 \in Nat
        BY <2>2
      <3> QED
        BY <2>1, <3>1
    <2>4. PICK it \in [SUBSET D -> A] :
             \A s \in SUBSET D : Cardinality(s) <= n - 1 => it[s] = Next(it, s)
      BY <2>3
    <2> DEFINE jt == [s \in SUBSET D |-> Next(it, s)]
    <2>5. jt \in [SUBSET D -> A]
      BY <1>a
    <2>6. ASSUME NEW s \in SUBSET D, Cardinality(s) <= n PROVE jt[s] = Next(jt, s)
      <3>1. CASE s = {}
        BY <3>1
      <3>2. CASE s # {}
        <4> DEFINE r == s \ {pick[s]}
        <4>0. Cardinality(r) = Cardinality(s) - 1 /\ Cardinality(s) \in Nat /\ n \in Nat
          BY <1>0, <3>2
        <4>1. r \in SUBSET D /\ Cardinality(r) <= n - 1
          BY <2>6, <4>0
        <4>2. it[r] = Next(it, r)
          BY <2>4, <4>1
        <4>3. jt[r] = it[r]
          BY <4>1, <4>2
        <4> QED
          BY <3>2, <4>3
      <3> QED BY <3>1, <3>2
    <2>7. Good(n)
      BY <2>5, <2>6
    <2> QED
      BY <2>1, <2>7
  <1>2. Good(Cardinality(D))
    BY <1>1, <1>0
  <1>3. PICK it \in [SUBSET D -> A] : \A s \in SUBSET D : Cardinality(s) <= Cardinality(D) => it[s] = Next(it, s)
    BY <1>2
  <1>4. \A s \in SUBSET D : it[s] = Next(it, s)
    BY <1>3, FS_Subset, <1>0
  <1>5. it = [s \in SUBSET D |-> Next(it, s)]
    BY <1>4
  <1> QED
    BY <1>5 DEF FoldsTo

\* A set of finite sets that has a member has one that contains no other.
LEMMA SmallestSubset ==
    ASSUME NEW D, IsFiniteSet(D), NEW T \in SUBSET (SUBSET D), T # {}
    PROVE  \E s \in T : \A x \in s : s \ {x} \notin T
  <1> DEFINE R == StrictSubsetOrdering(D)
  <1>1. IsWellFoundedOn(R, SUBSET D)
    BY FS_StrictSubsetOrderingWellFounded, FS_FiniteSubsetsOfFinite
  <1>2. \A s \in SUBSET D : \A x \in s : <<s \ {x}, s>> \in R
    BY DEF StrictSubsetOrdering
  <1> HIDE DEF R
  <1>3. \E s \in T : \A r \in T : ~ (<<r, s>> \in R)
    BY <1>1, WFMin
  <1> QED
    BY <1>2, <1>3

\* The member MapThenFoldSet takes from a set when a sum folds it.
Picked(s) == CHOOSE x \in s : TRUE

\* The recursion that defines a sum, on the subsets of S.
SumsTo(it, f, S) ==
    it = [s \in SUBSET S |-> IF s = {} THEN 0 ELSE f[Picked(s)] + it[s \ {Picked(s)}]]

\* SumFunctionOnSet is the value of such a table.
LEMMA SumRecursion ==
    ASSUME NEW f, NEW S, IsFiniteSet(S), \A x \in S : f[x] \in Int
    PROVE  \E it \in [SUBSET S -> Int] : SumsTo(it, f, S) /\ SumFunctionOnSet(f, S) = it[S]
  <1> DEFINE step == [p \in Int \X S |-> f[p[2]] + p[1]]
  <1> DEFINE pick == [s \in SUBSET S |-> Picked(s)]
  <1>1. \A s \in SUBSET S : s # {} => pick[s] \in s
    BY DEF Picked
  <1>2. step \in [Int \X S -> Int]
    OBVIOUS
  <1>3. \E it \in [SUBSET S -> Int] : FoldsTo(it, S, 0, step, pick)
    <2> HIDE DEF step, pick
    <2>1. 0 \in Int
      OBVIOUS
    <2> QED
      BY <2>1, <1>1, <1>2, FoldExists
  <1>4. PICK it \in [SUBSET S -> Int] : FoldsTo(it, S, 0, step, pick)
    BY <1>3
  <1>5. ASSUME NEW s \in SUBSET S
        PROVE  it[s] = IF s = {} THEN 0 ELSE f[Picked(s)] + it[s \ {Picked(s)}]
    <2>1. CASE s = {}
      BY <1>4, <2>1 DEF FoldsTo
    <2>2. CASE s # {}
      <3>1. pick[s] = Picked(s) /\ Picked(s) \in S /\ s \ {Picked(s)} \in SUBSET S
        BY <1>1, <2>2
      <3>2. it[s] = step[<<it[s \ {pick[s]}], pick[s]>>]
        BY <1>4, <2>2 DEF FoldsTo
      <3>3. step[<<it[s \ {Picked(s)}], Picked(s)>>] = f[Picked(s)] + it[s \ {Picked(s)}]
        BY <3>1
      <3> QED
        BY <2>2, <3>1, <3>2, <3>3
    <2> QED
      BY <2>1, <2>2
  <1>6. SumsTo(it, f, S)
    <2>1. it = [s \in SUBSET S |-> it[s]]
      OBVIOUS
    <2> QED
      BY <1>5, <2>1 DEF SumsTo
  <1> DEFINE sum == CHOOSE jt : SumsTo(jt, f, S)
  <1>7. SumsTo(sum, f, S)
    BY <1>6
  <1>8. SumFunctionOnSet(f, S) = sum[S]
    BY DEF SumFunctionOnSet, FoldFunctionOnSet, MapThenFoldSet, SumsTo, Picked
  <1> HIDE DEF sum
  <1>9. \A s \in SUBSET S : sum[s] = it[s]
    <2> DEFINE Bad == {s \in SUBSET S : sum[s] # it[s]}
    <2> SUFFICES ASSUME Bad # {} PROVE FALSE
      OBVIOUS
    <2>1. PICK s \in Bad : \A x \in s : s \ {x} \notin Bad
      BY SmallestSubset
    <2>2. CASE s = {}
      BY <1>5, <1>7, <2>2 DEF SumsTo
    <2>3. CASE s # {}
      <3>1. Picked(s) \in s
        BY <2>3 DEF Picked
      <3>2. sum[s \ {Picked(s)}] = it[s \ {Picked(s)}]
        BY <2>1, <3>1
      <3> QED
        BY <1>5, <1>7, <2>3, <3>2 DEF SumsTo
    <2> QED
      BY <2>2, <2>3
  <1> QED
    BY <1>6, <1>8, <1>9


\* The recursion, read off the function.
LEMMA SumUnfold ==
    ASSUME NEW f, NEW S, NEW it, SumsTo(it, f, S)
    PROVE  /\ it[{}] = 0
           /\ \A s \in SUBSET S : s # {} => Picked(s) \in s /\ it[s] = f[Picked(s)] + it[s \ {Picked(s)}]
  <1>1. \A s \in SUBSET S : it[s] = IF s = {} THEN 0 ELSE f[Picked(s)] + it[s \ {Picked(s)}]
    BY DEF SumsTo
  <1>2. \A s \in SUBSET S : s # {} => Picked(s) \in s
    BY DEF Picked
  <1> QED
    BY <1>1, <1>2

\* Two functions that agree on every subset when they agree on smaller ones.
LEMMA SumUnique ==
    ASSUME NEW f, NEW g, NEW S, NEW T \in SUBSET S, IsFiniteSet(S), \A x \in T : g[x] = f[x],
           NEW it, NEW jt, SumsTo(it, f, S), SumsTo(jt, g, T)
    PROVE  \A s \in SUBSET T : it[s] = jt[s]
  <1>1. /\ it[{}] = 0
        /\ \A s \in SUBSET S : s # {} => Picked(s) \in s /\ it[s] = f[Picked(s)] + it[s \ {Picked(s)}]
    BY SumUnfold
  <1>2. /\ jt[{}] = 0
        /\ \A s \in SUBSET T : s # {} => Picked(s) \in s /\ jt[s] = g[Picked(s)] + jt[s \ {Picked(s)}]
    BY SumUnfold
  <1> DEFINE Bad == {s \in SUBSET T : it[s] # jt[s]}
  <1> SUFFICES ASSUME Bad # {} PROVE FALSE
    OBVIOUS
  <1>3. PICK s \in Bad : \A x \in s : s \ {x} \notin Bad
    BY SmallestSubset, FS_Subset
  <1>4. s # {}
    BY <1>1, <1>2
  <1> DEFINE a == Picked(s)
  <1>5. a \in s /\ it[s] = f[a] + it[s \ {a}] /\ jt[s] = g[a] + jt[s \ {a}]
    BY <1>1, <1>2, <1>4
  <1>6. jt[s \ {a}] = it[s \ {a}] /\ f[a] = g[a]
    BY <1>3, <1>5
  <1> QED
    BY <1>5, <1>6

\* The sums of the subsets are those the recursion passes through.
LEMMA SumStep ==
    ASSUME NEW f, NEW S, IsFiniteSet(S), \A x \in S : f[x] \in Int
    PROVE  /\ SumFunctionOnSet(f, S) \in Int
           /\ S # {} => /\ Picked(S) \in S
                        /\ SumFunctionOnSet(f, S)
                             = f[Picked(S)] + SumFunctionOnSet(f, S \ {Picked(S)})
  <1>1. PICK it \in [SUBSET S -> Int] : SumsTo(it, f, S) /\ SumFunctionOnSet(f, S) = it[S]
    BY SumRecursion
  <1>2. S # {} => Picked(S) \in S /\ it[S] = f[Picked(S)] + it[S \ {Picked(S)}]
    BY <1>1, SumUnfold
  <1> DEFINE T == S \ {Picked(S)}
  <1>3. IsFiniteSet(T) /\ T \in SUBSET S
    BY FS_Subset
  <1> HIDE DEF T
  <1>4. PICK jt \in [SUBSET T -> Int] : SumsTo(jt, f, T) /\ SumFunctionOnSet(f, T) = jt[T]
    BY <1>3, SumRecursion
  <1>5. it[T] = jt[T]
    BY <1>1, <1>3, <1>4, SumUnique
  <1> QED
    BY <1>1, <1>2, <1>4, <1>5 DEF T

\* The sum of integers is an integer.
LEMMA SumType ==
    ASSUME NEW f, NEW S, IsFiniteSet(S), \A x \in S : f[x] \in Int
    PROVE  SumFunctionOnSet(f, S) \in Int
  BY SumStep

\* The sum of nothing is 0.
LEMMA SumEmpty == ASSUME NEW f PROVE SumFunctionOnSet(f, {}) = 0
  <1>1. \A x \in {} : f[x] \in Int
    OBVIOUS
  <1>2. PICK it \in [SUBSET {} -> Int] : SumsTo(it, f, {}) /\ SumFunctionOnSet(f, {}) = it[{}]
    BY <1>1, SumRecursion, FS_EmptySet
  <1> QED
    BY <1>2, SumUnfold

\* Sums of the same summands are the same, whatever the functions are elsewhere.
LEMMA SumSame ==
    ASSUME NEW f, NEW g, NEW S, IsFiniteSet(S), \A x \in S : f[x] \in Int /\ g[x] = f[x]
    PROVE  SumFunctionOnSet(f, S) = SumFunctionOnSet(g, S)
  <1>1. PICK it \in [SUBSET S -> Int] : SumsTo(it, f, S) /\ SumFunctionOnSet(f, S) = it[S]
    BY SumRecursion
  <1>2. PICK jt \in [SUBSET S -> Int] : SumsTo(jt, g, S) /\ SumFunctionOnSet(g, S) = jt[S]
    <2>1. \A x \in S : g[x] \in Int
      OBVIOUS
    <2> QED
      BY <2>1, SumRecursion
  <1> QED
    BY <1>1, <1>2, SumUnique

\* A summand can be taken out of a sum, whichever it is.
LEMMA SumTake ==
    ASSUME NEW f, NEW S, IsFiniteSet(S), \A x \in S : f[x] \in Int, NEW x \in S
    PROVE  SumFunctionOnSet(f, S) = f[x] + SumFunctionOnSet(f, S \ {x})
  <1> DEFINE sum(s) == SumFunctionOnSet(f, s)
  <1>1. \A s \in SUBSET S : /\ sum(s) \in Int
                            /\ s # {} => Picked(s) \in s /\ sum(s) = f[Picked(s)] + sum(s \ {Picked(s)})
    BY SumStep, FS_Subset
  <1> HIDE DEF sum
  <1> DEFINE Bad == {s \in SUBSET S : \E y \in s : sum(s) # f[y] + sum(s \ {y})}
  <1> SUFFICES ASSUME Bad # {} PROVE FALSE
    BY DEF sum
  <1>2. PICK s \in Bad : \A y \in s : s \ {y} \notin Bad
    BY SmallestSubset
  <1>3. PICK y \in s : sum(s) # f[y] + sum(s \ {y})
    OBVIOUS
  <1> DEFINE a == Picked(s)
  <1>4. a \in s /\ sum(s) = f[a] + sum(s \ {a})
    BY <1>1, <1>3
  <1>5. a # y
    BY <1>3, <1>4
  <1>6. sum(s \ {a}) = f[y] + sum((s \ {a}) \ {y})
    BY <1>2, <1>4, <1>5
  <1>7. sum(s \ {y}) = f[a] + sum((s \ {y}) \ {a})
    BY <1>2, <1>3, <1>4, <1>5
  <1>8. (s \ {a}) \ {y} = (s \ {y}) \ {a}
    OBVIOUS
  <1>9. f[a] \in Int /\ f[y] \in Int /\ sum((s \ {y}) \ {a}) \in Int
    BY <1>1, <1>4
  <1>10. PICK rest \in Int : rest = sum((s \ {y}) \ {a})
    BY <1>9
  <1>11. sum(s) = f[a] + (f[y] + rest) /\ sum(s \ {y}) = f[a] + rest
    BY <1>4, <1>6, <1>7, <1>8, <1>10
  <1>12. f[a] + (f[y] + rest) = f[y] + (f[a] + rest)
    BY <1>9
  <1> QED
    BY <1>3, <1>11, <1>12

\* A set with one member more sums to the new summand more.
LEMMA SumAdd ==
    ASSUME NEW f, NEW S, IsFiniteSet(S), NEW x, x \notin S, \A y \in S \cup {x} : f[y] \in Int
    PROVE  SumFunctionOnSet(f, S \cup {x}) = f[x] + SumFunctionOnSet(f, S)
  <1>1. IsFiniteSet(S \cup {x})
    BY FS_AddElement
  <1>2. (S \cup {x}) \ {x} = S
    OBVIOUS
  <1>3. SumFunctionOnSet(f, S \cup {x}) = f[x] + SumFunctionOnSet(f, (S \cup {x}) \ {x})
    BY <1>1, SumTake
  <1> QED
    BY <1>2, <1>3

-----------------------------------------------------------------------------
\* Induction: what holds of nothing, and of every next one, holds of all.

\* Induction on the size of a finite set: what holds of {} and is kept by one more
\* member holds of every subset.
LEMMA SubsetInduction ==
    ASSUME NEW D, IsFiniteSet(D), NEW T, {} \in T,
           \A s \in SUBSET D : \A x \in D \ s : s \in T => s \cup {x} \in T
    PROVE  \A s \in SUBSET D : s \in T
  <1> DEFINE Bad == {s \in SUBSET D : s \notin T}
  <1> SUFFICES ASSUME Bad # {} PROVE FALSE
    OBVIOUS
  <1>1. PICK s \in Bad : \A x \in s : s \ {x} \notin Bad
    BY SmallestSubset
  <1>2. PICK x \in s : TRUE
    OBVIOUS
  <1> DEFINE r == s \ {x}
  <1>3. r \in SUBSET D /\ x \in D \ r /\ r \cup {x} = s
    BY <1>2
  <1>4. r \in T
    BY <1>1, <1>2
  <1> HIDE DEF r
  <1>5. r \cup {x} \in T
    BY <1>3, <1>4
  <1> QED
    BY <1>3, <1>5

\* Induction on numbers up to n.
LEMMA CountInduction ==
    ASSUME NEW n \in Nat, NEW T, 0 \in T, \A k \in 1 .. n : k - 1 \in T => k \in T
    PROVE  \A k \in 0 .. n : k \in T
  <1> DEFINE Bad == {k \in 0 .. n : k \notin T}
  <1> SUFFICES ASSUME Bad # {} PROVE FALSE
    OBVIOUS
  <1>0. Bad \in SUBSET Nat
    OBVIOUS
  <1>1. PICK k \in Bad : \A m \in Bad : k <= m
    <2> HIDE DEF Bad
    <2> QED
      BY <1>0, LeastNatural
  <1>2. k \in 1 .. n /\ k - 1 \in 0 .. n
    OBVIOUS
  <1>3. k - 1 \in T
    BY <1>1, <1>2
  <1> QED
    BY <1>2, <1>3

-----------------------------------------------------------------------------
\* Summands that are nowhere negative sum to something that is not.
LEMMA SumNat ==
    ASSUME NEW f, NEW S, IsFiniteSet(S), \A x \in S : f[x] \in Nat
    PROVE  SumFunctionOnSet(f, S) \in Nat
  <1> DEFINE T == {s \in SUBSET S : SumFunctionOnSet(f, s) \in Nat}
  <1>1. {} \in T
    BY SumEmpty
  <1>2. ASSUME NEW s \in SUBSET S, NEW x \in S \ s, s \in T PROVE s \cup {x} \in T
    <2>1. IsFiniteSet(s) /\ \A y \in s \cup {x} : f[y] \in Int
      BY FS_Subset
    <2>2. SumFunctionOnSet(f, s \cup {x}) = f[x] + SumFunctionOnSet(f, s)
      BY <2>1, SumAdd
    <2> QED
      BY <1>2, <2>2
  <1> HIDE DEF T
  <1>3. S \in T
    BY <1>1, <1>2, SubsetInduction
  <1> QED
    BY <1>3 DEF T

\* Changing one summand changes the sum by as much.
LEMMA SumChange ==
    ASSUME NEW f, NEW g, NEW R, IsFiniteSet(R), NEW x, x \notin R,
           \A y \in R : f[y] \in Int /\ g[y] = f[y], f[x] \in Int, g[x] \in Int
    PROVE  \E a \in Int : /\ SumFunctionOnSet(f, R \cup {x}) = f[x] + a
                          /\ SumFunctionOnSet(g, R \cup {x}) = g[x] + a
  <1>1. SumFunctionOnSet(f, R) = SumFunctionOnSet(g, R) /\ SumFunctionOnSet(f, R) \in Int
    BY SumSame, SumType
  <1>2. SumFunctionOnSet(f, R \cup {x}) = f[x] + SumFunctionOnSet(f, R)
    BY SumAdd
  <1>3. SumFunctionOnSet(g, R \cup {x}) = g[x] + SumFunctionOnSet(g, R)
    BY SumAdd
  <1> QED
    BY <1>1, <1>2, <1>3

\* Sums of two sets with nothing in common add up.
LEMMA SumUnion ==
    ASSUME NEW f, NEW S, NEW U, IsFiniteSet(S), IsFiniteSet(U), S \cap U = {},
           \A x \in S \cup U : f[x] \in Int
    PROVE  SumFunctionOnSet(f, S \cup U) = SumFunctionOnSet(f, S) + SumFunctionOnSet(f, U)
  <1> DEFINE T == {s \in SUBSET U :
                     SumFunctionOnSet(f, S \cup s) = SumFunctionOnSet(f, S) + SumFunctionOnSet(f, s)}
  <1>0. SumFunctionOnSet(f, S) \in Int
    BY SumType
  <1>1. {} \in T
    <2>1. S \cup {} = S
      OBVIOUS
    <2> QED
      BY <1>0, <2>1, SumEmpty
  <1>2. ASSUME NEW s \in SUBSET U, NEW x \in U \ s, s \in T PROVE s \cup {x} \in T
    <2>1. IsFiniteSet(s) /\ IsFiniteSet(S \cup s) /\ x \notin S \cup s
      BY FS_Subset, FS_Union
    <2>2. \A y \in (S \cup s) \cup {x} : f[y] \in Int
      OBVIOUS
    <2>3. SumFunctionOnSet(f, s \cup {x}) = f[x] + SumFunctionOnSet(f, s)
      BY <2>1, <2>2, SumAdd
    <2>4. SumFunctionOnSet(f, (S \cup s) \cup {x}) = f[x] + SumFunctionOnSet(f, S \cup s)
      BY <2>1, <2>2, SumAdd
    <2>5. (S \cup s) \cup {x} = S \cup (s \cup {x})
      OBVIOUS
    <2>6. f[x] \in Int /\ SumFunctionOnSet(f, s) \in Int
      BY <2>1, SumType
    <2>7. SumFunctionOnSet(f, S \cup s) = SumFunctionOnSet(f, S) + SumFunctionOnSet(f, s)
      BY <1>2
    <2>8. PICK a \in Int, b \in Int : a = SumFunctionOnSet(f, S) /\ b = SumFunctionOnSet(f, s)
      BY <1>0, <2>6
    <2>9. SumFunctionOnSet(f, S \cup (s \cup {x})) = f[x] + (a + b)
      BY <2>4, <2>5, <2>7, <2>8
    <2>10. SumFunctionOnSet(f, S \cup (s \cup {x}))
             = SumFunctionOnSet(f, S) + SumFunctionOnSet(f, s \cup {x})
      BY <2>3, <2>6, <2>8, <2>9
    <2> QED
      BY <2>10
  <1> HIDE DEF T
  <1>3. U \in T
    BY <1>1, <1>2, SubsetInduction
  <1> QED
    BY <1>3 DEF T

\* Summands that are nowhere larger sum to no more, and to less when one is less.
LEMMA SumMonotonic ==
    ASSUME NEW f, NEW g, NEW S, IsFiniteSet(S),
           \A x \in S : f[x] \in Int /\ g[x] \in Int /\ f[x] <= g[x]
    PROVE  SumFunctionOnSet(f, S) <= SumFunctionOnSet(g, S)
  <1> DEFINE T == {s \in SUBSET S : SumFunctionOnSet(f, s) <= SumFunctionOnSet(g, s)}
  <1>1. {} \in T
    BY SumEmpty
  <1>2. ASSUME NEW s \in SUBSET S, NEW x \in S \ s, s \in T PROVE s \cup {x} \in T
    <2>1. IsFiniteSet(s) /\ \A y \in s \cup {x} : f[y] \in Int /\ g[y] \in Int
      BY FS_Subset
    <2>2. SumFunctionOnSet(f, s \cup {x}) = f[x] + SumFunctionOnSet(f, s)
      BY <2>1, SumAdd
    <2>3. SumFunctionOnSet(g, s \cup {x}) = g[x] + SumFunctionOnSet(g, s)
      BY <2>1, SumAdd
    <2>4. SumFunctionOnSet(f, s) \in Int /\ SumFunctionOnSet(g, s) \in Int
      BY <2>1, SumType
    <2>5. f[x] \in Int /\ g[x] \in Int /\ f[x] <= g[x]
      OBVIOUS
    <2>6. SumFunctionOnSet(f, s) <= SumFunctionOnSet(g, s)
      BY <1>2
    <2> QED
      BY <2>2, <2>3, <2>4, <2>5, <2>6
  <1> HIDE DEF T
  <1>3. S \in T
    BY <1>1, <1>2, SubsetInduction
  <1> QED
    BY <1>3 DEF T

\* One term that is strictly larger makes it strictly larger.
LEMMA SumStrictlyMonotonic ==
    ASSUME NEW f, NEW g, NEW S, IsFiniteSet(S),
           \A x \in S : f[x] \in Int /\ g[x] \in Int /\ f[x] <= g[x],
           NEW x \in S, f[x] < g[x]
    PROVE  SumFunctionOnSet(f, S) < SumFunctionOnSet(g, S)
  <1> DEFINE R == S \ {x}
  <1>1. IsFiniteSet(R) /\ \A y \in R : f[y] \in Int /\ g[y] \in Int /\ f[y] <= g[y]
    BY FS_Subset
  <1>2. SumFunctionOnSet(f, S) = f[x] + SumFunctionOnSet(f, R)
    BY SumTake
  <1>3. SumFunctionOnSet(g, S) = g[x] + SumFunctionOnSet(g, R)
    BY SumTake
  <1> HIDE DEF R
  <1>4. SumFunctionOnSet(f, R) <= SumFunctionOnSet(g, R)
        /\ SumFunctionOnSet(f, R) \in Int /\ SumFunctionOnSet(g, R) \in Int
    BY <1>1, SumMonotonic, SumType
  <1> QED
    BY <1>2, <1>3, <1>4

\* Sums of one set add up summand by summand.
LEMMA SumPointwise ==
    ASSUME NEW f, NEW g, NEW h, NEW S, IsFiniteSet(S),
           \A x \in S : f[x] \in Int /\ g[x] \in Int /\ h[x] = f[x] + g[x]
    PROVE  SumFunctionOnSet(h, S) = SumFunctionOnSet(f, S) + SumFunctionOnSet(g, S)
  <1> DEFINE T == {s \in SUBSET S :
                     SumFunctionOnSet(h, s) = SumFunctionOnSet(f, s) + SumFunctionOnSet(g, s)}
  <1>1. {} \in T
    BY SumEmpty
  <1>2. ASSUME NEW s \in SUBSET S, NEW x \in S \ s, s \in T PROVE s \cup {x} \in T
    <2>1. IsFiniteSet(s) /\ \A y \in s \cup {x} : f[y] \in Int /\ g[y] \in Int /\ h[y] \in Int
      BY FS_Subset
    <2>2. SumFunctionOnSet(f, s \cup {x}) = f[x] + SumFunctionOnSet(f, s)
      BY <2>1, SumAdd
    <2>3. SumFunctionOnSet(g, s \cup {x}) = g[x] + SumFunctionOnSet(g, s)
      BY <2>1, SumAdd
    <2>4. SumFunctionOnSet(h, s \cup {x}) = h[x] + SumFunctionOnSet(h, s)
      BY <2>1, SumAdd
    <2>5. SumFunctionOnSet(f, s) \in Int /\ SumFunctionOnSet(g, s) \in Int
      BY <2>1, SumType
    <2>6. f[x] \in Int /\ g[x] \in Int /\ h[x] = f[x] + g[x]
      OBVIOUS
    <2>7. SumFunctionOnSet(h, s) = SumFunctionOnSet(f, s) + SumFunctionOnSet(g, s)
      BY <1>2
    <2> QED
      BY <2>2, <2>3, <2>4, <2>5, <2>6, <2>7
  <1> HIDE DEF T
  <1>3. S \in T
    BY <1>1, <1>2, SubsetInduction
  <1> QED
    BY <1>3 DEF T

\* Counting a set by the keys of its members.
LEMMA SumOfFibers ==
    ASSUME NEW S, IsFiniteSet(S), NEW K, IsFiniteSet(K), NEW key, \A x \in S : key[x] \in K
    PROVE  SumFunctionOnSet([k \in K |-> Cardinality({x \in S : key[x] = k})], K) = Cardinality(S)
  <1> DEFINE fiber(s) == [k \in K |-> Cardinality({x \in s : key[x] = k})]
  <1> DEFINE T == {s \in SUBSET S : SumFunctionOnSet(fiber(s), K) = Cardinality(s)}
  <1>0. \A s \in SUBSET S : \A k \in K : /\ IsFiniteSet({x \in s : key[x] = k})
                                         /\ fiber(s)[k] \in Nat
    BY FS_Subset, FS_CardinalityType
  <1>1. {} \in T
    <2>1. \A k \in K : fiber({})[k] = 0
      <3>1. \A k \in K : {x \in {} : key[x] = k} = {}
        OBVIOUS
      <3> QED
        BY <3>1, FS_EmptySet
    <2> DEFINE zero == fiber({})
    <2> DEFINE Z == {s \in SUBSET K : SumFunctionOnSet(zero, s) = 0}
    <2>2. {} \in Z
      BY SumEmpty
    <2>3. ASSUME NEW s \in SUBSET K, NEW k \in K \ s, s \in Z PROVE s \cup {k} \in Z
      <3>1. IsFiniteSet(s) /\ \A y \in s \cup {k} : zero[y] \in Int
        BY <2>1, FS_Subset
      <3>2. SumFunctionOnSet(zero, s \cup {k}) = zero[k] + SumFunctionOnSet(zero, s)
        BY <3>1, SumAdd
      <3> QED
        BY <2>1, <2>3, <3>2
    <2>4. K \in Z
      <3> HIDE DEF Z
      <3> QED
        BY <2>2, <2>3, SubsetInduction
    <2> QED
      BY <2>4, FS_EmptySet
  <1>2. ASSUME NEW s \in SUBSET S, NEW x \in S \ s, s \in T PROVE s \cup {x} \in T
    <2> DEFINE f == fiber(s)
    <2> DEFINE g == fiber(s \cup {x})
    <2>1. \A k \in K : f[k] \in Nat /\ g[k] \in Nat
      BY <1>0
    <2>2. \A k \in K \ {key[x]} : g[k] = f[k]
      <3>1. ASSUME NEW k \in K \ {key[x]} PROVE {y \in s \cup {x} : key[y] = k} = {y \in s : key[y] = k}
        OBVIOUS
      <3> QED
        BY <3>1
    <2>3. key[x] \in K /\ g[key[x]] = f[key[x]] + 1
      <3>1. {y \in s \cup {x} : key[y] = key[x]} = {y \in s : key[y] = key[x]} \cup {x}
        OBVIOUS
      <3>2. x \notin {y \in s : key[y] = key[x]}
        OBVIOUS
      <3> DEFINE a == {y \in s : key[y] = key[x]}
      <3>3. IsFiniteSet(a) /\ key[x] \in K
        BY <1>0
      <3>4. f[key[x]] = Cardinality(a) /\ g[key[x]] = Cardinality(a \cup {x})
        BY <3>1, <3>3
      <3> HIDE DEF a, f, g
      <3>5. x \notin a
        BY <3>2 DEF a
      <3> QED
        BY <3>3, <3>4, <3>5, FS_AddElement
    <2>4. Cardinality(s \cup {x}) = Cardinality(s) + 1
      BY FS_AddElement, FS_Subset
    <2>5. Cardinality(s) \in Nat /\ SumFunctionOnSet(f, K) = Cardinality(s)
      BY <1>2, FS_Subset, FS_CardinalityType
    <2> HIDE DEF f, g
    <2> DEFINE R == K \ {key[x]}
    <2>8. IsFiniteSet(R) /\ key[x] \notin R /\ K = R \cup {key[x]}
      BY <2>3, FS_Subset
    <2>9. \A k \in R : f[k] \in Int /\ g[k] = f[k]
      BY <2>1, <2>2
    <2>10. f[key[x]] \in Int /\ g[key[x]] \in Int
      BY <2>1, <2>3
    <2> HIDE DEF R
    <2>6. PICK a \in Int : SumFunctionOnSet(f, K) = f[key[x]] + a /\ SumFunctionOnSet(g, K) = g[key[x]] + a
      BY <2>8, <2>9, <2>10, SumChange
    <2>7. SumFunctionOnSet(g, K) = Cardinality(s \cup {x})
      BY <2>1, <2>3, <2>4, <2>5, <2>6
    <2> QED
      BY <2>7 DEF g
  <1> HIDE DEF T
  <1>3. S \in T
    BY <1>1, <1>2, SubsetInduction
  <1> QED
    BY <1>3 DEF T

\* Every member of the one set is another's name, and the amounts go by the names.
Renaming(name, S, R) ==
    /\ \A x \in S : name[x] \in R
    /\ \A y \in R : \E x \in S : name[x] = y
    /\ \A x, y \in S : name[x] = name[y] => x = y

Renamed(f, g, name, S) == \A x \in S : f[x] \in Int /\ g[name[x]] = f[x]

\* Renaming the members of a set without confusing two of them keeps the sum.
LEMMA SumRenamed ==
    ASSUME NEW S, IsFiniteSet(S), NEW R, NEW name, Renaming(name, S, R),
           NEW f, NEW g, Renamed(f, g, name, S)
    PROVE  IsFiniteSet(R) /\ SumFunctionOnSet(g, R) = SumFunctionOnSet(f, S)
  <1>0. /\ \A x \in S : name[x] \in R
        /\ \A y \in R : \E x \in S : name[x] = y
        /\ \A x, y \in S : name[x] = name[y] => x = y
        /\ \A x \in S : f[x] \in Int /\ g[name[x]] = f[x]
    BY DEF Renaming, Renamed
  <1> DEFINE Image(s) == {name[x] : x \in s}
  <1> DEFINE T == {s \in SUBSET S : /\ IsFiniteSet(Image(s))
                                    /\ SumFunctionOnSet(g, Image(s)) = SumFunctionOnSet(f, s)}
  <1>1. {} \in T
    <2>1. Image({}) = {}
      OBVIOUS
    <2> QED
      BY <2>1, SumEmpty, FS_EmptySet
  <1>2. ASSUME NEW s \in SUBSET S, NEW x \in S \ s, s \in T PROVE s \cup {x} \in T
    <2>1. Image(s \cup {x}) = Image(s) \cup {name[x]} /\ name[x] \notin Image(s)
      BY <1>0
    <2>2. IsFiniteSet(s) /\ IsFiniteSet(Image(s)) /\ IsFiniteSet(Image(s) \cup {name[x]})
      BY <1>2, FS_Subset, FS_AddElement
    <2>3. /\ \A y \in s \cup {x} : f[y] \in Int
          /\ \A y \in Image(s) \cup {name[x]} : g[y] \in Int
      BY <1>0
    <2>4. SumFunctionOnSet(f, s \cup {x}) = f[x] + SumFunctionOnSet(f, s)
      BY <2>2, <2>3, SumAdd
    <2>5. SumFunctionOnSet(g, Image(s) \cup {name[x]}) = g[name[x]] + SumFunctionOnSet(g, Image(s))
      <3> HIDE DEF Image
      <3> QED
        BY <2>1, <2>2, <2>3, SumAdd
    <2>6. g[name[x]] = f[x] /\ SumFunctionOnSet(g, Image(s)) = SumFunctionOnSet(f, s)
      BY <1>0, <1>2
    <2> QED
      BY <2>1, <2>2, <2>4, <2>5, <2>6
  <1> HIDE DEF T
  <1>3. S \in T
    BY <1>1, <1>2, SubsetInduction
  <1>4. Image(S) = R
    BY <1>0
  <1> QED
    BY <1>3, <1>4 DEF T

-----------------------------------------------------------------------------
\* A fold over a sequence goes through its places from the first to the last.

\* Max finds the largest of some places of a sequence.
LEMMA LargestPlace ==
    ASSUME NEW n \in Nat, NEW s \in SUBSET (1 .. n), s # {}
    PROVE  Max(s) \in s /\ \A k \in s : k <= Max(s)
  <1> DEFINE T == {n - k : k \in s}
  <1>1. T \in SUBSET Nat
    <2> SUFFICES ASSUME NEW k \in s PROVE n - k \in Nat
      OBVIOUS
    <2>1. k \in 1 .. n
      OBVIOUS
    <2> QED
      BY <2>1
  <1>4. T # {}
    OBVIOUS
  <1>2. PICK d \in T : \A e \in T : d <= e
    <2> HIDE DEF T
    <2> QED
      BY <1>1, <1>4, LeastNatural
  <1>3. PICK m \in s : d = n - m
    OBVIOUS
  <1>5. ASSUME NEW k \in s PROVE m >= k
    <2>1. n - k \in T
      OBVIOUS
    <2>2. k \in 1 .. n /\ m \in 1 .. n
      OBVIOUS
    <2>3. n - m <= n - k
      BY <1>2, <1>3, <2>1
    <2> QED
      BY <2>2, <2>3
  <1>6. Max(s) \in s /\ \A k \in s : Max(s) >= k
    BY <1>5 DEF Max
  <1> QED
    BY <1>6

\* Of the first k places, the last is k.
LEMMA LastPlace ==
    ASSUME NEW k \in Nat, k > 0
    PROVE  Max(1 .. k) = k /\ (1 .. k) \ {k} = 1 .. k - 1 /\ (1 .. k) # {}
  <1>1. Max(1 .. k) \in 1 .. k /\ \A j \in 1 .. k : j <= Max(1 .. k)
    <2>1. (1 .. k) \in SUBSET (1 .. k)
      OBVIOUS
    <2>2. k \in 1 .. k
      OBVIOUS
    <2>3. (1 .. k) # {}
      BY <2>2
    <2> QED
      BY <2>1, <2>3, LargestPlace
  <1>2. k \in 1 .. k
    OBVIOUS
  <1>3. Max(1 .. k) = k
    <2>1. PICK m \in 1 .. k : m = Max(1 .. k)
      BY <1>1
    <2>2. k <= m
      BY <1>1, <1>2, <2>1
    <2> QED
      BY <2>1, <2>2
  <1> QED
    BY <1>2, <1>3

\* The table it holds the values of such a fold on the sets of places it has gone by.
SeqFoldsTo(it, n, base, step) ==
    /\ it[{}] = base
    /\ \A s \in SUBSET (1 .. n) : s # {} => it[s] = step[<<it[s \ {Max(s)}], Max(s)>>]

\* The recursion of a fold over a sequence of n members has a solution.
LEMMA FoldLeftExists ==
    ASSUME NEW n \in Nat, NEW A, NEW base \in A, NEW step \in [A \X (1 .. n) -> A]
    PROVE  \E it \in [SUBSET (1 .. n) -> A] : SeqFoldsTo(it, n, base, step)
  <1> DEFINE D == 1 .. n
  <1> DEFINE pick == [s \in SUBSET D |-> Max(s)]
  <1>1. IsFiniteSet(D) /\ \A s \in SUBSET D : s # {} => pick[s] \in s
    <2>1. 1 \in Int /\ n \in Int
      OBVIOUS
    <2>2. IsFiniteSet(D)
      BY <2>1, FS_Interval
    <2>3. ASSUME NEW s \in SUBSET D, s # {} PROVE pick[s] \in s
      BY <2>3, LargestPlace
    <2> QED
      BY <2>2, <2>3
  <1>2. \E it \in [SUBSET D -> A] : FoldsTo(it, D, base, step, pick)
    <2> HIDE DEF D, pick
    <2> QED
      BY <1>1, FoldExists DEF D
  <1>3. PICK it \in [SUBSET D -> A] : FoldsTo(it, D, base, step, pick)
    BY <1>2
  <1>4. it[{}] = base
    BY <1>3 DEF FoldsTo
  <1>5. ASSUME NEW s \in SUBSET D, s # {} PROVE it[s] = step[<<it[s \ {Max(s)}], Max(s)>>]
    <2>1. it[s] = step[<<it[s \ {pick[s]}], pick[s]>>]
      BY <1>3, <1>5 DEF FoldsTo
    <2>2. pick[s] = Max(s)
      OBVIOUS
    <2> QED
      BY <2>1, <2>2
  <1> QED
    BY <1>4, <1>5 DEF SeqFoldsTo

\* The smaller of two numbers.
LEMMA MinOfTwo ==
    ASSUME NEW a \in Nat, NEW b \in Nat
    PROVE  /\ Min({a, b}) \in Nat /\ Min({a, b}) <= a /\ Min({a, b}) <= b
           /\ Min({a, b}) = a \/ Min({a, b}) = b
  <1>1. \E x \in {a, b} : \A y \in {a, b} : x <= y
    <2>1. CASE a <= b
      BY <2>1
    <2>2. CASE ~(a <= b)
      BY <2>2
    <2> QED
      BY <2>1, <2>2
  <1> QED
    BY <1>1 DEF Min

\* Min finds the least of some natural numbers.
LEMMA MinOfSome ==
    ASSUME NEW T \in SUBSET Nat, T # {}
    PROVE  Min(T) \in T /\ \A m \in T : Min(T) <= m
  <1>1. \E n \in T : \A m \in T : n <= m
    BY LeastNatural
  <1> QED
    BY <1>1 DEF Min

-----------------------------------------------------------------------------
(***************************************************************************)
(* Adding up the members of a sequence.                                    *)
(***************************************************************************)
SumOver(w, s) == SumFunctionOnSet([i \in 1 .. Len(s) |-> w[s[i]]], 1 .. Len(s))

\* What one stack adds to the total of an id, and to the room for it.
Amounts(id) == [x \in Stack |-> IF x.id = id THEN x.count ELSE 0]
Rooms(id)   == [x \in Stack |-> IF x.id = id /\ x.count > 0 THEN MaxCount[id] - x.count ELSE 0]

\* The places of a sequence are finitely many.
LEMMA PlacesFinite == ASSUME NEW n \in Nat PROVE IsFiniteSet(1 .. n) /\ Cardinality(1 .. n) = n
  <1>1. 1 \in Int /\ n \in Int
    OBVIOUS
  <1> QED
    BY <1>1, FS_Interval

\* The total of an id and the room for it are such sums.
LEMMA TotalIsSum ==
    ASSUME NEW s \in Seq(Stack), NEW id
    PROVE  TotalOf(s, id) = SumOver(Amounts(id), s) /\ RoomFor(s, id) = SumOver(Rooms(id), s)
  <1>1. \A i \in 1 .. Len(s) : s[i] \in Stack
    OBVIOUS
  <1>2. [i \in 1 .. Len(s) |-> IF s[i].id = id THEN s[i].count ELSE 0]
           = [i \in 1 .. Len(s) |-> Amounts(id)[s[i]]]
    BY <1>1 DEF Amounts
  <1>3. [i \in 1 .. Len(s) |-> IF s[i].id = id /\ s[i].count > 0 THEN MaxCount[id] - s[i].count ELSE 0]
           = [i \in 1 .. Len(s) |-> Rooms(id)[s[i]]]
    BY <1>1 DEF Rooms
  <1> QED
    BY <1>2, <1>3 DEF TotalOf, RoomFor, SumFunction, SumOver

\* What stacks add is a number.
LEMMA WeightTypes ==
    ASSUME NEW id \in Ids
    PROVE  Amounts(id) \in [Stack -> Int] /\ Rooms(id) \in [Stack -> Int]
  BY MaxCountAssumption DEF Amounts, Rooms, Stack

\* Such a sum is a number.
LEMMA SumOverType ==
    ASSUME NEW S, NEW w \in [S -> Int], NEW s \in Seq(S)
    PROVE  SumOver(w, s) \in Int
  <1> DEFINE f == [i \in 1 .. Len(s) |-> w[s[i]]]
  <1>1. \A i \in 1 .. Len(s) : f[i] \in Int
    OBVIOUS
  <1>2. IsFiniteSet(1 .. Len(s))
    BY PlacesFinite
  <1> HIDE DEF f
  <1>3. SumFunctionOnSet(f, 1 .. Len(s)) \in Int
    BY <1>1, <1>2, SumType
  <1> QED
    BY <1>3 DEF SumOver, f

\* Nothing adds up to nothing.
LEMMA SumOverEmpty == ASSUME NEW w PROVE SumOver(w, <<>>) = 0
  <1>1. 1 .. Len(<<>>) = {}
    OBVIOUS
  <1> QED
    BY <1>1, SumEmpty DEF SumOver

\* One member more at the end.
LEMMA WeighedAppend ==
    ASSUME NEW S, NEW w \in [S -> Int], NEW s \in Seq(S), NEW x \in S
    PROVE  SumOver(w, Append(s, x)) = SumOver(w, s) + w[x]
  <1> DEFINE n == Len(s)
  <1> DEFINE D == 1 .. n
  <1> DEFINE f == [i \in D |-> w[s[i]]]
  <1> DEFINE t == Append(s, x)
  <1> DEFINE E == 1 .. n + 1
  <1> DEFINE g == [i \in E |-> w[t[i]]]
  <1>1. n \in Nat /\ Len(t) = n + 1 /\ t \in Seq(S) /\ t[n + 1] = x
        /\ \A i \in D : t[i] = s[i]
    OBVIOUS
  <1>2. \A i \in D : f[i] \in Int /\ g[i] = f[i]
    BY <1>1
  <1>3. g[n + 1] = w[x] /\ w[x] \in Int
    BY <1>1
  <1>4. SumOver(w, s) = SumFunctionOnSet(f, D) /\ SumOver(w, t) = SumFunctionOnSet(g, E)
    BY <1>1 DEF SumOver
  <1>5. IsFiniteSet(D) /\ n + 1 \notin D /\ E = D \cup {n + 1}
    BY <1>1, PlacesFinite
  <1> HIDE DEF n, f, g, D, E, t
  <1>6. SumFunctionOnSet(g, D) = SumFunctionOnSet(f, D)
    BY <1>2, <1>5, SumSame
  <1>9. SumFunctionOnSet(f, D) \in Int
    BY <1>2, <1>5, SumType
  <1>7. \A i \in D \cup {n + 1} : g[i] \in Int
    BY <1>2, <1>3
  <1>8. SumFunctionOnSet(g, D \cup {n + 1}) = g[n + 1] + SumFunctionOnSet(g, D)
    BY <1>5, <1>7, SumAdd
  <1>11. PICK a \in Int : a = SumFunctionOnSet(f, D)
    BY <1>9
  <1>12. SumOver(w, s) = a /\ SumOver(w, t) = w[x] + a
    BY <1>3, <1>4, <1>5, <1>6, <1>8, <1>11
  <1>10. SumOver(w, t) = SumOver(w, s) + w[x]
    BY <1>3, <1>12
  <1> QED
    BY <1>10 DEF t

\* One stack more at the end.
LEMMA SumOverAppend ==
    ASSUME NEW w \in [Stack -> Int], NEW s \in Seq(Stack), NEW x \in Stack
    PROVE  SumOver(w, Append(s, x)) = SumOver(w, s) + w[x]
  BY WeighedAppend

\* t is s but for the member at place i, and w weighs the members of both.
ChangedAt(i, w, s, t, n) ==
    /\ Len(s) = n /\ Len(t) = n
    /\ \A j \in 1 .. n : w[s[j]] \in Int /\ w[t[j]] \in Int
    /\ \A j \in 1 .. n : j # i => t[j] = s[j]

\* One member in place of another.
LEMMA WeighedChange ==
    ASSUME NEW w, NEW n \in Nat, NEW s, NEW t, NEW i \in 1 .. n, ChangedAt(i, w, s, t, n)
    PROVE  SumOver(w, t) = SumOver(w, s) - w[s[i]] + w[t[i]]
  <1> DEFINE D == 1 .. n
  <1> DEFINE f == [j \in D |-> w[s[j]]]
  <1> DEFINE g == [j \in D |-> w[t[j]]]
  <1>11. /\ Len(s) = n /\ Len(t) = n
         /\ \A j \in D : w[s[j]] \in Int /\ w[t[j]] \in Int
         /\ \A j \in D : j # i => t[j] = s[j]
    BY DEF ChangedAt
  <1>1. i \in D /\ \A j \in D \ {i} : t[j] = s[j]
    BY <1>11
  <1>2. SumOver(w, s) = SumFunctionOnSet(f, D) /\ SumOver(w, t) = SumFunctionOnSet(g, D)
    BY <1>11 DEF SumOver
  <1> DEFINE R == D \ {i}
  <1>3. \A j \in D : f[j] \in Int /\ g[j] \in Int
    BY <1>11
  <1>4. \A j \in R : g[j] = f[j]
    BY <1>1
  <1>5. f[i] = w[s[i]] /\ g[i] = w[t[i]] /\ w[s[i]] \in Int /\ w[t[i]] \in Int
    BY <1>1, <1>11
  <1>6. IsFiniteSet(D) /\ i \in D /\ R = D \ {i}
    BY PlacesFinite
  <1> HIDE DEF f, g, D, R
  <1>7. \E a \in Int : SumFunctionOnSet(f, D) = f[i] + a /\ SumFunctionOnSet(g, D) = g[i] + a
    <2>1. IsFiniteSet(R) /\ i \notin R /\ D = R \cup {i}
      BY <1>6, FS_Subset
    <2>2. \A j \in R \cup {i} : f[j] \in Int
      BY <1>3, <2>1
    <2>3. \A j \in R \cup {i} : g[j] \in Int
      BY <1>3, <2>1
    <2>4. SumFunctionOnSet(f, R \cup {i}) = f[i] + SumFunctionOnSet(f, R)
      BY <2>1, <2>2, SumAdd
    <2>5. SumFunctionOnSet(g, R \cup {i}) = g[i] + SumFunctionOnSet(g, R)
      BY <2>1, <2>3, SumAdd
    <2>6. \A j \in R : f[j] \in Int /\ g[j] = f[j]
      BY <1>4, <2>2
    <2>7. SumFunctionOnSet(f, R) = SumFunctionOnSet(g, R) /\ SumFunctionOnSet(f, R) \in Int
      BY <2>1, <2>6, SumSame, SumType
    <2> QED
      BY <2>1, <2>4, <2>5, <2>7
  <1>8. PICK a \in Int : SumFunctionOnSet(f, D) = f[i] + a /\ SumFunctionOnSet(g, D) = g[i] + a
    BY <1>7
  <1>9. SumOver(w, s) = w[s[i]] + a /\ SumOver(w, t) = w[t[i]] + a
    BY <1>2, <1>5, <1>8
  <1> QED
    BY <1>5, <1>9

\* One stack in place of another.
LEMMA SumOverChange ==
    ASSUME NEW w \in [Stack -> Int], NEW n \in Nat, NEW s \in [1 .. n -> Stack],
           NEW i \in 1 .. n, NEW x \in Stack, NEW t, t = [s EXCEPT ![i] = x]
    PROVE  SumOver(w, t) = SumOver(w, s) - w[s[i]] + w[x]
  <1>1. t[i] = x /\ ChangedAt(i, w, s, t, n)
    BY DEF ChangedAt
  <1>2. n \in Nat /\ i \in 1 .. n
    OBVIOUS
  <1>3. SumOver(w, t) = SumOver(w, s) - w[s[i]] + w[t[i]]
    BY ONLY <1>1, <1>2, WeighedChange
  <1> QED
    BY ONLY <1>1, <1>3

-----------------------------------------------------------------------------
(***************************************************************************)
(* TopUp.                                                                  *)
(***************************************************************************)
Filling(n) == [stacks : [1 .. n -> Stack], left : Nat]

\* What has become of one stack when an item with so much left has, or has not yet,
\* come by it.
FilledStack(now, was, item, left, come) ==
    /\ now.id = was.id /\ now.pos = was.pos
    /\ now.count >= was.count
    /\ was.count <= MaxCount[was.id] => now.count <= MaxCount[was.id]
    /\ ~come \/ was.id # item.id => now = was
    /\ come /\ was.id = item.id /\ left > 0 => now.count >= MaxCount[was.id]

\* The stacks hold so much more of an id than they did, and have so much less room.
Grown(now, was, id, more) ==
    /\ SumOver(Amounts(id), now) = SumOver(Amounts(id), was) + more
    /\ (\A j \in DOMAIN was : was[j].count > 0)
          => SumOver(Rooms(id), now) = SumOver(Rooms(id), was) - more

\* What is missing from an item of which so much is left.
Gone(item, left, id) == IF id = item.id THEN item.count - left ELSE 0

\* What has become of all stacks when an item has come by the first k of them.
Filled(acc, stacks, n, item, k) ==
    /\ acc \in Filling(n) /\ acc.left <= item.count
    /\ \A j \in 1 .. n : FilledStack(acc.stacks[j], stacks[j], item, acc.left, j <= k)
    /\ \A id \in Ids : Grown(acc.stacks, stacks, id, Gone(item, acc.left, id))

\* So much of an item of this id has been put on the stack at place i.
PutOn(r, acc, i, id, put) ==
    LET s == acc.stacks[i]
    IN /\ s.id = id
       /\ put <= acc.left /\ put <= MaxCount[id] - s.count
       /\ put = acc.left \/ put = MaxCount[id] - s.count
       /\ r.left = acc.left - put
       /\ r.stacks = [acc.stacks EXCEPT ![i] =
                         [id |-> s.id, pos |-> s.pos, count |-> s.count + put]]

\* One stack is filled up, or left alone because it is full or of another id.
LEMMA TopUpOneStep ==
    ASSUME NEW n \in Nat, NEW acc \in Filling(n), NEW i \in 1 .. n, NEW id \in Ids,
           NEW r, r = TopUpOne(acc, i, id)
    PROVE  /\ r \in Filling(n)
           /\ \/ /\ r = acc
                 /\ ~(acc.stacks[i].id = id /\ acc.stacks[i].count < MaxCount[id])
              \/ \E put \in Nat : PutOn(r, acc, i, id, put)
  <1> DEFINE s == acc.stacks[i]
  <1> DEFINE put == Min({MaxCount[id] - s.count, acc.left})
  <1>1. s \in Stack /\ acc.left \in Nat /\ MaxCount[id] \in Nat
    BY MaxCountAssumption DEF Filling
  <1>2. CASE s.id = id /\ s.count < MaxCount[id]
    <2>1. MaxCount[id] - s.count \in Nat /\ s.count \in Nat
      BY <1>1, <1>2 DEF Stack
    <2>2. put \in Nat /\ put <= MaxCount[id] - s.count /\ put <= acc.left
          /\ (put = MaxCount[id] - s.count \/ put = acc.left)
      <3> DEFINE a == MaxCount[id] - s.count
      <3> DEFINE b == acc.left
      <3>1. a \in Nat /\ b \in Nat
        BY <1>1, <2>1
      <3> HIDE DEF a, b
      <3>2. /\ Min({a, b}) \in Nat /\ Min({a, b}) <= a /\ Min({a, b}) <= b
            /\ Min({a, b}) = a \/ Min({a, b}) = b
        BY <3>1, MinOfTwo
      <3> QED
        BY <3>2 DEF a, b
    <2>3. TopUpOne(acc, i, id) = [stacks |-> [acc.stacks EXCEPT ![i].count = @ + put], left |-> acc.left - put]
      BY <1>2 DEF TopUpOne
    <2> DEFINE t == [id |-> s.id, pos |-> s.pos, count |-> s.count + put]
    <2> HIDE DEF put
    <2>4. [acc.stacks EXCEPT ![i].count = @ + put] = [acc.stacks EXCEPT ![i] = t]
      BY <1>1 DEF Stack, Filling
    <2>5. t \in Stack /\ acc.left - put \in Nat
      BY <1>1, <2>1, <2>2 DEF Stack
    <2>6. [acc.stacks EXCEPT ![i] = t] \in [1 .. n -> Stack]
      BY <2>5 DEF Filling
    <2>8. r = [stacks |-> [acc.stacks EXCEPT ![i] = t], left |-> acc.left - put]
      BY <2>3, <2>4
    <2>7. r.left = acc.left - put /\ r.stacks = [acc.stacks EXCEPT ![i] = t] /\ r \in Filling(n)
      BY ONLY <2>5, <2>6, <2>8 DEF Filling
    <2> QED
      BY <1>2, <2>2, <2>7 DEF PutOn
  <1>3. CASE ~(s.id = id /\ s.count < MaxCount[id])
    BY <1>3 DEF TopUpOne
  <1> QED
    BY <1>2, <1>3

\* What one stack adds when more is put on it.
LEMMA WeightsGrow ==
    ASSUME NEW id \in Ids, NEW s \in Stack, NEW u \in Stack, NEW put \in Nat,
           u.id = s.id, u.count = s.count + put
    PROVE  LET more == IF id = s.id THEN put ELSE 0
           IN /\ Amounts(id)[u] = Amounts(id)[s] + more
              /\ s.count > 0 => Rooms(id)[u] = Rooms(id)[s] - more
  <1>1. s.count \in Nat /\ u.count \in Nat
    BY DEF Stack
  <1>2. MaxCount[id] \in Nat
    BY MaxCountAssumption
  <1>3. CASE id = s.id
    <2>1. Amounts(id)[u] = u.count /\ Amounts(id)[s] = s.count
      BY <1>3 DEF Amounts
    <2>2. s.count > 0 => u.count > 0
      BY <1>1
    <2>3. s.count > 0 => Rooms(id)[u] = MaxCount[id] - u.count /\ Rooms(id)[s] = MaxCount[id] - s.count
      BY <1>3, <2>2 DEF Rooms
    <2>4. s.count > 0 => Rooms(id)[u] = Rooms(id)[s] - put
      BY <1>1, <1>2, <2>3
    <2> QED
      BY <1>3, <2>1, <2>4
  <1>4. CASE id # s.id
    <2>1. Amounts(id)[u] = 0 /\ Amounts(id)[s] = 0 /\ Rooms(id)[u] = 0 /\ Rooms(id)[s] = 0
      BY <1>4 DEF Amounts, Rooms
    <2>2. Amounts(id)[u] = Amounts(id)[s] + 0 /\ Rooms(id)[u] = Rooms(id)[s] - 0
      BY <2>1
    <2> QED
      BY <1>4, <2>2
  <1> QED
    BY <1>3, <1>4

\* The sums when more is put on one of the stacks that still is as it was.
LEMMA GrownMore ==
    ASSUME NEW n \in Nat, NEW was \in [1 .. n -> Stack], NEW now \in [1 .. n -> Stack],
           NEW i \in 1 .. n, NEW u \in Stack, NEW put \in Nat, NEW id \in Ids, NEW g \in Int,
           Grown(now, was, id, g), now[i] = was[i], u.id = was[i].id,
           u.count = was[i].count + put, NEW t, t = [now EXCEPT ![i] = u]
    PROVE  Grown(t, was, id, g + (IF id = u.id THEN put ELSE 0))
  <1> DEFINE s == was[i]
  <1> DEFINE more == IF id = u.id THEN put ELSE 0
  <1>1. s \in Stack /\ now[i] = s /\ u.id = s.id /\ u.count = s.count + put
    OBVIOUS
  <1>2. was \in Seq(Stack) /\ now \in Seq(Stack)
    OBVIOUS
  <1>3. Amounts(id) \in [Stack -> Int] /\ Rooms(id) \in [Stack -> Int]
    BY WeightTypes
  <1> HIDE DEF s
  <1>20. ASSUME NEW w \in [Stack -> Int]
         PROVE  SumOver(w, t) = SumOver(w, now) - w[now[i]] + w[u]
    BY SumOverChange
  <1>4. SumOver(Amounts(id), t) = SumOver(Amounts(id), now) - Amounts(id)[now[i]] + Amounts(id)[u]
    BY ONLY <1>3, <1>20
  <1>5. SumOver(Rooms(id), t) = SumOver(Rooms(id), now) - Rooms(id)[now[i]] + Rooms(id)[u]
    BY ONLY <1>3, <1>20
  <1>6. more \in Int /\ Amounts(id)[u] = Amounts(id)[s] + more
        /\ (s.count > 0 => Rooms(id)[u] = Rooms(id)[s] - more)
    BY <1>1, WeightsGrow
  <1> HIDE DEF more
  <1>7. PICK a0 \in Int, r0 \in Int : a0 = SumOver(Amounts(id), was) /\ r0 = SumOver(Rooms(id), was)
    BY <1>2, <1>3, SumOverType
  <1>8. PICK a1 \in Int, r1 \in Int : a1 = SumOver(Amounts(id), now) /\ r1 = SumOver(Rooms(id), now)
    BY <1>2, <1>3, SumOverType
  <1>9. PICK as \in Int, rs \in Int, m \in Int : as = Amounts(id)[s] /\ rs = Rooms(id)[s] /\ m = more
    BY <1>1, <1>3, <1>6
  <1>10. SumOver(Amounts(id), t) = a0 + (g + more)
    <2>1. a1 = a0 + g
      BY <1>7, <1>8 DEF Grown
    <2>2. SumOver(Amounts(id), t) = a1 - as + (as + m)
      BY <1>1, <1>4, <1>6, <1>8, <1>9
    <2> QED
      BY <1>9, <2>1, <2>2
  <1>11. ASSUME \A j \in DOMAIN was : was[j].count > 0
         PROVE  SumOver(Rooms(id), t) = r0 - (g + more)
    <2>1. r1 = r0 - g
      BY <1>7, <1>8, <1>11 DEF Grown
    <2>2. s.count > 0
      BY <1>11 DEF s
    <2>3. SumOver(Rooms(id), t) = r1 - rs + (rs - m)
      BY <1>1, <1>5, <1>6, <1>8, <1>9, <2>2
    <2> QED
      BY <1>9, <2>1, <2>3
  <1> QED
    BY <1>7, <1>10, <1>11 DEF Grown, more

\* One more stack that the item comes by.
LEMMA FilledStep ==
    ASSUME NEW n \in Nat, NEW stacks \in [1 .. n -> Stack], NEW item \in Stack,
           NEW i \in 1 .. n, NEW acc, Filled(acc, stacks, n, item, i - 1)
    PROVE  Filled(TopUpOne(acc, i, item.id), stacks, n, item, i)
  <1> DEFINE s == acc.stacks[i]
  <1> DEFINE r == TopUpOne(acc, i, item.id)
  <1>1. acc \in Filling(n) /\ acc.left <= item.count
    BY DEF Filled
  <1>2. acc.stacks \in [1 .. n -> Stack] /\ acc.left \in Nat
    BY <1>1 DEF Filling
  <1>3. item.id \in Ids /\ item.count \in Nat
    BY DEF Stack
  <1>4. s \in Stack
    BY <1>2
  <1>5. s.count \in Nat /\ s.pos \in Nat /\ s.id \in Ids
    BY <1>4 DEF Stack
  <1>6. MaxCount[item.id] \in Nat
    BY <1>3, MaxCountAssumption
  <1>7. s = stacks[i]
    <2>1. FilledStack(s, stacks[i], item, acc.left, i <= i - 1)
      BY DEF Filled
    <2>2. ~(i <= i - 1)
      OBVIOUS
    <2> QED
      BY <2>1, <2>2 DEF FilledStack
  <1>8. \A j \in 1 .. n : FilledStack(acc.stacks[j], stacks[j], item, acc.left, j <= i - 1)
    BY DEF Filled
  <1>9. \A id \in Ids : Grown(acc.stacks, stacks, id, Gone(item, acc.left, id))
    BY DEF Filled
  <1> SUFFICES Filled(r, stacks, n, item, i)
    OBVIOUS
  <1>10. r = TopUpOne(acc, i, item.id)
    OBVIOUS
  <1> HIDE DEF r
  <1>13. /\ r \in Filling(n)
         /\ \/ r = acc /\ ~(s.id = item.id /\ s.count < MaxCount[item.id])
            \/ \E put \in Nat : PutOn(r, acc, i, item.id, put)
    BY <1>1, <1>3, <1>10, TopUpOneStep
  <1>11. CASE r = acc /\ ~(s.id = item.id /\ s.count < MaxCount[item.id])
    <2>1. ASSUME NEW j \in 1 .. n
          PROVE  FilledStack(acc.stacks[j], stacks[j], item, acc.left, j <= i)
      <3>1. CASE j = i
        <4>1. acc.stacks[j] = s /\ stacks[j] = s
          BY <1>7, <3>1
        <4>2. s.id = item.id => s.count >= MaxCount[s.id]
          BY <1>5, <1>6, <1>11
        <4> HIDE DEF s
        <4>3. FilledStack(s, s, item, acc.left, j <= i)
          BY <1>5, <3>1, <4>2 DEF FilledStack
        <4> QED
          BY <4>1, <4>3
      <3>2. CASE j # i
        <4>1. (j <= i) = (j <= i - 1)
          BY <3>2
        <4> QED
          BY <1>8, <4>1
      <3> QED
        BY <3>1, <3>2
    <2> QED
      BY <1>1, <1>9, <1>11, <2>1 DEF Filled
  <1>12. CASE \E put \in Nat : PutOn(r, acc, i, item.id, put)
    <2>10. PICK put \in Nat : PutOn(r, acc, i, item.id, put)
      BY <1>12
    <2>1. /\ s.id = item.id
          /\ put <= acc.left /\ put <= MaxCount[item.id] - s.count
          /\ put = acc.left \/ put = MaxCount[item.id] - s.count
          /\ r.left = acc.left - put
          /\ r.stacks = [acc.stacks EXCEPT ![i] =
                            [id |-> s.id, pos |-> s.pos, count |-> s.count + put]]
      BY <2>10 DEF PutOn
    <2> DEFINE u == [id |-> s.id, pos |-> s.pos, count |-> s.count + put]
    <2> HIDE DEF s
    <2>2. u \in Stack /\ u.id = s.id /\ u.pos = s.pos /\ u.count = s.count + put
      BY <1>5 DEF Stack
    <2>3. r.stacks = [acc.stacks EXCEPT ![i] = u]
      BY <2>1
    <2> HIDE DEF u
    <2>4. r.stacks[i] = u /\ \A j \in (1 .. n) \ {i} : r.stacks[j] = acc.stacks[j]
      BY <1>2, <2>3
    <2>5. r.left \in Nat /\ r.left <= item.count /\ r.left <= acc.left
      BY <1>1, <1>2, <1>3, <2>1
    <2>6. ASSUME NEW j \in 1 .. n
          PROVE  FilledStack(r.stacks[j], stacks[j], item, r.left, j <= i)
      <3>1. CASE j = i
        <4>1. r.stacks[j] = u /\ stacks[j] = s
          BY <1>7, <2>4, <3>1
        <4>2. r.left > 0 => put = MaxCount[item.id] - s.count
          BY <1>2, <2>1
        <4>3. u.count >= s.count /\ u.count <= MaxCount[item.id]
              /\ (r.left > 0 => u.count >= MaxCount[item.id])
          BY <1>5, <1>6, <2>1, <2>2, <4>2
        <4>4. FilledStack(u, s, item, r.left, TRUE)
          BY <2>1, <2>2, <4>3 DEF FilledStack
        <4>5. (j <= i) = TRUE
          BY <3>1
        <4> QED
          BY <4>1, <4>4, <4>5
      <3>2. CASE j # i
        <4>1. r.stacks[j] = acc.stacks[j]
          BY <2>4, <3>2
        <4>2. (j <= i) = (j <= i - 1)
          BY <3>2
        <4>3. r.left > 0 => acc.left > 0
          BY <1>2, <2>5
        <4>4. FilledStack(acc.stacks[j], stacks[j], item, acc.left, j <= i)
          BY <1>8, <4>2
        <4> QED
          BY <4>1, <4>3, <4>4 DEF FilledStack
      <3> QED
        BY <3>1, <3>2
    <2>7. stacks[i].id = item.id /\ acc.stacks[i] = stacks[i] /\ u.id = item.id
          /\ u.count = stacks[i].count + put
      BY <1>7, <2>1, <2>2 DEF s
    <2>8. r \in Filling(n) /\ r.left = acc.left - put
      BY <1>13, <2>1
    <2>9. ASSUME NEW id \in Ids PROVE Grown(r.stacks, stacks, id, Gone(item, r.left, id))
      <3> DEFINE g == Gone(item, acc.left, id)
      <3> DEFINE h == Gone(item, r.left, id)
      <3> DEFINE more == IF id = u.id THEN put ELSE 0
      <3>1. g \in Int /\ h = g + more
        BY <1>2, <1>3, <2>1, <2>7, <2>8 DEF Gone
      <3>2. Grown(acc.stacks, stacks, id, g) /\ u.id = stacks[i].id
        BY <1>9, <2>7
      <3> DEFINE now == acc.stacks
      <3> DEFINE t == r.stacks
      <3>3. now \in [1 .. n -> Stack] /\ t = [now EXCEPT ![i] = u] /\ now[i] = stacks[i]
        BY <1>2, <2>3, <2>7
      <3> HIDE DEF g, h, now, t
      <3>4. Grown(now, stacks, id, g)
        BY <3>2 DEF now
      <3>5. Grown(t, stacks, id, g + (IF id = u.id THEN put ELSE 0))
        BY <2>2, <2>7, <3>1, <3>2, <3>3, <3>4, GrownMore
      <3>6. Grown(t, stacks, id, h)
        BY <3>1, <3>5
      <3> QED
        BY <3>6 DEF t, h
    <2> QED
      BY <2>5, <2>6, <2>8, <2>9 DEF Filled
  <1> QED
    BY <1>11, <1>12, <1>13

\* The item comes by all stacks.
LEMMA TopUpFills ==
    ASSUME NEW stacks \in Seq(Stack), NEW item \in Stack
    PROVE  Filled(TopUp(stacks, item), stacks, Len(stacks), item, Len(stacks))
  <1> DEFINE n == Len(stacks)
  <1> DEFINE A == Filling(n)
  <1> DEFINE base == [stacks |-> stacks, left |-> item.count]
  <1> DEFINE step == [p \in A \X (1 .. n) |-> TopUpOne(p[1], p[2], item.id)]
  <1> DEFINE seq == [i \in 1 .. Len(stacks) |-> i]
  <1> DEFINE Fold(it) == it = [s \in SUBSET (DOMAIN seq) |->
                                 IF s = {} THEN base
                                 ELSE TopUpOne(it[s \ {Max(s)}], seq[Max(s)], item.id)]
  <1>1. n \in Nat /\ stacks \in [1 .. n -> Stack] /\ item.id \in Ids /\ item.count \in Nat
    <2>1. item.id \in Ids /\ item.count \in Nat
      BY DEF Stack
    <2>2. n \in Nat /\ stacks \in [1 .. n -> Stack]
      OBVIOUS
    <2> QED
      BY <2>1, <2>2
  <1>2. base \in A
    BY <1>1 DEF Filling
  <1>3. step \in [A \X (1 .. n) -> A]
    <2> SUFFICES ASSUME NEW acc \in A, NEW i \in 1 .. n PROVE TopUpOne(acc, i, item.id) \in A
      OBVIOUS
    <2> QED
      BY <1>1, TopUpOneStep
  <1>4. PICK it \in [SUBSET (1 .. n) -> A] : SeqFoldsTo(it, n, base, step)
    <2> HIDE DEF n, A, base, step
    <2> QED
      BY <1>1, <1>2, <1>3, FoldLeftExists
  <1>6. DOMAIN seq = 1 .. n
    OBVIOUS
  <1>7. Fold(it)
    <2>1. ASSUME NEW s \in SUBSET (1 .. n), s # {}
          PROVE  it[s] = TopUpOne(it[s \ {Max(s)}], seq[Max(s)], item.id)
      <3>1. Max(s) \in 1 .. n
        BY <1>1, <2>1, LargestPlace
      <3>2. s \ {Max(s)} \in SUBSET (1 .. n)
        OBVIOUS
      <3>3. it[s] = step[<<it[s \ {Max(s)}], Max(s)>>]
        BY <1>4, <2>1 DEF SeqFoldsTo
      <3> QED
        BY <3>1, <3>2, <3>3
    <2>2. it = [s \in SUBSET (1 .. n) |-> it[s]]
      OBVIOUS
    <2>3. it[{}] = base
      BY <1>4 DEF SeqFoldsTo
    <2> HIDE DEF step, base
    <2> QED
      BY <1>6, <2>1, <2>2, <2>3
  <1> DEFINE jt == CHOOSE t : Fold(t)
  <1>8. TopUp(stacks, item) = jt[DOMAIN seq]
    BY DEF TopUp, FoldLeft, MapThenFoldSet
  <1>9. Fold(jt)
    BY <1>7
  <1>10. jt[{}] = base /\ \A k \in 1 .. n : jt[1 .. k] = TopUpOne(jt[1 .. k - 1], k, item.id)
    <2> HIDE DEF jt, base
    <2>1. jt[{}] = base
      BY <1>9
    <2>2. ASSUME NEW k \in 1 .. n PROVE jt[1 .. k] = TopUpOne(jt[1 .. k - 1], k, item.id)
      <3>1. (1 .. k) \in SUBSET (DOMAIN seq)
        BY <1>1, <1>6
      <3>5. k \in Nat /\ k > 0
        BY <1>1
      <3>2. Max(1 .. k) = k /\ (1 .. k) \ {k} = 1 .. k - 1 /\ (1 .. k) # {}
        BY ONLY <3>5, LastPlace
      <3>3. jt[1 .. k] = TopUpOne(jt[(1 .. k) \ {Max(1 .. k)}], seq[Max(1 .. k)], item.id)
        BY <1>9, <3>1, <3>2
      <3>4. seq[k] = k
        OBVIOUS
      <3> QED
        BY <3>2, <3>3, <3>4
    <2> QED
      BY <2>1, <2>2
  <1> HIDE DEF jt
  <1> DEFINE T == {k \in 0 .. n : Filled(jt[1 .. k], stacks, n, item, k)}
  <1>11. 0 \in T
    <2>1. 1 .. 0 = {}
      OBVIOUS
    <2>2. Filled(base, stacks, n, item, 0)
      <3>2. base.left = item.count /\ base.stacks = stacks
        OBVIOUS
      <3> HIDE DEF base
      <3>1. ASSUME NEW id \in Ids PROVE Grown(base.stacks, stacks, id, Gone(item, base.left, id))
        <4>1. Amounts(id) \in [Stack -> Int] /\ Rooms(id) \in [Stack -> Int]
          BY WeightTypes
        <4>2. SumOver(Amounts(id), stacks) \in Int /\ SumOver(Rooms(id), stacks) \in Int
          BY <4>1, SumOverType
        <4>3. Gone(item, base.left, id) = 0
          BY <1>1, <3>2 DEF Gone
        <4> QED
          BY <3>2, <4>2, <4>3 DEF Grown
      <3>3. ASSUME NEW j \in 1 .. n
            PROVE  FilledStack(base.stacks[j], stacks[j], item, base.left, j <= 0)
        <4>1. stacks[j] \in Stack
          BY <1>1
        <4>2. stacks[j].count \in Nat
          BY <4>1 DEF Stack
        <4>3. ~(j <= 0)
          OBVIOUS
        <4> QED
          BY <3>2, <4>2, <4>3 DEF FilledStack
      <3> QED
        BY <1>1, <1>2, <3>1, <3>2, <3>3 DEF Filled
    <2> HIDE DEF base
    <2> QED
      BY <1>1, <1>10, <2>1, <2>2
  <1>12. \A k \in 1 .. n : k - 1 \in T => k \in T
    <2> SUFFICES ASSUME NEW k \in 1 .. n, k - 1 \in T PROVE k \in T
      OBVIOUS
    <2>1. Filled(jt[1 .. k - 1], stacks, n, item, k - 1)
      OBVIOUS
    <2>2. Filled(TopUpOne(jt[1 .. k - 1], k, item.id), stacks, n, item, k)
      BY <1>1, <2>1, FilledStep
    <2> QED
      BY <1>1, <1>10, <2>2
  <1>13. n \in T
    <2> HIDE DEF T
    <2>1. \A k \in 0 .. n : k \in T
      BY <1>1, <1>11, <1>12, CountInduction
    <2> QED
      BY <1>1, <2>1
  <1> QED
    BY <1>6, <1>8, <1>13

-----------------------------------------------------------------------------
(***************************************************************************)
(* Kept.                                                                   *)
(***************************************************************************)
\* What the first m stacks of a sequence add up to.
SumUpTo(w, s, m) == SumFunctionOnSet([i \in 1 .. Len(s) |-> w[s[i]]], 1 .. m)

\* Such sums grow by one member at a time.
LEMMA WeighedUpTo ==
    ASSUME NEW S, NEW w \in [S -> Int], NEW s \in Seq(S)
    PROVE  /\ SumUpTo(w, s, 0) = 0
           /\ SumUpTo(w, s, Len(s)) = SumOver(w, s)
           /\ \A m \in 1 .. Len(s) : /\ SumUpTo(w, s, m - 1) \in Int
                                     /\ SumUpTo(w, s, m) = SumUpTo(w, s, m - 1) + w[s[m]]
  <1> DEFINE f == [i \in 1 .. Len(s) |-> w[s[i]]]
  <1>1. SumUpTo(w, s, 0) = 0
    <2>1. 1 .. 0 = {}
      OBVIOUS
    <2> QED
      BY <2>1, SumEmpty DEF SumUpTo
  <1>2. SumUpTo(w, s, Len(s)) = SumOver(w, s)
    BY DEF SumUpTo, SumOver
  <1>3. ASSUME NEW m \in 1 .. Len(s)
        PROVE  /\ SumUpTo(w, s, m - 1) \in Int
               /\ SumUpTo(w, s, m) = SumUpTo(w, s, m - 1) + w[s[m]]
    <2> DEFINE D == 1 .. m - 1
    <2> DEFINE E == 1 .. m
    <2>1. m - 1 \in Nat /\ m \notin D /\ E = D \cup {m}
      OBVIOUS
    <2>2. IsFiniteSet(D)
      BY <2>1, PlacesFinite
    <2>3. \A i \in 1 .. Len(s) : f[i] = w[s[i]] /\ w[s[i]] \in Int
      OBVIOUS
    <2>4. \A i \in E : f[i] \in Int
      BY <2>3
    <2>5. f[m] = w[s[m]] /\ w[s[m]] \in Int
      BY <2>3
    <2>6. SumUpTo(w, s, m - 1) = SumFunctionOnSet(f, D) /\ SumUpTo(w, s, m) = SumFunctionOnSet(f, E)
      BY DEF SumUpTo
    <2> HIDE DEF f, D, E
    <2>7. SumFunctionOnSet(f, D \cup {m}) = f[m] + SumFunctionOnSet(f, D)
      BY <2>1, <2>2, <2>4, SumAdd
    <2>8. SumFunctionOnSet(f, D) \in Int
      BY <2>1, <2>2, <2>4, SumType
    <2>9. PICK a \in Int : a = SumFunctionOnSet(f, D)
      BY <2>8
    <2>10. SumUpTo(w, s, m) = w[s[m]] + a
      BY <2>1, <2>5, <2>6, <2>7, <2>9
    <2>11. SumUpTo(w, s, m - 1) = a
      BY <2>6, <2>9
    <2> QED
      BY <2>5, <2>10, <2>11
  <1> QED
    BY <1>1, <1>2, <1>3

\* So do those of stacks.
LEMMA SumUpToSteps ==
    ASSUME NEW w \in [Stack -> Int], NEW s \in Seq(Stack)
    PROVE  /\ SumUpTo(w, s, 0) = 0
           /\ SumUpTo(w, s, Len(s)) = SumOver(w, s)
           /\ \A m \in 1 .. Len(s) : /\ SumUpTo(w, s, m - 1) \in Int
                                     /\ SumUpTo(w, s, m) = SumUpTo(w, s, m - 1) + w[s[m]]
  BY WeighedUpTo

\* No two stacks lie on one position.
ApartIn(s) == \A i, j \in DOMAIN s : s[i].pos = s[j].pos => i = j

\* What Kept has made of the first m stacks of a pocket.
KeptUpTo(kept, p, m) ==
    /\ kept \in Seq(Stack)
    /\ \A i \in DOMAIN kept : \E j \in 1 .. m : kept[i] = p[j] /\ p[j].count > 0
    /\ \A j \in 1 .. m : p[j].count > 0 => \E i \in DOMAIN kept : kept[i] = p[j]
    /\ ApartIn(kept)
    /\ \A id \in Ids : /\ SumOver(Amounts(id), kept) = SumUpTo(Amounts(id), p, m)
                       /\ SumOver(Rooms(id), kept) = SumUpTo(Rooms(id), p, m)

\* The next stack is kept when something is left of it.
LEMMA KeptStep ==
    ASSUME NEW p \in Seq(Stack), ApartIn(p), NEW m \in 1 .. Len(p), NEW kept,
           KeptUpTo(kept, p, m - 1)
    PROVE  KeptUpTo(IF p[m].count # 0 THEN Append(kept, p[m]) ELSE kept, p, m)
  <1> DEFINE x == p[m]
  <1>1. x \in Stack /\ DOMAIN p = 1 .. Len(p) /\ Len(p) \in Nat
    OBVIOUS
  <1>2. x.count \in Nat /\ x.id \in Ids
    BY <1>1 DEF Stack
  <1>3. kept \in Seq(Stack)
    BY DEF KeptUpTo
  <1>4. \A i \in DOMAIN kept : \E j \in 1 .. m - 1 : kept[i] = p[j] /\ p[j].count > 0
    BY DEF KeptUpTo
  <1>5. \A j \in 1 .. m - 1 : p[j].count > 0 => \E i \in DOMAIN kept : kept[i] = p[j]
    BY DEF KeptUpTo
  <1>6. ApartIn(kept)
    BY DEF KeptUpTo
  <1>7. \A id \in Ids : /\ SumOver(Amounts(id), kept) = SumUpTo(Amounts(id), p, m - 1)
                        /\ SumOver(Rooms(id), kept) = SumUpTo(Rooms(id), p, m - 1)
    BY DEF KeptUpTo
  <1>8. \A j \in 1 .. m : j \in 1 .. m - 1 \/ j = m
    OBVIOUS
  <1>9. \A j \in 1 .. m - 1 : j \in 1 .. m
    OBVIOUS
  <1>10. ASSUME NEW id \in Ids
         PROVE  /\ SumOver(Amounts(id), kept) \in Int /\ SumOver(Rooms(id), kept) \in Int
                /\ SumUpTo(Amounts(id), p, m) = SumOver(Amounts(id), kept) + Amounts(id)[x]
                /\ SumUpTo(Rooms(id), p, m) = SumOver(Rooms(id), kept) + Rooms(id)[x]
    <2>1. Amounts(id) \in [Stack -> Int] /\ Rooms(id) \in [Stack -> Int]
      BY WeightTypes
    <2>2. /\ SumUpTo(Amounts(id), p, m) = SumUpTo(Amounts(id), p, m - 1) + Amounts(id)[x]
          /\ SumUpTo(Rooms(id), p, m) = SumUpTo(Rooms(id), p, m - 1) + Rooms(id)[x]
      BY <2>1, SumUpToSteps
    <2>3. SumOver(Amounts(id), kept) \in Int /\ SumOver(Rooms(id), kept) \in Int
      BY <1>3, <2>1, SumOverType
    <2> QED
      BY <1>7, <2>2, <2>3
  <1>11. CASE x.count # 0
    <2> DEFINE t == Append(kept, x)
    <2> DEFINE n == Len(kept)
    <2>1. n \in Nat /\ t \in Seq(Stack) /\ DOMAIN t = 1 .. n + 1 /\ DOMAIN kept = 1 .. n
          /\ t[n + 1] = x /\ \A i \in 1 .. n : t[i] = kept[i]
      BY <1>1, <1>3
    <2>2. \A i \in 1 .. n + 1 : i \in 1 .. n \/ i = n + 1
      BY <2>1
    <2>3. x.count > 0 /\ m \in 1 .. m
      BY <1>2, <1>11
    <2>4. \A i \in DOMAIN kept : kept[i].pos # x.pos
      <3> SUFFICES ASSUME NEW i \in DOMAIN kept, kept[i].pos = x.pos PROVE FALSE
        OBVIOUS
      <3>1. PICK j \in 1 .. m - 1 : kept[i] = p[j]
        BY <1>4
      <3>2. j \in DOMAIN p /\ m \in DOMAIN p /\ j # m
        BY <1>1
      <3> QED
        BY <3>1, <3>2 DEF ApartIn
    <2> HIDE DEF t, n, x
    <2>5. \A i \in DOMAIN t : \E j \in 1 .. m : t[i] = p[j] /\ p[j].count > 0
      <3> SUFFICES ASSUME NEW i \in 1 .. n + 1 PROVE \E j \in 1 .. m : t[i] = p[j] /\ p[j].count > 0
        BY <2>1
      <3>1. CASE i = n + 1
        BY <2>1, <2>3, <3>1 DEF x
      <3>2. CASE i \in 1 .. n
        <4>1. t[i] = kept[i] /\ i \in DOMAIN kept
          BY <2>1, <3>2
        <4> QED
          BY <1>4, <1>9, <4>1
      <3> QED
        BY <2>2, <3>1, <3>2
    <2>6. \A j \in 1 .. m : p[j].count > 0 => \E i \in DOMAIN t : t[i] = p[j]
      <3> SUFFICES ASSUME NEW j \in 1 .. m, p[j].count > 0 PROVE \E i \in DOMAIN t : t[i] = p[j]
        OBVIOUS
      <3>1. CASE j = m
        <4>1. n + 1 \in DOMAIN t
          BY <2>1
        <4> QED
          BY <2>1, <3>1, <4>1 DEF x
      <3>2. CASE j \in 1 .. m - 1
        <4>1. PICK i \in DOMAIN kept : kept[i] = p[j]
          BY <1>5, <3>2
        <4>2. i \in 1 .. n /\ i \in DOMAIN t
          BY <2>1
        <4> QED
          BY <2>1, <4>1, <4>2
      <3> QED
        BY <1>8, <3>1, <3>2
    <2>7. ApartIn(t)
      <3> SUFFICES ASSUME NEW i \in 1 .. n + 1, NEW j \in 1 .. n + 1, t[i].pos = t[j].pos
                   PROVE  i = j
        BY <2>1 DEF ApartIn
      <3>1. CASE i \in 1 .. n /\ j \in 1 .. n
        BY <1>6, <2>1, <3>1 DEF ApartIn
      <3>2. CASE i = n + 1 /\ j \in 1 .. n
        BY <2>1, <2>4, <3>2
      <3>3. CASE i \in 1 .. n /\ j = n + 1
        BY <2>1, <2>4, <3>3
      <3> QED
        BY <2>2, <3>1, <3>2, <3>3
    <2>8. ASSUME NEW id \in Ids
          PROVE  /\ SumOver(Amounts(id), t) = SumUpTo(Amounts(id), p, m)
                 /\ SumOver(Rooms(id), t) = SumUpTo(Rooms(id), p, m)
      <3>1. Amounts(id) \in [Stack -> Int] /\ Rooms(id) \in [Stack -> Int]
        BY WeightTypes
      <3>2. /\ SumOver(Amounts(id), t) = SumOver(Amounts(id), kept) + Amounts(id)[x]
            /\ SumOver(Rooms(id), t) = SumOver(Rooms(id), kept) + Rooms(id)[x]
        BY <1>1, <1>3, <3>1, SumOverAppend DEF t
      <3> QED
        BY <1>10, <3>2
    <2>9. KeptUpTo(t, p, m)
      BY <2>1, <2>5, <2>6, <2>7, <2>8 DEF KeptUpTo
    <2> QED
      BY <1>11, <2>9 DEF t, x
  <1>12. CASE x.count = 0
    <2>1. \A id \in Ids : Amounts(id)[x] = 0 /\ Rooms(id)[x] = 0
      BY <1>1, <1>12 DEF Amounts, Rooms
    <2>2. \A id \in Ids : /\ SumOver(Amounts(id), kept) = SumUpTo(Amounts(id), p, m)
                          /\ SumOver(Rooms(id), kept) = SumUpTo(Rooms(id), p, m)
      BY <1>10, <2>1
    <2>3. \A i \in DOMAIN kept : \E j \in 1 .. m : kept[i] = p[j] /\ p[j].count > 0
      BY <1>4, <1>9
    <2>4. \A j \in 1 .. m : p[j].count > 0 => \E i \in DOMAIN kept : kept[i] = p[j]
      <3> SUFFICES ASSUME NEW j \in 1 .. m, p[j].count > 0 PROVE \E i \in DOMAIN kept : kept[i] = p[j]
        OBVIOUS
      <3>1. j # m
        BY <1>12
      <3> QED
        BY <1>5, <1>8, <3>1
    <2>5. KeptUpTo(kept, p, m)
      BY <1>3, <1>6, <2>2, <2>3, <2>4 DEF KeptUpTo
    <2> QED
      BY <1>12, <2>5
  <1> QED
    BY <1>11, <1>12

\* Kept drops the stacks of which nothing is left, and nothing else.
LEMMA KeptKeeps ==
    ASSUME NEW p \in Seq(Stack), ApartIn(p)
    PROVE  KeptUpTo(Kept(p), p, Len(p))
  <1> DEFINE n == Len(p)
  <1> DEFINE A == Seq(Stack)
  <1> DEFINE base == <<>>
  <1> DEFINE step == [q \in A \X (1 .. n) |-> IF p[q[2]].count # 0 THEN Append(q[1], p[q[2]]) ELSE q[1]]
  <1> DEFINE Fold(it) == it = [s \in SUBSET (DOMAIN p) |->
                                 IF s = {} THEN base
                                 ELSE IF p[Max(s)].count # 0
                                      THEN Append(it[s \ {Max(s)}], p[Max(s)])
                                      ELSE it[s \ {Max(s)}]]
  <1>1. n \in Nat /\ DOMAIN p = 1 .. n /\ \A i \in 1 .. n : p[i] \in Stack
    OBVIOUS
  <1>2. base \in A
    OBVIOUS
  <1>3. step \in [A \X (1 .. n) -> A]
    OBVIOUS
  <1>4. PICK it \in [SUBSET (1 .. n) -> A] : SeqFoldsTo(it, n, base, step)
    <2> HIDE DEF n, A, base, step
    <2> QED
      BY <1>1, <1>2, <1>3, FoldLeftExists
  <1>5. Fold(it)
    <2>1. ASSUME NEW s \in SUBSET (1 .. n), s # {}
          PROVE  it[s] = IF p[Max(s)].count # 0 THEN Append(it[s \ {Max(s)}], p[Max(s)])
                         ELSE it[s \ {Max(s)}]
      <3>1. Max(s) \in 1 .. n
        BY <1>1, <2>1, LargestPlace
      <3>2. s \ {Max(s)} \in SUBSET (1 .. n)
        OBVIOUS
      <3>3. it[s] = step[<<it[s \ {Max(s)}], Max(s)>>]
        BY <1>4, <2>1 DEF SeqFoldsTo
      <3> QED
        BY <3>1, <3>2, <3>3
    <2>2. it = [s \in SUBSET (1 .. n) |-> it[s]]
      OBVIOUS
    <2>3. it[{}] = base
      BY <1>4 DEF SeqFoldsTo
    <2> HIDE DEF step, base
    <2> QED
      BY <1>1, <2>1, <2>2, <2>3
  <1> DEFINE jt == CHOOSE t : Fold(t)
  <1>6. Kept(p) = jt[DOMAIN p]
    BY DEF Kept, FoldLeft, MapThenFoldSet
  <1>7. Fold(jt)
    BY <1>5
  <1>8. jt[{}] = base
    <2> HIDE DEF jt, base
    <2> QED
      BY <1>7
  <1>9. ASSUME NEW k \in 1 .. n
        PROVE  jt[1 .. k] = IF p[k].count # 0 THEN Append(jt[1 .. k - 1], p[k]) ELSE jt[1 .. k - 1]
    <2> HIDE DEF jt, base
    <2>1. (1 .. k) \in SUBSET (DOMAIN p)
      BY <1>1
    <2>2. Max(1 .. k) = k /\ (1 .. k) \ {k} = 1 .. k - 1 /\ (1 .. k) # {}
      BY <1>1, LastPlace
    <2> QED
      BY <1>7, <2>1, <2>2
  <1> HIDE DEF jt
  <1> DEFINE T == {k \in 0 .. n : KeptUpTo(jt[1 .. k], p, k)}
  <1>10. 0 \in T
    <2>1. 1 .. 0 = {}
      OBVIOUS
    <2>2. KeptUpTo(<<>>, p, 0)
      <3>1. <<>> \in Seq(Stack) /\ DOMAIN <<>> = {}
        OBVIOUS
      <3>2. ApartIn(<<>>)
        BY <3>1 DEF ApartIn
      <3>3. ASSUME NEW id \in Ids
            PROVE  /\ SumOver(Amounts(id), <<>>) = SumUpTo(Amounts(id), p, 0)
                   /\ SumOver(Rooms(id), <<>>) = SumUpTo(Rooms(id), p, 0)
        BY WeightTypes, SumUpToSteps, SumOverEmpty
      <3> QED
        BY <2>1, <3>1, <3>2, <3>3 DEF KeptUpTo
    <2> QED
      BY <1>1, <1>8, <2>1, <2>2
  <1>11. \A k \in 1 .. n : k - 1 \in T => k \in T
    <2> SUFFICES ASSUME NEW k \in 1 .. n, k - 1 \in T PROVE k \in T
      OBVIOUS
    <2>1. KeptUpTo(jt[1 .. k - 1], p, k - 1)
      OBVIOUS
    <2>2. KeptUpTo(jt[1 .. k], p, k)
      BY <1>9, <2>1, KeptStep
    <2> QED
      BY <1>1, <2>2
  <1>12. n \in T
    <2> HIDE DEF T
    <2>1. \A k \in 0 .. n : k \in T
      BY <1>1, <1>10, <1>11, CountInduction
    <2> QED
      BY <1>1, <2>1
  <1> QED
    BY <1>1, <1>6, <1>12

-----------------------------------------------------------------------------
(***************************************************************************)
(* Merge.                                                                  *)
(***************************************************************************)
\* Nothing but zeros adds up to nothing.
LEMMA SumZero ==
    ASSUME NEW f, NEW S, IsFiniteSet(S), \A x \in S : f[x] = 0
    PROVE  SumFunctionOnSet(f, S) = 0
  <1> DEFINE T == {s \in SUBSET S : SumFunctionOnSet(f, s) = 0}
  <1>1. {} \in T
    BY SumEmpty
  <1>2. ASSUME NEW s \in SUBSET S, NEW x \in S \ s, s \in T PROVE s \cup {x} \in T
    <2>1. IsFiniteSet(s) /\ x \notin s /\ f[x] = 0 /\ \A y \in s \cup {x} : f[y] \in Int
      BY FS_Subset
    <2>2. SumFunctionOnSet(f, s \cup {x}) = f[x] + SumFunctionOnSet(f, s)
      BY <2>1, SumAdd
    <2> QED
      BY <1>2, <2>1, <2>2
  <1> HIDE DEF T
  <1>3. S \in T
    BY <1>1, <1>2, SubsetInduction
  <1> QED
    BY <1>3 DEF T

\* Stacks that weigh nothing add up to nothing, and none weighs less.
LEMMA SumOverSign ==
    ASSUME NEW S, NEW w \in [S -> Int], NEW n \in Nat, NEW s \in [1 .. n -> S]
    PROVE  /\ (\A i \in 1 .. n : w[s[i]] >= 0) => SumOver(w, s) >= 0
           /\ (\A i \in 1 .. n : w[s[i]] = 0) => SumOver(w, s) = 0
  <1> DEFINE D == 1 .. n
  <1> DEFINE f == [i \in D |-> w[s[i]]]
  <1>1. Len(s) = n /\ IsFiniteSet(D)
    BY PlacesFinite
  <1>2. SumOver(w, s) = SumFunctionOnSet(f, D)
    BY <1>1 DEF SumOver
  <1>3. \A i \in 1 .. n : f[i] = w[s[i]] /\ f[i] \in Int
    OBVIOUS
  <1>4. \A i \in D : f[i] \in Int
    BY <1>3
  <1>5. ASSUME \A i \in 1 .. n : w[s[i]] >= 0 PROVE SumFunctionOnSet(f, D) >= 0
    <2>1. \A i \in D : f[i] \in Nat
      BY <1>3, <1>5
    <2> HIDE DEF f, D
    <2>2. SumFunctionOnSet(f, D) \in Nat
      BY <1>1, <2>1, SumNat
    <2> QED
      BY <2>2
  <1>6. ASSUME \A i \in 1 .. n : w[s[i]] = 0 PROVE SumFunctionOnSet(f, D) = 0
    <2>1. \A i \in D : f[i] = 0
      BY <1>3, <1>6
    <2> HIDE DEF f, D
    <2> QED
      BY <1>1, <2>1, SumZero
  <1> QED
    BY <1>2, <1>5, <1>6

\* A pocket as it is stored: one stack a slot, none empty or overfull.
IsPocket(s, c) ==
    /\ s \in Seq(Stack)
    /\ ApartIn(s)
    /\ \A i \in DOMAIN s : s[i].pos \in Slots(c) /\ s[i].count \in 1 .. MaxCount[s[i].id]

\* There is never less than no room in a pocket.
LEMMA RoomIsNat ==
    ASSUME NEW c \in Nat, NEW s, IsPocket(s, c), NEW id \in Ids
    PROVE  SumOver(Rooms(id), s) \in Int /\ SumOver(Rooms(id), s) >= 0
  <1> DEFINE n == Len(s)
  <1>1. s \in Seq(Stack)
    BY DEF IsPocket
  <1>2. n \in Nat /\ s \in [1 .. n -> Stack] /\ DOMAIN s = 1 .. n
    BY <1>1
  <1>3. Rooms(id) \in [Stack -> Int] /\ MaxCount[id] \in Nat
    BY WeightTypes, MaxCountAssumption
  <1> HIDE DEF n
  <1>4. \A i \in 1 .. n : Rooms(id)[s[i]] >= 0
    <2> SUFFICES ASSUME NEW i \in 1 .. n PROVE Rooms(id)[s[i]] >= 0
      OBVIOUS
    <2>1. s[i] \in Stack /\ s[i].count \in 1 .. MaxCount[s[i].id]
      BY <1>2 DEF IsPocket
    <2> QED
      BY <1>3, <2>1 DEF Rooms
  <1> QED
    BY <1>1, <1>2, <1>3, <1>4, SumOverSign, SumOverType

\* The goods come in stacks that are not overfull.
IsGoods(s) == s \in Seq(Stack) /\ \A i \in DOMAIN s : s[i].count <= MaxCount[s[i].id]

\* So many new stacks of each id have been made of the first k goods, each next one
\* only when the stacks before it were full.
Stacked(result, kept, toFill, k, new, id) ==
    /\ SumOver(Amounts(id), result) = SumOver(Amounts(id), kept) + SumUpTo(Amounts(id), toFill, k)
    /\ SumOver(Rooms(id), result)
         = SumOver(Rooms(id), kept) - SumUpTo(Amounts(id), toFill, k) + new[id] * MaxCount[id]
    /\ new[id] > 0 => SumOver(Rooms(id), result) < MaxCount[id]

IdsOf(toFill) == {toFill[i].id : i \in DOMAIN toFill}

\* The merge has come to the goods after the first k: every new stack took a free slot.
MergedTo(acc, kept, toFill, c, k, new) ==
    /\ acc.free = FreeSlots(acc.result, c)
    /\ SumFunctionOnSet(new, IdsOf(toFill)) + Cardinality(acc.free)
         = Cardinality(FreeSlots(kept, c))
    /\ \A id \in Ids : Stacked(acc.result, kept, toFill, k, new, id)

\* The merge has stopped at one of the first k goods: the stacks made before took
\* every free slot, and the goods would have needed one more.
StoppedAt(kept, toFill, c, k, new, id) ==
    /\ SumFunctionOnSet(new, IdsOf(toFill)) = Cardinality(FreeSlots(kept, c))
    /\ \A x \in Ids :
          LET over == SumUpTo(Amounts(x), toFill, k) - SumOver(Rooms(x), kept)
          IN /\ new[x] > 0 => over > (new[x] - 1) * MaxCount[x]
             /\ x = id => over > new[x] * MaxCount[x]

Merging(c) == [ok : BOOLEAN, result : Seq(Stack), free : SUBSET Slots(c)]

Merged(acc, kept, toFill, c, k) ==
    /\ acc \in Merging(c)
    /\ IsPocket(acc.result, c)
    /\ acc.ok => \E new \in [Ids -> Nat] : MergedTo(acc, kept, toFill, c, k, new)
    /\ ~acc.ok => \E new \in [Ids -> Nat], id \in IdsOf(toFill) :
                     StoppedAt(kept, toFill, c, k, new, id)

\* What has been filled up from a pocket, and what is left of the item.
ToppedUp(filled, s, item, c) ==
    /\ IsPocket(filled.stacks, c) /\ FreeSlots(filled.stacks, c) = FreeSlots(s, c)
    /\ filled.left \in Nat /\ filled.left <= item.count
    /\ \A id \in Ids :
         /\ SumOver(Amounts(id), filled.stacks) = SumOver(Amounts(id), s) + Gone(item, filled.left, id)
         /\ SumOver(Rooms(id), filled.stacks) = SumOver(Rooms(id), s) - Gone(item, filled.left, id)
    /\ filled.left > 0 => SumOver(Rooms(item.id), filled.stacks) = 0

\* What TopUp makes of a pocket is a pocket with the same positions.
LEMMA TopUpPocket ==
    ASSUME NEW c \in Nat, NEW s, IsPocket(s, c), NEW item \in Stack, NEW filled, filled = TopUp(s, item)
    PROVE  ToppedUp(filled, s, item, c)
  <1> DEFINE n == Len(s)
  <1> DEFINE t == filled.stacks
  <1>1. s \in Seq(Stack) /\ n \in Nat /\ DOMAIN s = 1 .. n
    BY DEF IsPocket
  <1>2. Filled(filled, s, n, item, n)
    BY <1>1, TopUpFills
  <1>3. filled \in Filling(n) /\ filled.left <= item.count
        /\ (\A j \in 1 .. n : FilledStack(t[j], s[j], item, filled.left, j <= n))
        /\ (\A id \in Ids : Grown(t, s, id, Gone(item, filled.left, id)))
    BY <1>2 DEF Filled
  <1>4. t \in [1 .. n -> Stack] /\ filled.left \in Nat
    BY <1>3 DEF Filling
  <1> HIDE DEF t, n
  <1>5. t \in Seq(Stack) /\ DOMAIN t = 1 .. n
    BY <1>1, <1>4
  <1>6. \A j \in 1 .. n : /\ s[j].pos \in Slots(c) /\ s[j].count \in 1 .. MaxCount[s[j].id]
                          /\ s[j] \in Stack
    BY <1>1 DEF IsPocket
  <1>7. ASSUME NEW j \in 1 .. n
        PROVE  /\ t[j].pos = s[j].pos /\ t[j].id = s[j].id
               /\ t[j].count \in 1 .. MaxCount[t[j].id]
               /\ filled.left > 0 /\ t[j].id = item.id => t[j].count = MaxCount[item.id]
    <2>1. FilledStack(t[j], s[j], item, filled.left, j <= n)
      BY <1>3
    <2>2. j <= n
      BY <1>1
    <2>3. t[j] \in Stack
      BY <1>4
    <2>4. t[j].count \in Nat /\ t[j].id \in Ids /\ s[j].count \in 1 .. MaxCount[s[j].id]
      BY <1>6, <2>3 DEF Stack
    <2>5. MaxCount[t[j].id] \in Nat
      BY <2>4, MaxCountAssumption
    <2>6. t[j].pos = s[j].pos /\ t[j].id = s[j].id /\ t[j].count >= s[j].count
          /\ t[j].count <= MaxCount[t[j].id]
      BY <2>1, <2>4, <2>5 DEF FilledStack
    <2>7. filled.left > 0 /\ s[j].id = item.id => t[j].count >= MaxCount[s[j].id]
      BY <2>1, <2>2 DEF FilledStack
    <2> QED
      BY <2>4, <2>5, <2>6, <2>7
  <1>8. IsPocket(t, c)
    <2>1. ApartIn(t)
      <3>1. ApartIn(s)
        BY DEF IsPocket
      <3> QED
        BY <1>1, <1>5, <1>7, <3>1 DEF ApartIn
    <2>2. \A j \in DOMAIN t : t[j].pos \in Slots(c) /\ t[j].count \in 1 .. MaxCount[t[j].id]
      BY <1>5, <1>6, <1>7
    <2> QED
      BY <1>5, <2>1, <2>2 DEF IsPocket
  <1>9. FreeSlots(t, c) = FreeSlots(s, c)
    BY <1>1, <1>5, <1>7 DEF FreeSlots
  <1>10. \A j \in DOMAIN s : s[j].count > 0
    <2> SUFFICES ASSUME NEW j \in 1 .. n PROVE s[j].count > 0
      BY <1>1
    <2>1. s[j].count \in 1 .. MaxCount[s[j].id]
      BY <1>6
    <2> QED
      BY <2>1
  <1>11. \A id \in Ids :
           /\ SumOver(Amounts(id), t) = SumOver(Amounts(id), s) + Gone(item, filled.left, id)
           /\ SumOver(Rooms(id), t) = SumOver(Rooms(id), s) - Gone(item, filled.left, id)
    BY <1>3, <1>10 DEF Grown
  <1>12. filled.left > 0 => SumOver(Rooms(item.id), t) = 0
    <2> SUFFICES ASSUME filled.left > 0 PROVE SumOver(Rooms(item.id), t) = 0
      OBVIOUS
    <2>1. item.id \in Ids
      BY DEF Stack
    <2>2. MaxCount[item.id] \in Nat
      BY <2>1, MaxCountAssumption
    <2>3. \A j \in 1 .. n : Rooms(item.id)[t[j]] = 0
      <3> SUFFICES ASSUME NEW j \in 1 .. n PROVE Rooms(item.id)[t[j]] = 0
        OBVIOUS
      <3>1. t[j] \in Stack
        BY <1>4
      <3>2. t[j].id = item.id => t[j].count = MaxCount[item.id]
        BY <1>7
      <3> QED
        BY <2>2, <3>1, <3>2 DEF Rooms
    <2>4. Rooms(item.id) \in [Stack -> Int]
      BY <2>1, WeightTypes
    <2> QED
      BY <1>1, <1>4, <2>3, <2>4, SumOverSign
  <1> QED
    BY <1>3, <1>4, <1>8, <1>9, <1>11, <1>12 DEF t, ToppedUp

\* The ids of the goods are finitely many, and so are the slots of a pocket.
LEMMA FiniteGoods ==
    ASSUME NEW toFill \in Seq(Stack), NEW c \in Nat
    PROVE  /\ IsFiniteSet(IdsOf(toFill)) /\ IdsOf(toFill) \subseteq Ids
           /\ IsFiniteSet(Slots(c)) /\ Slots(c) \subseteq Nat
           /\ \A S \in SUBSET Slots(c) : IsFiniteSet(S) /\ Cardinality(S) \in Nat
  <1> DEFINE D == 1 .. Len(toFill)
  <1> DEFINE f == [i \in D |-> toFill[i].id]
  <1>1. IsFiniteSet(D)
    BY PlacesFinite
  <1>2. IdsOf(toFill) = {f[i] : i \in D}
    BY DEF IdsOf
  <1>3. \A i \in D : toFill[i] \in Stack
    OBVIOUS
  <1>4. IdsOf(toFill) \subseteq Ids
    BY <1>3 DEF IdsOf, Stack
  <1>5. IsFiniteSet(IdsOf(toFill))
    <2>1. f \in Surjection(D, IdsOf(toFill))
      BY <1>2 DEF Surjection, IdsOf
    <2> HIDE DEF f, D
    <2> QED
      BY <1>1, <2>1, FS_Surjection
  <1>6. 0 \in Int /\ c - 1 \in Int
    OBVIOUS
  <1>7. IsFiniteSet(0 .. c - 1)
    BY <1>6, FS_Interval
  <1>8. IsFiniteSet(Slots(c)) /\ Slots(c) \subseteq Nat
    BY <1>7 DEF Slots
  <1>9. \A S \in SUBSET Slots(c) : IsFiniteSet(S) /\ Cardinality(S) \in Nat
    BY <1>8, FS_Subset, FS_CardinalityType
  <1> QED
    BY <1>4, <1>5, <1>8, <1>9

\* What so many new stacks of an id can hold, and one more or one less.
Holding(new, id, m) ==
    /\ m = new[id] * MaxCount[id]
    /\ (new[id] + 1) * MaxCount[id] = m + MaxCount[id]
    /\ (new[id] - 1) * MaxCount[id] = m - MaxCount[id]

\* The multiplication.
LEMMA StacksHold ==
    ASSUME NEW new \in [Ids -> Nat], NEW id \in Ids
    PROVE  \E m \in Nat : Holding(new, id, m)
  <1>1. PICK a \in Nat, b \in Nat : a = new[id] /\ b = MaxCount[id]
    BY MaxCountAssumption
  <1>2. a * b \in Nat /\ (a + 1) * b = a * b + b /\ (a - 1) * b = a * b - b
    OBVIOUS
  <1>3. Holding(new, id, a * b)
    BY <1>1, <1>2 DEF Holding
  <1> QED
    BY <1>2, <1>3

\* A merge that has stopped stays stopped.
LEMMA StoppedStays ==
    ASSUME NEW kept \in Seq(Stack), NEW toFill \in Seq(Stack), NEW c \in Nat,
           NEW k \in 1 .. Len(toFill), NEW new \in [Ids -> Nat], NEW id \in Ids,
           StoppedAt(kept, toFill, c, k - 1, new, id)
    PROVE  StoppedAt(kept, toFill, c, k, new, id)
  <1> DEFINE item == toFill[k]
  <1>1. item \in Stack
    OBVIOUS
  <1>2. ASSUME NEW x \in Ids
        PROVE  LET over == SumUpTo(Amounts(x), toFill, k) - SumOver(Rooms(x), kept)
               IN /\ new[x] > 0 => over > (new[x] - 1) * MaxCount[x]
                  /\ x = id => over > new[x] * MaxCount[x]
    <2>1. Amounts(x) \in [Stack -> Int] /\ Rooms(x) \in [Stack -> Int]
      BY WeightTypes
    <2>2. Amounts(x)[item] \in Nat
      BY <1>1 DEF Amounts, Stack
    <2>3. SumUpTo(Amounts(x), toFill, k - 1) \in Int
          /\ SumUpTo(Amounts(x), toFill, k) = SumUpTo(Amounts(x), toFill, k - 1) + Amounts(x)[item]
      BY <2>1, SumUpToSteps
    <2>4. SumOver(Rooms(x), kept) \in Int
      BY <2>1, SumOverType
    <2>5. PICK a \in Int, b \in Int, r \in Nat :
             /\ a = SumUpTo(Amounts(x), toFill, k - 1)
             /\ b = SumOver(Rooms(x), kept) /\ r = Amounts(x)[item]
      BY <2>2, <2>3, <2>4
    <2>6. PICK m \in Nat : Holding(new, x, m)
      BY StacksHold
    <2>7. PICK m1 \in Int, m2 \in Int : m1 = (new[x] - 1) * MaxCount[x] /\ m2 = new[x] * MaxCount[x]
      <3>1. MaxCount[x] \in Int
        BY MaxCountAssumption
      <3>2. m - MaxCount[x] \in Int
        BY ONLY <3>1, m \in Nat
      <3>3. (new[x] - 1) * MaxCount[x] = m - MaxCount[x] /\ new[x] * MaxCount[x] = m
        BY <2>6 DEF Holding
      <3> QED
        BY <3>2, <3>3
    <2>12. LET over == SumUpTo(Amounts(x), toFill, k - 1) - SumOver(Rooms(x), kept)
           IN /\ new[x] > 0 => over > (new[x] - 1) * MaxCount[x]
              /\ x = id => over > new[x] * MaxCount[x]
      BY DEF StoppedAt
    <2>8. (new[x] > 0 => a - b > m1) /\ (x = id => a - b > m2)
      BY ONLY <2>5, <2>7, <2>12
    <2>9. SumUpTo(Amounts(x), toFill, k) - SumOver(Rooms(x), kept) = (a - b) + r
      <3>1. SumUpTo(Amounts(x), toFill, k) = a + r
        BY <2>3, <2>5
      <3>2. a \in Int /\ b \in Int /\ r \in Nat
        OBVIOUS
      <3>3. SumUpTo(Amounts(x), toFill, k) - SumOver(Rooms(x), kept) = (a + r) - b
        BY ONLY <2>5, <3>1
      <3>4. (a + r) - b = (a - b) + r
        BY ONLY <3>2
      <3> QED
        BY ONLY <3>3, <3>4
    <2>11. a \in Int /\ b \in Int /\ r \in Nat /\ m1 \in Int /\ m2 \in Int
      OBVIOUS
    <2>10. (new[x] > 0 => (a - b) + r > m1) /\ (x = id => (a - b) + r > m2)
      BY ONLY <2>8, <2>11
    <2> QED
      BY <2>7, <2>9, <2>10
  <1>3. SumFunctionOnSet(new, IdsOf(toFill)) = Cardinality(FreeSlots(kept, c))
    BY DEF StoppedAt
  <1> QED
    BY <1>2, <1>3 DEF StoppedAt

\* The numbers the merge of the k-th stack is about: what was there, what there was
\* room for, what has come so far, what new stacks can hold, and what comes.
Counts(result, kept, toFill, k, new, id, a0, r0, f, m, u) ==
    /\ a0 = SumOver(Amounts(id), kept) /\ r0 = SumOver(Rooms(id), kept)
    /\ f = SumUpTo(Amounts(id), toFill, k - 1)
    /\ Holding(new, id, m)
    /\ u = IF id = toFill[k].id THEN toFill[k].count ELSE 0
    /\ SumUpTo(Amounts(id), toFill, k) = f + u
    /\ SumOver(Amounts(id), result) = a0 + f
    /\ SumOver(Rooms(id), result) = r0 - f + m
    /\ new[id] > 0 => r0 - f + m < MaxCount[id]

\* There are such numbers.
LEMMA GoodsSums ==
    ASSUME NEW c \in Nat, NEW kept \in Seq(Stack), NEW toFill, IsGoods(toFill),
           NEW k \in 1 .. Len(toFill), NEW acc, IsPocket(acc.result, c),
           NEW new \in [Ids -> Nat], NEW id \in Ids,
           Stacked(acc.result, kept, toFill, k - 1, new, id)
    PROVE  \E a0 \in Int, r0 \in Int, f \in Int, m \in Nat, u \in Nat :
              Counts(acc.result, kept, toFill, k, new, id, a0, r0, f, m, u)
  <1> DEFINE item == toFill[k]
  <1>1. toFill \in Seq(Stack) /\ item \in Stack
    BY DEF IsGoods
  <1>2. Amounts(id) \in [Stack -> Int] /\ Rooms(id) \in [Stack -> Int]
    BY WeightTypes
  <1>3. SumUpTo(Amounts(id), toFill, k - 1) \in Int
        /\ SumUpTo(Amounts(id), toFill, k) = SumUpTo(Amounts(id), toFill, k - 1) + Amounts(id)[item]
    BY <1>1, <1>2, SumUpToSteps
  <1>4. SumOver(Amounts(id), kept) \in Int /\ SumOver(Rooms(id), kept) \in Int
    BY <1>2, SumOverType
  <1>5. PICK m \in Nat : Holding(new, id, m)
    BY StacksHold
  <1>6. Amounts(id)[item] = (IF id = item.id THEN item.count ELSE 0) /\ Amounts(id)[item] \in Nat
    BY <1>1 DEF Amounts, Stack
  <1>7. /\ SumOver(Amounts(id), acc.result)
              = SumOver(Amounts(id), kept) + SumUpTo(Amounts(id), toFill, k - 1)
        /\ SumOver(Rooms(id), acc.result)
              = SumOver(Rooms(id), kept) - SumUpTo(Amounts(id), toFill, k - 1) + new[id] * MaxCount[id]
        /\ new[id] > 0 => SumOver(Rooms(id), acc.result) < MaxCount[id]
    BY DEF Stacked
  <1>8. PICK a0 \in Int, r0 \in Int, f \in Int, u \in Nat :
              /\ a0 = SumOver(Amounts(id), kept) /\ r0 = SumOver(Rooms(id), kept)
              /\ f = SumUpTo(Amounts(id), toFill, k - 1)
              /\ u = Amounts(id)[item]
    BY <1>3, <1>4, <1>6
  <1>9. /\ SumUpTo(Amounts(id), toFill, k) = f + u
        /\ SumOver(Amounts(id), acc.result) = a0 + f
        /\ SumOver(Rooms(id), acc.result) = r0 - f + m
        /\ new[id] > 0 => r0 - f + m < MaxCount[id]
    BY <1>3, <1>5, <1>7, <1>8 DEF Holding
  <1>10. Counts(acc.result, kept, toFill, k, new, id, a0, r0, f, m, u)
    BY <1>5, <1>6, <1>8, <1>9 DEF Counts
  <1> QED
    BY <1>10

\* The goods all went onto stacks that were there.
LEMMA MergeNothingLeft ==
    ASSUME NEW c \in Nat, NEW kept \in Seq(Stack), NEW toFill, IsGoods(toFill),
           NEW k \in 1 .. Len(toFill), NEW acc, IsPocket(acc.result, c),
           NEW new \in [Ids -> Nat], MergedTo(acc, kept, toFill, c, k - 1, new),
           NEW filled, filled = TopUp(acc.result, toFill[k]), filled.left = 0,
           NEW next, next.result = filled.stacks, next.free = acc.free
    PROVE  MergedTo(next, kept, toFill, c, k, new)
  <1> DEFINE item == toFill[k]
  <1>1. item \in Stack /\ acc.result \in Seq(Stack)
    BY DEF IsGoods, IsPocket
  <1>2. /\ FreeSlots(filled.stacks, c) = FreeSlots(acc.result, c)
        /\ \A id \in Ids :
             /\ SumOver(Amounts(id), filled.stacks) = SumOver(Amounts(id), acc.result) + Gone(item, filled.left, id)
             /\ SumOver(Rooms(id), filled.stacks) = SumOver(Rooms(id), acc.result) - Gone(item, filled.left, id)
    <2>1. ToppedUp(filled, acc.result, item, c)
      BY <1>1, TopUpPocket
    <2> QED
      BY <2>1 DEF ToppedUp
  <1>3. ASSUME NEW id \in Ids PROVE Stacked(next.result, kept, toFill, k, new, id)
    <2>1. Stacked(acc.result, kept, toFill, k - 1, new, id)
      BY DEF MergedTo
    <2>20. PICK a0 \in Int, r0 \in Int, f \in Int, m \in Nat, u \in Nat :
              Counts(acc.result, kept, toFill, k, new, id, a0, r0, f, m, u)
      BY <1>1, <2>1, GoodsSums
    <2>2. /\ a0 = SumOver(Amounts(id), kept) /\ r0 = SumOver(Rooms(id), kept)
          /\ f = SumUpTo(Amounts(id), toFill, k - 1)
          /\ m = new[id] * MaxCount[id]
          /\ (new[id] + 1) * MaxCount[id] = m + MaxCount[id]
          /\ (new[id] - 1) * MaxCount[id] = m - MaxCount[id]
          /\ u = IF id = toFill[k].id THEN toFill[k].count ELSE 0
          /\ SumUpTo(Amounts(id), toFill, k) = f + u
          /\ SumOver(Amounts(id), acc.result) = a0 + f
          /\ SumOver(Rooms(id), acc.result) = r0 - f + m
          /\ new[id] > 0 => r0 - f + m < MaxCount[id]
      BY <2>20 DEF Counts, Holding
    <2>3. item.count \in Nat
      BY <1>1 DEF Stack
    <2>4. Gone(item, filled.left, id) = u
      <3>1. u = IF id = item.id THEN item.count ELSE 0
        BY <2>2
      <3>2. filled.left = 0
        OBVIOUS
      <3> HIDE DEF item
      <3> QED
        BY ONLY <2>3, <3>1, <3>2 DEF Gone
    <2>5. MaxCount[id] \in Nat
      BY MaxCountAssumption
    <2>8. SumOver(Amounts(id), acc.result) = a0 + f /\ SumOver(Rooms(id), acc.result) = r0 - f + m
      BY <2>2
    <2>9. /\ SumOver(Amounts(id), next.result) = SumOver(Amounts(id), acc.result) + u
          /\ SumOver(Rooms(id), next.result) = SumOver(Rooms(id), acc.result) - u
      BY <1>2, <2>4
    <2>6. /\ SumOver(Amounts(id), next.result) = a0 + (f + u)
          /\ SumOver(Rooms(id), next.result) = r0 - (f + u) + m
      BY <2>8, <2>9
    <2>7. new[id] > 0 => r0 - (f + u) + m < MaxCount[id]
      <3>1. new[id] > 0 => r0 - f + m < MaxCount[id]
        BY <2>2
      <3>2. r0 \in Int /\ f \in Int /\ m \in Nat /\ u \in Nat
        OBVIOUS
      <3> QED
        BY ONLY <2>5, <3>1, <3>2
    <2> QED
      BY <2>2, <2>6, <2>7 DEF Stacked
  <1>4. next.free = FreeSlots(next.result, c)
        /\ SumFunctionOnSet(new, IdsOf(toFill)) + Cardinality(next.free) = Cardinality(FreeSlots(kept, c))
    BY <1>2 DEF MergedTo
  <1> QED
    BY <1>3, <1>4 DEF MergedTo

\* What is left of the goods has no slot to go to.
LEMMA MergeStops ==
    ASSUME NEW c \in Nat, NEW kept \in Seq(Stack), NEW toFill, IsGoods(toFill),
           NEW k \in 1 .. Len(toFill), NEW acc, IsPocket(acc.result, c),
           NEW new \in [Ids -> Nat], MergedTo(acc, kept, toFill, c, k - 1, new),
           NEW filled, filled = TopUp(acc.result, toFill[k]), filled.left # 0, acc.free = {}
    PROVE  StoppedAt(kept, toFill, c, k, new, toFill[k].id)
  <1> DEFINE item == toFill[k]
  <1>1. item \in Stack /\ acc.result \in Seq(Stack) /\ toFill \in Seq(Stack)
    BY DEF IsGoods, IsPocket
  <1>2. item.count \in Nat /\ item.id \in Ids
    BY <1>1 DEF Stack
  <1>3. /\ filled.left \in Nat
        /\ \A id \in Ids :
             SumOver(Rooms(id), filled.stacks) = SumOver(Rooms(id), acc.result) - Gone(item, filled.left, id)
        /\ filled.left > 0 => SumOver(Rooms(item.id), filled.stacks) = 0
    <2>1. ToppedUp(filled, acc.result, item, c)
      BY <1>1, TopUpPocket
    <2> QED
      BY <2>1 DEF ToppedUp
  <1>4. filled.left > 0
    BY <1>3
  <1>5. SumFunctionOnSet(new, IdsOf(toFill)) = Cardinality(FreeSlots(kept, c))
    <2>1. SumFunctionOnSet(new, IdsOf(toFill)) + Cardinality({}) = Cardinality(FreeSlots(kept, c))
      BY DEF MergedTo
    <2>2. SumFunctionOnSet(new, IdsOf(toFill)) \in Int
      <3>1. IsFiniteSet(IdsOf(toFill)) /\ \A id \in IdsOf(toFill) : new[id] \in Int
        BY <1>1, FiniteGoods
      <3> QED
        BY <3>1, SumType
    <2> QED
      BY <2>1, <2>2, FS_EmptySet
  <1>6. ASSUME NEW x \in Ids
        PROVE  LET over == SumUpTo(Amounts(x), toFill, k) - SumOver(Rooms(x), kept)
               IN /\ new[x] > 0 => over > (new[x] - 1) * MaxCount[x]
                  /\ x = item.id => over > new[x] * MaxCount[x]
    <2>1. Stacked(acc.result, kept, toFill, k - 1, new, x)
      BY DEF MergedTo
    <2>20. PICK a0 \in Int, r0 \in Int, f \in Int, m \in Nat, u \in Nat :
              Counts(acc.result, kept, toFill, k, new, x, a0, r0, f, m, u)
      BY <1>1, <2>1, GoodsSums
    <2>2. /\ a0 = SumOver(Amounts(x), kept) /\ r0 = SumOver(Rooms(x), kept)
          /\ f = SumUpTo(Amounts(x), toFill, k - 1)
          /\ m = new[x] * MaxCount[x]
          /\ (new[x] + 1) * MaxCount[x] = m + MaxCount[x]
          /\ (new[x] - 1) * MaxCount[x] = m - MaxCount[x]
          /\ u = IF x = toFill[k].id THEN toFill[k].count ELSE 0
          /\ SumUpTo(Amounts(x), toFill, k) = f + u
          /\ SumOver(Amounts(x), acc.result) = a0 + f
          /\ SumOver(Rooms(x), acc.result) = r0 - f + m
          /\ new[x] > 0 => r0 - f + m < MaxCount[x]
      BY <2>20 DEF Counts, Holding
    <2>3. new[x] \in Nat /\ MaxCount[x] \in Nat /\ (new[x] - 1) * MaxCount[x] = m - MaxCount[x]
      <3>1. new[x] \in Nat /\ MaxCount[x] \in Nat
        BY MaxCountAssumption
      <3>2. (new[x] - 1) * MaxCount[x] = m - MaxCount[x]
        BY <2>2
      <3> QED
        BY <3>1, <3>2
    <2>4. SumUpTo(Amounts(x), toFill, k) - SumOver(Rooms(x), kept) = (f + u) - r0
      BY <2>2
    <2>5. CASE x = item.id
      <3>1. Gone(item, filled.left, x) = item.count - filled.left /\ u = item.count
        BY <2>2, <2>5 DEF Gone
      <3>5. SumOver(Rooms(x), filled.stacks) = 0
        BY <1>3, <1>4, <2>5
      <3>6. SumOver(Rooms(x), filled.stacks) = SumOver(Rooms(x), acc.result) - Gone(item, filled.left, x)
        BY <1>3
      <3>7. SumOver(Rooms(x), acc.result) = r0 - f + m
        BY <2>2
      <3>10. Gone(item, filled.left, x) = u - filled.left
        BY ONLY <3>1
      <3>2. 0 = (r0 - f + m) - (u - filled.left)
        BY ONLY <3>5, <3>6, <3>7, <3>10
      <3>8. r0 \in Int /\ f \in Int /\ m \in Nat /\ u \in Nat /\ filled.left \in Nat /\ filled.left > 0
        BY <1>3, <1>4
      <3>3. (f + u) - r0 > m
        BY ONLY <3>2, <3>8
      <3>11. MaxCount[x] \in Nat
        BY <2>3
      <3>4. (f + u) - r0 > m - MaxCount[x]
        BY ONLY <3>3, <3>8, <3>11
      <3>9. m = new[x] * MaxCount[x]
        BY <2>2
      <3> QED
        BY ONLY <2>3, <2>4, <2>5, <3>3, <3>4, <3>9
    <2>6. CASE x # item.id
      <3>1. u = 0
        BY <2>2, <2>6
      <3>2. new[x] > 0 => (f + u) - r0 > m - MaxCount[x]
        <4>1. new[x] > 0 => r0 - f + m < MaxCount[x]
          BY <2>2
        <4>2. r0 \in Int /\ f \in Int /\ m \in Nat /\ MaxCount[x] \in Nat
          BY <2>3
        <4> QED
          BY ONLY <3>1, <4>1, <4>2
      <3> QED
        BY <2>3, <2>4, <2>6, <3>2
    <2> QED
      BY <2>5, <2>6
  <1> QED
    BY <1>5, <1>6 DEF StoppedAt

\* One stack more of one id.
LEMMA OneMoreStack ==
    ASSUME NEW I \in SUBSET Ids, IsFiniteSet(I), NEW new \in [Ids -> Nat], NEW id \in I
    PROVE  /\ SumFunctionOnSet(new, I) \in Int
           /\ SumFunctionOnSet([new EXCEPT ![id] = @ + 1], I) = SumFunctionOnSet(new, I) + 1
  <1> DEFINE more == [new EXCEPT ![id] = @ + 1]
  <1> DEFINE R == I \ {id}
  <1>1. IsFiniteSet(R) /\ id \notin R /\ I = R \cup {id}
    BY FS_Subset
  <1>2. \A x \in R : new[x] \in Int /\ more[x] = new[x]
    OBVIOUS
  <1>3. new[id] \in Int /\ more[id] \in Int /\ more[id] = new[id] + 1
    OBVIOUS
  <1> HIDE DEF more, R
  <1>4. \E a \in Int : /\ SumFunctionOnSet(new, R \cup {id}) = new[id] + a
                       /\ SumFunctionOnSet(more, R \cup {id}) = more[id] + a
    BY <1>1, <1>2, <1>3, SumChange
  <1>5. PICK a \in Int : /\ SumFunctionOnSet(new, I) = new[id] + a
                         /\ SumFunctionOnSet(more, I) = more[id] + a
    BY <1>1, <1>4
  <1>6. PICK v \in Int : v = new[id]
    BY <1>3
  <1>7. SumFunctionOnSet(new, I) = v + a /\ SumFunctionOnSet(more, I) = (v + 1) + a
    BY <1>3, <1>5, <1>6
  <1>8. SumFunctionOnSet(new, I) \in Int /\ SumFunctionOnSet(more, I) = SumFunctionOnSet(new, I) + 1
    BY <1>7
  <1> QED
    BY <1>8 DEF more

\* What is left of the goods becomes a stack of its own in the lowest free slot.
LEMMA MergeNewStack ==
    ASSUME NEW c \in Nat, NEW kept \in Seq(Stack), NEW toFill, IsGoods(toFill),
           NEW k \in 1 .. Len(toFill), NEW acc, IsPocket(acc.result, c),
           NEW new \in [Ids -> Nat], MergedTo(acc, kept, toFill, c, k - 1, new),
           NEW filled, filled = TopUp(acc.result, toFill[k]), filled.left # 0, acc.free # {},
           NEW x, x = [id |-> toFill[k].id, pos |-> Min(acc.free), count |-> filled.left],
           NEW next, next.result = Append(filled.stacks, x), next.free = acc.free \ {Min(acc.free)}
    PROVE  /\ IsPocket(next.result, c)
           /\ \E more \in [Ids -> Nat] : MergedTo(next, kept, toFill, c, k, more)
  <1> DEFINE item == toFill[k]
  <1> DEFINE t == filled.stacks
  <1> DEFINE n == Len(t)
  <1> DEFINE slot == Min(acc.free)
  <1>1. item \in Stack /\ acc.result \in Seq(Stack) /\ toFill \in Seq(Stack)
        /\ item.count <= MaxCount[item.id]
    BY DEF IsGoods, IsPocket
  <1>2. item.count \in Nat /\ item.id \in Ids /\ item.id \in IdsOf(toFill)
    BY <1>1 DEF Stack, IdsOf
  <1>3. /\ IsPocket(t, c) /\ FreeSlots(t, c) = FreeSlots(acc.result, c)
        /\ filled.left \in Nat /\ filled.left <= item.count
        /\ \A id \in Ids :
             /\ SumOver(Amounts(id), t) = SumOver(Amounts(id), acc.result) + Gone(item, filled.left, id)
             /\ SumOver(Rooms(id), t) = SumOver(Rooms(id), acc.result) - Gone(item, filled.left, id)
        /\ filled.left > 0 => SumOver(Rooms(item.id), t) = 0
    <2>1. ToppedUp(filled, acc.result, item, c)
      BY <1>1, TopUpPocket
    <2> HIDE DEF item
    <2> QED
      BY ONLY <2>1 DEF ToppedUp
  <1>4. MaxCount[item.id] \in Nat /\ filled.left > 0 /\ filled.left <= MaxCount[item.id]
    BY <1>1, <1>2, <1>3, MaxCountAssumption
  <1>5. acc.free = FreeSlots(t, c)
    BY <1>3 DEF MergedTo
  <1>6. slot \in acc.free /\ slot \in Slots(c) /\ slot \in Nat
    <2>1. acc.free \subseteq Slots(c)
      BY ONLY <1>5 DEF FreeSlots
    <2>2. Slots(c) \subseteq Nat
      BY DEF Slots
    <2>3. acc.free # {}
      OBVIOUS
    <2> QED
      BY ONLY <2>1, <2>2, <2>3, MinOfSome
  <1> HIDE DEF slot
  <1>7. x \in Stack /\ x.id = item.id /\ x.pos = slot /\ x.count = filled.left
    BY <1>2, <1>3, <1>6 DEF Stack, slot
  <1> HIDE DEF t, n, item
  <1>8. t \in Seq(Stack) /\ n \in Nat /\ DOMAIN t = 1 .. n
    BY <1>3 DEF IsPocket, n
  <1> DEFINE r == Append(t, x)
  <1>9. r \in Seq(Stack) /\ DOMAIN r = 1 .. n + 1 /\ r[n + 1] = x /\ \A i \in 1 .. n : r[i] = t[i]
    BY <1>7, <1>8 DEF n
  <1>10. next.result = r /\ next.free = acc.free \ {slot}
    BY DEF slot, t
  <1> HIDE DEF r
  <1>11. \A i \in 1 .. n + 1 : i \in 1 .. n \/ i = n + 1
    BY <1>8
  <1>12. \A i \in 1 .. n : t[i].pos # slot
    BY <1>5, <1>6, <1>8 DEF FreeSlots
  <1>13. IsPocket(r, c)
    <2>1. ApartIn(r)
      <3> SUFFICES ASSUME NEW i \in 1 .. n + 1, NEW j \in 1 .. n + 1, r[i].pos = r[j].pos PROVE i = j
        BY <1>9 DEF ApartIn
      <3>1. CASE i \in 1 .. n /\ j \in 1 .. n
        BY <1>3, <1>8, <1>9, <3>1 DEF IsPocket, ApartIn
      <3>2. CASE i = n + 1 /\ j \in 1 .. n
        BY <1>7, <1>9, <1>12, <3>2
      <3>3. CASE i \in 1 .. n /\ j = n + 1
        BY <1>7, <1>9, <1>12, <3>3
      <3> QED
        BY <1>11, <3>1, <3>2, <3>3
    <2>2. \A i \in DOMAIN r : r[i].pos \in Slots(c) /\ r[i].count \in 1 .. MaxCount[r[i].id]
      <3> SUFFICES ASSUME NEW i \in 1 .. n + 1
                   PROVE  r[i].pos \in Slots(c) /\ r[i].count \in 1 .. MaxCount[r[i].id]
        BY <1>9
      <3>1. CASE i = n + 1
        <4>1. filled.left \in 1 .. MaxCount[item.id]
          BY <1>3, <1>4
        <4> QED
          BY <1>6, <1>7, <1>9, <3>1, <4>1
      <3>2. CASE i \in 1 .. n
        BY <1>3, <1>8, <1>9, <3>2 DEF IsPocket
      <3> QED
        BY <1>11, <3>1, <3>2
    <2> QED
      BY <1>9, <2>1, <2>2 DEF IsPocket
  <1>14. acc.free \ {slot} = FreeSlots(r, c)
    <2>1. {r[i].pos : i \in DOMAIN r} = {t[i].pos : i \in DOMAIN t} \cup {slot}
      <3>1. \A i \in 1 .. n : r[i].pos = t[i].pos
        BY <1>9
      <3>2. n + 1 \in DOMAIN r /\ r[n + 1].pos = slot
        BY <1>7, <1>8, <1>9
      <3>3. \A i \in DOMAIN r : i \in 1 .. n \/ i = n + 1
        BY <1>9, <1>11
      <3>4. DOMAIN t = 1 .. n /\ \A i \in 1 .. n : i \in DOMAIN r
        BY <1>8, <1>9
      <3> QED
        BY ONLY <3>1, <3>2, <3>3, <3>4
    <2> QED
      BY <1>5, <2>1 DEF FreeSlots
  <1> DEFINE more == [new EXCEPT ![item.id] = @ + 1]
  <1>15. more \in [Ids -> Nat] /\ more[item.id] = new[item.id] + 1
         /\ \A id \in Ids \ {item.id} : more[id] = new[id]
    BY <1>2
  <1> HIDE DEF more
  <1>16. SumFunctionOnSet(more, IdsOf(toFill)) + Cardinality(acc.free \ {slot}) = Cardinality(FreeSlots(kept, c))
    <2> DEFINE I == IdsOf(toFill)
    <2>1. IsFiniteSet(I) /\ I \subseteq Ids /\ item.id \in I
      BY <1>1, <1>2, FiniteGoods
    <2>2. SumFunctionOnSet(new, I) \in Int /\ SumFunctionOnSet(more, I) = SumFunctionOnSet(new, I) + 1
      BY <2>1, OneMoreStack DEF more
    <2>6. acc.free \in SUBSET Slots(c)
      BY <1>5 DEF FreeSlots
    <2>7. Cardinality(acc.free \ {slot}) = Cardinality(acc.free) - 1 /\ Cardinality(acc.free) \in Nat
      <3>1. IsFiniteSet(acc.free) /\ Cardinality(acc.free) \in Nat
        BY <1>1, <2>6, FiniteGoods
      <3> QED
        BY <1>6, <3>1, FS_RemoveElement
    <2>8. SumFunctionOnSet(new, I) + Cardinality(acc.free) = Cardinality(FreeSlots(kept, c))
      BY DEF MergedTo, I
    <2>12. PICK v \in Int, q \in Nat : v = SumFunctionOnSet(new, I) /\ q = Cardinality(acc.free)
      BY <2>2, <2>7
    <2>13. SumFunctionOnSet(more, I) = v + 1 /\ Cardinality(acc.free \ {slot}) = q - 1
      BY <2>2, <2>7, <2>12
    <2>14. v + q = Cardinality(FreeSlots(kept, c))
      BY <2>8, <2>12
    <2>9. SumFunctionOnSet(more, I) + Cardinality(acc.free \ {slot}) = Cardinality(FreeSlots(kept, c))
      BY <2>13, <2>14
    <2> QED
      BY <2>9 DEF I
  <1>17. ASSUME NEW id \in Ids PROVE Stacked(r, kept, toFill, k, more, id)
    <2>1. Stacked(acc.result, kept, toFill, k - 1, new, id)
      BY DEF MergedTo
    <2>20. PICK a0 \in Int, r0 \in Int, f \in Int, m \in Nat, u \in Nat :
              Counts(acc.result, kept, toFill, k, new, id, a0, r0, f, m, u)
      BY <1>1, <2>1, GoodsSums
    <2>2. /\ a0 = SumOver(Amounts(id), kept) /\ r0 = SumOver(Rooms(id), kept)
          /\ f = SumUpTo(Amounts(id), toFill, k - 1)
          /\ m = new[id] * MaxCount[id]
          /\ (new[id] + 1) * MaxCount[id] = m + MaxCount[id]
          /\ (new[id] - 1) * MaxCount[id] = m - MaxCount[id]
          /\ u = IF id = toFill[k].id THEN toFill[k].count ELSE 0
          /\ SumUpTo(Amounts(id), toFill, k) = f + u
          /\ SumOver(Amounts(id), acc.result) = a0 + f
          /\ SumOver(Rooms(id), acc.result) = r0 - f + m
          /\ new[id] > 0 => r0 - f + m < MaxCount[id]
      BY <2>20 DEF Counts, Holding
    <2>3. Amounts(id) \in [Stack -> Int] /\ Rooms(id) \in [Stack -> Int]
      BY WeightTypes
    <2>4. /\ SumOver(Amounts(id), r) = SumOver(Amounts(id), t) + Amounts(id)[x]
          /\ SumOver(Rooms(id), r) = SumOver(Rooms(id), t) + Rooms(id)[x]
      BY <1>7, <1>8, <2>3, SumOverAppend DEF r
    <2>5. new[id] \in Nat /\ MaxCount[id] \in Nat /\ (new[id] + 1) * MaxCount[id] = m + MaxCount[id]
      <3>1. new[id] \in Nat /\ MaxCount[id] \in Nat
        BY MaxCountAssumption
      <3>2. (new[id] + 1) * MaxCount[id] = m + MaxCount[id]
        BY <2>2
      <3> QED
        BY <3>1, <3>2
    <2>6. CASE id = item.id
      <3>1. Gone(item, filled.left, id) = item.count - filled.left /\ u = item.count
        BY <2>2, <2>6 DEF Gone, item
      <3>2. Amounts(id)[x] = filled.left /\ Rooms(id)[x] = MaxCount[id] - filled.left
        BY <1>4, <1>7, <2>6 DEF Amounts, Rooms
      <3>4. SumOver(Rooms(id), t) = 0
        BY <1>3, <1>4, <2>6
      <3>3. 0 = (r0 - f + m) - (u - filled.left)
        <4>1. SumOver(Rooms(id), t) = SumOver(Rooms(id), acc.result) - Gone(item, filled.left, id)
          BY <1>3
        <4>2. SumOver(Rooms(id), acc.result) = r0 - f + m
          BY <2>2
        <4> QED
          BY ONLY <3>1, <3>4, <4>1, <4>2
      <3>5. SumOver(Rooms(id), r) = MaxCount[id] - filled.left
        <4>1. SumOver(Rooms(id), r) = 0 + (MaxCount[id] - filled.left)
          BY <2>4, <3>2, <3>4
        <4>2. filled.left \in Nat /\ MaxCount[id] \in Nat
          BY <1>3, <2>5
        <4> QED
          BY <4>1, <4>2
      <3>6. MaxCount[id] - filled.left = r0 - (f + u) + (m + MaxCount[id])
        <4>1. filled.left \in Nat /\ MaxCount[id] \in Nat
          BY <1>3, <2>5
        <4>2. PICK l \in Nat, q \in Nat : l = filled.left /\ q = MaxCount[id]
          BY <4>1
        <4>3. 0 = (r0 - f + m) - (u - l)
          BY <3>3, <4>2
        <4>5. r0 \in Int /\ f \in Int /\ m \in Nat /\ u \in Nat /\ l \in Nat /\ q \in Nat
          OBVIOUS
        <4>4. q - l = r0 - (f + u) + (m + q)
          BY ONLY <4>3, <4>5
        <4> QED
          BY <4>2, <4>4
      <3>7. SumOver(Amounts(id), t) = (a0 + f) + (u - filled.left)
        BY <1>3, <2>2, <3>1
      <3>8. SumOver(Amounts(id), r) = a0 + (f + u)
        BY <1>3, <2>4, <3>2, <3>7
      <3>9. more[id] * MaxCount[id] = m + MaxCount[id]
        BY <1>15, <2>5, <2>6
      <3>10. MaxCount[id] - filled.left < MaxCount[id]
        BY <1>3, <1>4, <2>5
      <3>11. /\ SumOver(Amounts(id), r) = SumOver(Amounts(id), kept) + SumUpTo(Amounts(id), toFill, k)
             /\ SumOver(Rooms(id), r)
                  = SumOver(Rooms(id), kept) - SumUpTo(Amounts(id), toFill, k) + more[id] * MaxCount[id]
             /\ SumOver(Rooms(id), r) < MaxCount[id]
        BY <2>2, <3>5, <3>6, <3>8, <3>9, <3>10
      <3> QED
        BY <3>11 DEF Stacked
    <2>7. CASE id # item.id
      <3>1. Gone(item, filled.left, id) = 0 /\ u = 0
        BY <2>2, <2>7 DEF Gone, item
      <3>2. Amounts(id)[x] = 0 /\ Rooms(id)[x] = 0
        BY <1>7, <2>7 DEF Amounts, Rooms
      <3>3. SumOver(Amounts(id), t) = a0 + f /\ SumOver(Rooms(id), t) = r0 - f + m
        <4>1. SumOver(Amounts(id), acc.result) = a0 + f /\ SumOver(Rooms(id), acc.result) = r0 - f + m
          BY <2>2
        <4>2. /\ SumOver(Amounts(id), t) = SumOver(Amounts(id), acc.result) + 0
              /\ SumOver(Rooms(id), t) = SumOver(Rooms(id), acc.result) - 0
          BY <1>3, <3>1
        <4> QED
          BY <4>1, <4>2
      <3>4. SumOver(Amounts(id), r) = a0 + f /\ SumOver(Rooms(id), r) = r0 - f + m
        BY <2>4, <3>2, <3>3
      <3>5. more[id] = new[id]
        BY <1>15, <2>7
      <3>6. /\ SumOver(Amounts(id), r) = SumOver(Amounts(id), kept) + SumUpTo(Amounts(id), toFill, k)
            /\ SumOver(Rooms(id), r)
                 = SumOver(Rooms(id), kept) - SumUpTo(Amounts(id), toFill, k) + more[id] * MaxCount[id]
            /\ more[id] > 0 => SumOver(Rooms(id), r) < MaxCount[id]
        <4>1. SumUpTo(Amounts(id), toFill, k) = f
          <5>1. SumUpTo(Amounts(id), toFill, k) = f + u
            BY <2>2
          <5>2. f \in Int
            OBVIOUS
          <5> QED
            BY ONLY <3>1, <5>1, <5>2
        <4>2. more[id] * MaxCount[id] = m
          BY <2>2, <3>5
        <4>3. more[id] > 0 => r0 - f + m < MaxCount[id]
          BY <2>2, <3>5
        <4> QED
          BY <2>2, <3>4, <4>1, <4>2, <4>3
      <3> QED
        BY <3>6 DEF Stacked
    <2> QED
      BY <2>6, <2>7
  <1>18. MergedTo(next, kept, toFill, c, k, more)
    BY <1>10, <1>14, <1>16, <1>17 DEF MergedTo
  <1> QED
    BY <1>10, <1>13, <1>15, <1>18

\* The next stack of goods is merged, whatever the accumulator.
LEMMA MergeOneType ==
    ASSUME NEW c \in Nat, NEW acc \in Merging(c), NEW item \in Stack
    PROVE  MergeOne(acc, item) \in Merging(c)
  <1> DEFINE filled == TopUp(acc.result, item)
  <1> DEFINE n == Len(acc.result)
  <1>1. acc.result \in Seq(Stack) /\ acc.free \in SUBSET Slots(c) /\ acc.ok \in BOOLEAN
    BY DEF Merging
  <1>2. Filled(filled, acc.result, n, item, n)
    BY <1>1, TopUpFills
  <1>3. filled.stacks \in [1 .. n -> Stack] /\ filled.left \in Nat /\ n \in Nat
    BY <1>1, <1>2 DEF Filled, Filling
  <1>4. filled.stacks \in Seq(Stack)
    BY <1>3
  <1> HIDE DEF filled, n
  <1>5. CASE ~acc.ok
    BY <1>5 DEF MergeOne
  <1>6. CASE acc.ok /\ filled.left = 0
    <2>1. MergeOne(acc, item) = [acc EXCEPT !.result = filled.stacks]
      BY <1>6 DEF MergeOne, filled
    <2> QED
      BY <1>4, <2>1 DEF Merging
  <1>7. CASE acc.ok /\ filled.left # 0 /\ acc.free = {}
    <2>1. MergeOne(acc, item) = [acc EXCEPT !.ok = FALSE, !.result = filled.stacks]
      BY <1>7 DEF MergeOne, filled
    <2> QED
      BY <1>4, <2>1 DEF Merging
  <1>8. CASE acc.ok /\ filled.left # 0 /\ acc.free # {}
    <2> DEFINE x == [id |-> item.id, pos |-> Min(acc.free), count |-> filled.left]
    <2>1. MergeOne(acc, item) = [ok     |-> TRUE,
                                 result |-> Append(filled.stacks, x),
                                 free   |-> acc.free \ {Min(acc.free)}]
      BY <1>8 DEF MergeOne, filled
    <2>2. Min(acc.free) \in Nat
      <3>1. \A i \in Slots(c) : i \in Nat
        BY DEF Slots
      <3>2. acc.free \in SUBSET Nat
        BY <1>1, <3>1
      <3> QED
        BY <1>8, <3>2, MinOfSome
    <2>3. x \in Stack
      BY <1>3, <2>2 DEF Stack
    <2> HIDE DEF x
    <2>4. Append(filled.stacks, x) \in Seq(Stack)
      BY <1>4, <2>3
    <2> QED
      BY <1>1, <2>1, <2>4 DEF Merging
  <1> QED
    BY <1>1, <1>5, <1>6, <1>7, <1>8

\* The next stack of goods, in a merge that has come so far.
LEMMA MergeOneStep ==
    ASSUME NEW c \in Nat, NEW kept \in Seq(Stack), NEW toFill, IsGoods(toFill),
           NEW k \in 1 .. Len(toFill), NEW acc, Merged(acc, kept, toFill, c, k - 1)
    PROVE  Merged(MergeOne(acc, toFill[k]), kept, toFill, c, k)
  <1> DEFINE item == toFill[k]
  <1> DEFINE filled == TopUp(acc.result, item)
  <1> DEFINE next == MergeOne(acc, item)
  <1>1. acc \in Merging(c) /\ IsPocket(acc.result, c) /\ acc.result \in Seq(Stack) /\ acc.ok \in BOOLEAN
    BY DEF Merged, Merging
  <1>2. toFill \in Seq(Stack) /\ item \in Stack
    BY DEF IsGoods
  <1>3. next \in Merging(c)
    BY <1>1, <1>2, MergeOneType
  <1>4. IsPocket(filled.stacks, c)
    <2>1. ToppedUp(filled, acc.result, item, c)
      BY <1>1, <1>2, TopUpPocket
    <2> QED
      BY <2>1 DEF ToppedUp
  <1>5. acc.ok => \E new \in [Ids -> Nat] : MergedTo(acc, kept, toFill, c, k - 1, new)
    BY DEF Merged
  <1> SUFFICES Merged(next, kept, toFill, c, k)
    OBVIOUS
  <1>6. CASE ~acc.ok
    <2>1. next = acc
      BY <1>6 DEF MergeOne
    <2>2. PICK new \in [Ids -> Nat], id \in IdsOf(toFill) : StoppedAt(kept, toFill, c, k - 1, new, id)
      BY <1>6 DEF Merged
    <2>3. id \in Ids
      BY <1>2, FiniteGoods
    <2>4. StoppedAt(kept, toFill, c, k, new, id)
      BY <1>2, <2>2, <2>3, StoppedStays
    <2> HIDE DEF next
    <2> QED
      BY <1>1, <1>6, <2>1, <2>4 DEF Merged
  <1>7. CASE acc.ok /\ filled.left = 0
    <2>1. next = [acc EXCEPT !.result = filled.stacks]
      BY <1>7 DEF MergeOne
    <2> HIDE DEF next
    <2>2. next.result = filled.stacks /\ next.free = acc.free /\ next.ok
      BY <1>1, <1>7, <2>1 DEF Merging
    <2>3. PICK new \in [Ids -> Nat] : MergedTo(acc, kept, toFill, c, k - 1, new)
      BY <1>5, <1>7
    <2>4. MergedTo(next, kept, toFill, c, k, new)
      BY <1>1, <1>7, <2>2, <2>3, MergeNothingLeft
    <2> QED
      BY <1>3, <1>4, <2>2, <2>4 DEF Merged
  <1>8. CASE acc.ok /\ filled.left # 0 /\ acc.free = {}
    <2>1. next = [acc EXCEPT !.ok = FALSE, !.result = filled.stacks]
      BY <1>8 DEF MergeOne
    <2> HIDE DEF next
    <2>2. next.result = filled.stacks /\ ~next.ok
      BY <1>1, <1>8, <2>1 DEF Merging
    <2>3. PICK new \in [Ids -> Nat] : MergedTo(acc, kept, toFill, c, k - 1, new)
      BY <1>5, <1>8
    <2>4. StoppedAt(kept, toFill, c, k, new, item.id)
      BY <1>1, <1>8, <2>3, MergeStops
    <2>5. item.id \in IdsOf(toFill)
      BY <1>2 DEF IdsOf
    <2> QED
      BY <1>3, <1>4, <2>2, <2>4, <2>5 DEF Merged
  <1>9. CASE acc.ok /\ filled.left # 0 /\ acc.free # {}
    <2> DEFINE x == [id |-> item.id, pos |-> Min(acc.free), count |-> filled.left]
    <2>1. next = [ok |-> TRUE, result |-> Append(filled.stacks, x), free |-> acc.free \ {Min(acc.free)}]
      BY <1>9 DEF MergeOne
    <2> HIDE DEF next
    <2>2. next.result = Append(filled.stacks, x) /\ next.free = acc.free \ {Min(acc.free)} /\ next.ok
      BY <2>1
    <2>3. PICK new \in [Ids -> Nat] : MergedTo(acc, kept, toFill, c, k - 1, new)
      BY <1>5, <1>9
    <2>4. /\ IsPocket(next.result, c)
          /\ \E more \in [Ids -> Nat] : MergedTo(next, kept, toFill, c, k, more)
      BY <1>1, <1>9, <2>2, <2>3, MergeNewStack
    <2> QED
      BY <1>3, <2>2, <2>4 DEF Merged
  <1> QED
    BY <1>1, <1>6, <1>7, <1>8, <1>9

\* The possession of a trader: one stack a slot, none overfull, perhaps some with
\* nothing left of them.
IsPossession(p, c) ==
    /\ p \in Seq(Stack) /\ ApartIn(p)
    /\ \A i \in DOMAIN p : p[i].pos \in Slots(c) /\ p[i].count <= MaxCount[p[i].id]

\* What Kept leaves is a pocket, on the slots in use.
LEMMA KeptPocket ==
    ASSUME NEW c \in Nat, NEW p, IsPossession(p, c)
    PROVE  /\ IsPocket(Kept(p), c)
           /\ FreeSlots(Kept(p), c) = Slots(c) \ SlotsInUse(p)
           /\ \A id \in Ids : /\ SumOver(Amounts(id), Kept(p)) = SumOver(Amounts(id), p)
                              /\ SumOver(Rooms(id), Kept(p)) = SumOver(Rooms(id), p)
  <1> DEFINE kept == Kept(p)
  <1> DEFINE n == Len(p)
  <1>1. p \in Seq(Stack) /\ ApartIn(p) /\ DOMAIN p = 1 .. n
    BY DEF IsPossession
  <1>2. KeptUpTo(kept, p, n)
    BY <1>1, KeptKeeps
  <1>3. /\ kept \in Seq(Stack) /\ ApartIn(kept)
        /\ \A i \in DOMAIN kept : \E j \in DOMAIN p : kept[i] = p[j] /\ p[j].count > 0
        /\ \A j \in DOMAIN p : p[j].count > 0 => \E i \in DOMAIN kept : kept[i] = p[j]
    BY <1>1, <1>2 DEF KeptUpTo
  <1>4. ASSUME NEW id \in Ids
        PROVE  /\ SumOver(Amounts(id), kept) = SumOver(Amounts(id), p)
               /\ SumOver(Rooms(id), kept) = SumOver(Rooms(id), p)
    <2>1. /\ SumOver(Amounts(id), kept) = SumUpTo(Amounts(id), p, n)
          /\ SumOver(Rooms(id), kept) = SumUpTo(Rooms(id), p, n)
      BY <1>2 DEF KeptUpTo
    <2>2. Amounts(id) \in [Stack -> Int] /\ Rooms(id) \in [Stack -> Int]
      BY WeightTypes
    <2>3. /\ SumUpTo(Amounts(id), p, n) = SumOver(Amounts(id), p)
          /\ SumUpTo(Rooms(id), p, n) = SumOver(Rooms(id), p)
      BY <1>1, <2>2, SumUpToSteps
    <2> QED
      BY <2>1, <2>3
  <1> HIDE DEF kept
  <1>5. IsPocket(kept, c)
    <2> SUFFICES ASSUME NEW i \in DOMAIN kept
                 PROVE  kept[i].pos \in Slots(c) /\ kept[i].count \in 1 .. MaxCount[kept[i].id]
      BY <1>3 DEF IsPocket
    <2>1. PICK j \in DOMAIN p : kept[i] = p[j] /\ p[j].count > 0
      BY <1>3
    <2>2. p[j] \in Stack /\ p[j].pos \in Slots(c) /\ p[j].count <= MaxCount[p[j].id]
      BY <1>1 DEF IsPossession
    <2>3. p[j].count \in Nat /\ p[j].id \in Ids
      BY <2>2 DEF Stack
    <2>4. MaxCount[p[j].id] \in Nat
      BY <2>3, MaxCountAssumption
    <2> QED
      BY <2>1, <2>2, <2>3, <2>4
  <1>6. FreeSlots(kept, c) = Slots(c) \ SlotsInUse(p)
    <2>1. {kept[i].pos : i \in DOMAIN kept} = SlotsInUse(p)
      BY <1>3 DEF SlotsInUse
    <2> QED
      BY <2>1 DEF FreeSlots
  <1> QED
    BY <1>4, <1>5, <1>6 DEF kept

\* The merge comes to the end of the goods, or stops.
LEMMA MergeMerges ==
    ASSUME NEW c \in Nat, NEW p, IsPossession(p, c), NEW toFill, IsGoods(toFill)
    PROVE  Merged(Merge(p, toFill, c), Kept(p), toFill, c, Len(toFill))
  <1> DEFINE n == Len(toFill)
  <1> DEFINE kept == Kept(p)
  <1> DEFINE A == Merging(c)
  <1> DEFINE base == [ok |-> TRUE, result |-> kept, free |-> FreeSlots(kept, c)]
  <1> DEFINE step == [q \in A \X (1 .. n) |-> MergeOne(q[1], toFill[q[2]])]
  <1> DEFINE Fold(it) == it = [s \in SUBSET (DOMAIN toFill) |->
                                 IF s = {} THEN base ELSE MergeOne(it[s \ {Max(s)}], toFill[Max(s)])]
  <1>1. n \in Nat /\ DOMAIN toFill = 1 .. n /\ toFill \in Seq(Stack) /\ \A i \in 1 .. n : toFill[i] \in Stack
    BY DEF IsGoods
  <1>a. IsPocket(kept, c) /\ kept \in Seq(Stack)
    BY KeptPocket DEF IsPocket
  <1>2. base \in A
    BY <1>a DEF Merging, FreeSlots
  <1>3. step \in [A \X (1 .. n) -> A]
    <2> SUFFICES ASSUME NEW acc \in A, NEW i \in 1 .. n PROVE MergeOne(acc, toFill[i]) \in A
      OBVIOUS
    <2> QED
      BY <1>1, MergeOneType
  <1>4. PICK it \in [SUBSET (1 .. n) -> A] : SeqFoldsTo(it, n, base, step)
    <2> HIDE DEF n, A, base, step
    <2> QED
      BY <1>1, <1>2, <1>3, FoldLeftExists
  <1>5. Fold(it)
    <2>1. ASSUME NEW s \in SUBSET (1 .. n), s # {}
          PROVE  it[s] = MergeOne(it[s \ {Max(s)}], toFill[Max(s)])
      <3>1. Max(s) \in 1 .. n
        BY <1>1, <2>1, LargestPlace
      <3>2. s \ {Max(s)} \in SUBSET (1 .. n)
        OBVIOUS
      <3>3. it[s] = step[<<it[s \ {Max(s)}], Max(s)>>]
        BY <1>4, <2>1 DEF SeqFoldsTo
      <3> QED
        BY <3>1, <3>2, <3>3
    <2>2. it = [s \in SUBSET (1 .. n) |-> it[s]]
      OBVIOUS
    <2>3. it[{}] = base
      BY <1>4 DEF SeqFoldsTo
    <2> HIDE DEF step, base
    <2> QED
      BY <1>1, <2>1, <2>2, <2>3
  <1> DEFINE jt == CHOOSE t : Fold(t)
  <1>6. Merge(p, toFill, c) = jt[DOMAIN toFill]
    BY DEF Merge, FoldLeft, MapThenFoldSet
  <1>7. Fold(jt)
    BY <1>5
  <1>8. jt[{}] = base
    <2> HIDE DEF jt, base
    <2> QED
      BY <1>7
  <1>9. ASSUME NEW k \in 1 .. n PROVE jt[1 .. k] = MergeOne(jt[1 .. k - 1], toFill[k])
    <2> HIDE DEF jt, base
    <2>1. (1 .. k) \in SUBSET (DOMAIN toFill)
      BY <1>1
    <2>2. Max(1 .. k) = k /\ (1 .. k) \ {k} = 1 .. k - 1 /\ (1 .. k) # {}
      <3>1. k \in Nat /\ k > 0
        BY <1>1
      <3> QED
        BY ONLY <3>1, LastPlace
    <2>3. jt = [s \in SUBSET (DOMAIN toFill) |-> IF s = {} THEN base ELSE MergeOne(jt[s \ {Max(s)}], toFill[Max(s)])]
      BY <1>7
    <2>4. jt[1 .. k] = IF (1 .. k) = {} THEN base ELSE MergeOne(jt[(1 .. k) \ {Max(1 .. k)}], toFill[Max(1 .. k)])
      BY ONLY <2>1, <2>3
    <2> QED
      BY ONLY <2>2, <2>4
  <1> HIDE DEF jt, kept
  <1> DEFINE T == {k \in 0 .. n : Merged(jt[1 .. k], kept, toFill, c, k)}
  <1>10. 0 \in T
    <2>1. 1 .. 0 = {}
      OBVIOUS
    <2>2. Merged(base, kept, toFill, c, 0)
      <3> DEFINE new == [id \in Ids |-> 0]
      <3>1. new \in [Ids -> Nat] /\ \A id \in Ids : new[id] = 0
        OBVIOUS
      <3>2. base.ok /\ base.result = kept /\ base.free = FreeSlots(kept, c)
        OBVIOUS
      <3> HIDE DEF new, base
      <3>3. SumFunctionOnSet(new, IdsOf(toFill)) = 0
        <4>1. IsFiniteSet(IdsOf(toFill)) /\ \A id \in IdsOf(toFill) : new[id] = 0
          BY <1>1, <3>1, FiniteGoods
        <4> QED
          BY <4>1, SumZero
      <3>4. Cardinality(FreeSlots(kept, c)) \in Nat
        BY <1>1, FiniteGoods DEF FreeSlots
      <3>5. ASSUME NEW id \in Ids PROVE Stacked(kept, kept, toFill, 0, new, id)
        <4>1. Amounts(id) \in [Stack -> Int] /\ Rooms(id) \in [Stack -> Int]
          BY WeightTypes
        <4>2. SumUpTo(Amounts(id), toFill, 0) = 0
          BY <1>1, <4>1, SumUpToSteps
        <4>3. SumOver(Amounts(id), kept) \in Int /\ SumOver(Rooms(id), kept) \in Int
          BY <1>a, <4>1, SumOverType
        <4>4. MaxCount[id] \in Nat /\ new[id] = 0
          BY <3>1, MaxCountAssumption
        <4>5. new[id] * MaxCount[id] = 0
          BY <4>4
        <4> QED
          BY <4>2, <4>3, <4>4, <4>5 DEF Stacked
      <3>6. MergedTo(base, kept, toFill, c, 0, new)
        BY <3>2, <3>3, <3>4, <3>5 DEF MergedTo
      <3> QED
        BY <1>2, <1>a, <3>1, <3>2, <3>6 DEF Merged
    <2> QED
      BY <1>1, <1>8, <2>1, <2>2
  <1>11. \A k \in 1 .. n : k - 1 \in T => k \in T
    <2> SUFFICES ASSUME NEW k \in 1 .. n, k - 1 \in T PROVE k \in T
      OBVIOUS
    <2>1. Merged(jt[1 .. k - 1], kept, toFill, c, k - 1)
      OBVIOUS
    <2>2. Merged(MergeOne(jt[1 .. k - 1], toFill[k]), kept, toFill, c, k)
      BY <1>a, <2>1, MergeOneStep
    <2> QED
      BY <1>1, <1>9, <2>2
  <1>12. n \in T
    <2> HIDE DEF T
    <2>1. \A k \in 0 .. n : k \in T
      BY <1>1, <1>10, <1>11, CountInduction
    <2> QED
      BY <1>1, <2>1
  <1> QED
    BY <1>1, <1>6, <1>12 DEF kept

-----------------------------------------------------------------------------
(***************************************************************************)
(* What Merge promises, for pockets and goods of any size.                 *)
(***************************************************************************)
\* The merge never makes anything but a pocket, and when it succeeds the total of every
\* id is what the possession and the goods held.
LEMMA MergePocket ==
    ASSUME NEW c \in Nat, NEW p, IsPossession(p, c), NEW toFill, IsGoods(toFill),
           NEW m, m = Merge(p, toFill, c)
    PROVE  /\ m.ok \in BOOLEAN /\ IsPocket(m.result, c)
           /\ m.ok => \A id \in Ids :
                         TotalOf(m.result, id) = TotalOf(p, id) + TotalOf(toFill, id)
  <1> DEFINE n == Len(toFill)
  <1>1. Merged(m, Kept(p), toFill, c, n)
    BY MergeMerges
  <1>2. m.ok \in BOOLEAN /\ IsPocket(m.result, c) /\ m.result \in Seq(Stack)
    BY <1>1 DEF Merged, Merging
  <1>3. ASSUME m.ok, NEW id \in Ids
        PROVE  TotalOf(m.result, id) = TotalOf(p, id) + TotalOf(toFill, id)
    <2>1. p \in Seq(Stack) /\ toFill \in Seq(Stack)
      BY DEF IsPossession, IsGoods
    <2>2. PICK new \in [Ids -> Nat] : MergedTo(m, Kept(p), toFill, c, n, new)
      BY <1>1, <1>3 DEF Merged
    <2>3. SumOver(Amounts(id), m.result)
            = SumOver(Amounts(id), Kept(p)) + SumUpTo(Amounts(id), toFill, n)
      BY <2>2 DEF MergedTo, Stacked
    <2>4. SumOver(Amounts(id), Kept(p)) = SumOver(Amounts(id), p)
      BY KeptPocket
    <2>5. SumUpTo(Amounts(id), toFill, n) = SumOver(Amounts(id), toFill)
      BY <2>1, WeightTypes, SumUpToSteps
    <2> QED
      BY <1>2, <2>1, <2>3, <2>4, <2>5, TotalIsSum
  <1> QED
    BY <1>2, <1>3

\* Rounded up, a number of lots is the number of stacks they fill.
LEMMA CeilDivOf ==
    ASSUME NEW f \in Int, NEW b \in Nat, b > 0, NEW q \in Nat
    PROVE  /\ f <= q * b /\ (q > 0 => f > (q - 1) * b) => CeilDiv(Max({0, f}), b) = q
           /\ (q > 0 => f > (q - 1) * b) => CeilDiv(Max({0, f}), b) >= q
           /\ f > q * b => CeilDiv(Max({0, f}), b) > q
           /\ CeilDiv(Max({0, f}), b) \in Nat
  <1> DEFINE a == Max({0, f})
  <1>1. a \in Nat /\ a >= f /\ (a = 0 \/ a = f) /\ a >= 0
    <2>1. \E x \in {0, f} : \A y \in {0, f} : x >= y
      <3>1. CASE f <= 0
        BY <3>1
      <3>2. CASE ~(f <= 0)
        BY <3>2
      <3> QED
        BY <3>1, <3>2
    <2>2. Max({0, f}) \in {0, f} /\ \A y \in {0, f} : Max({0, f}) >= y
      BY <2>1 DEF Max
    <2> QED
      BY <2>2
  <1> HIDE DEF a
  <1>2. PICK d \in Nat : d = CeilDiv(a, b) /\ d * b >= a /\ d * b < a + b
    <2>1. (a + b - 1) \div b \in Nat
      BY <1>1
    <2>2. PICK d \in Nat : d = (a + b - 1) \div b
      BY <2>1
    <2>3. d * b <= a + b - 1 /\ a + b - 1 < (d + 1) * b
      BY <1>1, <2>2
    <2>4. (d + 1) * b = d * b + b /\ d * b \in Nat
      OBVIOUS
    <2>5. d * b >= a /\ d * b < a + b
      BY <1>1, <2>3, <2>4
    <2> QED
      BY <2>2, <2>5 DEF CeilDiv
  <1>3. ASSUME NEW x \in Nat, NEW y \in Nat, x < y PROVE (x + 1) * b <= y * b
    BY <1>3
  <1>4. q > 0 => (q - 1) * b = q * b - b
    OBVIOUS
  <1>5. (d + 1) * b = d * b + b /\ (q + 1) * b = q * b + b /\ d * b \in Nat /\ q * b \in Nat
    OBVIOUS
  <1>6. ASSUME q > 0 => f > (q - 1) * b PROVE d >= q
    <2> SUFFICES ASSUME d < q PROVE FALSE
      OBVIOUS
    <2>1. d * b + b <= q * b /\ q > 0
      BY <1>3, <1>5
    <2>2. f > q * b - b
      BY <1>4, <1>6, <2>1
    <2> QED
      BY <1>1, <1>2, <1>5, <2>1, <2>2
  <1>7. ASSUME f <= q * b PROVE d <= q
    <2> SUFFICES ASSUME q < d PROVE FALSE
      OBVIOUS
    <2>1. q * b + b <= d * b
      BY <1>3, <1>5
    <2>2. a <= q * b
      BY <1>1, <1>5, <1>7
    <2> QED
      BY <1>1, <1>2, <1>5, <2>1, <2>2
  <1>8. ASSUME f > q * b PROVE d > q
    <2> SUFFICES ASSUME d <= q PROVE FALSE
      OBVIOUS
    <2>1. d * b <= q * b
      <3>1. CASE d = q
        BY <1>5, <3>1
      <3>2. CASE d < q
        BY <1>3, <1>5, <3>2
      <3> QED
        BY <3>1, <3>2
    <2> QED
      BY <1>1, <1>2, <1>5, <1>8, <2>1
  <1>9. d = CeilDiv(Max({0, f}), b)
    BY <1>2 DEF a
  <1> QED
    BY <1>6, <1>7, <1>8, <1>9

\* A merge is refused exactly when the goods need more new stacks than slots are free.
LEMMA MergeFits ==
    ASSUME NEW c \in Nat, NEW p, IsPossession(p, c), NEW toFill, IsGoods(toFill),
           NEW m, m = Merge(p, toFill, c)
    PROVE  m.ok <=> Fits(p, toFill, c)
  <1> DEFINE n == Len(toFill)
  <1> DEFINE kept == Kept(p)
  <1> DEFINE I == IdsOf(toFill)
  <1> DEFINE need == [id \in I |-> SlotsNeeded(p, toFill, id)]
  <1> DEFINE over(id) == SumUpTo(Amounts(id), toFill, n) - SumOver(Rooms(id), kept)
  <1>1. Merged(m, kept, toFill, c, n)
    BY MergeMerges
  <1>2. p \in Seq(Stack) /\ toFill \in Seq(Stack)
    BY DEF IsPossession, IsGoods
  <1>3. IsPocket(kept, c) /\ FreeSlots(kept, c) = Slots(c) \ SlotsInUse(p)
        /\ \A id \in Ids : SumOver(Rooms(id), kept) = SumOver(Rooms(id), p)
    BY KeptPocket
  <1>4. kept \in Seq(Stack)
    BY <1>3 DEF IsPocket
  <1>5. IsFiniteSet(I) /\ I \subseteq Ids
    BY <1>2, FiniteGoods
  <1> HIDE DEF kept
  <1>6. ASSUME NEW id \in Ids
        PROVE  /\ over(id) \in Int /\ MaxCount[id] \in Nat /\ MaxCount[id] > 0
               /\ SumOver(Rooms(id), kept) \in Int /\ SumUpTo(Amounts(id), toFill, n) \in Int
               /\ SlotsNeeded(p, toFill, id) = CeilDiv(Max({0, over(id)}), MaxCount[id])
    <2>1. Amounts(id) \in [Stack -> Int] /\ Rooms(id) \in [Stack -> Int]
      BY WeightTypes
    <2>2. SumUpTo(Amounts(id), toFill, n) = TotalOf(toFill, id)
      BY <1>2, <2>1, SumUpToSteps, TotalIsSum
    <2>3. SumOver(Rooms(id), kept) = RoomFor(p, id)
      BY <1>2, <1>3, TotalIsSum
    <2>4. SumOver(Rooms(id), kept) \in Int /\ SumUpTo(Amounts(id), toFill, n) \in Int
      <3>1. SumOver(Amounts(id), toFill) \in Int /\ SumOver(Rooms(id), kept) \in Int
        BY <1>2, <1>4, <2>1, SumOverType
      <3> QED
        BY <1>2, <2>1, <3>1, SumUpToSteps
    <2>5. MaxCount[id] \in Nat /\ MaxCount[id] > 0
      BY MaxCountAssumption
    <2> QED
      BY <2>2, <2>3, <2>4, <2>5 DEF SlotsNeeded
  <1>7. Fits(p, toFill, c) <=> SumFunctionOnSet(need, I) <= Cardinality(FreeSlots(kept, c))
    <2>1. DOMAIN need = I
      OBVIOUS
    <2>2. Fits(p, toFill, c) <=> SumFunction(need) <= Cardinality(FreeSlots(kept, c))
      BY <1>3 DEF Fits, IdsOf
    <2> QED
      BY <2>1, <2>2 DEF SumFunction
  <1>8. \A id \in I : need[id] = SlotsNeeded(p, toFill, id)
    OBVIOUS
  <1>9. Cardinality(FreeSlots(kept, c)) \in Nat
    BY <1>2, FiniteGoods DEF FreeSlots
  <1> HIDE DEF over, I, need, n
  <1>10. ASSUME m.ok PROVE SumFunctionOnSet(need, I) <= Cardinality(FreeSlots(kept, c))
    <2>1. PICK new \in [Ids -> Nat] : MergedTo(m, kept, toFill, c, n, new)
      BY <1>1, <1>10 DEF Merged
    <2>2. IsPocket(m.result, c)
      BY <1>1 DEF Merged
    <2>3. ASSUME NEW id \in I PROVE need[id] \in Int /\ need[id] = new[id]
      <3>1. id \in Ids
        BY <1>5
      <3>2. /\ over(id) \in Int /\ MaxCount[id] \in Nat /\ MaxCount[id] > 0
            /\ SumOver(Rooms(id), kept) \in Int /\ SumUpTo(Amounts(id), toFill, n) \in Int
            /\ SlotsNeeded(p, toFill, id) = CeilDiv(Max({0, over(id)}), MaxCount[id])
        BY <1>6, <3>1
      <3>3. Stacked(m.result, kept, toFill, n, new, id)
        BY <2>1, <3>1 DEF MergedTo
      <3>4. new[id] \in Nat
        BY <3>1
      <3>5. PICK q \in Nat, b \in Nat, f \in Int, r \in Int :
               q = new[id] /\ b = MaxCount[id] /\ f = SumUpTo(Amounts(id), toFill, n)
               /\ r = SumOver(Rooms(id), kept)
        BY <3>2, <3>4
      <3>6. SumOver(Rooms(id), m.result) >= 0
        BY <2>2, <3>1, RoomIsNat
      <3>7. SumOver(Rooms(id), m.result) = r - f + q * b /\ (q > 0 => SumOver(Rooms(id), m.result) < b)
        BY <3>3, <3>5 DEF Stacked
      <3>8. q * b \in Nat /\ (q - 1) * b = q * b - b
        OBVIOUS
      <3>9. f - r <= q * b /\ (q > 0 => f - r > (q - 1) * b)
        BY <3>6, <3>7, <3>8
      <3>10. over(id) = f - r /\ f - r \in Int /\ b > 0
        BY <3>2, <3>5 DEF over
      <3>11. CeilDiv(Max({0, f - r}), b) = q
        BY <3>9, <3>10, CeilDivOf
      <3> QED
        BY <1>8, <3>2, <3>5, <3>10, <3>11
    <2>4. SumFunctionOnSet(need, I) = SumFunctionOnSet(new, I) /\ SumFunctionOnSet(new, I) \in Int
      <3>1. \A id \in I : need[id] \in Int /\ new[id] = need[id]
        BY <2>3
      <3>2. SumFunctionOnSet(need, I) = SumFunctionOnSet(new, I)
        BY <1>5, <3>1, SumSame
      <3>3. SumFunctionOnSet(need, I) \in Int
        BY <1>5, <3>1, SumType
      <3> QED
        BY <3>2, <3>3
    <2>5. Cardinality(m.free) \in Nat
      <3>1. m.free \in SUBSET Slots(c)
        BY <1>1 DEF Merged, Merging
      <3> QED
        BY <1>2, <3>1, FiniteGoods
    <2>6. SumFunctionOnSet(new, I) + Cardinality(m.free) = Cardinality(FreeSlots(kept, c))
      BY <2>1 DEF MergedTo, I
    <2> QED
      BY <1>9, <2>4, <2>5, <2>6
  <1>11. ASSUME ~m.ok PROVE SumFunctionOnSet(need, I) > Cardinality(FreeSlots(kept, c))
    <2>1. PICK new \in [Ids -> Nat], at \in I : StoppedAt(kept, toFill, c, n, new, at)
      BY <1>1, <1>11 DEF Merged, I
    <2>2. ASSUME NEW id \in I
          PROVE  /\ new[id] \in Int /\ need[id] \in Int /\ new[id] <= need[id]
                 /\ id = at => new[id] < need[id]
      <3>1. id \in Ids
        BY <1>5
      <3>2. /\ over(id) \in Int /\ MaxCount[id] \in Nat /\ MaxCount[id] > 0
            /\ SlotsNeeded(p, toFill, id) = CeilDiv(Max({0, over(id)}), MaxCount[id])
        BY <1>6, <3>1
      <3>3. new[id] \in Nat
        BY <3>1
      <3>4. /\ new[id] > 0 => over(id) > (new[id] - 1) * MaxCount[id]
            /\ id = at => over(id) > new[id] * MaxCount[id]
        BY <2>1, <3>1 DEF StoppedAt, over
      <3>5. /\ CeilDiv(Max({0, over(id)}), MaxCount[id]) >= new[id]
            /\ id = at => CeilDiv(Max({0, over(id)}), MaxCount[id]) > new[id]
            /\ CeilDiv(Max({0, over(id)}), MaxCount[id]) \in Nat
        BY <3>2, <3>3, <3>4, CeilDivOf
      <3> QED
        BY <1>8, <3>2, <3>3, <3>5
    <2>3. \A id \in I : new[id] \in Int /\ need[id] \in Int /\ new[id] <= need[id]
      BY <2>2
    <2>4. new[at] < need[at]
      BY <2>2
    <2>5. SumFunctionOnSet(new, I) < SumFunctionOnSet(need, I)
      BY <1>5, <2>3, <2>4, SumStrictlyMonotonic
    <2>6. SumFunctionOnSet(new, I) = Cardinality(FreeSlots(kept, c))
      BY <2>1 DEF StoppedAt, I
    <2>7. SumFunctionOnSet(need, I) \in Int
      BY <1>5, <2>3, SumType
    <2> QED
      BY <1>9, <2>5, <2>6, <2>7
  <1>12. m.ok \in BOOLEAN
    BY <1>1 DEF Merged, Merging
  <1>13. SumFunctionOnSet(need, I) \in Int
    <2>1. ASSUME NEW id \in I PROVE need[id] \in Int
      <3>1. id \in Ids
        BY <1>5
      <3>2. /\ over(id) \in Int /\ MaxCount[id] \in Nat /\ MaxCount[id] > 0
            /\ SlotsNeeded(p, toFill, id) = CeilDiv(Max({0, over(id)}), MaxCount[id])
        BY <1>6, <3>1
      <3>3. 0 \in Nat
        OBVIOUS
      <3> QED
        BY <1>8, <3>2, <3>3, CeilDivOf
    <2> QED
      BY <1>5, <2>1, SumType
  <1> QED
    BY <1>7, <1>9, <1>10, <1>11, <1>12, <1>13

-----------------------------------------------------------------------------
(***************************************************************************)
(* The order book: T the ids of the orders, U the users, P the prices.     *)
(***************************************************************************)
OrdersOf(T, U, P) == [tid : T, user : U, price : P, volume : Int]

DealsOf(T, U, P) ==
    [order : OrdersOf(T, U, P), dealtid : T, ack_money : Int,
     status : {"COMMISSION_WAIT", "COMMISSION_DONE", "BALANCE_WAIT", "BALANCE_DONE"}]

\* Markets with a book of n orders.
Markets(n, T, U, P) ==
    [orders : [1 .. n -> OrdersOf(T, U, P)], volumes : [P -> Int], pending : Seq(DealsOf(T, U, P)),
     ack_volume : Int, ack_money : Int]

\* What an order adds to the volume of a price, and a deal to the lots of an
\* order, to the money and to the lots sold.
AtPrice(S, p)  == [o \in S |-> IF o.price = p THEN o.volume ELSE 0]
OwnLots(S, t)  == [d \in S |-> IF d.order.tid = t THEN d.order.volume ELSE 0]
OwnMoney(S)    == [d \in S |-> d.ack_money]
OwnSales(S)    == [d \in S |-> IF d.order.price > 0 THEN d.order.volume ELSE -d.order.volume]

\* The same of a book or of deals.
OfferedAt(book, p, S) == SumOver(AtPrice(S, p), book)
LotsIn(deals, t, S) == SumOver(OwnLots(S, t), deals)
MoneyIn(deals, S)   == SumOver(OwnMoney(S), deals)
SalesIn(deals, S)   == SumOver(OwnSales(S), deals)

\* What is weighed are numbers.
LEMMA DealWeights ==
    ASSUME NEW T, NEW U, NEW P, P \subseteq Int, NEW S, S = DealsOf(T, U, P)
    PROVE  /\ \A t : OwnLots(S, t) \in [S -> Int]
           /\ OwnMoney(S) \in [S -> Int] /\ OwnSales(S) \in [S -> Int]
  BY DEF DealsOf, OrdersOf, OwnLots, OwnMoney, OwnSales

\* So are what orders add.
LEMMA OrderWeights ==
    ASSUME NEW T, NEW U, NEW P, NEW S, S = OrdersOf(T, U, P)
    PROVE  \A p : AtPrice(S, p) \in [S -> Int]
  BY DEF OrdersOf, AtPrice

\* more is deals and one more, over q lots of order o.
DealAdded(more, deals, o, q, a, S) ==
    /\ more \in Seq(S)
    /\ \A t : LotsIn(more, t, S) = LotsIn(deals, t, S) + IF o.tid = t THEN q ELSE 0
    /\ MoneyIn(more, S) = MoneyIn(deals, S) + a
    /\ SalesIn(more, S) = SalesIn(deals, S) + IF o.price > 0 THEN q ELSE -q

\* The sums when a deal over q lots of order o is added.
LEMMA DealAdds ==
    ASSUME NEW T, NEW U, NEW P, P \subseteq Int, NEW deals \in Seq(DealsOf(T, U, P)),
           NEW o \in OrdersOf(T, U, P), NEW q \in Int, NEW x \in T, NEW a \in Int
    PROVE  DealAdded(Append(deals, Deal(o, q, x, a)), deals, o, q, a, DealsOf(T, U, P))
  <1> DEFINE S == DealsOf(T, U, P)
  <1> DEFINE d == Deal(o, q, x, a)
  <1>1. /\ d.order.tid = o.tid /\ d.order.price = o.price /\ d.order.volume = q /\ d.ack_money = a
        /\ d \in S
    BY DEF Deal, DealsOf, OrdersOf
  <1>2. d \in S /\ deals \in Seq(S)
    BY <1>1
  <1>9. P \subseteq Int /\ S = DealsOf(T, U, P)
    OBVIOUS
  <1> HIDE DEF S, d
  <1>3. \A t : OwnLots(S, t) \in [S -> Int]
    BY ONLY <1>9, DealWeights
  <1>4. OwnMoney(S) \in [S -> Int] /\ OwnSales(S) \in [S -> Int]
    BY ONLY <1>9, DealWeights
  <1>5. ASSUME NEW t PROVE LotsIn(Append(deals, d), t, S) = LotsIn(deals, t, S) + IF o.tid = t THEN q ELSE 0
    <2>1. SumOver(OwnLots(S, t), Append(deals, d)) = SumOver(OwnLots(S, t), deals) + OwnLots(S, t)[d]
      BY ONLY <1>2, <1>3, WeighedAppend
    <2>2. OwnLots(S, t)[d] = IF o.tid = t THEN q ELSE 0
      BY ONLY <1>1 DEF OwnLots
    <2> QED
      BY ONLY <2>1, <2>2 DEF LotsIn
  <1>6. MoneyIn(Append(deals, d), S) = MoneyIn(deals, S) + a
    <2>1. SumOver(OwnMoney(S), Append(deals, d)) = SumOver(OwnMoney(S), deals) + OwnMoney(S)[d]
      BY ONLY <1>2, <1>4, WeighedAppend
    <2>2. OwnMoney(S)[d] = a
      BY ONLY <1>1 DEF OwnMoney
    <2> QED
      BY ONLY <2>1, <2>2 DEF MoneyIn
  <1>7. SalesIn(Append(deals, d), S) = SalesIn(deals, S) + IF o.price > 0 THEN q ELSE -q
    <2>1. SumOver(OwnSales(S), Append(deals, d)) = SumOver(OwnSales(S), deals) + OwnSales(S)[d]
      BY ONLY <1>2, <1>4, WeighedAppend
    <2>2. OwnSales(S)[d] = IF o.price > 0 THEN q ELSE -q
      BY ONLY <1>1 DEF OwnSales
    <2> QED
      BY ONLY <2>1, <2>2 DEF SalesIn
  <1>8. Append(deals, d) \in Seq(S)
    BY ONLY <1>2
  <1>10. DealAdded(Append(deals, d), deals, o, q, a, S)
    BY ONLY <1>5, <1>6, <1>7, <1>8 DEF DealAdded
  <1> QED
    BY ONLY <1>10 DEF d, S

\* new is book after q lots were taken from the order at place i.
TakenFrom(new, book, i, q, n, S) ==
    /\ new \in [1 .. n -> S]
    /\ \A j \in 1 .. n : j # i => new[j] = book[j]
    /\ new[i] = [book[i] EXCEPT !.volume = @ - q]
    /\ \A p : OfferedAt(new, p, S) = OfferedAt(book, p, S) - IF book[i].price = p THEN q ELSE 0

\* The volumes on offer when q lots are taken from the order at place i.
LEMMA OfferShrinks ==
    ASSUME NEW T, NEW U, NEW P, NEW n \in Nat, NEW book \in [1 .. n -> OrdersOf(T, U, P)],
           NEW i \in 1 .. n, NEW q \in Int
    PROVE  TakenFrom([book EXCEPT ![i].volume = @ - q], book, i, q, n, OrdersOf(T, U, P))
  <1> DEFINE S == OrdersOf(T, U, P)
  <1> DEFINE new == [book EXCEPT ![i].volume = @ - q]
  <1>5. S = OrdersOf(T, U, P) /\ book \in [1 .. n -> S] /\ book \in Seq(S)
    OBVIOUS
  <1>1. book[i] \in S
    OBVIOUS
  <1>2. [book[i] EXCEPT !.volume = @ - q] \in S
    BY <1>1 DEF OrdersOf
  <1>3. /\ new \in [1 .. n -> S]
        /\ \A j \in 1 .. n : j # i => new[j] = book[j]
        /\ new[i] = [book[i] EXCEPT !.volume = @ - q]
    BY <1>2
  <1>4. ASSUME NEW p PROVE OfferedAt(new, p, S) = OfferedAt(book, p, S) - IF book[i].price = p THEN q ELSE 0
    <2> DEFINE w == AtPrice(S, p)
    <2>1. w \in [S -> Int]
      <3> HIDE DEF S
      <3> QED
        BY ONLY <1>5, OrderWeights
    <2>2. w[new[i]] = w[book[i]] - (IF book[i].price = p THEN q ELSE 0) /\ w[book[i]] \in Int
      <3>1. new[i] \in S /\ book[i].volume \in Int
        BY <1>1, <1>3 DEF OrdersOf
      <3>2. new[i].price = book[i].price /\ new[i].volume = book[i].volume - q
        BY <1>1, <1>3 DEF OrdersOf
      <3>3. w[new[i]] = IF new[i].price = p THEN new[i].volume ELSE 0
        BY ONLY <3>1 DEF AtPrice
      <3>4. w[book[i]] = IF book[i].price = p THEN book[i].volume ELSE 0
        BY ONLY <1>1 DEF AtPrice
      <3>5. q \in Int
        OBVIOUS
      <3> QED
        BY ONLY <3>1, <3>2, <3>3, <3>4, <3>5
    <2> HIDE DEF w, new, S
    <2>4. n \in Nat /\ i \in 1 .. n /\ q \in Int
      OBVIOUS
    <2>3. ChangedAt(i, w, book, new, n)
      <3>1. Len(book) = n /\ Len(new) = n
        BY ONLY <1>3, <1>5, <2>4
      <3>2. \A j \in 1 .. n : w[book[j]] \in Int /\ w[new[j]] \in Int
        BY ONLY <1>3, <1>5, <2>1
      <3> QED
        BY ONLY <1>3, <3>1, <3>2 DEF ChangedAt
    <2>5. SumOver(w, new) = SumOver(w, book) - w[book[i]] + w[new[i]]
      BY ONLY <2>3, <2>4, WeighedChange
    <2>6. SumOver(w, book) \in Int
      BY ONLY <1>5, <2>1, SumOverType
    <2>7. SumOver(w, new) = SumOver(w, book) - IF book[i].price = p THEN q ELSE 0
      BY ONLY <2>2, <2>4, <2>5, <2>6
    <2> QED
      BY <2>7 DEF OfferedAt, w
  <1> HIDE DEF new, S
  <1>6. TakenFrom(new, book, i, q, n, S)
    BY ONLY <1>3, <1>4 DEF TakenFrom
  <1> QED
    BY ONLY <1>6 DEF new, S

-----------------------------------------------------------------------------
(***************************************************************************)
(* One match.                                                              *)
(***************************************************************************)
\* The volumes when q lots less are on offer at price x.
Lowered(new, volumes, x, q, P) ==
    new \in [P -> Int] /\ \A p \in P : new[p] = volumes[p] - IF x = p THEN q ELSE 0

\* ReduceVolume takes them off.
LEMMA VolumeReduced ==
    ASSUME NEW P, NEW volumes \in [P -> Int], NEW x \in P, NEW q \in Int
    PROVE  Lowered(ReduceVolume(volumes, x, q), volumes, x, q, P)
  BY DEF ReduceVolume, Lowered

\* r is market m after q lots of the order at place i have been matched.
MatchedAt(r, m, i, q, n, T, U, P) ==
    LET S == DealsOf(T, U, P)
        o == m.orders[i]
    IN /\ r \in Markets(n, T, U, P)
       /\ \A j \in 1 .. n : j # i => r.orders[j] = m.orders[j]
       /\ r.orders[i] = [o EXCEPT !.volume = @ - q]
       /\ r.ack_volume = m.ack_volume + q
       /\ \A p \in P : r.volumes[p] - OfferedAt(r.orders, p, OrdersOf(T, U, P))
                         = m.volumes[p] - OfferedAt(m.orders, p, OrdersOf(T, U, P))
       /\ \A t \in T : LotsIn(r.pending, t, S) = LotsIn(m.pending, t, S) + IF o.tid = t THEN q ELSE 0
       /\ MoneyIn(r.pending, S) + r.ack_money = MoneyIn(m.pending, S) + m.ack_money
       /\ SalesIn(r.pending, S) = SalesIn(m.pending, S) + IF o.price > 0 THEN q ELSE -q

\* What is summed up of a market are numbers.
LEMMA MarketSums ==
    ASSUME NEW T, NEW U, NEW P, P \subseteq Int, NEW n \in Nat, NEW m \in Markets(n, T, U, P)
    PROVE  /\ \A p : OfferedAt(m.orders, p, OrdersOf(T, U, P)) \in Int
           /\ \A t : LotsIn(m.pending, t, DealsOf(T, U, P)) \in Int
           /\ MoneyIn(m.pending, DealsOf(T, U, P)) \in Int
           /\ SalesIn(m.pending, DealsOf(T, U, P)) \in Int
  <1> DEFINE S == DealsOf(T, U, P)
  <1> DEFINE R == OrdersOf(T, U, P)
  <1>1. m.orders \in Seq(R) /\ m.pending \in Seq(S)
    BY DEF Markets
  <1>2. \A p : AtPrice(R, p) \in [R -> Int]
    BY OrderWeights
  <1>3. (\A t : OwnLots(S, t) \in [S -> Int]) /\ OwnMoney(S) \in [S -> Int] /\ OwnSales(S) \in [S -> Int]
    BY DealWeights
  <1> HIDE DEF S, R
  <1>4. \A p : OfferedAt(m.orders, p, R) \in Int
    BY ONLY <1>1, <1>2, SumOverType DEF OfferedAt
  <1>5. \A t : LotsIn(m.pending, t, S) \in Int
    BY ONLY <1>1, <1>3, SumOverType DEF LotsIn
  <1>6. MoneyIn(m.pending, S) \in Int
    BY ONLY <1>1, <1>3, SumOverType DEF MoneyIn
  <1>7. SalesIn(m.pending, S) \in Int
    BY ONLY <1>1, <1>3, SumOverType DEF SalesIn
  <1> QED
    BY ONLY <1>4, <1>5, <1>6, <1>7 DEF S, R

\* What a match takes, and what it changes.
LEMMA MatchOneStep ==
    ASSUME NEW T, NEW U, NEW P, P \subseteq Int, NEW n \in Nat, NEW m \in Markets(n, T, U, P),
           NEW i \in 1 .. n, NEW tid \in T, NEW volume \in Int, NEW r, r = MatchOne(m, i, tid, volume),
           NEW q, q = Least(m.orders[i].volume, volume - m.ack_volume)
    PROVE  q \in Int /\ MatchedAt(r, m, i, q, n, T, U, P)
  <1> DEFINE S == DealsOf(T, U, P)
  <1> DEFINE R == OrdersOf(T, U, P)
  <1> DEFINE o == m.orders[i]
  <1>1. /\ m.orders \in [1 .. n -> R] /\ m.volumes \in [P -> Int] /\ m.pending \in Seq(S)
        /\ m.ack_volume \in Int /\ m.ack_money \in Int
    BY DEF Markets
  <1>2. o \in R
    BY <1>1
  <1>3. o.volume \in Int /\ o.price \in P /\ o.price \in Int
    BY <1>2 DEF OrdersOf
  <1>4. q \in Int
    BY <1>1, <1>3 DEF Least
  <1>5. \A p : OfferedAt(m.orders, p, R) \in Int
    BY MarketSums
  <1>6. /\ \A t : LotsIn(m.pending, t, S) \in Int
        /\ MoneyIn(m.pending, S) \in Int /\ SalesIn(m.pending, S) \in Int
    BY MarketSums
  <1>7. CASE q = 0
    <2>1. r = m
      BY <1>7 DEF MatchOne
    <2>2. o = [o EXCEPT !.volume = @ - q]
      BY <1>2, <1>3, <1>7 DEF OrdersOf
    <2>3. /\ SalesIn(m.pending, S) = SalesIn(m.pending, S) + IF o.price > 0 THEN q ELSE -q
          /\ m.ack_volume = m.ack_volume + q
          /\ \A t \in T : LotsIn(m.pending, t, S) = LotsIn(m.pending, t, S) + IF o.tid = t THEN q ELSE 0
      BY ONLY <1>1, <1>6, <1>7
    <2> QED
      BY <1>4, <2>1, <2>2, <2>3 DEF MatchedAt
  <1>8. CASE q # 0
    <2> DEFINE a == o.price * q
    <2> DEFINE d == Deal(o, q, tid, a)
    <2> DEFINE new == [m.orders EXCEPT ![i].volume = @ - q]
    <2>1. r = [m EXCEPT !.orders[i].volume = @ - q, !.volumes = ReduceVolume(@, o.price, q),
                        !.pending = Append(@, d), !.ack_volume = @ + q, !.ack_money = @ - a]
      BY <1>8 DEF MatchOne
    <2>2. a \in Int
      BY <1>3, <1>4
    <2> HIDE DEF a
    <2>3. /\ r.orders = new /\ r.volumes = ReduceVolume(m.volumes, o.price, q)
          /\ r.pending = Append(m.pending, d) /\ r.ack_volume = m.ack_volume + q
          /\ r.ack_money = m.ack_money - a
          /\ r = [orders |-> r.orders, volumes |-> r.volumes, pending |-> r.pending,
                  ack_volume |-> r.ack_volume, ack_money |-> r.ack_money]
      BY <2>1 DEF Markets
    <2>9. /\ P \subseteq Int /\ n \in Nat /\ i \in 1 .. n /\ tid \in T
          /\ S = DealsOf(T, U, P) /\ R = OrdersOf(T, U, P)
      OBVIOUS
    <2>4. DealAdded(Append(m.pending, d), m.pending, o, q, a, S)
      BY ONLY <1>1, <1>2, <1>4, <2>2, <2>9, DealAdds
    <2>5. TakenFrom(new, m.orders, i, q, n, R)
      BY ONLY <1>1, <1>4, <2>9, OfferShrinks
    <2>6. r.volumes \in [P -> Int] /\ \A p \in P : r.volumes[p] = m.volumes[p] - IF o.price = p THEN q ELSE 0
      <3>1. Lowered(ReduceVolume(m.volumes, o.price, q), m.volumes, o.price, q, P)
        BY ONLY <1>1, <1>3, <1>4, VolumeReduced
      <3> QED
        BY ONLY <2>3, <3>1 DEF Lowered
    <2>7. r \in Markets(n, T, U, P)
      <3>2. r.orders \in [1 .. n -> R] /\ r.pending \in Seq(S)
        BY ONLY <2>3, <2>4, <2>5 DEF DealAdded, TakenFrom
      <3>3. r.ack_volume \in Int /\ r.ack_money \in Int
        BY ONLY <1>1, <1>4, <2>2, <2>3
      <3>1. /\ r.orders \in [1 .. n -> R] /\ r.volumes \in [P -> Int] /\ r.pending \in Seq(S)
            /\ r.ack_volume \in Int /\ r.ack_money \in Int
        BY ONLY <2>6, <3>2, <3>3
      <3> QED
        BY ONLY <2>3, <3>1 DEF Markets
    <2>8. \A p \in P : r.volumes[p] - OfferedAt(r.orders, p, R) = m.volumes[p] - OfferedAt(m.orders, p, R)
      <3> SUFFICES ASSUME NEW p \in P
                   PROVE  r.volumes[p] - OfferedAt(r.orders, p, R) = m.volumes[p] - OfferedAt(m.orders, p, R)
        OBVIOUS
      <3>1. PICK v \in Int, x \in Int, c \in Int : /\ v = m.volumes[p] /\ x = OfferedAt(m.orders, p, R)
                                                  /\ c = IF o.price = p THEN q ELSE 0
        BY <1>1, <1>4, <1>5
      <3>2. r.volumes[p] = v - c
        BY <2>6, <3>1
      <3>3. OfferedAt(r.orders, p, R) = x - c
        BY ONLY <2>3, <2>5, <3>1 DEF TakenFrom
      <3> QED
        BY ONLY <3>1, <3>2, <3>3
    <2>10. MoneyIn(r.pending, S) + r.ack_money = MoneyIn(m.pending, S) + m.ack_money
      <3>1. MoneyIn(r.pending, S) = MoneyIn(m.pending, S) + a
        BY ONLY <2>3, <2>4 DEF DealAdded
      <3> QED
        BY ONLY <1>1, <1>6, <2>2, <2>3, <3>1
    <2>11. /\ \A t \in T : LotsIn(r.pending, t, S) = LotsIn(m.pending, t, S) + IF o.tid = t THEN q ELSE 0
           /\ SalesIn(r.pending, S) = SalesIn(m.pending, S) + IF o.price > 0 THEN q ELSE -q
      BY ONLY <2>3, <2>4 DEF DealAdded
    <2>12. /\ \A j \in 1 .. n : j # i => r.orders[j] = m.orders[j]
           /\ r.orders[i] = [o EXCEPT !.volume = @ - q]
      BY ONLY <2>3, <2>5 DEF TakenFrom
    <2> QED
      BY ONLY <1>4, <2>3, <2>7, <2>8, <2>10, <2>11, <2>12 DEF MatchedAt
  <1> QED
    BY <1>4, <1>7, <1>8

-----------------------------------------------------------------------------
(***************************************************************************)
(* PriceMatching.                                                          *)
(***************************************************************************)
\* The market an incoming order finds.
Incoming(m) == [m EXCEPT !.ack_volume = 0, !.ack_money = 0]

\* The incoming order changes nothing but its own counts.
LEMMA IncomingType ==
    ASSUME NEW T, NEW U, NEW P, NEW n, NEW m \in Markets(n, T, U, P)
    PROVE  /\ Incoming(m) \in Markets(n, T, U, P)
           /\ Incoming(m).orders = m.orders /\ Incoming(m).volumes = m.volumes
           /\ Incoming(m).pending = m.pending /\ Incoming(m).ack_volume = 0 /\ Incoming(m).ack_money = 0
  <1>1. PICK a \in [1 .. n -> OrdersOf(T, U, P)], b \in [P -> Int], c \in Seq(DealsOf(T, U, P)),
             d \in Int, e \in Int :
           m = [orders |-> a, volumes |-> b, pending |-> c, ack_volume |-> d, ack_money |-> e]
    BY DEF Markets
  <1>2. Incoming(m) = [orders |-> a, volumes |-> b, pending |-> c, ack_volume |-> 0, ack_money |-> 0]
    <2>1. [m EXCEPT !.ack_volume = 0]
             = [orders |-> a, volumes |-> b, pending |-> c, ack_volume |-> 0, ack_money |-> e]
      BY ONLY <1>1
    <2>2. [[orders |-> a, volumes |-> b, pending |-> c, ack_volume |-> 0, ack_money |-> e] EXCEPT !.ack_money = 0]
             = [orders |-> a, volumes |-> b, pending |-> c, ack_volume |-> 0, ack_money |-> 0]
      OBVIOUS
    <2>3. Incoming(m) = [[m EXCEPT !.ack_volume = 0] EXCEPT !.ack_money = 0]
      BY ONLY <1>1 DEF Incoming
    <2> QED
      BY ONLY <2>1, <2>2, <2>3
  <1> QED
    BY <1>1, <1>2 DEF Markets

\* f[k] is the market when the order at place k has had its turn.
MatchedAlong(f, m, n, tid, price, volume) ==
    /\ f[0] = Incoming(m)
    /\ \A k \in 1 .. n : f[k] = IF Crosses(price, m.orders[k]) THEN MatchOne(f[k - 1], k, tid, volume)
                                ELSE f[k - 1]

\* r is the market in the end.
Matching(r, m, n, tid, price, volume, T, U, P) ==
    \E f \in [0 .. n -> Markets(n, T, U, P)] : MatchedAlong(f, m, n, tid, price, volume) /\ r = f[n]

\* A match leaves a market.
LEMMA MatchOneType ==
    ASSUME NEW T, NEW U, NEW P, P \subseteq Int, NEW n \in Nat, NEW m \in Markets(n, T, U, P),
           NEW i \in 1 .. n, NEW tid \in T, NEW volume \in Int
    PROVE  MatchOne(m, i, tid, volume) \in Markets(n, T, U, P)
  <1> DEFINE r == MatchOne(m, i, tid, volume)
  <1> DEFINE q == Least(m.orders[i].volume, volume - m.ack_volume)
  <1>1. MatchedAt(r, m, i, q, n, T, U, P)
    BY MatchOneStep
  <1> QED
    BY ONLY <1>1 DEF MatchedAt

\* PriceMatching goes through the book once, from its start to its end.
LEMMA MatchingTable ==
    ASSUME NEW T, NEW U, NEW P, P \subseteq Int, NEW n \in Nat, NEW m \in Markets(n, T, U, P),
           NEW tid \in T, NEW price \in Int, NEW volume \in Int, NEW r, r = PriceMatching(m, tid, price, volume)
    PROVE  Matching(r, m, n, tid, price, volume, T, U, P)
  <1> DEFINE A == Markets(n, T, U, P)
  <1> DEFINE base == Incoming(m)
  <1> DEFINE seq == [i \in 1 .. n |-> i]
  <1> DEFINE turn(x, i) == IF Crosses(price, m.orders[i]) THEN MatchOne(x, i, tid, volume) ELSE x
  <1> DEFINE step == [q \in A \X (1 .. n) |-> turn(q[1], q[2])]
  <1> DEFINE Fold(it) == it = [s \in SUBSET (DOMAIN seq) |->
                                 IF s = {} THEN base ELSE turn(it[s \ {Max(s)}], seq[Max(s)])]
  <1>1. /\ m.orders \in [1 .. n -> OrdersOf(T, U, P)] /\ m.volumes \in [P -> Int]
        /\ m.pending \in Seq(DealsOf(T, U, P))
        /\ m = [orders |-> m.orders, volumes |-> m.volumes, pending |-> m.pending,
                ack_volume |-> m.ack_volume, ack_money |-> m.ack_money]
    BY DEF Markets
  <1>2. base \in A
    BY IncomingType
  <1>3. Len(m.orders) = n /\ DOMAIN seq = 1 .. n
    BY <1>1
  <1>4. step \in [A \X (1 .. n) -> A]
    <2>1. ASSUME NEW x \in A, NEW i \in 1 .. n PROVE turn(x, i) \in A
      <3>1. MatchOne(x, i, tid, volume) \in A
        BY MatchOneType
      <3> QED
        BY ONLY <3>1, x \in A
    <2> HIDE DEF A, turn
    <2> QED
      BY ONLY <2>1
  <1>5. PICK it \in [SUBSET (1 .. n) -> A] : SeqFoldsTo(it, n, base, step)
    <2> HIDE DEF A, base, step
    <2> QED
      BY <1>2, <1>4, FoldLeftExists
  <1>6. Fold(it)
    <2>1. ASSUME NEW s \in SUBSET (1 .. n), s # {}
          PROVE  it[s] = turn(it[s \ {Max(s)}], seq[Max(s)])
      <3>1. Max(s) \in 1 .. n
        BY <2>1, LargestPlace
      <3>2. s \ {Max(s)} \in SUBSET (1 .. n)
        OBVIOUS
      <3>3. it[s] = step[<<it[s \ {Max(s)}], Max(s)>>]
        BY <1>5, <2>1 DEF SeqFoldsTo
      <3>4. it[s \ {Max(s)}] \in A /\ seq[Max(s)] = Max(s)
        BY <3>1, <3>2
      <3> HIDE DEF A, turn, seq
      <3> QED
        BY ONLY <3>1, <3>3, <3>4 DEF step
    <2>2. it = [s \in SUBSET (1 .. n) |-> it[s]]
      OBVIOUS
    <2>3. it[{}] = base
      BY <1>5 DEF SeqFoldsTo
    <2> HIDE DEF base, turn, seq
    <2> QED
      BY <1>3, <2>1, <2>2, <2>3
  <1> DEFINE jt == CHOOSE t : Fold(t)
  <1>7. r = jt[DOMAIN seq]
    BY <1>3 DEF PriceMatching, FoldLeft, MapThenFoldSet, Incoming
  <1>8. Fold(jt)
    BY <1>6
  <1>9. jt[{}] = base /\ \A k \in 1 .. n : jt[1 .. k] = turn(jt[1 .. k - 1], k)
    <2> HIDE DEF jt, base, turn
    <2>1. jt[{}] = base
      BY <1>8
    <2>2. ASSUME NEW k \in 1 .. n PROVE jt[1 .. k] = turn(jt[1 .. k - 1], k)
      <3>1. (1 .. k) \in SUBSET (DOMAIN seq)
        BY <1>3
      <3>5. k \in Nat /\ k > 0
        OBVIOUS
      <3>2. Max(1 .. k) = k /\ (1 .. k) \ {k} = 1 .. k - 1 /\ (1 .. k) # {}
        BY ONLY <3>5, LastPlace
      <3>3. jt[1 .. k] = turn(jt[(1 .. k) \ {Max(1 .. k)}], seq[Max(1 .. k)])
        BY <1>8, <3>1, <3>2
      <3>4. seq[k] = k
        OBVIOUS
      <3> HIDE DEF seq
      <3> QED
        BY ONLY <3>2, <3>3, <3>4
    <2> QED
      BY <2>1, <2>2
  <1> DEFINE f == [k \in 0 .. n |-> jt[1 .. k]]
  <1>10. f[0] = base /\ \A k \in 1 .. n : f[k] = turn(f[k - 1], k)
    <2>1. 1 .. 0 = {} /\ 0 \in 0 .. n /\ \A k \in 1 .. n : k \in 0 .. n /\ k - 1 \in 0 .. n
      OBVIOUS
    <2> HIDE DEF jt, base, turn
    <2> QED
      BY ONLY <1>9, <2>1
  <1>11. f \in [0 .. n -> A]
    <2> DEFINE G == {k \in 0 .. n : f[k] \in A}
    <2> HIDE DEF f
    <2>1. 0 \in G
      BY <1>2, <1>10
    <2>2. \A k \in 1 .. n : k - 1 \in G => k \in G
      <3> SUFFICES ASSUME NEW k \in 1 .. n, f[k - 1] \in A PROVE f[k] \in A
        OBVIOUS
      <3>1. MatchOne(f[k - 1], k, tid, volume) \in A
        BY MatchOneType
      <3>2. f[k] = turn(f[k - 1], k)
        BY <1>10
      <3> HIDE DEF A
      <3> QED
        BY <3>1, <3>2
    <2> HIDE DEF G
    <2>3. \A k \in 0 .. n : k \in G
      BY ONLY <2>1, <2>2, n \in Nat, CountInduction
    <2>4. \A k \in 0 .. n : f[k] \in A
      BY <2>3 DEF G
    <2> HIDE DEF A, jt
    <2> QED
      BY ONLY <2>4 DEF f
  <1>12. r = f[n]
    <2> HIDE DEF jt
    <2> QED
      BY <1>3, <1>7
  <1>13. MatchedAlong(f, m, n, tid, price, volume)
    <2> HIDE DEF f
    <2> QED
      BY <1>10 DEF MatchedAlong
  <1> HIDE DEF f
  <1> QED
    BY <1>11, <1>12, <1>13 DEF Matching

\* What an order adds to the volume an incoming order can be matched with.
ForPrice(S, price) == [o \in S |-> IF Crosses(price, o) THEN o.volume ELSE 0]

\* An order after some of its volume, at most all of it, was taken.
TakenOff(new, o) == new = [o EXCEPT !.volume = new.volume] /\ new.volume \in 0 .. o.volume

\* Nothing need be taken.
LEMMA NothingTaken ==
    ASSUME NEW T, NEW U, NEW P, NEW o \in OrdersOf(T, U, P), o.volume >= 0
    PROVE  TakenOff(o, o) /\ o.volume \in Nat
  <1>1. PICK a \in T, b \in U, c \in P, d \in Int : o = [tid |-> a, user |-> b, price |-> c, volume |-> d]
    BY DEF OrdersOf
  <1>2. [o EXCEPT !.volume = d] = [tid |-> a, user |-> b, price |-> c, volume |-> d]
    BY ONLY <1>1
  <1>3. o.volume = d
    BY <1>1
  <1> QED
    BY <1>1, <1>2, <1>3 DEF TakenOff

\* The book r.orders, with the first k orders of m.orders matched: as much as
\* there is up to volume, in the order of the book.
MatchedBook(r, m, k, n, price, volume, S) ==
    /\ r.ack_volume = Least(volume, SumUpTo(ForPrice(S, price), m.orders, k))
    /\ r.ack_volume \in 0 .. volume
    /\ r.ack_volume = 0 => \A i \in 1 .. n : r.orders[i] = m.orders[i]
    /\ \A i \in 1 .. n : TakenOff(r.orders[i], m.orders[i])
    /\ \A i \in 1 .. n : r.orders[i].volume < m.orders[i].volume => Crosses(price, m.orders[i]) /\ i <= k
    /\ r.ack_volume < volume =>
           \A i \in 1 .. k : Crosses(price, m.orders[i]) => r.orders[i].volume = 0
    /\ \A i, j \in 1 .. n : i < j /\ Crosses(price, m.orders[i]) /\ r.orders[j].volume < m.orders[j].volume
                                => r.orders[i].volume = 0

\* An order that is matched with is one of the given price or better, its turn
\* keeps all this.
LEMMA MatchedBookStep ==
    ASSUME NEW T, NEW U, NEW P, P \subseteq Int, NEW n \in Nat, NEW m \in Markets(n, T, U, P),
           NEW tid \in T, NEW price \in Int, NEW volume \in Nat, NEW k \in 1 .. n,
           NEW S, S = OrdersOf(T, U, P), \A i \in 1 .. n : m.orders[i].volume >= 0,
           NEW r0 \in Markets(n, T, U, P), MatchedBook(r0, m, k - 1, n, price, volume, S),
           NEW r, r = IF Crosses(price, m.orders[k]) THEN MatchOne(r0, k, tid, volume) ELSE r0
    PROVE  MatchedBook(r, m, k, n, price, volume, S)
  <1> DEFINE w == ForPrice(S, price)
  <1> DEFINE b == m.orders
  <1>1. b \in [1 .. n -> S] /\ b \in Seq(S) /\ r0.orders \in [1 .. n -> S] /\ Len(b) = n
    BY DEF Markets
  <1>2. w \in [S -> Int]
    BY DEF ForPrice, OrdersOf
  <1>3. b[k] \in S /\ b[k].volume \in Nat
    BY <1>1 DEF OrdersOf
  <1>4. w[b[k]] = IF Crosses(price, b[k]) THEN b[k].volume ELSE 0
    BY <1>3 DEF ForPrice
  <1>5. k \in 1 .. n /\ n \in Nat /\ volume \in Nat
    OBVIOUS
  <1> HIDE DEF w
  <1>6. SumUpTo(w, b, k - 1) \in Int /\ SumUpTo(w, b, k) = SumUpTo(w, b, k - 1) + w[b[k]]
    BY ONLY <1>1, <1>2, <1>5, WeighedUpTo
  <1>7. PICK c \in Int : c = SumUpTo(w, b, k - 1)
    BY <1>6
  <1>8. /\ r0.ack_volume = Least(volume, c) /\ r0.ack_volume \in 0 .. volume
        /\ r0.ack_volume = 0 => \A i \in 1 .. n : r0.orders[i] = b[i]
        /\ \A i \in 1 .. n : TakenOff(r0.orders[i], b[i])
        /\ \A i \in 1 .. n : r0.orders[i].volume < b[i].volume => Crosses(price, b[i]) /\ i <= k - 1
        /\ r0.ack_volume < volume =>
              \A i \in 1 .. k - 1 : Crosses(price, b[i]) => r0.orders[i].volume = 0
        /\ \A i, j \in 1 .. n : i < j /\ Crosses(price, b[i]) /\ r0.orders[j].volume < b[j].volume
                                    => r0.orders[i].volume = 0
    BY <1>7 DEF MatchedBook, w
  <1>9. CASE ~Crosses(price, b[k])
    <2>1. r = r0 /\ SumUpTo(w, b, k) = c
      BY <1>4, <1>6, <1>7, <1>9
    <2> HIDE DEF b
    <2>2. r.ack_volume < volume => \A i \in 1 .. k : Crosses(price, b[i]) => r.orders[i].volume = 0
      BY ONLY <1>5, <1>8, <1>9, <2>1
    <2>3. \A i \in 1 .. n : r.orders[i].volume < b[i].volume => Crosses(price, b[i]) /\ i <= k
      BY ONLY <1>5, <1>8, <2>1
    <2> QED
      BY ONLY <1>8, <2>1, <2>2, <2>3 DEF MatchedBook, w, b
  <1>10. CASE Crosses(price, b[k])
    <2> DEFINE q == Least(r0.orders[k].volume, volume - r0.ack_volume)
    <2>1. r = MatchOne(r0, k, tid, volume)
      BY <1>10
    <2>20. q = Least(r0.orders[k].volume, volume - r0.ack_volume)
      OBVIOUS
    <2> HIDE DEF q
    <2>21. r0 \in Markets(n, T, U, P) /\ P \subseteq Int /\ tid \in T /\ volume \in Int
      OBVIOUS
    <2>2. MatchedAt(r, r0, k, q, n, T, U, P)
      BY ONLY <1>5, <2>1, <2>20, <2>21, MatchOneStep
    <2>3. TakenOff(r0.orders[k], b[k]) /\ r0.orders[k].volume = b[k].volume
      BY <1>3, <1>5, <1>8 DEF TakenOff
    <2>4. PICK v \in Nat, a \in Int : v = b[k].volume /\ a = r0.ack_volume
      BY <1>3, <1>5, <1>7, <1>8 DEF Least
    <2>5. /\ q = Least(v, volume - a) /\ r.ack_volume = a + q
          /\ \A j \in 1 .. n : j # k => r.orders[j] = r0.orders[j]
          /\ r.orders[k] = [r0.orders[k] EXCEPT !.volume = @ - q]
      BY <2>2, <2>3, <2>4, <2>20 DEF MatchedAt
    <2>6. q \in 0 .. v /\ a + q = Least(volume, c + v) /\ a \in 0 .. volume /\ a + q \in 0 .. volume /\ (a + q < volume => q = v /\ a < volume)
          /\ (q > 0 => a < volume)
      <3>1. a = Least(volume, c) /\ a \in 0 .. volume /\ q = Least(v, volume - a) /\ volume \in Nat /\ v \in Nat /\ c \in Int
        BY <1>5, <1>7, <1>8, <2>4, <2>5
      <3> QED
        BY ONLY <3>1 DEF Least
    <2> HIDE DEF b
    <2>7. r.ack_volume = Least(volume, SumUpTo(w, b, k))
      BY <1>4, <1>6, <1>7, <1>10, <2>4, <2>5, <2>6
    <2>8. r.orders[k] = [b[k] EXCEPT !.volume = v - q] /\ r.orders[k].volume = v - q
      <3>1. r0.orders[k] = [b[k] EXCEPT !.volume = v]
        BY <2>3, <2>4 DEF TakenOff
      <3> QED
        BY <1>3, <2>5, <3>1 DEF OrdersOf
    <2>14. r.ack_volume \in 0 .. volume
      BY <2>5, <2>6
    <2>15. r.ack_volume = 0 => \A i \in 1 .. n : r.orders[i] = b[i]
      <3> SUFFICES ASSUME r.ack_volume = 0, NEW i \in 1 .. n PROVE r.orders[i] = b[i]
        OBVIOUS
      <3>1. q = 0 /\ r0.ack_volume = 0
        BY <2>4, <2>5, <2>6
      <3>2. r0.orders[i] = b[i]
        BY <1>8, <3>1
      <3>3. CASE i = k
        <4>1. r.orders[k] = [b[k] EXCEPT !.volume = b[k].volume]
          BY <2>4, <2>8, <3>1
        <4>2. TakenOff(b[k], b[k])
          BY <1>3, NothingTaken
        <4> QED
          BY <3>3, <4>1, <4>2 DEF TakenOff
      <3> QED
        BY <2>5, <3>2, <3>3
    <2>9. TakenOff(r.orders[k], b[k])
      BY ONLY <2>4, <2>6, <2>8 DEF TakenOff
    <2>10. \A i \in 1 .. n : TakenOff(r.orders[i], b[i])
      BY ONLY <1>8, <2>5, <2>9
    <2>11. \A i \in 1 .. n : r.orders[i].volume < b[i].volume => Crosses(price, b[i]) /\ i <= k
      BY ONLY <1>5, <1>8, <1>10, <2>5
    <2>12. r.ack_volume < volume => \A i \in 1 .. k : Crosses(price, b[i]) => r.orders[i].volume = 0
      <3> SUFFICES ASSUME r.ack_volume < volume, NEW i \in 1 .. k, Crosses(price, b[i])
                   PROVE  r.orders[i].volume = 0
        OBVIOUS
      <3>1. q = v /\ r0.ack_volume < volume
        BY <2>4, <2>5, <2>6
      <3>2. CASE i = k
        BY <2>4, <2>8, <3>1, <3>2
      <3>3. CASE i # k
        <4>1. i \in 1 .. k - 1 /\ i \in 1 .. n
          BY <1>5, <3>3
        <4> QED
          BY <1>8, <2>5, <3>1, <3>3, <4>1
      <3> QED
        BY <3>2, <3>3
    <2>13. ASSUME NEW i \in 1 .. n, NEW j \in 1 .. n, i < j, Crosses(price, b[i]),
                  r.orders[j].volume < b[j].volume
           PROVE  r.orders[i].volume = 0
      <3>1. CASE j = k
        <4>1. q > 0
          <5>1. r.orders[k].volume < b[k].volume
            BY <2>13, <3>1
          <5> QED
            BY ONLY <2>4, <2>6, <2>8, <5>1
        <4>2. i # k /\ i \in 1 .. k - 1
          BY <1>5, <2>13, <3>1
        <4> QED
          BY ONLY <1>8, <2>4, <2>5, <2>6, <2>13, <4>1, <4>2
      <3>2. CASE j # k
        <4>1. r0.orders[j].volume < b[j].volume
          BY <2>5, <2>13, <3>2
        <4>2. j <= k - 1
          BY <1>8, <4>1
        <4>3. i # k
          BY <1>5, <2>13, <4>2
        <4> QED
          BY <1>8, <2>5, <2>13, <4>1, <4>3
      <3> QED
        BY <3>1, <3>2
    <2> QED
      BY ONLY <2>7, <2>10, <2>11, <2>12, <2>13, <2>14, <2>15 DEF MatchedBook, w, b
  <1> QED
    BY <1>9, <1>10

\* No two orders have the same id.
TidsApart(book) == \A i, j \in DOMAIN book : book[i].tid = book[j].tid => i = j

\* The deals of r hold what has left the book of m, lot by lot, the volumes
\* follow the book, and the incoming order gets what its partners pay.
MatchedDeals(r, m, n, price, T, U, P) ==
    LET S == DealsOf(T, U, P)
        R == OrdersOf(T, U, P)
    IN /\ \A p \in P : r.volumes[p] - OfferedAt(r.orders, p, R) = m.volumes[p] - OfferedAt(m.orders, p, R)
       /\ TidsApart(m.orders) =>
              \A i \in 1 .. n : LotsIn(r.pending, m.orders[i].tid, S) + r.orders[i].volume
                                  = LotsIn(m.pending, m.orders[i].tid, S) + m.orders[i].volume
       /\ MoneyIn(r.pending, S) + r.ack_money = MoneyIn(m.pending, S)
       /\ SalesIn(r.pending, S) = SalesIn(m.pending, S) + IF price > 0 THEN -r.ack_volume ELSE r.ack_volume

\* The turn of one order keeps this.
LEMMA MatchedDealsStep ==
    ASSUME NEW T, NEW U, NEW P, P \subseteq Int, NEW n \in Nat, NEW m \in Markets(n, T, U, P),
           NEW tid \in T, NEW price \in Int, NEW volume \in Nat, NEW k \in 1 .. n,
           NEW r0 \in Markets(n, T, U, P), MatchedDeals(r0, m, n, price, T, U, P),
           \A i \in 1 .. n : TakenOff(r0.orders[i], m.orders[i]),
           NEW r, r = IF Crosses(price, m.orders[k]) THEN MatchOne(r0, k, tid, volume) ELSE r0
    PROVE  MatchedDeals(r, m, n, price, T, U, P)
  <1> DEFINE S == DealsOf(T, U, P)
  <1> DEFINE R == OrdersOf(T, U, P)
  <1> DEFINE o == r0.orders[k]
  <1> SUFFICES ASSUME Crosses(price, m.orders[k]) PROVE MatchedDeals(r, m, n, price, T, U, P)
    OBVIOUS
  <1>1. k \in 1 .. n /\ n \in Nat /\ volume \in Nat /\ P \subseteq Int /\ tid \in T /\ price \in Int
        /\ volume \in Int /\ r0 \in Markets(n, T, U, P)
    OBVIOUS
  <1>2. r = MatchOne(r0, k, tid, volume)
    OBVIOUS
  <1>3. PICK q \in Int : MatchedAt(r, r0, k, q, n, T, U, P)
    BY ONLY <1>1, <1>2, MatchOneStep
  <1>4. m.orders \in [1 .. n -> R] /\ r0.orders \in [1 .. n -> R] /\ r0.ack_volume \in Int /\ r0.ack_money \in Int
    BY DEF Markets
  <1>5. \A i \in 1 .. n : m.orders[i] \in R /\ m.orders[i].tid \in T /\ m.orders[i].volume \in Int
                         /\ r0.orders[i].volume \in Int /\ m.orders[i].price \in Int
    BY <1>4 DEF OrdersOf
  <1>6. o.tid = m.orders[k].tid /\ o.price = m.orders[k].price
    <2>1. o = [m.orders[k] EXCEPT !.volume = o.volume] /\ m.orders[k] \in R
      BY <1>1, <1>5 DEF TakenOff
    <2> HIDE DEF o
    <2> QED
      BY ONLY <2>1 DEF OrdersOf
  <1>7. IF price > 0 THEN o.price < 0 ELSE o.price > 0
    BY ONLY <1>1, <1>5, <1>6, Crosses(price, m.orders[k]) DEF Crosses
  <1>8. /\ \A t : LotsIn(r0.pending, t, S) \in Int
        /\ MoneyIn(r0.pending, S) \in Int /\ SalesIn(r0.pending, S) \in Int
    BY MarketSums
  <1>9. /\ \A t : LotsIn(m.pending, t, S) \in Int
        /\ MoneyIn(m.pending, S) \in Int /\ SalesIn(m.pending, S) \in Int
    BY MarketSums
  <1>10. /\ \A j \in 1 .. n : j # k => r.orders[j] = r0.orders[j]
         /\ r.orders[k] = [o EXCEPT !.volume = @ - q]
         /\ r.ack_volume = r0.ack_volume + q
         /\ \A p \in P : r.volumes[p] - OfferedAt(r.orders, p, R) = r0.volumes[p] - OfferedAt(r0.orders, p, R)
         /\ \A t \in T : LotsIn(r.pending, t, S) = LotsIn(r0.pending, t, S) + IF o.tid = t THEN q ELSE 0
         /\ MoneyIn(r.pending, S) + r.ack_money = MoneyIn(r0.pending, S) + r0.ack_money
         /\ SalesIn(r.pending, S) = SalesIn(r0.pending, S) + IF o.price > 0 THEN q ELSE -q
    BY ONLY <1>3 DEF MatchedAt
  <1>11. /\ \A p \in P : r0.volumes[p] - OfferedAt(r0.orders, p, R) = m.volumes[p] - OfferedAt(m.orders, p, R)
         /\ TidsApart(m.orders) =>
              \A i \in 1 .. n : LotsIn(r0.pending, m.orders[i].tid, S) + r0.orders[i].volume
                                  = LotsIn(m.pending, m.orders[i].tid, S) + m.orders[i].volume
         /\ MoneyIn(r0.pending, S) + r0.ack_money = MoneyIn(m.pending, S)
         /\ SalesIn(r0.pending, S) = SalesIn(m.pending, S) + IF price > 0 THEN -r0.ack_volume ELSE r0.ack_volume
    BY DEF MatchedDeals
  <1>12. r.orders[k].volume = o.volume - q
    <2>1. o \in R
      BY <1>1, <1>4
    <2> QED
      BY ONLY <1>10, <2>1 DEF OrdersOf
  <1> HIDE DEF S, R
  <1>13. ASSUME TidsApart(m.orders), NEW i \in 1 .. n
         PROVE  LotsIn(r.pending, m.orders[i].tid, S) + r.orders[i].volume
                    = LotsIn(m.pending, m.orders[i].tid, S) + m.orders[i].volume
    <2> DEFINE t == m.orders[i].tid
    <2>1. t \in T /\ m.orders[i].volume \in Int /\ r0.orders[i].volume \in Int
      BY <1>5
    <2>2. LotsIn(r0.pending, t, S) + r0.orders[i].volume = LotsIn(m.pending, t, S) + m.orders[i].volume
      BY <1>11, <1>13
    <2>3. LotsIn(r.pending, t, S) = LotsIn(r0.pending, t, S) + IF o.tid = t THEN q ELSE 0
      BY ONLY <1>10, <2>1
    <2>4. CASE i = k
      <3>1. LotsIn(r.pending, t, S) = LotsIn(r0.pending, t, S) + q
        BY <1>6, <2>3, <2>4
      <3>2. r.orders[i].volume = r0.orders[i].volume - q
        BY <1>12, <2>4
      <3> HIDE DEF t
      <3>3. LotsIn(r.pending, t, S) + r.orders[i].volume = LotsIn(m.pending, t, S) + m.orders[i].volume
        BY ONLY <1>3, <1>8, <1>9, <2>1, <2>2, <3>1, <3>2
      <3> QED
        BY ONLY <3>3 DEF t
    <2>5. CASE i # k
      <3>1. o.tid # t
        <4>1. DOMAIN m.orders = 1 .. n
          BY <1>4
        <4> QED
          BY ONLY <1>1, <1>6, <1>13, <2>5, <4>1 DEF TidsApart
      <3>2. LotsIn(r.pending, t, S) = LotsIn(r0.pending, t, S) + 0
        BY ONLY <2>3, <3>1
      <3>3. r.orders[i] = r0.orders[i]
        BY <1>10, <2>5
      <3>4. LotsIn(r.pending, t, S) = LotsIn(r0.pending, t, S)
        BY ONLY <1>8, <3>2
      <3> QED
        BY <2>2, <3>3, <3>4
    <2> QED
      BY <2>4, <2>5
  <1>14. SalesIn(r.pending, S) = SalesIn(m.pending, S) + IF price > 0 THEN -r.ack_volume ELSE r.ack_volume
    <2>1. CASE price > 0
      <3>1. ~(o.price > 0)
        BY <1>5, <1>6, <1>7, <2>1
      <3> HIDE DEF o
      <3>2. SalesIn(r.pending, S) = SalesIn(r0.pending, S) + (-q)
        BY ONLY <1>10, <3>1
      <3>3. SalesIn(r0.pending, S) = SalesIn(m.pending, S) + (-r0.ack_volume)
        BY ONLY <1>11, <2>1
      <3>4. SalesIn(r.pending, S) = SalesIn(m.pending, S) + (-r.ack_volume)
        <4>1. r.ack_volume = r0.ack_volume + q /\ r0.ack_volume \in Int /\ q \in Int
              /\ SalesIn(r0.pending, S) \in Int /\ SalesIn(m.pending, S) \in Int
          BY <1>4, <1>8, <1>9, <1>10
        <4> QED
          BY ONLY <3>2, <3>3, <4>1
      <3> QED
        BY ONLY <2>1, <3>4
    <2>2. CASE ~(price > 0)
      <3>1. o.price > 0
        BY <1>7, <2>2
      <3> HIDE DEF o
      <3>2. SalesIn(r.pending, S) = SalesIn(r0.pending, S) + q
        BY ONLY <1>10, <3>1
      <3>3. SalesIn(r0.pending, S) = SalesIn(m.pending, S) + r0.ack_volume
        BY ONLY <1>11, <2>2
      <3>4. SalesIn(r.pending, S) = SalesIn(m.pending, S) + (r.ack_volume)
        <4>1. r.ack_volume = r0.ack_volume + q /\ r0.ack_volume \in Int /\ q \in Int
              /\ SalesIn(r0.pending, S) \in Int /\ SalesIn(m.pending, S) \in Int
          BY <1>4, <1>8, <1>9, <1>10
        <4> QED
          BY ONLY <3>2, <3>3, <4>1
      <3> QED
        BY ONLY <2>2, <3>4
    <2> QED
      BY <2>1, <2>2
  <1>15. \A p \in P : r.volumes[p] - OfferedAt(r.orders, p, R) = m.volumes[p] - OfferedAt(m.orders, p, R)
    BY ONLY <1>10, <1>11
  <1>16. MoneyIn(r.pending, S) + r.ack_money = MoneyIn(m.pending, S)
    BY ONLY <1>10, <1>11
  <1> QED
    BY ONLY <1>13, <1>14, <1>15, <1>16 DEF MatchedDeals, S, R

\* Before the first turn nothing is matched.
LEMMA MatchingStarts ==
    ASSUME NEW T, NEW U, NEW P, P \subseteq Int, NEW n \in Nat, NEW m \in Markets(n, T, U, P),
           NEW price \in Int, NEW volume \in Nat, \A i \in 1 .. n : m.orders[i].volume >= 0
    PROVE  /\ MatchedBook(Incoming(m), m, 0, n, price, volume, OrdersOf(T, U, P))
           /\ MatchedDeals(Incoming(m), m, n, price, T, U, P)
  <1> DEFINE S == OrdersOf(T, U, P)
  <1> DEFINE w == ForPrice(S, price)
  <1> DEFINE r == Incoming(m)
  <1>1. /\ r.orders = m.orders /\ r.volumes = m.volumes
        /\ r.pending = m.pending /\ r.ack_volume = 0 /\ r.ack_money = 0
    BY IncomingType
  <1> HIDE DEF r
  <1>2. m.orders \in Seq(S) /\ \A i \in 1 .. n : m.orders[i] \in S
    BY DEF Markets
  <1>3. w \in [S -> Int]
    BY DEF ForPrice, OrdersOf
  <1>4. SumUpTo(w, m.orders, 0) = 0
    <2> HIDE DEF w, S
    <2> QED
      BY ONLY <1>2, <1>3, WeighedUpTo
  <1>5. \A i \in 1 .. n : TakenOff(m.orders[i], m.orders[i]) /\ m.orders[i].volume \in Nat
    BY <1>2, NothingTaken
  <1>6. Least(volume, 0) = 0 /\ 0 \in 0 .. volume
    BY DEF Least
  <1>7. MatchedBook(r, m, 0, n, price, volume, S)
    BY <1>1, <1>4, <1>5, <1>6 DEF MatchedBook
  <1>8. /\ MoneyIn(m.pending, DealsOf(T, U, P)) \in Int /\ SalesIn(m.pending, DealsOf(T, U, P)) \in Int
    BY MarketSums
  <1>9. MatchedDeals(r, m, n, price, T, U, P)
    BY ONLY <1>1, <1>8 DEF MatchedDeals
  <1> QED
    BY <1>7, <1>9 DEF r

\* What PriceMatching does to a market.
LEMMA MatchingMatches ==
    ASSUME NEW T, NEW U, NEW P, P \subseteq Int, NEW n \in Nat, NEW m \in Markets(n, T, U, P),
           NEW tid \in T, NEW price \in Int, NEW volume \in Nat, \A i \in 1 .. n : m.orders[i].volume >= 0,
           NEW r, r = PriceMatching(m, tid, price, volume)
    PROVE  /\ r \in Markets(n, T, U, P)
           /\ MatchedBook(r, m, n, n, price, volume, OrdersOf(T, U, P))
           /\ MatchedDeals(r, m, n, price, T, U, P)
  <1> DEFINE S == OrdersOf(T, U, P)
  <1>1. PICK f \in [0 .. n -> Markets(n, T, U, P)] :
           MatchedAlong(f, m, n, tid, price, volume) /\ r = f[n]
    <2>1. volume \in Int
      OBVIOUS
    <2>2. Matching(r, m, n, tid, price, volume, T, U, P)
      BY <2>1, MatchingTable
    <2> QED
      BY ONLY <2>2 DEF Matching
  <1> DEFINE G == {k \in 0 .. n : /\ MatchedBook(f[k], m, k, n, price, volume, S)
                                  /\ MatchedDeals(f[k], m, n, price, T, U, P)}
  <1>2. 0 \in G
    <2>1. f[0] = Incoming(m)
      BY <1>1 DEF MatchedAlong
    <2>2. 0 \in 0 .. n
      OBVIOUS
    <2> QED
      BY <2>1, <2>2, MatchingStarts
  <1>3. \A k \in 1 .. n : k - 1 \in G => k \in G
    <2> SUFFICES ASSUME NEW k \in 1 .. n, k - 1 \in G PROVE k \in G
      OBVIOUS
    <2>1. MatchedBook(f[k - 1], m, k - 1, n, price, volume, S) /\ MatchedDeals(f[k - 1], m, n, price, T, U, P)
      OBVIOUS
    <2>2. f[k - 1] \in Markets(n, T, U, P) /\ k \in 0 .. n
      OBVIOUS
    <2>3. f[k] = IF Crosses(price, m.orders[k]) THEN MatchOne(f[k - 1], k, tid, volume) ELSE f[k - 1]
      BY <1>1 DEF MatchedAlong
    <2>4. \A i \in 1 .. n : TakenOff(f[k - 1].orders[i], m.orders[i])
      BY <2>1 DEF MatchedBook
    <2> HIDE DEF G
    <2>5. MatchedBook(f[k], m, k, n, price, volume, S)
      BY <2>1, <2>2, <2>3, MatchedBookStep
    <2>6. MatchedDeals(f[k], m, n, price, T, U, P)
      BY <2>1, <2>2, <2>3, <2>4, MatchedDealsStep
    <2> QED
      BY <2>2, <2>5, <2>6 DEF G
  <1>4. n \in G
    <2> HIDE DEF G
    <2>1. \A k \in 0 .. n : k \in G
      BY <1>2, <1>3, CountInduction
    <2> QED
      BY <2>1
  <1> QED
    BY <1>1, <1>4

-----------------------------------------------------------------------------
(***************************************************************************)
(* AutoBalance.                                                            *)
(***************************************************************************)
\* What is left when the loop over the sell orders has come to an order.
Loading(n, T, U, P) == [market : Markets(n, T, U, P), on : BOOLEAN]

\* A market after a loaded order o at place i got q lots of its own.
Settled(m, i, o, q) == [m EXCEPT !.volumes = ReduceVolume(@, o.price, q),
                                 !.pending = Append(@, Deal(o, q, 0, m.ack_money)),
                                 !.orders[i].volume = @ - q]

\* It has q lots less on offer and its deals have sold q lots more.
SettledAt(r, m, i, o, q, n, T, U, P) ==
    /\ r \in Markets(n, T, U, P)
    /\ \A j \in 1 .. n : j # i => r.orders[j] = m.orders[j]
    /\ r.orders[i] = [m.orders[i] EXCEPT !.volume = @ - q]
    /\ SalesIn(r.pending, DealsOf(T, U, P))
          = SalesIn(m.pending, DealsOf(T, U, P)) + IF o.price > 0 THEN q ELSE -q

\* That is so of a market that is settled.
LEMMA SettledType ==
    ASSUME NEW T, NEW U, NEW P, P \subseteq Int, 0 \in T, NEW n \in Nat, NEW m \in Markets(n, T, U, P),
           NEW i \in 1 .. n, NEW o \in OrdersOf(T, U, P), NEW q \in Int
    PROVE  SettledAt(Settled(m, i, o, q), m, i, o, q, n, T, U, P)
  <1> DEFINE S == DealsOf(T, U, P)
  <1> DEFINE R == OrdersOf(T, U, P)
  <1> DEFINE r == Settled(m, i, o, q)
  <1> DEFINE d == Deal(o, q, 0, m.ack_money)
  <1> DEFINE new == [m.orders EXCEPT ![i].volume = @ - q]
  <1>1. /\ m.orders \in [1 .. n -> R] /\ m.volumes \in [P -> Int] /\ m.pending \in Seq(S)
        /\ m.ack_volume \in Int /\ m.ack_money \in Int
    BY DEF Markets
  <1>2. o.price \in P
    BY DEF OrdersOf
  <1>3. /\ P \subseteq Int /\ n \in Nat /\ i \in 1 .. n /\ 0 \in T /\ q \in Int /\ o \in OrdersOf(T, U, P)
        /\ S = DealsOf(T, U, P) /\ R = OrdersOf(T, U, P)
    OBVIOUS
  <1>4. /\ r.orders = new /\ r.volumes = ReduceVolume(m.volumes, o.price, q)
        /\ r.pending = Append(m.pending, d) /\ r.ack_volume = m.ack_volume
        /\ r.ack_money = m.ack_money
        /\ r = [orders |-> r.orders, volumes |-> r.volumes, pending |-> r.pending,
                ack_volume |-> r.ack_volume, ack_money |-> r.ack_money]
    <2>1. PICK a, b, c, v, e :
             m = [orders |-> a, volumes |-> b, pending |-> c, ack_volume |-> v, ack_money |-> e]
      BY DEF Markets
    <2>2. r.orders = new
      BY ONLY <2>1 DEF Settled
    <2>3. r.volumes = ReduceVolume(m.volumes, o.price, q)
      BY ONLY <2>1 DEF Settled
    <2>4. r.pending = Append(m.pending, d)
      BY ONLY <2>1 DEF Settled
    <2>5. r.ack_volume = m.ack_volume /\ r.ack_money = m.ack_money
      BY ONLY <2>1 DEF Settled
    <2>6. r = [orders |-> r.orders, volumes |-> r.volumes, pending |-> r.pending,
               ack_volume |-> r.ack_volume, ack_money |-> r.ack_money]
      <3> DEFINE x == ReduceVolume(m.volumes, o.price, q)
      <3> DEFINE y == Append(m.pending, d)
      <3> DEFINE z == [a EXCEPT ![i].volume = @ - q]
      <3>1. r = [[[m EXCEPT !.volumes = x] EXCEPT !.pending = y] EXCEPT !.orders[i].volume = @ - q]
        BY DEF Settled
      <3> HIDE DEF x, y, r
      <3>2. [m EXCEPT !.volumes = x]
               = [orders |-> a, volumes |-> x, pending |-> c, ack_volume |-> v, ack_money |-> e]
        BY ONLY <2>1
      <3>3. [[orders |-> a, volumes |-> x, pending |-> c, ack_volume |-> v, ack_money |-> e] EXCEPT !.pending = y]
               = [orders |-> a, volumes |-> x, pending |-> y, ack_volume |-> v, ack_money |-> e]
        OBVIOUS
      <3>4. [[orders |-> a, volumes |-> x, pending |-> y, ack_volume |-> v, ack_money |-> e]
                EXCEPT !.orders[i].volume = @ - q]
               = [orders |-> z, volumes |-> x, pending |-> y, ack_volume |-> v, ack_money |-> e]
        OBVIOUS
      <3>5. r = [orders |-> z, volumes |-> x, pending |-> y, ack_volume |-> v, ack_money |-> e]
        BY ONLY <3>1, <3>2, <3>3, <3>4
      <3> HIDE DEF z
      <3> QED
        BY ONLY <3>5
    <2> HIDE DEF r, new, d
    <2> QED
      BY ONLY <2>2, <2>3, <2>4, <2>5, <2>6
  <1>5. DealAdded(Append(m.pending, d), m.pending, o, q, m.ack_money, S)
    BY ONLY <1>1, <1>3, DealAdds
  <1>6. TakenFrom(new, m.orders, i, q, n, R)
    BY ONLY <1>1, <1>3, OfferShrinks
  <1>7. Lowered(ReduceVolume(m.volumes, o.price, q), m.volumes, o.price, q, P)
    BY ONLY <1>1, <1>2, <1>3, VolumeReduced
  <1> HIDE DEF r, d, new
  <1>8. r \in Markets(n, T, U, P)
    <2>1. r.orders \in [1 .. n -> R]
      BY ONLY <1>4, <1>6 DEF TakenFrom
    <2>2. r.volumes \in [P -> Int]
      BY ONLY <1>4, <1>7 DEF Lowered
    <2>3. r.pending \in Seq(S)
      BY ONLY <1>4, <1>5 DEF DealAdded
    <2> QED
      BY ONLY <1>1, <1>4, <2>1, <2>2, <2>3 DEF Markets
  <1>9. /\ \A j \in 1 .. n : j # i => r.orders[j] = m.orders[j]
        /\ r.orders[i] = [m.orders[i] EXCEPT !.volume = @ - q]
    BY ONLY <1>4, <1>6 DEF TakenFrom
  <1>10. SalesIn(r.pending, S) = SalesIn(m.pending, S) + IF o.price > 0 THEN q ELSE -q
    BY ONLY <1>4, <1>5 DEF DealAdded
  <1> QED
    BY ONLY <1>8, <1>9, <1>10 DEF r, S, SettledAt

\* Matching leaves a market, also when it asks for nothing.
LEMMA MatchingType ==
    ASSUME NEW T, NEW U, NEW P, P \subseteq Int, NEW n \in Nat, NEW m \in Markets(n, T, U, P),
           NEW tid \in T, NEW price \in Int, NEW volume \in Int, NEW r, r = PriceMatching(m, tid, price, volume)
    PROVE  r \in Markets(n, T, U, P)
  <1>3. Matching(r, m, n, tid, price, volume, T, U, P)
    BY MatchingTable
  <1>1. PICK f \in [0 .. n -> Markets(n, T, U, P)] : r = f[n]
    BY ONLY <1>3 DEF Matching
  <1>2. n \in 0 .. n
    OBVIOUS
  <1> QED
    BY ONLY <1>1, <1>2

\* r is s after the turn of order o at place i, and m the market its matching leaves.
LoadedTurn(r, s, i, o, m, n, T, U, P) ==
    /\ r \in Loading(n, T, U, P)
    /\ ~s.on => r = s
    /\ s.on /\ m.ack_volume = 0 => r.market = s.market /\ ~r.on
    /\ s.on /\ m.ack_volume # 0 => /\ r.market = Settled(m, i, o, m.ack_volume)
                                   /\ r.on <=> m.ack_volume = o.volume

\* A turn of the loop over the sell orders, with the matching it makes.
LEMMA MatchLoadedIs ==
    ASSUME NEW T, NEW U, NEW P, P \subseteq Int, 0 \in T, NEW n \in Nat, NEW s \in Loading(n, T, U, P),
           NEW i \in 1 .. n, NEW o, o = s.market.orders[i],
           NEW m, m = PriceMatching(s.market, 0, o.price, o.volume), NEW r, r = MatchLoaded(s, i)
    PROVE  LoadedTurn(r, s, i, o, m, n, T, U, P)
  <1>1. s.market \in Markets(n, T, U, P) /\ s.on \in BOOLEAN /\ s = [market |-> s.market, on |-> s.on]
    BY DEF Loading
  <1>2. s.market.orders \in [1 .. n -> OrdersOf(T, U, P)]
    BY <1>1 DEF Markets
  <1>3. o \in OrdersOf(T, U, P) /\ o.price \in Int /\ o.volume \in Int
    BY <1>2 DEF OrdersOf
  <1>4. m \in Markets(n, T, U, P)
    <2>1. P \subseteq Int /\ n \in Nat /\ 0 \in T /\ m = PriceMatching(s.market, 0, o.price, o.volume)
      OBVIOUS
    <2> QED
      BY ONLY <1>1, <1>3, <2>1, MatchingType
  <1> DEFINE q == m.ack_volume
  <1>5. q \in Int
    BY <1>4 DEF Markets
  <1>6. Settled(m, i, o, q) \in Markets(n, T, U, P)
    <2>1. P \subseteq Int /\ n \in Nat /\ 0 \in T /\ i \in 1 .. n
      OBVIOUS
    <2>2. SettledAt(Settled(m, i, o, q), m, i, o, q, n, T, U, P)
      BY ONLY <1>3, <1>4, <1>5, <2>1, SettledType
    <2> QED
      BY ONLY <2>2 DEF SettledAt
  <1>7. r = IF ~s.on THEN s
              ELSE IF q = 0 THEN [s EXCEPT !.on = FALSE]
              ELSE [market |-> Settled(m, i, o, q), on |-> q = o.volume]
    BY DEF MatchLoaded, Settled
  <1>8. [s EXCEPT !.on = FALSE].market = s.market /\ ~[s EXCEPT !.on = FALSE].on
        /\ [s EXCEPT !.on = FALSE] \in Loading(n, T, U, P)
    BY DEF Loading
  <1> HIDE DEF q
  <1>9. (q = o.volume) \in BOOLEAN
    OBVIOUS
  <1>10. CASE ~s.on
    <2>1. r = s
      BY ONLY <1>7, <1>10
    <2> QED
      BY <1>10, <2>1 DEF LoadedTurn
  <1>11. CASE s.on /\ q = 0
    <2>1. r = [s EXCEPT !.on = FALSE]
      BY ONLY <1>7, <1>11
    <2> QED
      BY ONLY <1>8, <1>11, <2>1 DEF q, LoadedTurn
  <1>12. CASE s.on /\ q # 0
    <2>1. r = [market |-> Settled(m, i, o, q), on |-> q = o.volume]
      BY ONLY <1>7, <1>12
    <2> QED
      BY ONLY <1>6, <1>9, <1>12, <2>1 DEF Loading, q, LoadedTurn
  <1> QED
    BY <1>10, <1>11, <1>12

\* What is taken in two turns.
LEMMA TakenTwice ==
    ASSUME NEW T, NEW U, NEW P, NEW o \in OrdersOf(T, U, P), NEW x, NEW y, TakenOff(x, o), TakenOff(y, x)
    PROVE  TakenOff(y, o) /\ y.volume <= x.volume /\ x.volume <= o.volume /\ y.price = o.price
           /\ y.volume \in Int /\ x.volume \in Int
  <1>1. PICK a \in T, b \in U, c \in P, d \in Int : o = [tid |-> a, user |-> b, price |-> c, volume |-> d]
    BY DEF OrdersOf
  <1>2. PICK e : e = x.volume /\ e \in 0 .. d /\ x = [tid |-> a, user |-> b, price |-> c, volume |-> e]
    BY <1>1 DEF TakenOff
  <1>3. PICK f : f = y.volume /\ f \in 0 .. e /\ y = [tid |-> a, user |-> b, price |-> c, volume |-> f]
    BY <1>2 DEF TakenOff
  <1>4. f \in 0 .. d /\ f <= e /\ e <= d /\ f \in Int /\ e \in Int
    BY ONLY <1>2, <1>3, d \in Int
  <1>5. y = [o EXCEPT !.volume = f]
    BY ONLY <1>1, <1>3
  <1> QED
    BY ONLY <1>1, <1>2, <1>3, <1>4, <1>5 DEF TakenOff

\* A loaded order that still asks for something finds nothing left at its price.
Stuck(x, b, q, n) ==
    /\ b[q].price > 0
    /\ \A i \in 1 .. n : i < q /\ b[i].price > 0 => x.orders[i].volume = 0
    /\ \A j \in 1 .. n : Crosses(b[q].price, b[j]) => x.orders[j].volume = 0

\* The loaded market m when the first k orders have had their turn.
Loaded(s, m, k, n, D) ==
    /\ \A i \in 1 .. n : TakenOff(s.market.orders[i], m.orders[i])
    /\ \A i \in 1 .. n : m.orders[i].price > 0 /\ i > k => s.market.orders[i].volume = m.orders[i].volume
    /\ SalesIn(s.market.pending, D) = SalesIn(m.pending, D)
    /\ (\A i \in 1 .. n : m.orders[i].volume > 0) =>
          /\ s.on => \A i \in 1 .. k : m.orders[i].price > 0 => s.market.orders[i].volume = 0
          /\ ~s.on => \E q \in 1 .. n : Stuck(s.market, m.orders, q, n)

\* What the matching of a sell order o at place k, which has v lots, did.
Tried(mm, x, k, n, v, b) ==
    /\ mm.ack_volume \in 0 .. v
    /\ \A i \in 1 .. n : TakenOff(mm.orders[i], x.orders[i])
    /\ \A i \in 1 .. n : b[i].price > 0 => mm.orders[i].volume = x.orders[i].volume
    /\ mm.ack_volume < v => \A i \in 1 .. n : Crosses(b[k].price, b[i]) => mm.orders[i].volume = 0
    /\ mm.ack_volume = 0 => \A i \in 1 .. n : mm.orders[i] = x.orders[i]

\* That market, and what the deals of its book have sold by then.
SellTried(mm, x, k, n, v, b, T, U, P) ==
    /\ mm \in Markets(n, T, U, P)
    /\ Tried(mm, x, k, n, v, b)
    /\ SalesIn(mm.pending, DealsOf(T, U, P)) = SalesIn(x.pending, DealsOf(T, U, P)) + (-mm.ack_volume)

\* A loaded sell order is matched with buy orders only.
LEMMA SellTries ==
    ASSUME NEW T, NEW U, NEW P, P \subseteq Int, 0 \in T, NEW n \in Nat, NEW b \in [1 .. n -> OrdersOf(T, U, P)],
           NEW x \in Markets(n, T, U, P), \A i \in 1 .. n : TakenOff(x.orders[i], b[i]),
           NEW k \in 1 .. n, b[k].price > 0, NEW o, o = x.orders[k],
           NEW mm, mm = PriceMatching(x, 0, o.price, o.volume)
    PROVE  SellTried(mm, x, k, n, o.volume, b, T, U, P)
  <1> DEFINE S == OrdersOf(T, U, P)
  <1>1. \A i \in 1 .. n : /\ b[i] \in S /\ b[i].price \in Int /\ x.orders[i] \in S /\ x.orders[i].volume \in Int
                          /\ x.orders[i].price = b[i].price /\ x.orders[i].volume >= 0
    <2> SUFFICES ASSUME NEW i \in 1 .. n
                 PROVE  /\ b[i] \in S /\ b[i].price \in Int /\ x.orders[i] \in S /\ x.orders[i].volume \in Int
                        /\ x.orders[i].price = b[i].price /\ x.orders[i].volume >= 0
      OBVIOUS
    <2>1. b[i] \in S /\ x.orders[i] \in S /\ P \subseteq Int
      BY DEF Markets
    <2>2. TakenOff(x.orders[i], b[i])
      OBVIOUS
    <2> QED
      BY ONLY <2>1, <2>2 DEF OrdersOf, TakenOff
  <1>2. o.price \in Int /\ o.volume \in Nat /\ o.price = b[k].price
    BY <1>1
  <1>3. P \subseteq Int /\ 0 \in T /\ n \in Nat /\ k \in 1 .. n /\ x \in Markets(n, T, U, P) /\ o.price > 0
    BY <1>2
  <1>4. mm = PriceMatching(x, 0, o.price, o.volume) /\ \A i \in 1 .. n : x.orders[i].volume >= 0
    BY <1>1
  <1>5. /\ mm \in Markets(n, T, U, P)
        /\ MatchedBook(mm, x, n, n, o.price, o.volume, OrdersOf(T, U, P))
        /\ MatchedDeals(mm, x, n, o.price, T, U, P)
    BY ONLY <1>2, <1>3, <1>4, MatchingMatches
  <1>6. /\ mm.ack_volume \in 0 .. o.volume
        /\ mm.ack_volume = 0 => \A i \in 1 .. n : mm.orders[i] = x.orders[i]
        /\ \A i \in 1 .. n : TakenOff(mm.orders[i], x.orders[i])
        /\ \A i \in 1 .. n : mm.orders[i].volume < x.orders[i].volume => Crosses(o.price, x.orders[i]) /\ i <= n
        /\ mm.ack_volume < o.volume =>
              \A i \in 1 .. n : Crosses(o.price, x.orders[i]) => mm.orders[i].volume = 0
    BY ONLY <1>5 DEF MatchedBook
  <1>7. \A i \in 1 .. n : Crosses(o.price, x.orders[i]) <=> Crosses(b[k].price, b[i])
    BY ONLY <1>1, <1>2 DEF Crosses
  <1>8. ASSUME NEW i \in 1 .. n, b[i].price > 0 PROVE mm.orders[i].volume = x.orders[i].volume
    <2>1. ~Crosses(o.price, x.orders[i])
      BY <1>1, <1>2, <1>8 DEF Crosses
    <2>2. TakenOff(mm.orders[i], x.orders[i]) /\ ~(mm.orders[i].volume < x.orders[i].volume)
      BY <1>6, <2>1
    <2>3. x.orders[i].volume \in Int
      BY <1>1
    <2> QED
      BY ONLY <2>2, <2>3 DEF TakenOff
  <1>9. Tried(mm, x, k, n, o.volume, b)
    BY ONLY <1>6, <1>7, <1>8 DEF Tried
  <1>10. SalesIn(mm.pending, DealsOf(T, U, P)) = SalesIn(x.pending, DealsOf(T, U, P)) + (-mm.ack_volume)
    BY ONLY <1>3, <1>5 DEF MatchedDeals
  <1> QED
    BY ONLY <1>5, <1>9, <1>10 DEF SellTried

\* The turn of one loaded order keeps this.
LEMMA LoadedStep ==
    ASSUME NEW T, NEW U, NEW P, P \subseteq Int, 0 \in T, NEW n \in Nat, NEW m \in Markets(n, T, U, P),
           \A i \in 1 .. n : m.orders[i].volume >= 0, NEW k \in 1 .. n,
           NEW s0 \in Loading(n, T, U, P), Loaded(s0, m, k - 1, n, DealsOf(T, U, P)),
           NEW s, s = IF m.orders[k].price > 0 THEN MatchLoaded(s0, k) ELSE s0
    PROVE  Loaded(s, m, k, n, DealsOf(T, U, P))
  <1> DEFINE b == m.orders
  <1> DEFINE D == DealsOf(T, U, P)
  <1> DEFINE x == s0.market
  <1> DEFINE y == s.market
  <1>1. b \in [1 .. n -> OrdersOf(T, U, P)] /\ x \in Markets(n, T, U, P)
        /\ x.orders \in [1 .. n -> OrdersOf(T, U, P)]
    BY DEF Markets, Loading
  <1>2. /\ \A i \in 1 .. n : TakenOff(x.orders[i], b[i])
        /\ \A i \in 1 .. n : b[i].price > 0 /\ i > k - 1 => x.orders[i].volume = b[i].volume
        /\ SalesIn(x.pending, D) = SalesIn(m.pending, D)
        /\ (\A i \in 1 .. n : b[i].volume > 0) =>
              /\ s0.on => \A i \in 1 .. k - 1 : b[i].price > 0 => x.orders[i].volume = 0
              /\ ~s0.on => \E q \in 1 .. n : Stuck(x, b, q, n)
    BY DEF Loaded
  <1>3. k \in 1 .. n /\ n \in Nat /\ P \subseteq Int /\ 0 \in T /\ s0 \in Loading(n, T, U, P)
        /\ \A i \in 1 .. n : b[i].volume >= 0
    OBVIOUS
  <1>4. s = IF b[k].price > 0 THEN MatchLoaded(s0, k) ELSE s0
    OBVIOUS
  <1>5. \A i \in 1 .. n : b[i].price \in Int /\ b[i].volume \in Nat
    <2>1. \A i \in 1 .. n : b[i].price \in P /\ b[i].volume \in Int
      BY ONLY <1>1 DEF OrdersOf
    <2>2. P \subseteq Int /\ \A i \in 1 .. n : b[i].volume >= 0
      OBVIOUS
    <2> HIDE DEF b
    <2>3. ASSUME NEW i \in 1 .. n PROVE b[i].price \in Int /\ b[i].volume \in Nat
      <3>1. PICK c, v : c = b[i].price /\ v = b[i].volume
        OBVIOUS
      <3>2. c \in P /\ v \in Int /\ v >= 0
        BY <2>1, <2>2, <3>1
      <3>3. c \in Int /\ v \in Nat
        BY ONLY <2>2, <3>2
      <3> QED
        BY ONLY <3>1, <3>3
    <2> QED
      BY ONLY <2>3
  <1> HIDE DEF b, D
  <1>6. CASE s = s0 /\ (s0.on => ~(b[k].price > 0))
    <2>1. \A i \in 1 .. n : b[i].price > 0 /\ i > k => x.orders[i].volume = b[i].volume
      BY ONLY <1>2, <1>3
    <2>2. (\A i \in 1 .. n : b[i].volume > 0) /\ s0.on => \A i \in 1 .. k : b[i].price > 0 => x.orders[i].volume = 0
      <3> SUFFICES ASSUME \A i \in 1 .. n : b[i].volume > 0, s0.on, NEW i \in 1 .. k, b[i].price > 0
                   PROVE  x.orders[i].volume = 0
        OBVIOUS
      <3>1. i # k
        BY <1>6
      <3>2. i \in 1 .. k - 1
        BY <1>3, <3>1
      <3> QED
        BY <1>2, <3>2
    <2> QED
      BY ONLY <1>2, <1>6, <2>1, <2>2 DEF Loaded, b, D
  <1>7. CASE s0.on /\ b[k].price > 0
    <2> DEFINE o == x.orders[k]
    <2> DEFINE mm == PriceMatching(x, 0, o.price, o.volume)
    <2> DEFINE a == mm.ack_volume
    <2>7. o = x.orders[k] /\ mm = PriceMatching(x, 0, o.price, o.volume) /\ a = mm.ack_volume
      OBVIOUS
    <2>8. s = MatchLoaded(s0, k)
      BY <1>4, <1>7
    <2> HIDE DEF mm, o, a
    <2>1. /\ mm \in Markets(n, T, U, P)
          /\ Tried(mm, x, k, n, o.volume, b)
          /\ SalesIn(mm.pending, D) = SalesIn(x.pending, D) + (-a)
      <3>1. b \in [1 .. n -> OrdersOf(T, U, P)] /\ x \in Markets(n, T, U, P)
            /\ \A i \in 1 .. n : TakenOff(x.orders[i], b[i])
        BY <1>1, <1>2 DEF b
      <3> HIDE DEF x
      <3>2. SellTried(mm, x, k, n, o.volume, b, T, U, P)
        BY ONLY <1>3, <1>7, <2>7, <3>1, SellTries
      <3> QED
        BY ONLY <2>7, <3>2 DEF D, SellTried
    <2>2. /\ a = 0 => s.market = x /\ ~s.on
          /\ a # 0 => s.market = Settled(mm, k, o, a) /\ (s.on <=> a = o.volume)
      <3>1. LoadedTurn(s, s0, k, o, mm, n, T, U, P)
        BY ONLY <1>3, <2>7, <2>8, MatchLoadedIs
      <3> QED
        BY ONLY <1>7, <2>7, <3>1 DEF LoadedTurn
    <2>3. o.volume = b[k].volume /\ o.volume \in Nat /\ o \in OrdersOf(T, U, P) /\ o.price = b[k].price
      <3>1. o.volume = b[k].volume
        BY <1>2, <1>3, <1>7, <2>7
      <3>2. o \in OrdersOf(T, U, P) /\ TakenOff(o, b[k]) /\ b[k] \in OrdersOf(T, U, P)
        BY <1>1, <1>2, <1>3, <2>7
      <3>3. o.price = b[k].price
        BY ONLY <3>2 DEF TakenOff, OrdersOf
      <3> HIDE DEF o
      <3> QED
        BY <1>3, <1>5, <3>1, <3>2, <3>3
    <2>4. /\ a \in 0 .. o.volume
          /\ \A i \in 1 .. n : TakenOff(mm.orders[i], x.orders[i])
          /\ \A i \in 1 .. n : b[i].price > 0 => mm.orders[i].volume = x.orders[i].volume
          /\ a < o.volume => \A i \in 1 .. n : Crosses(b[k].price, b[i]) => mm.orders[i].volume = 0
          /\ a = 0 => \A i \in 1 .. n : mm.orders[i] = x.orders[i]
      BY ONLY <2>1, <2>7 DEF Tried
    <2>5. CASE a = 0
      <3>1. s.market = x /\ ~s.on
        BY <2>2, <2>5
      <3>2. ASSUME \A i \in 1 .. n : b[i].volume > 0 PROVE Stuck(x, b, k, n)
        <4>1. \A i \in 1 .. n : i < k /\ b[i].price > 0 => x.orders[i].volume = 0
          <5> SUFFICES ASSUME NEW i \in 1 .. n, i < k, b[i].price > 0 PROVE x.orders[i].volume = 0
            OBVIOUS
          <5>1. i \in 1 .. k - 1
            BY <1>3
          <5> QED
            BY <1>2, <1>7, <3>2, <5>1
        <4>2. a < o.volume
          BY <1>3, <2>3, <2>5, <3>2
        <4>3. \A j \in 1 .. n : Crosses(b[k].price, b[j]) => x.orders[j].volume = 0
          BY <2>4, <2>5, <4>2
        <4> QED
          BY ONLY <1>7, <4>1, <4>3 DEF Stuck
      <3>3. \A i \in 1 .. n : b[i].price > 0 /\ i > k => x.orders[i].volume = b[i].volume
        BY ONLY <1>2, <1>3
      <3> QED
        BY ONLY <1>2, <1>3, <3>1, <3>2, <3>3 DEF Loaded, b, D
    <2>6. CASE a # 0
      <3>1. s.market = Settled(mm, k, o, a) /\ (s.on <=> a = o.volume)
        BY <2>2, <2>6
      <3>2. a \in Int
        BY <2>3, <2>4
      <3>3. SettledAt(y, mm, k, o, a, n, T, U, P)
        BY ONLY <1>3, <2>1, <2>3, <3>1, <3>2, SettledType
      <3>4. /\ \A j \in 1 .. n : j # k => y.orders[j] = mm.orders[j]
            /\ y.orders[k] = [mm.orders[k] EXCEPT !.volume = @ - a]
            /\ SalesIn(y.pending, D) = SalesIn(mm.pending, D) + IF o.price > 0 THEN a ELSE -a
        BY ONLY <3>3 DEF SettledAt, D
      <3> HIDE DEF y
      <3>5. SalesIn(y.pending, D) = SalesIn(m.pending, D)
        <4>1. SalesIn(x.pending, D) \in Int
          BY <1>1, <1>3, MarketSums DEF D
        <4>2. o.price > 0
          BY <1>7, <2>3
        <4>3. SalesIn(y.pending, D) = SalesIn(mm.pending, D) + a
          BY ONLY <3>4, <4>2
        <4>4. SalesIn(y.pending, D) = SalesIn(x.pending, D)
          BY ONLY <2>1, <3>2, <4>1, <4>3
        <4> QED
          BY <1>2, <4>4
      <3>6. mm.orders[k].volume = o.volume /\ TakenOff(mm.orders[k], o)
        BY <1>3, <1>7, <2>4 DEF o
      <3>7. y.orders[k].volume = o.volume - a /\ TakenOff(y.orders[k], o)
        <4>1. PICK c1, c2, c3, c4 : o = [tid |-> c1, user |-> c2, price |-> c3, volume |-> c4]
          BY <2>3 DEF OrdersOf
        <4>2. mm.orders[k] = [o EXCEPT !.volume = c4] /\ o.volume = c4 /\ c4 \in Nat
          BY <2>3, <3>6, <4>1 DEF TakenOff
        <4>3. mm.orders[k] = [tid |-> c1, user |-> c2, price |-> c3, volume |-> c4]
          BY ONLY <4>1, <4>2
        <4>4. y.orders[k] = [tid |-> c1, user |-> c2, price |-> c3, volume |-> c4 - a]
          BY ONLY <3>4, <4>3
        <4>5. [o EXCEPT !.volume = c4 - a] = [tid |-> c1, user |-> c2, price |-> c3, volume |-> c4 - a]
          BY ONLY <4>1
        <4>6. c4 - a \in 0 .. c4 /\ c4 - a \in Int
          BY <2>4, <3>2, <4>2
        <4> QED
          BY ONLY <4>2, <4>4, <4>5, <4>6 DEF TakenOff
      <3>8. ASSUME NEW i \in 1 .. n
            PROVE  TakenOff(y.orders[i], x.orders[i]) /\ TakenOff(y.orders[i], b[i])
                   /\ y.orders[i].volume <= x.orders[i].volume /\ y.orders[i].volume >= 0
        <4>1. TakenOff(y.orders[i], x.orders[i])
          <5>1. CASE i = k
            BY <3>7, <5>1 DEF o
          <5>2. CASE i # k
            BY <2>4, <3>4, <5>2
          <5> QED
            BY <5>1, <5>2
        <4>2. TakenOff(x.orders[i], b[i]) /\ b[i] \in OrdersOf(T, U, P)
          BY <1>1, <1>2 DEF b
        <4>3. TakenOff(y.orders[i], b[i]) /\ y.orders[i].volume <= x.orders[i].volume
          BY ONLY <4>1, <4>2, TakenTwice
        <4>4. y.orders[i].volume >= 0
          BY ONLY <4>1 DEF TakenOff
        <4> QED
          BY <4>1, <4>3, <4>4
      <3>9. \A i \in 1 .. n : b[i].price > 0 /\ i # k => y.orders[i].volume = x.orders[i].volume
        BY ONLY <2>4, <3>4
      <3>10. \A i \in 1 .. n : b[i].price > 0 /\ i > k => y.orders[i].volume = b[i].volume
        BY ONLY <1>2, <1>3, <3>9
      <3>11. ASSUME \A i \in 1 .. n : b[i].volume > 0
             PROVE  \A i \in 1 .. n : i < k /\ b[i].price > 0 => y.orders[i].volume = 0
        <4> SUFFICES ASSUME NEW i \in 1 .. n, i < k, b[i].price > 0 PROVE y.orders[i].volume = 0
          OBVIOUS
        <4>1. i \in 1 .. k - 1 /\ i # k
          BY <1>3
        <4>2. x.orders[i].volume = 0
          BY <1>2, <1>7, <3>11, <4>1
        <4> QED
          BY <3>9, <4>1, <4>2
      <3>12. ASSUME \A i \in 1 .. n : b[i].volume > 0, s.on
             PROVE  \A i \in 1 .. k : b[i].price > 0 => y.orders[i].volume = 0
        <4> SUFFICES ASSUME NEW i \in 1 .. k, b[i].price > 0 PROVE y.orders[i].volume = 0
          OBVIOUS
        <4>1. CASE i = k
          BY <2>3, <3>1, <3>2, <3>7, <3>12, <4>1
        <4>2. CASE i # k
          <5>1. i \in 1 .. n /\ i < k
            BY <1>3, <4>2
          <5> QED
            BY <3>11, <3>12, <5>1
        <4> QED
          BY <4>1, <4>2
      <3>13. ASSUME \A i \in 1 .. n : b[i].volume > 0, ~s.on
             PROVE  Stuck(y, b, k, n)
        <4>1. a < o.volume
          BY <2>3, <2>4, <3>1, <3>2, <3>13
        <4>2. ASSUME NEW j \in 1 .. n, Crosses(b[k].price, b[j]) PROVE y.orders[j].volume = 0
          <5>1. j # k
            BY <1>5, <1>7, <4>2 DEF Crosses
          <5> QED
            BY <2>4, <3>4, <4>1, <4>2, <5>1
        <4> QED
          BY ONLY <1>7, <3>11, <3>13, <4>2 DEF Stuck
      <3> QED
        BY ONLY <1>3, <3>5, <3>8, <3>10, <3>12, <3>13 DEF Loaded, b, D, y
    <2> QED
      BY <2>5, <2>6
  <1>8. CASE ~s0.on /\ b[k].price > 0
    <2>2. s = MatchLoaded(s0, k)
      BY <1>4, <1>8
    <2>1. s = s0
      <3> DEFINE o == x.orders[k]
      <3> DEFINE mm == PriceMatching(x, 0, o.price, o.volume)
      <3>1. o = x.orders[k] /\ mm = PriceMatching(x, 0, o.price, o.volume)
        OBVIOUS
      <3> HIDE DEF o, mm
      <3>2. LoadedTurn(s, s0, k, o, mm, n, T, U, P)
        BY ONLY <1>3, <2>2, <3>1, MatchLoadedIs
      <3> QED
        BY ONLY <1>8, <3>2 DEF LoadedTurn
    <2> QED
      BY <1>6, <1>8, <2>1
  <1> QED
    BY <1>4, <1>6, <1>7, <1>8

\* A turn of the loop over the sell orders leaves what it goes on with.
LEMMA MatchLoadedType ==
    ASSUME NEW T, NEW U, NEW P, P \subseteq Int, 0 \in T, NEW n \in Nat, NEW s \in Loading(n, T, U, P), NEW i \in 1 .. n
    PROVE  MatchLoaded(s, i) \in Loading(n, T, U, P)
  <1> DEFINE o == s.market.orders[i]
  <1> DEFINE m == PriceMatching(s.market, 0, o.price, o.volume)
  <1> DEFINE r == MatchLoaded(s, i)
  <1>1. o = s.market.orders[i] /\ m = PriceMatching(s.market, 0, o.price, o.volume) /\ r = MatchLoaded(s, i)
    OBVIOUS
  <1>2. P \subseteq Int /\ 0 \in T /\ n \in Nat /\ s \in Loading(n, T, U, P) /\ i \in 1 .. n
    OBVIOUS
  <1> HIDE DEF o, m, r
  <1>3. LoadedTurn(r, s, i, o, m, n, T, U, P)
    BY ONLY <1>1, <1>2, MatchLoadedIs
  <1> QED
    BY ONLY <1>1, <1>3 DEF LoadedTurn

\* f[k] is what is left when the first k orders of m have had their turn.
LoadedAlong(f, m, n) ==
    /\ f[0] = [market |-> m, on |-> TRUE]
    /\ \A k \in 1 .. n : f[k] = IF m.orders[k].price > 0 THEN MatchLoaded(f[k - 1], k) ELSE f[k - 1]

\* r is the market in the end.
Uncrossing(r, m, n, T, U, P) ==
    \E f \in [0 .. n -> Loading(n, T, U, P)] : LoadedAlong(f, m, n) /\ r = f[n].market

\* AutoBalance goes through the sell orders once, from the start of the book to its end.
LEMMA LoadedTable ==
    ASSUME NEW T, NEW U, NEW P, P \subseteq Int, 0 \in T, NEW n \in Nat, NEW m \in Markets(n, T, U, P),
           NEW market, NEW balance, NEW maxPrice, m = Balanced(market, balance, maxPrice),
           NEW r, r = AutoBalance(market, balance, maxPrice)
    PROVE  Uncrossing(r, m, n, T, U, P)
  <1> DEFINE A == Loading(n, T, U, P)
  <1> DEFINE base == [market |-> m, on |-> TRUE]
  <1> DEFINE seq == [i \in 1 .. n |-> i]
  <1> DEFINE turn(x, i) == IF m.orders[i].price > 0 THEN MatchLoaded(x, i) ELSE x
  <1> DEFINE step == [q \in A \X (1 .. n) |-> turn(q[1], q[2])]
  <1> DEFINE Fold(it) == it = [s \in SUBSET (DOMAIN seq) |->
                                 IF s = {} THEN base ELSE turn(it[s \ {Max(s)}], seq[Max(s)])]
  <1>0. P \subseteq Int /\ 0 \in T /\ n \in Nat
    OBVIOUS
  <1>1. m.orders \in [1 .. n -> OrdersOf(T, U, P)]
    BY DEF Markets
  <1>2. base \in A
    BY DEF Loading
  <1>3. Len(m.orders) = n /\ DOMAIN seq = 1 .. n
    BY <1>1
  <1>4. step \in [A \X (1 .. n) -> A]
    <2>1. ASSUME NEW x \in A, NEW i \in 1 .. n PROVE turn(x, i) \in A
      <3>1. MatchLoaded(x, i) \in A
        BY MatchLoadedType
      <3> QED
        BY ONLY <3>1, x \in A
    <2> HIDE DEF A, turn
    <2> QED
      BY ONLY <2>1
  <1>5. PICK it \in [SUBSET (1 .. n) -> A] : SeqFoldsTo(it, n, base, step)
    <2> HIDE DEF A, base, step
    <2> QED
      BY <1>2, <1>4, FoldLeftExists
  <1>6. Fold(it)
    <2>1. ASSUME NEW s \in SUBSET (1 .. n), s # {}
          PROVE  it[s] = turn(it[s \ {Max(s)}], seq[Max(s)])
      <3>1. Max(s) \in 1 .. n
        BY <2>1, LargestPlace
      <3>2. s \ {Max(s)} \in SUBSET (1 .. n)
        OBVIOUS
      <3>3. it[s] = step[<<it[s \ {Max(s)}], Max(s)>>]
        BY <1>5, <2>1 DEF SeqFoldsTo
      <3>4. it[s \ {Max(s)}] \in A /\ seq[Max(s)] = Max(s)
        BY <3>1, <3>2
      <3> HIDE DEF A, turn, seq
      <3> QED
        BY ONLY <3>1, <3>3, <3>4 DEF step
    <2>2. it = [s \in SUBSET (1 .. n) |-> it[s]]
      OBVIOUS
    <2>3. it[{}] = base
      BY <1>5 DEF SeqFoldsTo
    <2> HIDE DEF base, turn, seq
    <2> QED
      BY <1>3, <2>1, <2>2, <2>3
  <1> DEFINE jt == CHOOSE t : Fold(t)
  <1>7. r = jt[DOMAIN seq].market
    BY <1>3 DEF AutoBalance, FoldLeft, MapThenFoldSet
  <1>8. Fold(jt)
    BY <1>6
  <1>9. jt[{}] = base /\ \A k \in 1 .. n : jt[1 .. k] = turn(jt[1 .. k - 1], k)
    <2> HIDE DEF jt, base, turn
    <2>1. jt[{}] = base
      BY <1>8
    <2>2. ASSUME NEW k \in 1 .. n PROVE jt[1 .. k] = turn(jt[1 .. k - 1], k)
      <3>1. (1 .. k) \in SUBSET (DOMAIN seq)
        BY <1>3
      <3>5. k \in Nat /\ k > 0
        OBVIOUS
      <3>2. Max(1 .. k) = k /\ (1 .. k) \ {k} = 1 .. k - 1 /\ (1 .. k) # {}
        BY ONLY <3>5, LastPlace
      <3>3. jt[1 .. k] = turn(jt[(1 .. k) \ {Max(1 .. k)}], seq[Max(1 .. k)])
        BY <1>8, <3>1, <3>2
      <3>4. seq[k] = k
        OBVIOUS
      <3> HIDE DEF seq
      <3> QED
        BY ONLY <3>2, <3>3, <3>4
    <2> QED
      BY <2>1, <2>2
  <1> DEFINE f == [k \in 0 .. n |-> jt[1 .. k]]
  <1>10. f[0] = base /\ \A k \in 1 .. n : f[k] = turn(f[k - 1], k)
    <2>1. 1 .. 0 = {} /\ 0 \in 0 .. n /\ \A k \in 1 .. n : k \in 0 .. n /\ k - 1 \in 0 .. n
      OBVIOUS
    <2> HIDE DEF jt, base, turn
    <2> QED
      BY ONLY <1>9, <2>1
  <1>11. f \in [0 .. n -> A]
    <2> DEFINE G == {k \in 0 .. n : f[k] \in A}
    <2> HIDE DEF f
    <2>1. 0 \in G
      BY <1>2, <1>10
    <2>2. \A k \in 1 .. n : k - 1 \in G => k \in G
      <3> SUFFICES ASSUME NEW k \in 1 .. n, f[k - 1] \in A PROVE f[k] \in A
        OBVIOUS
      <3>1. MatchLoaded(f[k - 1], k) \in A
        BY MatchLoadedType
      <3>2. f[k] = turn(f[k - 1], k)
        BY <1>10
      <3> HIDE DEF A
      <3> QED
        BY <3>1, <3>2
    <2> HIDE DEF G
    <2>3. \A k \in 0 .. n : k \in G
      BY ONLY <2>1, <2>2, n \in Nat, CountInduction
    <2>4. \A k \in 0 .. n : f[k] \in A
      BY <2>3 DEF G
    <2> HIDE DEF A, jt
    <2> QED
      BY ONLY <2>4 DEF f
  <1>12. r = f[n].market
    <2> HIDE DEF jt
    <2> QED
      BY <1>3, <1>7
  <1>13. LoadedAlong(f, m, n)
    <2> HIDE DEF f
    <2> QED
      BY <1>10 DEF LoadedAlong
  <1> HIDE DEF f
  <1> QED
    BY <1>11, <1>12, <1>13 DEF Uncrossing

\* The market of r, some turns after m, is the loaded book m in the end.
LoadedFrom(r, m, n, T, U, P) ==
    \E s \in Loading(n, T, U, P) : r = s.market /\ Loaded(s, m, n, n, DealsOf(T, U, P))

\* What AutoBalance does to a market once it has made up for the balance.
LEMMA LoadUncrossing ==
    ASSUME NEW T, NEW U, NEW P, P \subseteq Int, 0 \in T, NEW n \in Nat, NEW m \in Markets(n, T, U, P),
           \A i \in 1 .. n : m.orders[i].volume >= 0,
           NEW market, NEW balance, NEW maxPrice, m = Balanced(market, balance, maxPrice),
           NEW r, r = AutoBalance(market, balance, maxPrice)
    PROVE  LoadedFrom(r, m, n, T, U, P)
  <1> DEFINE D == DealsOf(T, U, P)
  <1>1. PICK f \in [0 .. n -> Loading(n, T, U, P)] : LoadedAlong(f, m, n) /\ r = f[n].market
    <2>1. Uncrossing(r, m, n, T, U, P)
      BY LoadedTable
    <2> QED
      BY ONLY <2>1 DEF Uncrossing
  <1>2. m.orders \in [1 .. n -> OrdersOf(T, U, P)]
    BY DEF Markets
  <1> DEFINE G == {k \in 0 .. n : Loaded(f[k], m, k, n, D)}
  <1>3. 0 \in G
    <2>1. f[0] = [market |-> m, on |-> TRUE] /\ 0 \in 0 .. n
      BY <1>1 DEF LoadedAlong
    <2>2. f[0].market = m /\ f[0].on
      BY ONLY <2>1
    <2>3. \A i \in 1 .. n : TakenOff(m.orders[i], m.orders[i])
      BY <1>2, NothingTaken
    <2>4. Loaded(f[0], m, 0, n, D)
      BY ONLY <2>2, <2>3 DEF Loaded
    <2> QED
      BY ONLY <2>1, <2>4
  <1>4. \A k \in 1 .. n : k - 1 \in G => k \in G
    <2> SUFFICES ASSUME NEW k \in 1 .. n, k - 1 \in G PROVE k \in G
      OBVIOUS
    <2> DEFINE s0 == f[k - 1]
    <2> DEFINE s == f[k]
    <2>1. Loaded(s0, m, k - 1, n, D) /\ s0 \in Loading(n, T, U, P) /\ k \in 0 .. n
      OBVIOUS
    <2>2. s = IF m.orders[k].price > 0 THEN MatchLoaded(s0, k) ELSE s0
      BY <1>1 DEF LoadedAlong
    <2>3. P \subseteq Int /\ 0 \in T /\ n \in Nat /\ k \in 1 .. n /\ m \in Markets(n, T, U, P)
          /\ \A i \in 1 .. n : m.orders[i].volume >= 0
      OBVIOUS
    <2> HIDE DEF s0, s
    <2>4. Loaded(s, m, k, n, D)
      BY ONLY <2>1, <2>2, <2>3, LoadedStep
    <2> QED
      BY ONLY <2>1, <2>4 DEF s
  <1>5. n \in G
    <2> HIDE DEF G
    <2>1. \A k \in 0 .. n : k \in G
      BY <1>3, <1>4, CountInduction
    <2> QED
      BY <2>1
  <1>6. f[n] \in Loading(n, T, U, P)
    OBVIOUS
  <1> QED
    BY ONLY <1>1, <1>5, <1>6 DEF LoadedFrom

\* What b lots, sold to nobody or bought from nobody, need on the side of the
\* book they are made up from: as much as is left there.
EnoughFor(b, orders, n, top, S) ==
    /\ b > 0 => SumUpTo(ForPrice(S, 1), orders, n) >= b
    /\ b < 0 => SumUpTo(ForPrice(S, -top), orders, n) >= -b

\* m is the market after those b lots have been made up for.
MadeUp(m, market, b, n, T, U, P) ==
    /\ m \in Markets(n, T, U, P)
    /\ \A i \in 1 .. n : m.orders[i].volume >= 0
    /\ SalesIn(m.pending, DealsOf(T, U, P)) + b = SalesIn(market.pending, DealsOf(T, U, P))
    /\ b = 0 => m = market

\* Balanced makes up for exactly the lots asked.
LEMMA BalanceTaken ==
    ASSUME NEW T, NEW U, NEW P, P \subseteq Int, 0 \in T, NEW n \in Nat, NEW market \in Markets(n, T, U, P),
           \A i \in 1 .. n : market.orders[i].volume >= 0, NEW b \in Int, NEW top \in Int, top >= 0,
           EnoughFor(b, market.orders, n, top, OrdersOf(T, U, P)),
           NEW m, m = Balanced(market, b, top)
    PROVE  MadeUp(m, market, b, n, T, U, P)
  <1> DEFINE S == OrdersOf(T, U, P)
  <1> DEFINE D == DealsOf(T, U, P)
  <1> DEFINE price == IF b > 0 THEN 1 ELSE -top
  <1> DEFINE volume == IF b > 0 THEN b ELSE -b
  <1>1. SalesIn(market.pending, D) \in Int
    BY MarketSums
  <1>2. CASE b = 0
    <2>1. m = market
      BY <1>2 DEF Balanced
    <2> QED
      BY <1>1, <1>2, <2>1 DEF MadeUp
  <1>3. CASE b # 0
    <2>1. price \in Int /\ volume \in Nat /\ m = PriceMatching(market, 0, price, volume)
      BY <1>3 DEF Balanced
    <2>2. (price > 0 <=> b > 0) /\ (b > 0 => volume = b) /\ (~(b > 0) => volume = -b)
      OBVIOUS
    <2>3. SumUpTo(ForPrice(S, price), market.orders, n) >= volume
      BY <1>3 DEF EnoughFor
    <2>4. P \subseteq Int /\ 0 \in T /\ n \in Nat /\ market \in Markets(n, T, U, P) /\ b \in Int
          /\ \A i \in 1 .. n : market.orders[i].volume >= 0
      OBVIOUS
    <2> HIDE DEF price, volume
    <2>5. /\ m \in Markets(n, T, U, P)
          /\ MatchedBook(m, market, n, n, price, volume, OrdersOf(T, U, P))
          /\ MatchedDeals(m, market, n, price, T, U, P)
      BY ONLY <2>1, <2>4, MatchingMatches
    <2>6. /\ m.ack_volume = Least(volume, SumUpTo(ForPrice(S, price), market.orders, n))
          /\ \A i \in 1 .. n : TakenOff(m.orders[i], market.orders[i])
      BY ONLY <2>5 DEF MatchedBook
    <2>7. \A i \in 1 .. n : m.orders[i].volume >= 0
      <3>1. \A i \in 1 .. n : market.orders[i].volume \in Int
        BY DEF Markets, OrdersOf
      <3>2. ASSUME NEW i \in 1 .. n PROVE m.orders[i].volume >= 0
        <4>1. PICK v \in Int : v = market.orders[i].volume
          BY <3>1
        <4>2. m.orders[i].volume \in 0 .. v
          BY <2>6, <4>1 DEF TakenOff
        <4> QED
          BY ONLY <4>1, <4>2
      <3> QED
        BY ONLY <3>2
    <2>8. m.ack_volume \in Int /\ SumUpTo(ForPrice(S, price), market.orders, n) \in Int
      <3>1. ForPrice(S, price) \in [S -> Int]
        BY DEF ForPrice, OrdersOf
      <3>2. market.orders \in Seq(S) /\ Len(market.orders) = n
        BY DEF Markets
      <3>3. SumUpTo(ForPrice(S, price), market.orders, n) = SumOver(ForPrice(S, price), market.orders)
        BY ONLY <3>1, <3>2, WeighedUpTo
      <3>4. SumOver(ForPrice(S, price), market.orders) \in Int
        BY ONLY <3>1, <3>2, SumOverType
      <3> QED
        BY <2>5, <3>3, <3>4 DEF Markets
    <2>9. m.ack_volume = volume
      <3> DEFINE x == SumUpTo(ForPrice(S, price), market.orders, n)
      <3>1. x >= volume /\ x \in Int /\ m.ack_volume = Least(volume, x)
        BY <2>3, <2>6, <2>8
      <3> HIDE DEF x
      <3> QED
        BY ONLY <2>1, <3>1 DEF Least
    <2>10. SalesIn(m.pending, D) = SalesIn(market.pending, D) + IF price > 0 THEN -m.ack_volume ELSE m.ack_volume
      BY ONLY <2>5 DEF MatchedDeals
    <2> HIDE DEF D
    <2>11. SalesIn(m.pending, D) + b = SalesIn(market.pending, D)
      BY ONLY <1>1, <2>1, <2>2, <2>4, <2>9, <2>10
    <2> QED
      BY ONLY <1>3, <2>5, <2>7, <2>11 DEF MadeUp, D
  <1> QED
    BY <1>2, <1>3


-----------------------------------------------------------------------------
(***************************************************************************)
(* Sequences of which a member is added or removed, or more are kept, and  *)
(* what their members weigh.                                               *)
(***************************************************************************)
\* Only the members of K count in g, as in f.
OnlyCounts(K, g, f, S) ==
    /\ K \subseteq S /\ \A x \in K : f[x] \in Int
    /\ \A x \in S : g[x] = IF x \in K THEN f[x] ELSE 0

\* The sum over them is that over all.
LEMMA SumSubset ==
    ASSUME NEW S, IsFiniteSet(S), NEW K, NEW f, NEW g, OnlyCounts(K, g, f, S)
    PROVE  SumFunctionOnSet(f, K) = SumFunctionOnSet(g, S)
  <1>7. /\ K \subseteq S /\ \A x \in K : f[x] \in Int
        /\ \A x \in S : g[x] = IF x \in K THEN f[x] ELSE 0
    BY DEF OnlyCounts
  <1>1. IsFiniteSet(K) /\ IsFiniteSet(S \ K) /\ K \cap (S \ K) = {} /\ K \cup (S \ K) = S
    BY <1>7, FS_Subset, FS_Difference
  <1>2. SumFunctionOnSet(f, K) = SumFunctionOnSet(g, K)
    <2>1. \A x \in K : f[x] \in Int /\ g[x] = f[x]
      BY <1>7
    <2> QED
      BY ONLY <1>1, <2>1, SumSame
  <1>3. SumFunctionOnSet(g, S \ K) = 0
    <2>1. \A x \in S \ K : g[x] = 0
      BY <1>7
    <2> QED
      BY ONLY <1>1, <2>1, SumZero
  <1>4. \A x \in K \cup (S \ K) : g[x] \in Int
    BY <1>7
  <1>5. SumFunctionOnSet(g, K \cup (S \ K)) = SumFunctionOnSet(g, K) + SumFunctionOnSet(g, S \ K)
    BY ONLY <1>1, <1>4, SumUnion
  <1>6. SumFunctionOnSet(g, K) \in Int
    <2>1. \A x \in K : g[x] \in Int
      BY <1>7
    <2> QED
      BY ONLY <1>1, <2>1, SumType
  <1> QED
    BY ONLY <1>1, <1>2, <1>3, <1>5, <1>6

\* r is s with one member more, at place i.
OneMore(r, s, i) ==
    /\ DOMAIN r = 1 .. Len(s) + 1 /\ Len(r) = Len(s) + 1
    /\ \A k \in 1 .. Len(s) : s[k] = r[IF k < i THEN k ELSE k + 1]

\* The amounts g of n + 1 places are the amounts f of n places and one more at i.
Widened(g, f, i, n) ==
    /\ i \in 1 .. n + 1 /\ \A k \in 1 .. n + 1 : g[k] \in Int
    /\ \A k \in 1 .. n : f[k] = g[IF k < i THEN k ELSE k + 1]

\* They add up to the one more.
LEMMA SumOneMore ==
    ASSUME NEW n \in Nat, NEW i, NEW f, NEW g, Widened(g, f, i, n)
    PROVE  /\ SumFunctionOnSet(f, 1 .. n) \in Int
           /\ SumFunctionOnSet(g, 1 .. n + 1) = SumFunctionOnSet(f, 1 .. n) + g[i]
  <1> DEFINE N == 1 .. n
             M == 1 .. n + 1
             name == [k \in N |-> IF k < i THEN k ELSE k + 1]
  <1>11. /\ i \in 1 .. n + 1 /\ \A k \in M : g[k] \in Int
         /\ \A k \in N : f[k] = g[IF k < i THEN k ELSE k + 1]
    BY DEF Widened
  <1>1. IsFiniteSet(N) /\ IsFiniteSet(M)
    <2>1. n + 1 \in Nat
      OBVIOUS
    <2> QED
      BY <2>1, PlacesFinite
  <1>2. Renaming(name, N, M \ {i})
    <2>1. \A k \in N : name[k] \in M \ {i}
      BY <1>11
    <2>2. \A y \in M \ {i} : \E k \in N : name[k] = y
      <3> SUFFICES ASSUME NEW y \in M \ {i} PROVE \E k \in N : name[k] = y
        OBVIOUS
      <3>1. CASE y < i
        <4>1. y \in N /\ name[y] = y
          BY <1>11, <3>1
        <4> QED
          BY <4>1
      <3>2. CASE ~(y < i)
        <4>1. y - 1 \in N /\ name[y - 1] = y
          BY <1>11, <3>2
        <4> QED
          BY <4>1
      <3> QED
        BY <3>1, <3>2
    <2>3. \A x, y \in N : name[x] = name[y] => x = y
      BY <1>11
    <2> QED
      BY <2>1, <2>2, <2>3 DEF Renaming
  <1>3. Renamed(f, g, name, N)
    <2>1. \A k \in N : name[k] = IF k < i THEN k ELSE k + 1
      OBVIOUS
    <2>2. \A k \in N : (IF k < i THEN k ELSE k + 1) \in M
      OBVIOUS
    <2>3. \A k \in N : f[k] = g[IF k < i THEN k ELSE k + 1]
      BY <1>11
    <2>4. \A k \in M : g[k] \in Int
      BY <1>11
    <2> QED
      BY ONLY <2>1, <2>2, <2>3, <2>4 DEF Renamed
  <1>4. i \in M /\ g[i] \in Int
    BY <1>11
  <1>10. \A x \in M : g[x] \in Int
    BY <1>11
  <1>7. \A k \in N : f[k] \in Int
    BY <1>3 DEF Renamed
  <1> HIDE DEF N, M, name
  <1>5. SumFunctionOnSet(g, M \ {i}) = SumFunctionOnSet(f, N)
    BY ONLY <1>1, <1>2, <1>3, SumRenamed
  <1>6. SumFunctionOnSet(g, M) = g[i] + SumFunctionOnSet(g, M \ {i})
    BY ONLY <1>1, <1>4, <1>10, SumTake
  <1>8. SumFunctionOnSet(f, N) \in Int
    BY ONLY <1>1, <1>7, SumType
  <1>9. SumFunctionOnSet(g, M) = SumFunctionOnSet(f, N) + g[i]
    BY ONLY <1>4, <1>5, <1>6, <1>8
  <1> QED
    BY ONLY <1>8, <1>9 DEF N, M

\* What the members weigh when there is one more.
LEMMA WeighedOneMore ==
    ASSUME NEW S, NEW w \in [S -> Int], NEW s \in Seq(S), NEW r \in Seq(S),
           NEW i, i \in 1 .. Len(s) + 1, OneMore(r, s, i)
    PROVE  SumOver(w, r) = SumOver(w, s) + w[r[i]]
  <1> DEFINE n == Len(s)
             f == [k \in 1 .. Len(s) |-> w[s[k]]]
             g == [k \in 1 .. Len(r) |-> w[r[k]]]
  <1>1. n \in Nat /\ Len(r) = n + 1
    BY DEF OneMore
  <1>2. \A k \in 1 .. n + 1 : g[k] \in Int
    <2>1. \A k \in 1 .. n + 1 : r[k] \in S
      BY <1>1
    <2> QED
      BY <1>1, <2>1
  <1>3. \A k \in 1 .. n : f[k] = g[IF k < i THEN k ELSE k + 1]
    <2> SUFFICES ASSUME NEW k \in 1 .. n PROVE f[k] = g[IF k < i THEN k ELSE k + 1]
      OBVIOUS
    <2>1. (IF k < i THEN k ELSE k + 1) \in 1 .. n + 1
      BY <1>1
    <2>2. s[k] = r[IF k < i THEN k ELSE k + 1]
      BY DEF OneMore
    <2> QED
      BY <1>1, <2>1, <2>2
  <1>4. i \in 1 .. n + 1
    OBVIOUS
  <1>6. g[i] = w[r[i]]
    BY <1>1
  <1>7. n \in Nat
    BY <1>1
  <1> HIDE DEF f, g, n
  <1>8. Widened(g, f, i, n)
    BY ONLY <1>2, <1>3, <1>4 DEF Widened
  <1>5. SumFunctionOnSet(g, 1 .. n + 1) = SumFunctionOnSet(f, 1 .. n) + g[i]
    BY ONLY <1>7, <1>8, SumOneMore
  <1> QED
    BY ONLY <1>1, <1>5, <1>6 DEF f, g, n, SumOver

\* r is s without the member at place i.
OneLessAt(r, s, i, S) ==
    /\ r \in Seq(S) /\ OneMore(s, r, i) /\ Len(r) = Len(s) - 1
    /\ \A k \in DOMAIN r : r[k] = s[IF k < i THEN k ELSE k + 1]

\* RemoveAt leaves the other members in their order.
LEMMA RemovedOne ==
    ASSUME NEW S, NEW s \in Seq(S), NEW i \in 1 .. Len(s), NEW r, r = RemoveAt(s, i)
    PROVE  OneLessAt(r, s, i, S)
  <1> DEFINE a == SubSeq(s, 1, i - 1)
             b == SubSeq(s, i + 1, Len(s))
  <1>1. Len(s) \in Nat /\ \A k \in 1 .. Len(s) : s[k] \in S
    BY LenProperties, ElementOfSeq
  <1>2. /\ a \in Seq(S) /\ Len(a) = i - 1
        /\ \A k \in 1 .. i - 1 : a[k] = s[k]
    <2>1. \A k \in 1 .. i - 1 : s[k] \in S  BY <1>1
    <2>2. /\ a \in Seq(S)
          /\ Len(a) = IF 1 <= i - 1 THEN i - 1 - 1 + 1 ELSE 0
          /\ \A k \in 1 .. i - 1 - 1 + 1 : a[k] = s[1 + k - 1]
      BY <1>1, <2>1, SubSeqProperties
    <2> QED  BY <1>1, <2>2
  <1>3. /\ b \in Seq(S) /\ Len(b) = Len(s) - i
        /\ \A k \in 1 .. Len(s) - i : b[k] = s[i + k]
    <2>1. \A k \in i + 1 .. Len(s) : s[k] \in S  BY <1>1
    <2>2. /\ b \in Seq(S)
          /\ Len(b) = IF i + 1 <= Len(s) THEN Len(s) - (i + 1) + 1 ELSE 0
          /\ \A k \in 1 .. Len(s) - (i + 1) + 1 : b[k] = s[i + 1 + k - 1]
      BY <1>1, <2>1, SubSeqProperties
    <2> QED  BY <1>1, <2>2
  <1>7. r = a \o b  BY DEF RemoveAt
  <1> HIDE DEF a, b
  <1>4. /\ r \in Seq(S) /\ Len(r) = Len(s) - 1
        /\ \A k \in 1 .. Len(s) - 1 : r[k] = IF k <= i - 1 THEN a[k] ELSE b[k - (i - 1)]
    <2>1. /\ a \o b \in Seq(S) /\ Len(a \o b) = Len(a) + Len(b)
          /\ \A k \in 1 .. Len(a) + Len(b) : (a \o b)[k] = IF k <= Len(a) THEN a[k] ELSE b[k - Len(a)]
      <3>1. a \in Seq(S) /\ b \in Seq(S)  BY <1>2, <1>3
      <3> QED  BY ONLY <3>1, ConcatProperties
    <2>2. Len(a) = i - 1 /\ Len(a) + Len(b) = Len(s) - 1  BY <1>1, <1>2, <1>3
    <2> QED  BY ONLY <1>7, <2>1, <2>2
  <1>5. DOMAIN r = 1 .. Len(s) - 1 /\ DOMAIN s = 1 .. Len(s)  BY <1>4, LenProperties
  <1>6. ASSUME NEW k \in 1 .. Len(s) - 1
        PROVE  r[k] = s[IF k < i THEN k ELSE k + 1]
    <2>1. CASE k < i
      BY <1>1, <1>2, <1>4, <2>1
    <2>2. CASE ~(k < i)
      <3>1. k - (i - 1) \in 1 .. Len(s) - i /\ ~(k <= i - 1)  BY <1>1, <2>2
      <3>3. i + (k - (i - 1)) = k + 1  OBVIOUS
      <3>2. b[k - (i - 1)] = s[k + 1]  BY ONLY <1>3, <3>1, <3>3
      <3> QED  BY <1>4, <2>2, <3>1, <3>2
    <2> QED  BY <2>1, <2>2
  <1>8. OneMore(s, r, i)
    <2>1. Len(s) - 1 + 1 = Len(s)  BY <1>1
    <2> QED  BY ONLY <1>4, <1>5, <1>6, <2>1 DEF OneMore
  <1> QED  BY ONLY <1>4, <1>5, <1>6, <1>8 DEF OneLessAt

\* InsertAt adds one member.
LEMMA InsertedOne ==
    ASSUME NEW S, NEW s \in Seq(S), NEW i \in 1 .. Len(s) + 1, NEW x \in S, NEW r, r = InsertAt(s, i, x)
    PROVE  r \in Seq(S) /\ OneMore(r, s, i) /\ r[i] = x
  <1> DEFINE a == SubSeq(s, 1, i - 1)
             b == SubSeq(s, i, Len(s))
             c == a \o <<x>>
  <1>1. Len(s) \in Nat /\ \A k \in 1 .. Len(s) : s[k] \in S
    BY LenProperties, ElementOfSeq
  <1>2. /\ a \in Seq(S) /\ Len(a) = i - 1
        /\ \A k \in 1 .. i - 1 : a[k] = s[k]
    <2>1. \A k \in 1 .. i - 1 : s[k] \in S  BY <1>1
    <2>2. /\ a \in Seq(S)
          /\ Len(a) = IF 1 <= i - 1 THEN i - 1 - 1 + 1 ELSE 0
          /\ \A k \in 1 .. i - 1 - 1 + 1 : a[k] = s[1 + k - 1]
      BY <1>1, <2>1, SubSeqProperties
    <2> QED  BY <1>1, <2>2
  <1>3. /\ b \in Seq(S) /\ Len(b) = Len(s) - i + 1
        /\ \A k \in 1 .. Len(s) - i + 1 : b[k] = s[i + k - 1]
    <2>1. \A k \in i .. Len(s) : s[k] \in S  BY <1>1
    <2>2. /\ b \in Seq(S)
          /\ Len(b) = IF i <= Len(s) THEN Len(s) - i + 1 ELSE 0
          /\ \A k \in 1 .. Len(s) - i + 1 : b[k] = s[i + k - 1]
      BY <1>1, <2>1, SubSeqProperties
    <2> QED  BY <1>1, <2>2
  <1>7. r = a \o <<x>> \o b  BY DEF InsertAt
  <1> HIDE DEF a, b
  <1>4. /\ c \in Seq(S) /\ Len(c) = i /\ c[i] = x
        /\ \A k \in 1 .. i - 1 : c[k] = s[k]
    <2>1. <<x>> \in Seq(S) /\ Len(<<x>>) = 1 /\ <<x>>[1] = x  OBVIOUS
    <2>2. /\ c \in Seq(S) /\ Len(c) = Len(a) + Len(<<x>>)
          /\ \A k \in 1 .. Len(a) + Len(<<x>>) : c[k] = IF k <= Len(a) THEN a[k] ELSE <<x>>[k - Len(a)]
      <3>1. a \in Seq(S) /\ <<x>> \in Seq(S)  BY <1>2, <2>1
      <3> QED  BY ONLY <3>1, ConcatProperties
    <2>3. i \in 1 .. i /\ i - (i - 1) = 1 /\ ~(i <= i - 1) /\ i \in Int  BY <1>1
    <2>4. c[i] = x  BY ONLY <1>2, <2>1, <2>2, <2>3
    <2> QED  BY <1>1, <1>2, <2>1, <2>2, <2>4
  <1>5. r = c \o b  BY <1>7
  <1> HIDE DEF c
  <1>6. /\ r \in Seq(S) /\ Len(r) = Len(s) + 1
        /\ \A k \in 1 .. Len(s) + 1 : r[k] = IF k <= i THEN c[k] ELSE b[k - i]
    <2>1. /\ c \o b \in Seq(S) /\ Len(c \o b) = Len(c) + Len(b)
          /\ \A k \in 1 .. Len(c) + Len(b) : (c \o b)[k] = IF k <= Len(c) THEN c[k] ELSE b[k - Len(c)]
      <3>1. c \in Seq(S) /\ b \in Seq(S)  BY <1>3, <1>4
      <3> QED  BY ONLY <3>1, ConcatProperties
    <2>2. Len(c) = i /\ Len(c) + Len(b) = Len(s) + 1  BY <1>1, <1>3, <1>4
    <2> QED  BY ONLY <1>5, <2>1, <2>2
  <1>8. DOMAIN r = 1 .. Len(s) + 1  BY <1>6, LenProperties
  <1>9. ASSUME NEW k \in 1 .. Len(s)
        PROVE  s[k] = r[IF k < i THEN k ELSE k + 1]
    <2>1. CASE k < i
      BY <1>1, <1>4, <1>6, <2>1
    <2>2. CASE ~(k < i)
      <3>1. k + 1 - i \in 1 .. Len(s) - i + 1 /\ ~(k + 1 <= i) /\ k + 1 \in 1 .. Len(s) + 1
            /\ i + (k + 1 - i) - 1 = k
        BY <1>1, <2>2
      <3>2. b[k + 1 - i] = s[k]  BY ONLY <1>3, <3>1
      <3>3. r[k + 1] = b[k + 1 - i]  BY ONLY <1>6, <3>1
      <3> QED  BY <2>2, <3>2, <3>3
    <2> QED  BY <2>1, <2>2
  <1>10. r[i] = x  BY <1>1, <1>4, <1>6
  <1> QED  BY ONLY <1>6, <1>8, <1>9, <1>10 DEF OneMore

\* A sequence is one of its own members.
LEMMA OwnSeq ==
    ASSUME NEW S, NEW s \in Seq(S)
    PROVE  /\ s \in Seq(Range(s))
           /\ DOMAIN s = 1 .. Len(s) /\ Len(s) \in Nat
  <1>1. s \in [1 .. Len(s) -> S] /\ DOMAIN s = 1 .. Len(s) /\ Len(s) \in Nat  BY LenProperties
  <1>2. \A i \in 1 .. Len(s) : s[i] \in Range(s)  BY <1>1 DEF Range
  <1>3. s \in [1 .. Len(s) -> Range(s)]  BY <1>1, <1>2
  <1>4. s \in Seq(Range(s))
    <2> HIDE DEF Range
    <2> QED  BY <1>1, <1>3
  <1> QED  BY <1>1, <1>4

\* A removed member leaves the others in their order.
LEMMA Removed ==
    ASSUME NEW S, NEW s \in Seq(S), NEW i \in DOMAIN s
    PROVE  /\ RemoveAt(s, i) \in Seq(S)
           /\ DOMAIN RemoveAt(s, i) = 1 .. Len(s) - 1
           /\ \A k \in 1 .. Len(s) - 1 : RemoveAt(s, i)[k] = s[IF k < i THEN k ELSE k + 1]
  <1> DEFINE a == SubSeq(s, 1, i - 1)
             b == SubSeq(s, i + 1, Len(s))
  <1>1. Len(s) \in Nat /\ i \in 1 .. Len(s) /\ \A k \in 1 .. Len(s) : s[k] \in S
    BY LenProperties, ElementOfSeq
  <1>2. /\ a \in Seq(S) /\ Len(a) = i - 1
        /\ \A k \in 1 .. i - 1 : a[k] = s[k]
    <2>1. \A k \in 1 .. i - 1 : s[k] \in S  BY <1>1
    <2>2. /\ a \in Seq(S)
          /\ Len(a) = IF 1 <= i - 1 THEN i - 1 - 1 + 1 ELSE 0
          /\ \A k \in 1 .. i - 1 - 1 + 1 : a[k] = s[1 + k - 1]
      BY <1>1, <2>1, SubSeqProperties
    <2> QED  BY <1>1, <2>2
  <1>3. /\ b \in Seq(S) /\ Len(b) = Len(s) - i
        /\ \A k \in 1 .. Len(s) - i : b[k] = s[i + k]
    <2>1. \A k \in i + 1 .. Len(s) : s[k] \in S  BY <1>1
    <2>2. /\ b \in Seq(S)
          /\ Len(b) = IF i + 1 <= Len(s) THEN Len(s) - (i + 1) + 1 ELSE 0
          /\ \A k \in 1 .. Len(s) - (i + 1) + 1 : b[k] = s[i + 1 + k - 1]
      BY <1>1, <2>1, SubSeqProperties
    <2> QED  BY <1>1, <2>2
  <1> HIDE DEF a, b
  <1>4. /\ a \o b \in Seq(S) /\ Len(a \o b) = Len(s) - 1
        /\ \A k \in 1 .. Len(s) - 1 : (a \o b)[k] = IF k <= i - 1 THEN a[k] ELSE b[k - (i - 1)]
    <2>1. /\ a \o b \in Seq(S) /\ Len(a \o b) = Len(a) + Len(b)
          /\ \A k \in 1 .. Len(a) + Len(b) : (a \o b)[k] = IF k <= Len(a) THEN a[k] ELSE b[k - Len(a)]
      <3>1. a \in Seq(S) /\ b \in Seq(S)  BY <1>2, <1>3
      <3> QED  BY ONLY <3>1, ConcatProperties
    <2>2. Len(a) = i - 1 /\ Len(a) + Len(b) = Len(s) - 1  BY <1>1, <1>2, <1>3
    <2> QED  BY ONLY <2>1, <2>2
  <1>5. DOMAIN (a \o b) = 1 .. Len(s) - 1  BY <1>4, LenProperties
  <1>6. ASSUME NEW k \in 1 .. Len(s) - 1
        PROVE  (a \o b)[k] = s[IF k < i THEN k ELSE k + 1]
    <2>1. CASE k < i
      BY <1>1, <1>2, <1>4, <2>1
    <2>2. CASE ~(k < i)
      <3>1. k - (i - 1) \in 1 .. Len(s) - i /\ ~(k <= i - 1)  BY <1>1, <2>2
      <3>2. b[k - (i - 1)] = s[k + 1]
        <4>1. PICK j : j = k - (i - 1)  OBVIOUS
        <4>2. j \in 1 .. Len(s) - i /\ i + j = k + 1  BY <1>1, <3>1, <4>1
        <4>3. b[j] = s[i + j]  BY ONLY <1>3, <4>2
        <4> QED  BY ONLY <4>1, <4>2, <4>3
      <3> QED  BY <1>4, <2>2, <3>1, <3>2
    <2> QED  BY <2>1, <2>2
  <1>7. RemoveAt(s, i) = a \o b  BY DEF RemoveAt, a, b
  <1> QED  BY <1>4, <1>5, <1>6, <1>7


Apart(cs) == \A i, j \in DOMAIN cs : cs[i] = cs[j] => i = j

LEMMA RangeAppended ==
    ASSUME NEW S, NEW cs \in Seq(S), NEW c
    PROVE  Range(Append(cs, c)) = Range(cs) \cup {c}
  <1> DEFINE r == Append(cs, c)
  <1>1. DOMAIN cs = 1 .. Len(cs) /\ Len(cs) \in Nat
    BY OwnSeq
  <1>2. cs \in Seq(S \cup {c})
    BY SeqMonotonic
  <1>3. /\ DOMAIN r = 1 .. Len(cs) + 1 /\ r[Len(cs) + 1] = c
        /\ \A k \in 1 .. Len(cs) : r[k] = cs[k]
    <2>1. c \in S \cup {c}
      OBVIOUS
    <2>2. /\ r \in Seq(S \cup {c}) /\ Len(r) = Len(cs) + 1 /\ r[Len(cs) + 1] = c
          /\ \A k \in 1 .. Len(cs) : r[k] = cs[k]
      BY ONLY <1>2, <2>1, AppendProperties
    <2> HIDE DEF r
    <2> QED
      BY <2>2, OwnSeq
  <1> HIDE DEF r
  <1>4. \A k \in 1 .. Len(cs) + 1 : k \in 1 .. Len(cs) \/ k = Len(cs) + 1
    BY <1>1
  <1>5. Len(cs) + 1 \in 1 .. Len(cs) + 1 /\ \A k \in 1 .. Len(cs) : k \in 1 .. Len(cs) + 1
    BY <1>1
  <1>6. \A k \in DOMAIN r : r[k] \in Range(cs) \cup {c}
    BY ONLY <1>1, <1>3, <1>4 DEF Range
  <1>7. \A e \in Range(cs) \cup {c} : \E k \in DOMAIN r : r[k] = e
    BY ONLY <1>1, <1>3, <1>5 DEF Range
  <1>8. Range(r) = Range(cs) \cup {c}
    BY ONLY <1>6, <1>7 DEF Range
  <1> QED
    BY <1>8 DEF r

LEMMA RangeRemoved ==
    ASSUME NEW S, NEW cs \in Seq(S), NEW i \in DOMAIN cs, Apart(cs)
    PROVE  Range(RemoveAt(cs, i)) = Range(cs) \ {cs[i]}
  <1> DEFINE r == RemoveAt(cs, i)
  <1>1. DOMAIN cs = 1 .. Len(cs) /\ Len(cs) \in Nat /\ i \in 1 .. Len(cs)
    BY OwnSeq
  <1>2. DOMAIN r = 1 .. Len(cs) - 1 /\ \A k \in 1 .. Len(cs) - 1 : r[k] = cs[IF k < i THEN k ELSE k + 1]
    BY Removed
  <1> HIDE DEF r
  <1>3. \A e \in Range(r) : e \in Range(cs) \ {cs[i]}
    <2> SUFFICES ASSUME NEW k \in 1 .. Len(cs) - 1 PROVE r[k] \in Range(cs) \ {cs[i]}
      BY <1>2 DEF Range
    <2> DEFINE m == IF k < i THEN k ELSE k + 1
    <2>1. m \in DOMAIN cs /\ m # i
      BY <1>1
    <2>2. r[k] = cs[m]
      BY <1>2
    <2> HIDE DEF m
    <2> QED
      BY <2>1, <2>2 DEF Apart, Range
  <1>4. \A e \in Range(cs) \ {cs[i]} : e \in Range(r)
    <2> SUFFICES ASSUME NEW m \in DOMAIN cs, cs[m] # cs[i] PROVE cs[m] \in Range(r)
      BY DEF Range
    <2>1. m # i
      OBVIOUS
    <2>2. CASE m < i
      <3>1. m \in 1 .. Len(cs) - 1
        BY <1>1, <2>2
      <3>2. r[m] = cs[m]
        BY <1>2, <2>2, <3>1
      <3> QED
        BY ONLY <1>2, <3>1, <3>2 DEF Range
    <2>3. CASE ~(m < i)
      <3>1. m - 1 \in 1 .. Len(cs) - 1 /\ ~(m - 1 < i) /\ m - 1 + 1 = m
        BY <1>1, <2>1, <2>3
      <3>2. r[m - 1] = cs[m]
        BY <1>2, <3>1
      <3> QED
        BY ONLY <1>2, <3>1, <3>2 DEF Range
    <2> QED
      BY <2>2, <2>3
  <1>5. Range(r) = Range(cs) \ {cs[i]}
    BY ONLY <1>3, <1>4
  <1> QED
    BY <1>5 DEF r

LEMMA RangeReplaced ==
    ASSUME NEW S, NEW cs \in Seq(S), NEW i \in DOMAIN cs, Apart(cs), NEW e
    PROVE  Range([cs EXCEPT ![i] = e]) = (Range(cs) \ {cs[i]}) \cup {e}
  <1> DEFINE r == [cs EXCEPT ![i] = e]
  <1>1. DOMAIN r = DOMAIN cs /\ r[i] = e /\ \A k \in DOMAIN cs : k # i => r[k] = cs[k]
    BY OwnSeq
  <1> HIDE DEF r
  <1>2. \A y \in Range(r) : y \in (Range(cs) \ {cs[i]}) \cup {e}
    <2>1. ASSUME NEW k \in DOMAIN cs PROVE r[k] \in (Range(cs) \ {cs[i]}) \cup {e}
      BY <1>1 DEF Range, Apart
    <2> QED
      BY ONLY <1>1, <2>1 DEF Range
  <1>3. \A y \in (Range(cs) \ {cs[i]}) \cup {e} : y \in Range(r)
    <2>1. e \in Range(r)
      BY <1>1 DEF Range
    <2>2. ASSUME NEW k \in DOMAIN cs, cs[k] # cs[i] PROVE cs[k] \in Range(r)
      <3>1. r[k] = cs[k] /\ k \in DOMAIN r
        BY <1>1, <2>2
      <3> QED
        BY ONLY <3>1 DEF Range
    <2> QED
      BY <2>1, <2>2 DEF Range
  <1>4. Range(r) = (Range(cs) \ {cs[i]}) \cup {e}
    BY ONLY <1>2, <1>3
  <1> QED
    BY <1>4 DEF r


\* Sequences whose members weigh the same add up to the same.
LEMMA SumOverSame ==
    ASSUME NEW n \in Nat, NEW w, NEW s, NEW v, NEW t, Len(s) = n, Len(t) = n,
           \A i \in 1 .. n : w[s[i]] \in Int /\ v[t[i]] = w[s[i]]
    PROVE  SumOver(w, s) = SumOver(v, t)
  <1> DEFINE N == 1 .. n
             f == [i \in N |-> w[s[i]]]
             h == [i \in N |-> v[t[i]]]
  <1>1. SumOver(w, s) = SumFunctionOnSet(f, N) /\ SumOver(v, t) = SumFunctionOnSet(h, N)
    BY DEF SumOver
  <1>2. IsFiniteSet(N)
    BY PlacesFinite
  <1>3. \A i \in N : f[i] \in Int /\ h[i] = f[i]
    OBVIOUS
  <1> HIDE DEF N, f, h
  <1>4. SumFunctionOnSet(f, N) = SumFunctionOnSet(h, N)
    BY ONLY <1>2, <1>3, SumSame
  <1> QED
    BY ONLY <1>1, <1>4

\* r has the members of s at the places K, name tells where each comes from.
KeptFrom(r, s, K, S) ==
    /\ r \in Seq(S)
    /\ \E name : /\ Renaming(name, 1 .. Len(r), K)
                 /\ \A j \in 1 .. Len(r) : r[j] = s[name[j]]

LEMMA KeptOneMore ==
    ASSUME NEW S, NEW s, NEW n \in Nat, \A i \in 1 .. n : s[i] \in S, NEW K \in SUBSET (1 .. n),
           NEW k \in 1 .. n, NEW q, KeptFrom(q, s, K \cap (1 .. k - 1), S),
           NEW r, r = IF k \in K THEN Append(q, s[k]) ELSE q
    PROVE  KeptFrom(r, s, K \cap (1 .. k), S)
  <1>1. CASE k \notin K
    <2>1. K \cap (1 .. k) = K \cap (1 .. k - 1)
      BY <1>1
    <2> QED
      BY <1>1, <2>1
  <1>2. CASE k \in K
    <2> DEFINE m == Len(q)
               old == K \cap (1 .. k - 1)
               new == K \cap (1 .. k)
    <2>1. PICK name : /\ Renaming(name, 1 .. m, old)
                      /\ \A j \in 1 .. m : q[j] = s[name[j]]
      BY DEF KeptFrom
    <2>2. q \in Seq(S) /\ m \in Nat /\ r = Append(q, s[k])
      BY <1>2 DEF KeptFrom
    <2>3. r \in Seq(S) /\ Len(r) = m + 1 /\ r[m + 1] = s[k] /\ \A j \in 1 .. m : r[j] = q[j]
      BY <2>2
    <2> DEFINE nom == [j \in 1 .. m + 1 |-> IF j = m + 1 THEN k ELSE name[j]]
    <2>4. new = old \cup {k} /\ k \notin old
      BY <1>2
    <2>5. /\ \A x \in 1 .. m : name[x] \in old
          /\ \A y \in old : \E x \in 1 .. m : name[x] = y
          /\ \A x, y \in 1 .. m : name[x] = name[y] => x = y
      BY <2>1 DEF Renaming
    <2>6. nom[m + 1] = k /\ \A j \in 1 .. m : nom[j] = name[j]
      BY <2>2
    <2>7. \A j \in 1 .. m + 1 : j \in 1 .. m \/ j = m + 1
      BY <2>2
    <2>12. m + 1 \in 1 .. m + 1 /\ \A j \in 1 .. m : j \in 1 .. m + 1
      BY <2>2
    <2> HIDE DEF nom, m, old, new
    <2>8. \A x \in 1 .. m + 1 : nom[x] \in new
      BY ONLY <2>4, <2>5, <2>6, <2>7
    <2>9. \A y \in new : \E x \in 1 .. m + 1 : nom[x] = y
      BY ONLY <2>4, <2>5, <2>6, <2>12
    <2>10. \A x, y \in 1 .. m + 1 : nom[x] = nom[y] => x = y
      BY ONLY <2>4, <2>5, <2>6, <2>7
    <2>13. Renaming(nom, 1 .. m + 1, new)
      BY ONLY <2>8, <2>9, <2>10 DEF Renaming
    <2>11. \A j \in 1 .. m + 1 : r[j] = s[nom[j]]
      BY ONLY <2>1, <2>3, <2>6, <2>7
    <2>14. KeptFrom(r, s, new, S)
      BY ONLY <2>3, <2>11, <2>13 DEF KeptFrom
    <2> QED
      BY <2>14 DEF new
  <1> QED
    BY <1>1, <1>2

\* Keep keeps the members at some places.
LEMMA KeepKeeps ==
    ASSUME NEW S, NEW s \in Seq(S), NEW K \in SUBSET (DOMAIN s), NEW r, r = Keep(s, K)
    PROVE  KeptFrom(r, s, K, S)
  <1> DEFINE n == Len(s)
             A == Seq(S)
             base == <<>>
             seq == [i \in 1 .. n |-> i]
             turn(x, i) == IF i \in K THEN Append(x, s[i]) ELSE x
             step == [q \in A \X (1 .. n) |-> turn(q[1], q[2])]
             Fold(it) == it = [t \in SUBSET (DOMAIN seq) |->
                                 IF t = {} THEN base ELSE turn(it[t \ {Max(t)}], seq[Max(t)])]
  <1>1. n \in Nat /\ DOMAIN s = 1 .. n /\ \A i \in 1 .. n : s[i] \in S
    OBVIOUS
  <1>2. base \in A
    OBVIOUS
  <1>3. DOMAIN seq = 1 .. n
    OBVIOUS
  <1>4. step \in [A \X (1 .. n) -> A]
    <2>1. ASSUME NEW x \in A, NEW i \in 1 .. n PROVE turn(x, i) \in A
      BY <1>1
    <2> HIDE DEF A, turn
    <2> QED
      BY ONLY <2>1
  <1>5. PICK it \in [SUBSET (1 .. n) -> A] : SeqFoldsTo(it, n, base, step)
    <2> HIDE DEF A, base, step, n
    <2> QED
      BY <1>1, <1>2, <1>4, FoldLeftExists
  <1>6. Fold(it)
    <2>1. ASSUME NEW t \in SUBSET (1 .. n), t # {}
          PROVE  it[t] = turn(it[t \ {Max(t)}], seq[Max(t)])
      <3>1. Max(t) \in 1 .. n
        BY <1>1, <2>1, LargestPlace
      <3>2. t \ {Max(t)} \in SUBSET (1 .. n)
        OBVIOUS
      <3>3. it[t] = step[<<it[t \ {Max(t)}], Max(t)>>]
        BY <1>5, <2>1 DEF SeqFoldsTo
      <3>4. it[t \ {Max(t)}] \in A /\ seq[Max(t)] = Max(t)
        BY <3>1, <3>2
      <3> HIDE DEF A, turn, seq, n
      <3> QED
        BY ONLY <3>1, <3>3, <3>4 DEF step
    <2>2. it = [t \in SUBSET (1 .. n) |-> it[t]]
      OBVIOUS
    <2>3. it[{}] = base
      BY <1>5 DEF SeqFoldsTo
    <2> HIDE DEF base, turn, seq, n
    <2> QED
      BY <1>3, <2>1, <2>2, <2>3
  <1> DEFINE jt == CHOOSE t : Fold(t)
  <1>7. r = jt[DOMAIN seq]
    BY DEF Keep, FoldLeft, MapThenFoldSet
  <1>8. Fold(jt)
    BY <1>6
  <1>9. jt[{}] = base /\ \A k \in 1 .. n : jt[1 .. k] = turn(jt[1 .. k - 1], k)
    <2> HIDE DEF jt, base, turn
    <2>1. jt[{}] = base
      BY <1>8
    <2>2. ASSUME NEW k \in 1 .. n PROVE jt[1 .. k] = turn(jt[1 .. k - 1], k)
      <3>1. (1 .. k) \in SUBSET (DOMAIN seq)
        BY <1>1, <1>3
      <3>5. k \in Nat /\ k > 0
        BY <1>1
      <3>2. Max(1 .. k) = k /\ (1 .. k) \ {k} = 1 .. k - 1 /\ (1 .. k) # {}
        BY ONLY <3>5, LastPlace
      <3>3. jt[1 .. k] = turn(jt[(1 .. k) \ {Max(1 .. k)}], seq[Max(1 .. k)])
        BY <1>8, <3>1, <3>2
      <3>4. seq[k] = k
        OBVIOUS
      <3> HIDE DEF seq
      <3> QED
        BY ONLY <3>2, <3>3, <3>4
    <2> QED
      BY <2>1, <2>2
  <1>10. \A k \in 0 .. n : KeptFrom(jt[1 .. k], s, K \cap (1 .. k), S)
    <2> DEFINE G == {k \in 0 .. n : KeptFrom(jt[1 .. k], s, K \cap (1 .. k), S)}
    <2> HIDE DEF jt
    <2>1. 0 \in G
      <3>1. 1 .. 0 = {} /\ K \cap {} = {} /\ jt[1 .. 0] = <<>>
        BY <1>9
      <3>2. KeptFrom(<<>>, s, {}, S)
        <4>1. Len(<<>>) = 0 /\ <<>> \in Seq(S)
          OBVIOUS
        <4>2. Renaming(<<>>, 1 .. 0, {})
          BY <3>1 DEF Renaming
        <4> QED
          BY ONLY <4>1, <4>2 DEF KeptFrom
      <3> QED
        BY <1>1, <3>1, <3>2
    <2>2. ASSUME NEW k \in 1 .. n, k - 1 \in G PROVE k \in G
      <3>5. KeptFrom(jt[1 .. k - 1], s, K \cap (1 .. k - 1), S)
        BY <2>2
      <3>1. jt[1 .. k] = IF k \in K THEN Append(jt[1 .. k - 1], s[k]) ELSE jt[1 .. k - 1]
        BY <1>9
      <3>2. K \in SUBSET (1 .. n) /\ k \in 1 .. n /\ n \in Nat /\ k \in 0 .. n
        BY <1>1
      <3> HIDE DEF n
      <3>6. KeptFrom(jt[1 .. k], s, K \cap (1 .. k), S)
        BY ONLY <1>1, <3>1, <3>2, <3>5, KeptOneMore
      <3> QED
        BY ONLY <3>2, <3>6 DEF G
    <2> HIDE DEF G, n
    <2>3. \A k \in 0 .. n : k \in G
      BY ONLY <2>1, <2>2, <1>1, CountInduction
    <2> QED
      BY <2>3 DEF G
  <1>11. K \cap (1 .. n) = K /\ n \in 0 .. n
    BY <1>1
  <1> HIDE DEF jt, n
  <1> QED
    BY <1>3, <1>7, <1>10, <1>11

\* What the members kept weigh, and what is so when the others weigh nothing.
LEMMA SumKept ==
    ASSUME NEW S, NEW w \in [S -> Int], NEW v \in [S -> Int], NEW s \in Seq(S), NEW K \in SUBSET (DOMAIN s), NEW r,
           KeptFrom(r, s, K, S), \A i \in DOMAIN s : v[s[i]] = IF i \in K THEN w[s[i]] ELSE 0
    PROVE  SumOver(w, r) = SumOver(v, s)
  <1> DEFINE N == 1 .. Len(s)
             M == 1 .. Len(r)
             f == [j \in M |-> w[r[j]]]
             e == [i \in K |-> w[s[i]]]
             h == [i \in N |-> v[s[i]]]
  <1>1. DOMAIN s = N /\ Len(s) \in Nat /\ (\A i \in N : s[i] \in S) /\ r \in Seq(S)
    BY DEF KeptFrom
  <1>2. Len(r) \in Nat /\ \A j \in M : r[j] \in S
    BY <1>1
  <1>3. IsFiniteSet(N) /\ IsFiniteSet(M)
    BY <1>1, <1>2, PlacesFinite
  <1>4. PICK name : Renaming(name, M, K) /\ \A j \in M : r[j] = s[name[j]]
    BY DEF KeptFrom
  <1>5. SumOver(w, r) = SumFunctionOnSet(f, M) /\ SumOver(v, s) = SumFunctionOnSet(h, N)
    BY DEF SumOver
  <1>6. Renamed(f, e, name, M)
    <2>1. \A j \in M : name[j] \in K
      BY <1>4 DEF Renaming
    <2>2. \A j \in M : f[j] \in Int /\ e[name[j]] = f[j]
      BY <1>2, <1>4, <2>1
    <2> HIDE DEF f, e, M
    <2> QED
      BY ONLY <2>2 DEF Renamed
  <1>7. OnlyCounts(K, h, e, N)
    BY <1>1 DEF OnlyCounts
  <1> HIDE DEF N, M, e, f, h
  <1>8. SumFunctionOnSet(e, K) = SumFunctionOnSet(f, M)
    BY ONLY <1>3, <1>4, <1>6, SumRenamed
  <1>9. SumFunctionOnSet(e, K) = SumFunctionOnSet(h, N)
    BY ONLY <1>3, <1>7, SumSubset
  <1> QED
    BY ONLY <1>5, <1>8, <1>9

\* Members that weigh nothing may be left out.
LEMMA KeptSame ==
    ASSUME NEW S, NEW s \in Seq(S), NEW K \in SUBSET (DOMAIN s), NEW r, r = Keep(s, K), NEW w \in [S -> Int],
           \A i \in DOMAIN s \ K : w[s[i]] = 0
    PROVE  SumOver(w, r) = SumOver(w, s)
  <1>1. KeptFrom(r, s, K, S)
    BY KeepKeeps
  <1>2. \A i \in DOMAIN s : w[s[i]] = IF i \in K THEN w[s[i]] ELSE 0
    OBVIOUS
  <1> QED
    BY <1>1, <1>2, SumKept

\* What is kept was there before.
LEMMA KeptMembers ==
    ASSUME NEW S, NEW s \in Seq(S), NEW K \in SUBSET (DOMAIN s), NEW r, r = Keep(s, K)
    PROVE  /\ r \in Seq(S) /\ DOMAIN r = 1 .. Len(r) /\ Len(r) \in Nat
           /\ \E name : /\ \A j \in DOMAIN r : name[j] \in K /\ r[j] = s[name[j]]
                        /\ \A k \in K : \E j \in DOMAIN r : name[j] = k
                        /\ \A i, j \in DOMAIN r : name[i] = name[j] => i = j
  <1>1. KeptFrom(r, s, K, S)
    BY KeepKeeps
  <1>2. r \in Seq(S) /\ DOMAIN r = 1 .. Len(r) /\ Len(r) \in Nat
    BY <1>1 DEF KeptFrom
  <1>3. PICK name : Renaming(name, 1 .. Len(r), K) /\ \A j \in 1 .. Len(r) : r[j] = s[name[j]]
    BY <1>1 DEF KeptFrom
  <1>4. /\ \A j \in DOMAIN r : name[j] \in K /\ r[j] = s[name[j]]
        /\ \A k \in K : \E j \in DOMAIN r : name[j] = k
        /\ \A i, j \in DOMAIN r : name[i] = name[j] => i = j
    BY ONLY <1>2, <1>3 DEF Renaming
  <1> QED
    BY ONLY <1>2, <1>4


\* A sum over at most one place.
LEMMA SumOne ==
    ASSUME NEW K, NEW f, NEW i, i \in K, \A j \in K : j = i, f[i] \in Int
    PROVE  SumFunctionOnSet(f, K) = f[i]
  <1>1. K = {i}
    OBVIOUS
  <1>2. IsFiniteSet(K) /\ \A j \in K : f[j] \in Int
    BY <1>1, FS_Singleton
  <1>3. SumFunctionOnSet(f, K) = f[i] + SumFunctionOnSet(f, K \ {i})
    BY ONLY <1>2, i \in K, SumTake
  <1>4. K \ {i} = {}
    BY <1>1
  <1>5. SumFunctionOnSet(f, {}) = 0
    BY SumEmpty
  <1>6. SumFunctionOnSet(f, K \ {i}) = 0
    BY ONLY <1>4, <1>5, Zenon
  <1> QED
    BY ONLY <1>3, <1>6, f[i] \in Int


\* r is s with more members behind.
Extends(r, s) == Len(s) <= Len(r) /\ \A k \in 1 .. Len(s) : r[k] = s[k]

\* Two weights of the members behind that are the same add up to the same.
LEMMA SameGrowth ==
    ASSUME NEW S, NEW w \in [S -> Int], NEW v \in [S -> Int], NEW s \in Seq(S), NEW r \in Seq(S),
           Extends(r, s), \A k \in Len(s) + 1 .. Len(r) : w[r[k]] = v[r[k]]
    PROVE  SumOver(w, r) - SumOver(w, s) = SumOver(v, r) - SumOver(v, s)
  <1> DEFINE a == Len(s)
             b == Len(r)
             A == 1 .. a
             B == a + 1 .. b
  <1>1. /\ a \in Nat /\ b \in Nat /\ a <= b
        /\ \A k \in 1 .. a : r[k] = s[k]
        /\ \A k \in 1 .. b : r[k] \in S
        /\ \A k \in 1 .. a : s[k] \in S
    BY DEF Extends
  <1>2. IsFiniteSet(A) /\ IsFiniteSet(B) /\ A \cap B = {} /\ 1 .. b = A \cup B
    <2>1. IsFiniteSet(A) /\ IsFiniteSet(1 .. b)
      BY ONLY <1>1, PlacesFinite
    <2>2. A \cap B = {} /\ 1 .. b = A \cup B
      BY ONLY <1>1
    <2>3. B \in SUBSET (1 .. b)
      BY <2>2
    <2> HIDE DEF A, B
    <2> QED
      BY ONLY <2>1, <2>2, <2>3, FS_Subset
  <1>3. ASSUME NEW u \in [S -> Int]
        PROVE  LET f == [k \in 1 .. b |-> u[r[k]]]
               IN SumOver(u, r) = SumOver(u, s) + SumFunctionOnSet(f, B) /\ SumFunctionOnSet(f, B) \in Int
    <2> DEFINE f == [k \in 1 .. b |-> u[r[k]]]
               g == [k \in 1 .. a |-> u[s[k]]]
    <2>1. SumOver(u, r) = SumFunctionOnSet(f, 1 .. b) /\ SumOver(u, s) = SumFunctionOnSet(g, A)
      BY DEF SumOver
    <2>2. \A k \in A \cup B : f[k] \in Int
      BY <1>1, <1>2
    <2>3. \A k \in A : g[k] \in Int /\ f[k] = g[k]
      <3> SUFFICES ASSUME NEW k \in A PROVE g[k] \in Int /\ f[k] = g[k]
        OBVIOUS
      <3>1. s[k] \in S /\ r[k] = s[k] /\ k \in 1 .. b
        BY <1>1
      <3> QED
        BY <3>1
    <2>4. \A k \in B : f[k] \in Int
      BY <2>2
    <2>5. \A k \in A : f[k] \in Int
      BY <2>2
    <2> HIDE DEF f, g, A, B, b, a
    <2>6. SumFunctionOnSet(f, A \cup B) = SumFunctionOnSet(f, A) + SumFunctionOnSet(f, B)
      BY ONLY <1>2, <2>2, SumUnion
    <2>7. SumFunctionOnSet(g, A) = SumFunctionOnSet(f, A)
      BY ONLY <1>2, <2>3, SumSame
    <2>8. SumFunctionOnSet(f, B) \in Int
      BY ONLY <1>2, <2>4, SumType
    <2> QED
      BY ONLY <1>2, <2>1, <2>6, <2>7, <2>8 DEF f
  <1> DEFINE f == [k \in 1 .. b |-> w[r[k]]]
             h == [k \in 1 .. b |-> v[r[k]]]
  <1>4. SumFunctionOnSet(f, B) = SumFunctionOnSet(h, B)
    <2>1. \A k \in B : f[k] \in Int /\ h[k] = f[k]
      BY <1>1
    <2> HIDE DEF f, h, B
    <2> QED
      BY ONLY <1>2, <2>1, SumSame
  <1>5. SumOver(w, s) \in Int /\ SumOver(v, s) \in Int
    BY SumOverType
  <1>6. SumOver(w, r) = SumOver(w, s) + SumFunctionOnSet(f, B) /\ SumFunctionOnSet(f, B) \in Int
    BY <1>3
  <1>7. SumOver(v, r) = SumOver(v, s) + SumFunctionOnSet(h, B)
    BY <1>3
  <1> HIDE DEF f, h, B
  <1> QED
    BY ONLY <1>4, <1>5, <1>6, <1>7

\* Prices are multiples of 100, and so is every amount of money.
Multiple(a) == \E z \in Int : a = 100 * z

LEMMA MultipleMinus ==
    ASSUME NEW a \in Int, NEW p \in Int, NEW q \in Int, Multiple(a), Multiple(p)
    PROVE  Multiple(a - p * q) /\ Multiple(p * q)
  <1>1. PICK y \in Int, z \in Int : a = 100 * y /\ p = 100 * z
    BY DEF Multiple
  <1>2. PICK t \in Int : t = z * q
    OBVIOUS
  <1>3. (100 * z) * q = 100 * (z * q)
    OBVIOUS
  <1>4. a - p * q = 100 * (y - t) /\ p * q = 100 * t /\ y - t \in Int
    BY ONLY <1>1, <1>2, <1>3
  <1> QED
    BY <1>2, <1>4 DEF Multiple

\* A deal of the matching with order tid of this price, over lots of an order in book.
DealFrom(d, book, n, tid, price) ==
    /\ d.dealtid = tid /\ (tid # 0 => d.status = "COMMISSION_WAIT")
    /\ d.order.volume > 0 /\ d.ack_money = d.order.price * d.order.volume
    /\ \E i \in 1 .. n : /\ book[i].tid = d.order.tid /\ book[i].user = d.order.user
                         /\ book[i].price = d.order.price /\ Crosses(price, book[i])

\* Who sells v lots at this price gets at least price * v for them, and who
\* buys them, at the negated price, pays at most that.
GoodPay(price, v, a) ==
    /\ v \in Nat /\ a \in Int /\ Multiple(a) /\ a >= price * v
    /\ v = 0 => a = 0
    /\ price < 0 /\ v > 0 => a < 0

\* r is the market m after some orders were matched with the order tid.
MatchedPay(r, m, n, tid, price) ==
    /\ Extends(r.pending, m.pending)
    /\ \A k \in Len(m.pending) + 1 .. Len(r.pending) : DealFrom(r.pending[k], m.orders, n, tid, price)
    /\ GoodPay(price, r.ack_volume, r.ack_money)

\* One more lots at a price that is as good.
LEMMA GoodPayMore ==
    ASSUME NEW price \in Int, NEW v \in Nat, NEW a \in Int, GoodPay(price, v, a),
           NEW q \in Nat, q > 0, NEW p \in Int, Multiple(p), -p >= price, price < 0 => p > 0
    PROVE  GoodPay(price, v + q, a - p * q)
  <1>1. PICK c \in Int : c = p * q
    OBVIOUS
  <1>2. Multiple(a - c) /\ Multiple(a)
    <2>1. Multiple(a)
      BY DEF GoodPay
    <2>2. q \in Int
      OBVIOUS
    <2>3. Multiple(a - p * q)
      BY ONLY <2>1, <2>2, a \in Int, p \in Int, Multiple(p), MultipleMinus
    <2> QED
      BY <1>1, <2>1, <2>3
  <1>3. price * (v + q) = price * v + price * q
    OBVIOUS
  <1>4. price * q <= -c
    <2>1. (-p - price) * q >= 0
      <3>1. PICK e \in Nat : e = -p - price
        OBVIOUS
      <3>2. e * q >= 0
        OBVIOUS
      <3> QED
        BY <3>1, <3>2
    <2>2. (-p - price) * q = -(p * q) - price * q
      OBVIOUS
    <2> QED
      BY ONLY <1>1, <2>1, <2>2, p \in Int, q \in Nat, price \in Int
  <1>5. PICK x \in Int, y \in Int : x = price * v /\ y = price * q
    OBVIOUS
  <1>6. a >= x /\ (price < 0 /\ v > 0 => a < 0) /\ (v = 0 => a = 0)
    BY <1>5 DEF GoodPay
  <1>7. price * (v + q) = x + y /\ y <= -c
    BY ONLY <1>3, <1>4, <1>5
  <1>8. price < 0 => c > 0
    <2> SUFFICES ASSUME price < 0 PROVE c > 0
      OBVIOUS
    <2>1. PICK e \in Nat, h \in Nat : p = e + 1 /\ q = h + 1
      <3>1. p - 1 \in Nat /\ q - 1 \in Nat /\ p = p - 1 + 1 /\ q = q - 1 + 1
        OBVIOUS
      <3> QED
        BY ONLY <3>1
    <2>2. (e + 1) * (h + 1) = e * h + e + h + 1
      OBVIOUS
    <2>3. e * h >= 0 /\ e * h \in Int
      OBVIOUS
    <2> QED
      BY ONLY <1>1, <2>1, <2>2, <2>3
  <1>9. price < 0 => a - c < 0
    BY ONLY <1>1, <1>6, <1>8, v \in Nat, a \in Int
  <1>10. v + q \in Nat /\ v + q # 0 /\ a - c \in Int /\ a - c >= price * (v + q)
    BY ONLY <1>1, <1>5, <1>6, <1>7, v \in Nat, a \in Int, q \in Nat, q > 0
  <1>11. GoodPay(price, v + q, a - c)
    BY ONLY <1>2, <1>9, <1>10 DEF GoodPay
  <1> QED
    BY ONLY <1>1, <1>11

\* The turn of one order keeps this.
LEMMA MatchedPayStep ==
    ASSUME NEW T, NEW U, NEW P, P \subseteq Int, \A p \in P : Multiple(p),
           NEW n \in Nat, NEW m \in Markets(n, T, U, P),
           NEW tid \in T, NEW price \in Int, NEW volume \in Nat, NEW k \in 1 .. n,
           NEW r0 \in Markets(n, T, U, P), MatchedPay(r0, m, n, tid, price),
           \A i \in 1 .. n : TakenOff(r0.orders[i], m.orders[i]), r0.ack_volume <= volume,
           NEW r, r = IF Crosses(price, m.orders[k]) THEN MatchOne(r0, k, tid, volume) ELSE r0
    PROVE  MatchedPay(r, m, n, tid, price)
  <1> DEFINE o == r0.orders[k]
             q == Least(o.volume, volume - r0.ack_volume)
             a == o.price * q
             d == Deal(o, q, tid, a)
  <1>1. /\ r0.orders \in [1 .. n -> OrdersOf(T, U, P)] /\ m.orders \in [1 .. n -> OrdersOf(T, U, P)]
        /\ r0.pending \in Seq(DealsOf(T, U, P)) /\ r0.ack_volume \in Int /\ r0.ack_money \in Int
        /\ m.pending \in Seq(DealsOf(T, U, P))
    BY DEF Markets
  <1>2. o \in OrdersOf(T, U, P) /\ m.orders[k] \in OrdersOf(T, U, P)
    BY <1>1
  <1>3. /\ o.volume \in Int /\ o.price \in P /\ o.price \in Int
        /\ o = [tid |-> o.tid, user |-> o.user, price |-> o.price, volume |-> o.volume]
    BY <1>2 DEF OrdersOf
  <1>4. /\ o.tid = m.orders[k].tid /\ o.user = m.orders[k].user /\ o.price = m.orders[k].price
        /\ o.volume \in Nat
    <2>1. PICK v \in 0 .. m.orders[k].volume : o = [m.orders[k] EXCEPT !.volume = v]
      <3>1. TakenOff(o, m.orders[k])
        OBVIOUS
      <3> QED
        BY <3>1 DEF TakenOff
    <2>2. m.orders[k].volume \in Int
      BY <1>2 DEF OrdersOf
    <2>3. o.volume = v /\ o.tid = m.orders[k].tid /\ o.user = m.orders[k].user /\ o.price = m.orders[k].price
      BY <1>2, <2>1 DEF OrdersOf
    <2> QED
      BY <2>2, <2>3
  <1>5. q \in Nat
    BY <1>1, <1>4 DEF Least
  <1>6. CASE ~Crosses(price, m.orders[k]) \/ q = 0
    BY <1>6 DEF MatchOne
  <1>7. CASE Crosses(price, m.orders[k]) /\ q # 0
    <2>1. r = [r0 EXCEPT !.orders[k].volume = @ - q, !.volumes = ReduceVolume(@, o.price, q),
                         !.pending = Append(@, d), !.ack_volume = @ + q, !.ack_money = @ - a]
      BY <1>7 DEF MatchOne
    <2> HIDE DEF a, q, d
    <2>2. /\ r.pending = Append(r0.pending, d) /\ r.ack_volume = r0.ack_volume + q
          /\ r.ack_money = r0.ack_money - a
      BY <2>1 DEF Markets
    <2>3. /\ d.order = [tid |-> o.tid, user |-> o.user, price |-> o.price, volume |-> q]
          /\ d.dealtid = tid /\ d.ack_money = a /\ (tid # 0 => d.status = "COMMISSION_WAIT")
      <3>1. [o EXCEPT !.volume = q] = [tid |-> o.tid, user |-> o.user, price |-> o.price, volume |-> q]
        BY ONLY <1>3
      <3>2. d = [order |-> [o EXCEPT !.volume = q], dealtid |-> tid, ack_money |-> a,
                 status |-> IF tid = 0 THEN "COMMISSION_DONE" ELSE "COMMISSION_WAIT"]
        BY DEF d, Deal
      <3> HIDE DEF o
      <3> QED
        BY ONLY <3>1, <3>2
    <2>4. Crosses(price, o)
      BY <1>4, <1>7 DEF Crosses
    <2>5. DealFrom(d, m.orders, n, tid, price)
      <3>1. /\ d.order.tid = o.tid /\ d.order.user = o.user /\ d.order.price = o.price
            /\ d.order.volume = q
        BY <2>3
      <3>2. d.order.volume > 0 /\ d.ack_money = d.order.price * d.order.volume
        BY <1>5, <1>7, <2>3, <3>1 DEF a
      <3> HIDE DEF o
      <3> QED
        BY ONLY <1>4, <1>7, <2>3, <3>1, <3>2, k \in 1 .. n DEF DealFrom
    <2>6. GoodPay(price, r.ack_volume, r.ack_money)
      <3>1. GoodPay(price, r0.ack_volume, r0.ack_money) /\ r0.ack_volume \in Nat
        BY DEF MatchedPay, GoodPay
      <3>2. q > 0 /\ Multiple(o.price) /\ -o.price >= price /\ (price < 0 => o.price > 0)
        BY <1>3, <1>5, <1>7, <2>4 DEF Crosses
      <3> HIDE DEF o
      <3>3. GoodPay(price, r0.ack_volume + q, r0.ack_money - o.price * q)
        BY ONLY <1>1, <1>3, <1>5, <3>1, <3>2, price \in Int, GoodPayMore
      <3> QED
        BY ONLY <2>2, <3>3 DEF a
    <2>7. /\ Extends(r.pending, m.pending)
          /\ \A j \in Len(m.pending) + 1 .. Len(r.pending) : DealFrom(r.pending[j], m.orders, n, tid, price)
      <3>1. Len(r.pending) = Len(r0.pending) + 1 /\ Len(r0.pending) \in Nat /\ Len(m.pending) \in Nat
        BY ONLY <1>1, <2>2
      <3>2. (\A j \in 1 .. Len(r0.pending) : r.pending[j] = r0.pending[j]) /\ r.pending[Len(r0.pending) + 1] = d
        BY ONLY <1>1, <2>2
      <3>3. /\ Extends(r0.pending, m.pending)
            /\ \A j \in Len(m.pending) + 1 .. Len(r0.pending) : DealFrom(r0.pending[j], m.orders, n, tid, price)
        BY DEF MatchedPay
      <3>4. Extends(r.pending, m.pending)
        BY ONLY <3>1, <3>2, <3>3 DEF Extends
      <3>5. ASSUME NEW j \in Len(m.pending) + 1 .. Len(r.pending)
            PROVE  DealFrom(r.pending[j], m.orders, n, tid, price)
        <4>1. CASE j = Len(r0.pending) + 1
          BY ONLY <2>5, <3>2, <4>1
        <4>2. CASE j # Len(r0.pending) + 1
          <5>1. j \in Len(m.pending) + 1 .. Len(r0.pending) /\ j \in 1 .. Len(r0.pending)
            <6>1. PICK x, y, z : x = Len(m.pending) /\ y = Len(r0.pending) /\ z = Len(r.pending)
              OBVIOUS
            <6>2. x \in Nat /\ y \in Nat /\ z = y + 1 /\ j \in x + 1 .. z /\ j # y + 1
              BY ONLY <3>1, <4>2, <6>1, j \in Len(m.pending) + 1 .. Len(r.pending)
            <6>3. j \in x + 1 .. y /\ j \in 1 .. y
              BY ONLY <6>2
            <6> QED
              BY ONLY <6>1, <6>3
          <5> QED
            BY ONLY <3>2, <3>3, <5>1
        <4> QED
          BY <4>1, <4>2
      <3> QED
        BY <3>4, <3>5
    <2> QED
      BY <2>6, <2>7 DEF MatchedPay
  <1> QED
    BY <1>6, <1>7

\* So is the market PriceMatching leaves.
LEMMA MatchingPays ==
    ASSUME NEW T, NEW U, NEW P, P \subseteq Int, \A p \in P : Multiple(p),
           NEW n \in Nat, NEW m \in Markets(n, T, U, P),
           NEW tid \in T, NEW price \in Int, NEW volume \in Nat, \A i \in 1 .. n : m.orders[i].volume >= 0,
           NEW r, r = PriceMatching(m, tid, price, volume)
    PROVE  MatchedPay(r, m, n, tid, price)
  <1> DEFINE S == OrdersOf(T, U, P)
  <1>1. PICK f \in [0 .. n -> Markets(n, T, U, P)] :
           MatchedAlong(f, m, n, tid, price, volume) /\ r = f[n]
    <2>1. volume \in Int
      OBVIOUS
    <2>2. Matching(r, m, n, tid, price, volume, T, U, P)
      BY <2>1, MatchingTable
    <2> QED
      BY ONLY <2>2 DEF Matching
  <1> DEFINE G == {k \in 0 .. n : /\ MatchedBook(f[k], m, k, n, price, volume, S)
                                  /\ MatchedPay(f[k], m, n, tid, price)}
  <1>2. 0 \in G
    <2>1. f[0] = Incoming(m)
      BY <1>1 DEF MatchedAlong
    <2>2. 0 \in 0 .. n
      OBVIOUS
    <2>3. Incoming(m).pending = m.pending /\ Incoming(m).ack_volume = 0 /\ Incoming(m).ack_money = 0
      BY IncomingType
    <2>4. GoodPay(price, 0, 0)
      <3>1. price * 0 = 0 /\ 0 = 100 * 0
        OBVIOUS
      <3> QED
        BY ONLY <3>1 DEF GoodPay, Multiple
    <2>5. Len(m.pending) \in Nat
      BY DEF Markets
    <2>6. MatchedPay(Incoming(m), m, n, tid, price)
      <3>1. Extends(m.pending, m.pending) /\ Len(m.pending) + 1 .. Len(m.pending) = {}
        BY ONLY <2>5 DEF Extends
      <3> QED
        BY ONLY <2>3, <2>4, <3>1 DEF MatchedPay
    <2> QED
      BY <2>1, <2>2, <2>6, MatchingStarts
  <1>3. \A k \in 1 .. n : k - 1 \in G => k \in G
    <2> SUFFICES ASSUME NEW k \in 1 .. n, k - 1 \in G PROVE k \in G
      OBVIOUS
    <2>1. MatchedBook(f[k - 1], m, k - 1, n, price, volume, S) /\ MatchedPay(f[k - 1], m, n, tid, price)
      OBVIOUS
    <2>2. f[k - 1] \in Markets(n, T, U, P) /\ k \in 0 .. n
      OBVIOUS
    <2>3. f[k] = IF Crosses(price, m.orders[k]) THEN MatchOne(f[k - 1], k, tid, volume) ELSE f[k - 1]
      BY <1>1 DEF MatchedAlong
    <2>4. (\A i \in 1 .. n : TakenOff(f[k - 1].orders[i], m.orders[i])) /\ f[k - 1].ack_volume <= volume
      BY <2>1 DEF MatchedBook
    <2> HIDE DEF G
    <2>5. MatchedBook(f[k], m, k, n, price, volume, S)
      BY <2>1, <2>2, <2>3, MatchedBookStep
    <2>6. MatchedPay(f[k], m, n, tid, price)
      BY <2>1, <2>2, <2>3, <2>4, MatchedPayStep
    <2> QED
      BY <2>2, <2>5, <2>6 DEF G
  <1>4. n \in G
    <2> HIDE DEF G
    <2>1. \A k \in 0 .. n : k \in G
      BY <1>2, <1>3, CountInduction
    <2> QED
      BY <2>1
  <1> QED
    BY <1>1, <1>4

\* Members behind that weigh nothing add nothing.
LEMMA NoGrowth ==
    ASSUME NEW S, NEW w \in [S -> Int], NEW s \in Seq(S), NEW r \in Seq(S), Extends(r, s),
           \A k \in Len(s) + 1 .. Len(r) : w[r[k]] = 0
    PROVE  SumOver(w, r) = SumOver(w, s)
  <1> DEFINE v == [e \in S |-> 0]
  <1>1. v \in [S -> Int] /\ \A e \in S : v[e] = 0
    OBVIOUS
  <1>2. /\ \A k \in 1 .. Len(s) : s[k] \in S
        /\ \A k \in 1 .. Len(r) : r[k] \in S
        /\ Len(s) \in Nat /\ Len(r) \in Nat /\ s \in [1 .. Len(s) -> S] /\ r \in [1 .. Len(r) -> S]
    OBVIOUS
  <1> HIDE DEF v
  <1>3. \A k \in Len(s) + 1 .. Len(r) : w[r[k]] = v[r[k]]
    BY <1>1, <1>2
  <1>4. SumOver(w, r) - SumOver(w, s) = SumOver(v, r) - SumOver(v, s)
    BY <1>1, <1>3, SameGrowth
  <1>5. SumOver(v, r) = 0
    <2> DEFINE n == Len(r)
    <2>1. n \in Nat /\ r \in [1 .. n -> S] /\ \A k \in 1 .. n : v[r[k]] = 0
      BY <1>1, <1>2
    <2> HIDE DEF n
    <2> QED
      BY ONLY <1>1, <2>1, SumOverSign
  <1>6. SumOver(v, s) = 0
    <2> DEFINE n == Len(s)
    <2>1. n \in Nat /\ s \in [1 .. n -> S] /\ \A k \in 1 .. n : v[s[k]] = 0
      BY <1>1, <1>2
    <2> HIDE DEF n
    <2> QED
      BY ONLY <1>1, <2>1, SumOverSign
  <1>7. SumOver(w, r) \in Int /\ SumOver(w, s) \in Int
    BY SumOverType
  <1> QED
    BY ONLY <1>4, <1>5, <1>6, <1>7

\* Quotient and rest.
LEMMA DivUnique ==
    ASSUME NEW n \in Nat, n > 0, NEW z \in Int, NEW w \in Int, NEW m \in 0 .. n - 1, NEW k \in 0 .. n - 1,
           n * z + m = n * w + k
    PROVE  m = k
  <1>1. CASE z = w
    BY <1>1
  <1>2. CASE z > w
    <2>1. PICK e \in Nat : z = w + 1 + e
      <3>1. z - w - 1 \in Nat /\ z = w + 1 + (z - w - 1)
        BY <1>2
      <3> QED
        BY <3>1
    <2>2. n * z = n * w + n + n * e
      BY ONLY <2>1, n \in Nat, w \in Int, e \in Nat
    <2>3. n * e \in Nat /\ n * w \in Int
      OBVIOUS
    <2> QED
      BY ONLY <2>2, <2>3, n \in Nat, m \in 0 .. n - 1, k \in 0 .. n - 1, n * z + m = n * w + k
  <1>3. CASE z < w
    <2>1. PICK e \in Nat : w = z + 1 + e
      <3>1. w - z - 1 \in Nat /\ w = z + 1 + (w - z - 1)
        BY <1>3
      <3> QED
        BY <3>1
    <2>2. n * w = n * z + n + n * e
      BY ONLY <2>1, n \in Nat, z \in Int, e \in Nat
    <2>3. n * e \in Nat /\ n * z \in Int
      OBVIOUS
    <2> QED
      BY ONLY <2>2, <2>3, n \in Nat, m \in 0 .. n - 1, k \in 0 .. n - 1, n * z + m = n * w + k
  <1> QED
    BY <1>1, <1>2, <1>3

LEMMA DivMod ==
    ASSUME NEW n \in Nat, n > 0, NEW a \in Nat
    PROVE  a = n * (a \div n) + (a % n) /\ a \div n \in Int /\ a % n \in 0 .. n - 1
  OBVIOUS

LEMMA ModIs ==
    ASSUME NEW n \in Nat, n > 0, NEW z \in Int, NEW m \in 0 .. n - 1, NEW a \in Nat, a = n * z + m
    PROVE  a % n = m
  <1>1. a = n * (a \div n) + (a % n) /\ a \div n \in Int /\ a % n \in 0 .. n - 1
    BY DivMod
  <1> QED
    BY <1>1, DivUnique

================================================================================
