------------------------------- MODULE SumProofs -------------------------------
(***************************************************************************)
(* Sums of the values of a function over a finite set of its indices: what *)
(* the totals of the ledger, the stock of a product, the times a row was   *)
(* booked and the items of a distribution are.  The sum is a fold that     *)
(* takes the indices in an unknown order; the lemmas show that it exists,  *)
(* that the order does not matter, and how it changes with its indices and *)
(* with the function.                                                      *)
(***************************************************************************)
EXTENDS Integers, Functions, FiniteSetTheorems, WellFoundedInduction, TLAPS

-----------------------------------------------------------------------------
(* Induction over the subsets of a finite set, for a collection of them:   *)
(* the library's induction theorems are about an operator.                 *)

\* A collection that holds a subset whenever it holds the smaller ones holds
\* the whole set.
LEMMA SubsetInduction ==
    ASSUME NEW S, IsFiniteSet(S), NEW C,
           \A T \in SUBSET S :
              (\A U \in SUBSET T : U # T => U \in C) => T \in C
    PROVE  S \in C
  <1>. DEFINE Bad == {T \in SUBSET S : T \notin C}
  <1>1. SUFFICES ASSUME Bad # {} PROVE FALSE
    OBVIOUS
  <1>2. Bad \subseteq FiniteSubsetsOf(S)
    BY FS_Subset DEF FiniteSubsetsOf
  <1>3. \E T \in Bad : \A U \in Bad : ~ (<<U, T>> \in StrictSubsetOrdering(S))
    <2>1. IsWellFoundedOn(StrictSubsetOrdering(S), FiniteSubsetsOf(S))
      BY FS_StrictSubsetOrderingWellFounded
    <2>. HIDE DEF Bad
    <2>. QED BY <1>1, <1>2, <2>1, WFMin
  <1>4. PICK T \in Bad : \A U \in Bad : ~ (<<U, T>> \in StrictSubsetOrdering(S))
    BY <1>3
  <1>5. ASSUME NEW U \in SUBSET T, U # T PROVE U \in C
    <2>1. <<U, T>> \in StrictSubsetOrdering(S)
      BY <1>5 DEF StrictSubsetOrdering
    <2>. QED BY <1>4, <2>1
  <1>. QED BY <1>4, <1>5

\* A collection with the empty set that is closed under adding an element holds
\* the whole set.
LEMMA ElementInduction ==
    ASSUME NEW S, IsFiniteSet(S), NEW C,
           {} \in C,
           \A T \in SUBSET S : \A x \in S \ T : T \in C => T \cup {x} \in C
    PROVE  S \in C
  <1>1. ASSUME NEW T \in SUBSET S,
               \A U \in SUBSET T : U # T => U \in C
        PROVE  T \in C
    <2>1. CASE T = {}
      BY <2>1
    <2>2. CASE T # {}
      <3>1. PICK x : x \in T
        BY <2>2
      <3>2. T \ {x} \in C /\ T \ {x} \in SUBSET S /\ x \in S \ (T \ {x})
        BY <1>1, <3>1
      <3>3. (T \ {x}) \cup {x} = T
        BY <3>1
      <3>. QED BY <3>2, <3>3
    <2>. QED BY <2>1, <2>2
  <1>. QED BY <1>1, SubsetInduction

\* A set with 0 that is closed under the next number up to n holds n.
LEMMA PrefixInduction ==
    ASSUME NEW n \in Nat, NEW C, 0 \in C,
           \A k \in 1..n : k - 1 \in C => k \in C
    PROVE  n \in C
  <1>. DEFINE D == {T \in SUBSET (1..n) : \A k \in 0..n : T = 1..k => k \in C}
  <1>1. ASSUME NEW T \in SUBSET (1..n),
               \A U \in SUBSET T : U # T => U \in D
        PROVE  T \in D
    <2>1. SUFFICES ASSUME NEW k \in 0..n, T = 1..k PROVE k \in C
      OBVIOUS
    <2>2. CASE k = 0
      BY <2>2
    <2>3. CASE k # 0
      <3>1. k \in 1..n /\ k - 1 \in 0..n
        BY <2>3
      <3>2. 1 .. k - 1 \in SUBSET T /\ k \in T /\ k \notin 1 .. k - 1
        BY <2>1, <3>1
      <3>3. 1 .. k - 1 \in D
        BY <1>1, <3>2
      <3>. QED BY <3>1, <3>3
    <2>. QED BY <2>2, <2>3
  <1>2. 1..n \in D
    <2>1. PICK S : S = 1..n
      OBVIOUS
    <2>2. IsFiniteSet(S)
      BY <2>1, FS_Interval
    <2>3. \A T \in SUBSET S :
             (\A U \in SUBSET T : U # T => U \in D) => T \in D
      BY <1>1, <2>1
    <2>4. S \in D
      <3>. HIDE DEF D
      <3>. QED BY <2>2, <2>3, SubsetInduction
    <2>. HIDE DEF D
    <2>. QED BY ONLY <2>1, <2>4
  <1>. QED BY <1>2

-----------------------------------------------------------------------------
(* The recursion behind the sum. *)

\* The index a sum takes first.
First(s) == CHOOSE x \in s : TRUE

\* g gives the sums of f over the subsets of S.
Sums(f, S, g) ==
    g = [s \in SUBSET S |-> IF s = {} THEN 0 ELSE f[First(s)] + g[s \ {First(s)}]]

LEMMA FirstIsIn == ASSUME NEW s, s # {} PROVE First(s) \in s
  BY DEF First

\* The sum as the community modules define it.
LEMMA SumUnfolds ==
    ASSUME NEW f, NEW S
    PROVE  SumFunctionOnSet(f, S) = (CHOOSE g : Sums(f, S, g))[S]
  BY DEF SumFunctionOnSet, FoldFunctionOnSet, MapThenFoldSet, Sums, First

\* The sums over the subsets of a set agree with those over a larger one.
LEMMA SumsAgree ==
    ASSUME NEW f, NEW S, IsFiniteSet(S), NEW T \in SUBSET S,
           NEW g, Sums(f, S, g), NEW h, Sums(f, T, h)
    PROVE  \A s \in SUBSET T : g[s] = h[s]
  <1>. DEFINE C == {s \in SUBSET T : g[s] = h[s]}
  <1>1. ASSUME NEW s \in SUBSET T,
               \A u \in SUBSET s : u # s => u \in C
        PROVE  s \in C
    <2>1. CASE s = {}
      BY <2>1 DEF Sums
    <2>2. CASE s # {}
      <3>1. s \ {First(s)} \in C
        BY <1>1, <2>2, FirstIsIn
      <3>2. /\ g[s] = f[First(s)] + g[s \ {First(s)}]
            /\ h[s] = f[First(s)] + h[s \ {First(s)}]
        BY <2>2 DEF Sums
      <3>. QED BY <3>1, <3>2
    <2>. QED BY <2>1, <2>2
  <1>2. ASSUME NEW s \in SUBSET T PROVE s \in C
    <2>1. IsFiniteSet(s)
      BY FS_Subset
    <2>. HIDE DEF C
    <2>. QED BY <1>1, <2>1, SubsetInduction
  <1>. QED BY <1>2

\* There are such sums.
LEMMA SumsExist ==
    ASSUME NEW f, NEW S, IsFiniteSet(S)
    PROVE  \E g : Sums(f, S, g)
  <1>. DEFINE C == {T \in SUBSET S : \E g : Sums(f, T, g)}
              G(T) == CHOOSE g : Sums(f, T, g)
  <1>1. ASSUME NEW T \in SUBSET S,
               \A U \in SUBSET T : U # T => U \in C
        PROVE  T \in C
    <2>. DEFINE h == [s \in SUBSET T |->
                       IF s = {} THEN 0
                       ELSE f[First(s)] + G(s \ {First(s)})[s \ {First(s)}]]
    <2>1. ASSUME NEW U \in SUBSET T, U # T PROVE Sums(f, U, G(U))
      BY <1>1, <2>1
    <2>2. ASSUME NEW s \in SUBSET T, s # {}
          PROVE  h[s \ {First(s)}] = G(s \ {First(s)})[s \ {First(s)}]
      <3>. DEFINE u == s \ {First(s)}
      <3>1. u \in SUBSET T /\ u # T /\ IsFiniteSet(u)
        BY <2>2, FirstIsIn, FS_Subset
      <3>2. Sums(f, u, G(u))
        BY <2>1, <3>1
      <3>3. CASE u = {}
        BY <3>1, <3>2, <3>3 DEF Sums
      <3>4. CASE u # {}
        <4>. DEFINE v == u \ {First(u)}
        <4>1. v \in SUBSET u /\ v # T
          BY <3>1, <3>4, FirstIsIn
        <4>2. Sums(f, v, G(v))
          BY <2>1, <3>1, <4>1
        <4>3. G(u)[v] = G(v)[v]
          <5>. HIDE DEF G, u, v
          <5>. QED BY <3>1, <3>2, <4>1, <4>2, SumsAgree
        <4>4. h[u] = f[First(u)] + G(v)[v]
          BY <3>1, <3>4
        <4>5. G(u)[u] = f[First(u)] + G(u)[v]
          <5>. HIDE DEF G, u, h
          <5>. QED BY <3>2, <3>4 DEF Sums
        <4>. QED BY <4>3, <4>4, <4>5
      <3>. QED BY <3>3, <3>4
    <2>3. Sums(f, T, h)
      <3>1. ASSUME NEW s \in SUBSET T
            PROVE  h[s] = IF s = {} THEN 0
                          ELSE f[First(s)] + h[s \ {First(s)}]
        <4>1. s # {} => h[s] = f[First(s)] + G(s \ {First(s)})[s \ {First(s)}]
          OBVIOUS
        <4>2. s = {} => h[s] = 0
          OBVIOUS
        <4>. HIDE DEF h, G
        <4>. QED BY <2>2, <4>1, <4>2
      <3>2. h = [s \in SUBSET T |-> h[s]]
        OBVIOUS
      <3>. HIDE DEF h
      <3>. QED BY <3>1, <3>2 DEF Sums
    <2>. QED BY <2>3
  <1>2. S \in C
    <2>. HIDE DEF C
    <2>. QED BY <1>1, SubsetInduction
  <1>. QED BY <1>2

LEMMA SumEmpty == ASSUME NEW f PROVE SumFunctionOnSet(f, {}) = 0
  <1>1. PICK g : Sums(f, {}, g)
    BY SumsExist, FS_EmptySet
  <1>2. Sums(f, {}, CHOOSE h : Sums(f, {}, h))
    BY <1>1
  <1>. QED BY <1>2, SumUnfolds DEF Sums

\* One index after another.
LEMMA SumFirst ==
    ASSUME NEW f, NEW S, IsFiniteSet(S), S # {}
    PROVE  SumFunctionOnSet(f, S) =
              f[First(S)] + SumFunctionOnSet(f, S \ {First(S)})
  <1>. DEFINE T == S \ {First(S)}
              g == CHOOSE g : Sums(f, S, g)
              h == CHOOSE h : Sums(f, T, h)
  <1>1. T \in SUBSET S /\ IsFiniteSet(T)
    BY FS_Subset
  <1>2. Sums(f, S, g) /\ Sums(f, T, h)
    BY <1>1, SumsExist
  <1>3. SumFunctionOnSet(f, S) = g[S] /\ SumFunctionOnSet(f, T) = h[T]
    BY SumUnfolds
  <1>. HIDE DEF g, h
  <1>4. g[S] = f[First(S)] + g[T]
    BY <1>2 DEF Sums
  <1>5. g[T] = h[T]
    <2>. HIDE DEF T
    <2>. QED BY <1>1, <1>2, SumsAgree
  <1>. QED BY <1>3, <1>4, <1>5

-----------------------------------------------------------------------------
(* What a sum is and how it changes. *)

LEMMA SumInt ==
    ASSUME NEW f, NEW S, IsFiniteSet(S), \A x \in S : f[x] \in Int
    PROVE  SumFunctionOnSet(f, S) \in Int
  <1>. DEFINE C == {T \in SUBSET S : SumFunctionOnSet(f, T) \in Int}
  <1>1. ASSUME NEW T \in SUBSET S, \A U \in SUBSET T : U # T => U \in C
        PROVE  T \in C
    <2>1. CASE T = {}
      BY <2>1, SumEmpty
    <2>2. CASE T # {}
      <3>1. T \ {First(T)} \in C /\ f[First(T)] \in Int /\ IsFiniteSet(T)
        BY <1>1, <2>2, FirstIsIn, FS_Subset
      <3>. QED BY <2>2, <3>1, SumFirst
    <2>. QED BY <2>1, <2>2
  <1>2. S \in C
    <2>. HIDE DEF C
    <2>. QED BY <1>1, SubsetInduction
  <1>. QED BY <1>2

\* Functions that agree on the indices have the same sum.
LEMMA SumSame ==
    ASSUME NEW f, NEW g, NEW S, IsFiniteSet(S), \A x \in S : f[x] = g[x]
    PROVE  SumFunctionOnSet(f, S) = SumFunctionOnSet(g, S)
  <1>. DEFINE C == {T \in SUBSET S :
                       SumFunctionOnSet(f, T) = SumFunctionOnSet(g, T)}
  <1>1. ASSUME NEW T \in SUBSET S, \A U \in SUBSET T : U # T => U \in C
        PROVE  T \in C
    <2>1. CASE T = {}
      BY <2>1, SumEmpty
    <2>2. CASE T # {}
      <3>1. T \ {First(T)} \in C /\ f[First(T)] = g[First(T)] /\ IsFiniteSet(T)
        BY <1>1, <2>2, FirstIsIn, FS_Subset
      <3>. QED BY <2>2, <3>1, SumFirst
    <2>. QED BY <2>1, <2>2
  <1>2. S \in C
    <2>. HIDE DEF C
    <2>. QED BY <1>1, SubsetInduction
  <1>. QED BY <1>2

\* Any index may be taken first.
LEMMA SumRemove ==
    ASSUME NEW f, NEW S, IsFiniteSet(S), \A x \in S : f[x] \in Int, NEW e \in S
    PROVE  SumFunctionOnSet(f, S) = f[e] + SumFunctionOnSet(f, S \ {e})
  <1>. DEFINE C == {T \in SUBSET S : \A x \in T :
                       SumFunctionOnSet(f, T) = f[x] + SumFunctionOnSet(f, T \ {x})}
  <1>1. ASSUME NEW T \in SUBSET S, \A U \in SUBSET T : U # T => U \in C
        PROVE  T \in C
    <2>1. SUFFICES ASSUME NEW x \in T
                   PROVE  SumFunctionOnSet(f, T) = f[x] + SumFunctionOnSet(f, T \ {x})
      OBVIOUS
    <2>. DEFINE y == First(T)
    <2>2. /\ y \in T /\ f[x] \in Int /\ f[y] \in Int /\ IsFiniteSet(T)
          /\ IsFiniteSet(T \ {x}) /\ IsFiniteSet(T \ {y})
      BY FirstIsIn, FS_Subset
    <2>3. SumFunctionOnSet(f, T) = f[y] + SumFunctionOnSet(f, T \ {y})
      BY <2>2, SumFirst
    <2>4. CASE x = y
      BY <2>3, <2>4
    <2>5. CASE x # y
      <3>. DEFINE U == (T \ {y}) \ {x}
      <3>1. (T \ {x}) \ {y} = U
        OBVIOUS
      <3>2. SumFunctionOnSet(f, T \ {y}) = f[x] + SumFunctionOnSet(f, U)
        BY <1>1, <2>2, <2>5
      <3>3. SumFunctionOnSet(f, T \ {x}) = f[y] + SumFunctionOnSet(f, U)
        BY <1>1, <2>2, <2>5, <3>1
      <3>4. SumFunctionOnSet(f, U) \in Int
        BY <2>2, FS_Subset, SumInt
      <3>. QED BY <2>2, <2>3, <3>2, <3>3, <3>4
    <2>. QED BY <2>4, <2>5
  <1>2. S \in C
    <2>. HIDE DEF C
    <2>. QED BY <1>1, SubsetInduction
  <1>. QED BY <1>2

LEMMA SumAdd ==
    ASSUME NEW f, NEW S, IsFiniteSet(S), NEW e, e \notin S,
           \A x \in S \cup {e} : f[x] \in Int
    PROVE  SumFunctionOnSet(f, S \cup {e}) = f[e] + SumFunctionOnSet(f, S)
  <1>1. IsFiniteSet(S \cup {e}) /\ (S \cup {e}) \ {e} = S
    BY FS_AddElement
  <1>. QED BY <1>1, SumRemove

\* Termwise order, and with it the sign of a sum.
LEMMA SumOrder ==
    ASSUME NEW f, NEW g, NEW S, IsFiniteSet(S),
           \A x \in S : f[x] \in Int /\ g[x] \in Int /\ f[x] <= g[x]
    PROVE  SumFunctionOnSet(f, S) <= SumFunctionOnSet(g, S)
  <1>. DEFINE C == {T \in SUBSET S :
                       SumFunctionOnSet(f, T) <= SumFunctionOnSet(g, T)}
  <1>1. {} \in C
    BY SumEmpty
  <1>2. ASSUME NEW T \in SUBSET S, NEW x \in S \ T, T \in C
        PROVE  T \cup {x} \in C
    <2>1. IsFiniteSet(T) /\ T \cup {x} \in SUBSET S
      BY FS_Subset
    <2>2. /\ SumFunctionOnSet(f, T \cup {x}) = f[x] + SumFunctionOnSet(f, T)
          /\ SumFunctionOnSet(g, T \cup {x}) = g[x] + SumFunctionOnSet(g, T)
      BY <2>1, SumAdd
    <2>3. /\ SumFunctionOnSet(f, T) \in Int /\ SumFunctionOnSet(g, T) \in Int
          /\ f[x] \in Int /\ g[x] \in Int /\ f[x] <= g[x]
      BY <2>1, SumInt
    <2>. QED BY <1>2, <2>1, <2>2, <2>3
  <1>3. S \in C
    <2>. HIDE DEF C
    <2>. QED BY <1>1, <1>2, ElementInduction
  <1>. QED BY <1>3

\* Two sets of indices with nothing in common.
LEMMA SumUnion ==
    ASSUME NEW f, NEW S, IsFiniteSet(S), NEW R, IsFiniteSet(R), S \cap R = {},
           \A x \in S \cup R : f[x] \in Int
    PROVE  SumFunctionOnSet(f, S \cup R) =
              SumFunctionOnSet(f, S) + SumFunctionOnSet(f, R)
  <1>. DEFINE C == {T \in SUBSET S :
                       SumFunctionOnSet(f, T \cup R) =
                          SumFunctionOnSet(f, T) + SumFunctionOnSet(f, R)}
  <1>0. SumFunctionOnSet(f, R) \in Int
    BY SumInt
  <1>1. {} \in C
    <2>1. {} \cup R = R
      OBVIOUS
    <2>. QED BY <1>0, <2>1, SumEmpty
  <1>2. ASSUME NEW T \in SUBSET S, NEW x \in S \ T, T \in C
        PROVE  T \cup {x} \in C
    <2>1. IsFiniteSet(T) /\ IsFiniteSet(T \cup R) /\ x \notin T \cup R
      BY FS_Subset, FS_Union
    <2>2. SumFunctionOnSet(f, T \cup {x}) = f[x] + SumFunctionOnSet(f, T)
      BY <2>1, SumAdd
    <2>3. SumFunctionOnSet(f, (T \cup R) \cup {x}) =
             f[x] + SumFunctionOnSet(f, T \cup R)
      <3>1. PICK U : U = T \cup R
        OBVIOUS
      <3>2. x \notin U /\ IsFiniteSet(U) /\ \A y \in U \cup {x} : f[y] \in Int
        BY <2>1, <3>1
      <3>3. SumFunctionOnSet(f, U \cup {x}) = f[x] + SumFunctionOnSet(f, U)
        BY <3>2, SumAdd
      <3>. QED BY <3>1, <3>3
    <2>4. SumFunctionOnSet(f, (T \cup {x}) \cup R) =
             SumFunctionOnSet(f, T \cup {x}) + SumFunctionOnSet(f, R)
      <3>1. SumFunctionOnSet(f, (T \cup {x}) \cup R) =
               SumFunctionOnSet(f, (T \cup R) \cup {x})
        <4>1. (T \cup R) \cup {x} = (T \cup {x}) \cup R
          OBVIOUS
        <4>. QED BY ONLY <4>1
      <3>2. SumFunctionOnSet(f, T) \in Int /\ f[x] \in Int
        BY <2>1, SumInt
      <3>3. SumFunctionOnSet(f, T \cup R) =
               SumFunctionOnSet(f, T) + SumFunctionOnSet(f, R)
        BY <1>2
      <3>4. SumFunctionOnSet(f, (T \cup {x}) \cup R) =
               f[x] + (SumFunctionOnSet(f, T) + SumFunctionOnSet(f, R))
        BY <2>3, <3>1, <3>3
      <3>. HIDE DEF C
      <3>. QED BY ONLY <1>0, <2>2, <3>2, <3>4
    <2>. QED BY <2>4
  <1>3. S \in C
    <2>. HIDE DEF C
    <2>. QED BY <1>1, <1>2, ElementInduction
  <1>. QED BY <1>3

\* A value that does not depend on the index.
LEMMA SumConstant ==
    ASSUME NEW f, NEW S, IsFiniteSet(S), NEW k \in Int, \A x \in S : f[x] = k
    PROVE  SumFunctionOnSet(f, S) = k * Cardinality(S)
  <1>. DEFINE C == {T \in SUBSET S : SumFunctionOnSet(f, T) = k * Cardinality(T)}
  <1>1. {} \in C
    BY SumEmpty, FS_EmptySet
  <1>2. ASSUME NEW T \in SUBSET S, NEW x \in S \ T, T \in C
        PROVE  T \cup {x} \in C
    <2>1. IsFiniteSet(T)
      BY FS_Subset
    <2>2. SumFunctionOnSet(f, T \cup {x}) = k + SumFunctionOnSet(f, T)
      BY <2>1, SumAdd
    <2>3. /\ Cardinality(T \cup {x}) = Cardinality(T) + 1
          /\ Cardinality(T) \in Nat
      BY <2>1, FS_AddElement, FS_CardinalityType
    <2>4. k * (Cardinality(T) + 1) = k + k * Cardinality(T)
      BY <2>3
    <2>. QED BY <1>2, <2>2, <2>3, <2>4
  <1>3. S \in C
    <2>. HIDE DEF C
    <2>. QED BY <1>1, <1>2, ElementInduction
  <1>. QED BY <1>3

\* Two functions added index by index.
LEMMA SumPlus ==
    ASSUME NEW f, NEW g, NEW h, NEW S, IsFiniteSet(S),
           \A x \in S : f[x] \in Int /\ g[x] \in Int /\ h[x] = f[x] + g[x]
    PROVE  SumFunctionOnSet(h, S) =
              SumFunctionOnSet(f, S) + SumFunctionOnSet(g, S)
  <1>. DEFINE C == {T \in SUBSET S :
                       SumFunctionOnSet(h, T) =
                          SumFunctionOnSet(f, T) + SumFunctionOnSet(g, T)}
  <1>1. {} \in C
    BY SumEmpty
  <1>2. ASSUME NEW T \in SUBSET S, NEW x \in S \ T, T \in C
        PROVE  T \cup {x} \in C
    <2>1. IsFiniteSet(T) /\ T \cup {x} \in SUBSET S
      BY FS_Subset
    <2>2. \A y \in S : h[y] \in Int
      OBVIOUS
    <2>3. /\ SumFunctionOnSet(f, T \cup {x}) = f[x] + SumFunctionOnSet(f, T)
          /\ SumFunctionOnSet(g, T \cup {x}) = g[x] + SumFunctionOnSet(g, T)
          /\ SumFunctionOnSet(h, T \cup {x}) = h[x] + SumFunctionOnSet(h, T)
      BY <2>1, <2>2, SumAdd
    <2>4. /\ SumFunctionOnSet(f, T) \in Int /\ SumFunctionOnSet(g, T) \in Int
          /\ f[x] \in Int /\ g[x] \in Int /\ h[x] = f[x] + g[x]
      BY <2>1, SumInt
    <2>5. SumFunctionOnSet(h, T) =
             SumFunctionOnSet(f, T) + SumFunctionOnSet(g, T)
      BY <1>2
    <2>6. SumFunctionOnSet(h, T \cup {x}) =
             SumFunctionOnSet(f, T \cup {x}) + SumFunctionOnSet(g, T \cup {x})
      BY ONLY <2>3, <2>4, <2>5
    <2>. QED BY <2>1, <2>6
  <1>3. S \in C
    <2>. HIDE DEF C
    <2>. QED BY <1>1, <1>2, ElementInduction
  <1>. QED BY <1>3

\* Indices whose value is zero may be left out.
LEMMA SumNonzero ==
    ASSUME NEW f, NEW S, IsFiniteSet(S), NEW T \in SUBSET S,
           \A x \in T : f[x] \in Int, \A x \in S \ T : f[x] = 0
    PROVE  SumFunctionOnSet(f, S) = SumFunctionOnSet(f, T)
  <1>1. IsFiniteSet(T) /\ IsFiniteSet(S \ T) /\ T \cup (S \ T) = S
    BY FS_Subset
  <1>2. PICK R : R = S \ T
    OBVIOUS
  <1>3. SumFunctionOnSet(f, R) = 0
    <2>1. /\ IsFiniteSet(R) /\ 0 \in Int /\ \A x \in R : f[x] = 0
          /\ Cardinality(R) \in Nat
      BY <1>1, <1>2, FS_CardinalityType
    <2>2. SumFunctionOnSet(f, R) = 0 * Cardinality(R)
      BY ONLY <2>1, SumConstant
    <2>. QED BY <2>1, <2>2
  <1>4. SumFunctionOnSet(f, T \cup R) =
           SumFunctionOnSet(f, T) + SumFunctionOnSet(f, R)
    <2>1. T \cap R = {} /\ IsFiniteSet(R) /\ \A x \in T \cup R : f[x] \in Int
      BY <1>1, <1>2
    <2>. QED BY <1>1, <2>1, SumUnion
  <1>5. SumFunctionOnSet(f, T) \in Int
    BY <1>1, SumInt
  <1>6. SumFunctionOnSet(f, S) = SumFunctionOnSet(f, T \cup R)
    <2>1. S = T \cup R
      BY <1>1, <1>2
    <2>. QED BY ONLY <2>1
  <1>. QED BY ONLY <1>3, <1>4, <1>5, <1>6

\* What g adds to f, on indices that f may have already.
LEMMA SumMerge ==
    ASSUME NEW f, NEW S, IsFiniteSet(S), \A x \in S : f[x] \in Int,
           NEW g, NEW R, IsFiniteSet(R), \A x \in R : g[x] \in Int,
           NEW h,
           \A x \in S \cup R :
              h[x] = (IF x \in S THEN f[x] ELSE 0) + (IF x \in R THEN g[x] ELSE 0)
    PROVE  SumFunctionOnSet(h, S \cup R) =
              SumFunctionOnSet(f, S) + SumFunctionOnSet(g, R)
  <1>1. PICK U : U = S \cup R
    OBVIOUS
  <1>2. PICK ff : ff = [x \in U |-> IF x \in S THEN f[x] ELSE 0]
    OBVIOUS
  <1>3. PICK gg : gg = [x \in U |-> IF x \in R THEN g[x] ELSE 0]
    OBVIOUS
  <1>4. IsFiniteSet(U) /\ S \in SUBSET U /\ R \in SUBSET U
    BY <1>1, FS_Union
  <1>5. SumFunctionOnSet(ff, U) = SumFunctionOnSet(f, S)
    <2>1. \A x \in S : ff[x] = f[x] /\ ff[x] \in Int
      BY <1>1, <1>2
    <2>2. \A x \in U \ S : ff[x] = 0
      BY <1>2
    <2>3. SumFunctionOnSet(ff, U) = SumFunctionOnSet(ff, S)
      BY <1>4, <2>1, <2>2, SumNonzero
    <2>4. SumFunctionOnSet(ff, S) = SumFunctionOnSet(f, S)
      BY <2>1, SumSame
    <2>. QED BY <2>3, <2>4
  <1>6. SumFunctionOnSet(gg, U) = SumFunctionOnSet(g, R)
    <2>1. \A x \in R : gg[x] = g[x] /\ gg[x] \in Int
      BY <1>1, <1>3
    <2>2. \A x \in U \ R : gg[x] = 0
      BY <1>3
    <2>3. SumFunctionOnSet(gg, U) = SumFunctionOnSet(gg, R)
      BY <1>4, <2>1, <2>2, SumNonzero
    <2>4. SumFunctionOnSet(gg, R) = SumFunctionOnSet(g, R)
      BY <2>1, SumSame
    <2>. QED BY <2>3, <2>4
  <1>7. \A x \in U : ff[x] \in Int /\ gg[x] \in Int /\ h[x] = ff[x] + gg[x]
    BY <1>1, <1>2, <1>3
  <1>8. SumFunctionOnSet(h, U) = SumFunctionOnSet(ff, U) + SumFunctionOnSet(gg, U)
    BY <1>4, <1>7, SumPlus
  <1>. QED BY <1>1, <1>5, <1>6, <1>8

=============================================================================
