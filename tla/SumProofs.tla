------------------------------- MODULE SumProofs -------------------------------
(***************************************************************************)
(* Lemmas about the sums the modules are built from: SumFunctionOnSet(f, S) *)
(* and MapThenSumSet add f over a finite set, and Max and Min are its       *)
(* largest and smallest elements.  Then about whole numbers rounded down,  *)
(* FIFO takes and tables.                                                  *)
(*                                                                         *)
(* The library's induction theorems take a predicate as a parameter, which  *)
(* no prover here can instantiate.  SubsetInduction takes a set of sets    *)
(* instead: strict inclusion is well founded on the subsets of a finite    *)
(* set, so a smallest subset outside of P would have all of its own        *)
(* subsets in P.                                                           *)
(***************************************************************************)
EXTENDS Functions, FiniteSetsExt, Integers, FiniteSetTheorems, WellFoundedInduction, TLAPS

\* What holds for a subset of S whenever it holds for all smaller ones holds
\* for every subset.
LEMMA SubsetInduction ==
    ASSUME NEW S, IsFiniteSet(S), NEW P,
           \A T \in SUBSET S : (\A U \in (SUBSET T) \ {T} : U \in P) => T \in P
    PROVE  \A T \in SUBSET S : T \in P
  <1> DEFINE Bad == {T \in SUBSET S : T \notin P}
  <1> SUFFICES ASSUME Bad # {} PROVE FALSE
    OBVIOUS
  <1>1. IsWellFoundedOn(StrictSubsetOrdering(S), SUBSET S)
    <2>1. FiniteSubsetsOf(S) = SUBSET S
      BY FS_FiniteSubsetsOfFinite
    <2>2. IsWellFoundedOn(StrictSubsetOrdering(S), FiniteSubsetsOf(S))
      BY FS_StrictSubsetOrderingWellFounded
    <2> QED BY <2>1, <2>2
  <1>2. PICK T \in Bad : \A V \in Bad : <<V, T>> \notin StrictSubsetOrdering(S)
    <2>1. Bad \subseteq SUBSET S
      OBVIOUS
    <2> HIDE DEF Bad
    <2> QED BY <1>1, <2>1, WFMin
  <1>3. \A U \in (SUBSET T) \ {T} : U \in P
    BY <1>2 DEF StrictSubsetOrdering
  <1> QED BY <1>3

-----------------------------------------------------------------------------
(* The sum as a recursive function on the subsets of a finite set.         *)

AnyOf(s) == CHOOSE x \in s : TRUE
Partial(f, S, g) == g = [s \in SUBSET S |-> IF s = {} THEN 0 ELSE f[AnyOf(s)] + g[s \ {AnyOf(s)}]]
Sums(f, S) == CHOOSE g : Partial(f, S, g)

\* CHOOSE finds an element.
LEMMA AnyIn == \A s : s # {} => AnyOf(s) \in s
  BY DEF AnyOf

\* The definition of the community module, unfolded.
LEMMA SumUnfolds ==
    ASSUME NEW f, NEW S
    PROVE  SumFunctionOnSet(f, S) = Sums(f, S)[S]
  BY DEF SumFunctionOnSet, FoldFunctionOnSet, MapThenFoldSet, Sums, Partial, AnyOf

\* On the subsets with at most as many elements as T the function exists.
LEMMA SumsExist ==
    ASSUME NEW S, IsFiniteSet(S), NEW f
    PROVE  Partial(f, S, Sums(f, S))
  <1> DEFINE Small(T) == {s \in SUBSET S : Cardinality(s) <= Cardinality(T)}
             Eq(h, s) == h[s] = IF s = {} THEN 0 ELSE f[AnyOf(s)] + h[s \ {AnyOf(s)}]
             P == {T \in SUBSET S : \E h : /\ h = [s \in Small(T) |-> h[s]]
                                           /\ \A s \in Small(T) : Eq(h, s)}
  <1>1. ASSUME NEW T \in SUBSET S, \A U \in (SUBSET T) \ {T} : U \in P
        PROVE  T \in P
    <2>1. \A s \in SUBSET S : IsFiniteSet(s) /\ Cardinality(s) \in Nat
      BY FS_Subset, FS_CardinalityType
    <2>2. \A s \in SUBSET S : s # {} => Cardinality(s \ {AnyOf(s)}) = Cardinality(s) - 1
      BY <2>1, FS_RemoveElement, AnyIn
    <2>e. \A s \in SUBSET S : Cardinality(s) = 0 <=> s = {}
      BY <2>1, FS_EmptySet
    <2>3. CASE T = {}
      <3> DEFINE h == [s \in Small(T) |-> 0]
      <3>1. \A s \in Small(T) : s = {}
        BY <2>3, <2>1, <2>e
      <3>2. \A s \in Small(T) : Eq(h, s)
        BY <3>1
      <3>3. h = [s \in Small(T) |-> h[s]]
        OBVIOUS
      <3> HIDE DEF h, Small, Eq
      <3> QED BY <3>2, <3>3
    <2>4. CASE T # {}
      <3> DEFINE U == T \ {AnyOf(T)}
      <3>1. U \in P
        BY <1>1, <2>4, AnyIn
      <3>2. PICK g : g = [s \in Small(U) |-> g[s]] /\ \A s \in Small(U) : Eq(g, s)
        BY <3>1
      <3>3. Cardinality(U) = Cardinality(T) - 1
        BY <2>2, <2>4
      <3> DEFINE h == [s \in Small(T) |-> IF s = {} THEN 0 ELSE f[AnyOf(s)] + g[s \ {AnyOf(s)}]]
      <3>4. \A s \in Small(U) : s \in Small(T) /\ h[s] = g[s]
        <4>1. \A s \in Small(U) : s \in Small(T)
          BY <3>3, <2>1
        <4> QED BY <4>1, <3>2
      <3>5. \A s \in Small(T) : s # {} => s \ {AnyOf(s)} \in Small(U)
        BY <2>2, <2>1, <3>3
      <3>6. \A s \in Small(T) : Eq(h, s)
        BY <3>4, <3>5
      <3>7. h = [s \in Small(T) |-> h[s]]
        OBVIOUS
      <3> HIDE DEF h, Small, Eq
      <3> QED BY <3>6, <3>7
    <2> QED BY <2>3, <2>4
  <1>2. S \in P
    <2>1. \A T \in SUBSET S : (\A U \in (SUBSET T) \ {T} : U \in P) => T \in P
      BY <1>1
    <2> HIDE DEF P
    <2> QED BY <2>1, SubsetInduction
  <1>3. PICK h : h = [s \in Small(S) |-> h[s]] /\ \A s \in Small(S) : Eq(h, s)
    BY <1>2
  <1>4. Small(S) = SUBSET S
    BY FS_Subset
  <1>5. h = [s \in SUBSET S |-> IF s = {} THEN 0 ELSE f[AnyOf(s)] + h[s \ {AnyOf(s)}]]
    <2>1. [s \in SUBSET S |-> h[s]] = [s \in SUBSET S |-> IF s = {} THEN 0 ELSE f[AnyOf(s)] + h[s \ {AnyOf(s)}]]
      BY <1>3, <1>4
    <2> QED BY <2>1, <1>3, <1>4
  <1>6. Partial(f, S, h)
    BY <1>5 DEF Partial
  <1> HIDE DEF Small, Eq, P
  <1> QED BY <1>6 DEF Sums

\* Two such functions agree wherever the functions summed do.
LEMMA SumsAgree ==
    ASSUME NEW S, IsFiniteSet(S), NEW R, IsFiniteSet(R), NEW A, A \subseteq S, A \subseteq R,
           NEW f, NEW g, \A x \in A : f[x] = g[x]
    PROVE  Sums(f, S)[A] = Sums(g, R)[A]
  <1> DEFINE P == {T \in SUBSET A : Sums(f, S)[T] = Sums(g, R)[T]}
  <1>1. Partial(f, S, Sums(f, S)) /\ Partial(g, R, Sums(g, R))
    BY SumsExist
  <1>2. \A T \in SUBSET A : (\A U \in (SUBSET T) \ {T} : U \in P) => T \in P
    <2> SUFFICES ASSUME NEW T \in SUBSET A, \A U \in (SUBSET T) \ {T} : U \in P PROVE T \in P
      OBVIOUS
    <2>1. CASE T = {}
      BY <1>1, <2>1 DEF Partial
    <2>2. CASE T # {}
      <3>1. AnyOf(T) \in T /\ f[AnyOf(T)] = g[AnyOf(T)]
        BY <2>2, AnyIn
      <3>2. Sums(f, S)[T \ {AnyOf(T)}] = Sums(g, R)[T \ {AnyOf(T)}]
        BY <3>1
      <3>3. /\ Sums(f, S)[T] = f[AnyOf(T)] + Sums(f, S)[T \ {AnyOf(T)}]
            /\ Sums(g, R)[T] = g[AnyOf(T)] + Sums(g, R)[T \ {AnyOf(T)}]
        BY <1>1, <2>2 DEF Partial
      <3> QED BY <3>1, <3>2, <3>3
    <2> QED BY <2>1, <2>2
  <1>3. A \in P
    <2>1. IsFiniteSet(A)
      BY FS_Subset
    <2> HIDE DEF P
    <2> QED BY <1>2, <2>1, SubsetInduction
  <1> QED BY <1>3

-----------------------------------------------------------------------------
(* What the modules use.                                                   *)

\* The sum depends on the summands only.
LEMMA SumCongruence ==
    ASSUME NEW S, IsFiniteSet(S), NEW f, NEW g, \A x \in S : f[x] = g[x]
    PROVE  SumFunctionOnSet(f, S) = SumFunctionOnSet(g, S)
  BY SumsAgree, SumUnfolds

\* Nothing sums to zero.
LEMMA SumEmpty ==
    ASSUME NEW f
    PROVE  SumFunctionOnSet(f, {}) = 0
  BY SumUnfolds, SumsExist, FS_EmptySet DEF Partial

\* The sum is its chosen element and the sum of the others.
LEMMA SumChosen ==
    ASSUME NEW S, IsFiniteSet(S), S # {}, NEW f
    PROVE  SumFunctionOnSet(f, S) = f[AnyOf(S)] + SumFunctionOnSet(f, S \ {AnyOf(S)})
  <1>1. Sums(f, S)[S] = f[AnyOf(S)] + Sums(f, S)[S \ {AnyOf(S)}]
    <2>1. Partial(f, S, Sums(f, S))
      BY SumsExist
    <2> QED BY <2>1 DEF Partial
  <1>2. IsFiniteSet(S \ {AnyOf(S)})
    BY FS_RemoveElement
  <1>3. Sums(f, S)[S \ {AnyOf(S)}] = Sums(f, S \ {AnyOf(S)})[S \ {AnyOf(S)}]
    BY <1>2, SumsAgree
  <1> QED BY <1>1, <1>3, SumUnfolds

\* Integers sum to an integer.
LEMMA SumType ==
    ASSUME NEW S, IsFiniteSet(S), NEW f, \A x \in S : f[x] \in Int
    PROVE  SumFunctionOnSet(f, S) \in Int
  <1> DEFINE P == {T \in SUBSET S : SumFunctionOnSet(f, T) \in Int}
  <1>1. \A T \in SUBSET S : (\A U \in (SUBSET T) \ {T} : U \in P) => T \in P
    <2> SUFFICES ASSUME NEW T \in SUBSET S, \A U \in (SUBSET T) \ {T} : U \in P PROVE T \in P
      OBVIOUS
    <2>1. CASE T = {}
      BY <2>1, SumEmpty
    <2>2. CASE T # {}
      <3>1. IsFiniteSet(T)
        BY FS_Subset
      <3>2. SumFunctionOnSet(f, T) = f[AnyOf(T)] + SumFunctionOnSet(f, T \ {AnyOf(T)})
        BY <2>2, <3>1, SumChosen
      <3>3. AnyOf(T) \in T
        BY <2>2, AnyIn
      <3>4. SumFunctionOnSet(f, T \ {AnyOf(T)}) \in Int
        BY <3>3
      <3> QED BY <3>2, <3>3, <3>4
    <2> QED BY <2>1, <2>2
  <1>2. S \in P
    <2> HIDE DEF P
    <2> QED BY <1>1, SubsetInduction
  <1> QED BY <1>2

\* It is any of its elements and the sum of the others: the order of the
\* additions does not matter.
LEMMA SumElement ==
    ASSUME NEW S, IsFiniteSet(S), NEW f, \A y \in S : f[y] \in Int, NEW x \in S
    PROVE  SumFunctionOnSet(f, S) = f[x] + SumFunctionOnSet(f, S \ {x})
  <1> DEFINE Total(T) == SumFunctionOnSet(f, T)
             P == {T \in SUBSET S : \A y \in T : Total(T) = f[y] + Total(T \ {y})}
  <1>0. \A T \in SUBSET S : IsFiniteSet(T) /\ Total(T) \in Int
    BY FS_Subset, SumType
  <1>1. \A T \in SUBSET S : (\A U \in (SUBSET T) \ {T} : U \in P) => T \in P
    <2> SUFFICES ASSUME NEW T \in SUBSET S, \A U \in (SUBSET T) \ {T} : U \in P, NEW y \in T
                 PROVE  Total(T) = f[y] + Total(T \ {y})
      OBVIOUS
    <2> DEFINE c == AnyOf(T)
    <2>1. c \in T
      BY AnyIn
    <2>2. Total(T) = f[c] + Total(T \ {c})
      BY <1>0, SumChosen
    <2>3. CASE c = y
      BY <2>2, <2>3
    <2>4. CASE c # y
      <3> DEFINE rest == (T \ {c}) \ {y}
      <3>0. rest = (T \ {y}) \ {c} /\ y \in T \ {c} /\ c \in T \ {y}
        BY <2>1, <2>4
      <3>1. T \ {c} \in P /\ T \ {y} \in P
        BY <2>1
      <3>2. Total(T \ {c}) = f[y] + Total(rest)
        BY <3>0, <3>1
      <3>3. Total(T \ {y}) = f[c] + Total(rest)
        BY <3>0, <3>1
      <3>4. Total(rest) \in Int /\ f[c] \in Int /\ f[y] \in Int
        BY <1>0, <2>1
      <3> HIDE DEF Total, c, rest
      <3> QED BY <2>2, <3>2, <3>3, <3>4
    <2> HIDE DEF c
    <2> QED BY <2>3, <2>4
  <1>2. S \in P
    <2> HIDE DEF P
    <2> QED BY <1>1, SubsetInduction
  <1> QED BY <1>2

\* One more summand.
LEMMA SumNewElement ==
    ASSUME NEW S, IsFiniteSet(S), NEW x, x \notin S, NEW f, \A y \in S \cup {x} : f[y] \in Int
    PROVE  SumFunctionOnSet(f, S \cup {x}) = f[x] + SumFunctionOnSet(f, S)
  <1>1. IsFiniteSet(S \cup {x}) /\ (S \cup {x}) \ {x} = S /\ x \in S \cup {x}
    BY FS_AddElement
  <1> QED BY <1>1, SumElement

\* One summand changes.
LEMMA SumUpdate ==
    ASSUME NEW S, IsFiniteSet(S), NEW x \in S, NEW f, NEW g,
           \A y \in S : f[y] \in Int, g[x] \in Int, \A y \in S \ {x} : g[y] = f[y]
    PROVE  SumFunctionOnSet(g, S) = SumFunctionOnSet(f, S) + g[x] - f[x]
  <1>1. IsFiniteSet(S \ {x})
    BY FS_RemoveElement
  <1>2. SumFunctionOnSet(g, S \ {x}) = SumFunctionOnSet(f, S \ {x})
    BY <1>1, SumCongruence
  <1>3. SumFunctionOnSet(f, S \ {x}) \in Int
    BY <1>1, SumType
  <1>4. SumFunctionOnSet(f, S) = f[x] + SumFunctionOnSet(f, S \ {x})
    BY SumElement
  <1>5. \A y \in S : g[y] \in Int
    OBVIOUS
  <1>6. SumFunctionOnSet(g, S) = g[x] + SumFunctionOnSet(g, S \ {x})
    BY <1>5, SumElement
  <1> QED BY <1>2, <1>3, <1>4, <1>6

\* Larger summands, larger sum.
LEMMA SumMonotone ==
    ASSUME NEW S, IsFiniteSet(S), NEW f, NEW g,
           \A x \in S : f[x] \in Int /\ g[x] \in Int /\ f[x] <= g[x]
    PROVE  SumFunctionOnSet(f, S) <= SumFunctionOnSet(g, S)
  <1> DEFINE P == {T \in SUBSET S : SumFunctionOnSet(f, T) <= SumFunctionOnSet(g, T)}
  <1>1. \A T \in SUBSET S : (\A U \in (SUBSET T) \ {T} : U \in P) => T \in P
    <2> SUFFICES ASSUME NEW T \in SUBSET S, \A U \in (SUBSET T) \ {T} : U \in P PROVE T \in P
      OBVIOUS
    <2>1. CASE T = {}
      BY <2>1, SumEmpty
    <2>2. CASE T # {}
      <3>1. PICK x \in T : TRUE
        BY <2>2
      <3>2. IsFiniteSet(T) /\ IsFiniteSet(T \ {x})
        BY FS_Subset
      <3>3. SumFunctionOnSet(f, T) = f[x] + SumFunctionOnSet(f, T \ {x})
        BY <3>1, <3>2, SumElement
      <3>4. SumFunctionOnSet(g, T) = g[x] + SumFunctionOnSet(g, T \ {x})
        BY <3>1, <3>2, SumElement
      <3>5. SumFunctionOnSet(f, T \ {x}) \in Int /\ SumFunctionOnSet(g, T \ {x}) \in Int
        BY <3>2, SumType
      <3>6. SumFunctionOnSet(f, T \ {x}) <= SumFunctionOnSet(g, T \ {x})
        BY <3>1
      <3> QED BY <3>3, <3>4, <3>5, <3>6
    <2> QED BY <2>1, <2>2
  <1>2. S \in P
    <2> HIDE DEF P
    <2> QED BY <1>1, SubsetInduction
  <1> QED BY <1>2

\* Zeros sum to zero.
LEMMA SumOfZeros ==
    ASSUME NEW S, IsFiniteSet(S), NEW f, \A x \in S : f[x] = 0
    PROVE  SumFunctionOnSet(f, S) = 0
  <1> DEFINE P == {T \in SUBSET S : SumFunctionOnSet(f, T) = 0}
  <1>1. \A T \in SUBSET S : (\A U \in (SUBSET T) \ {T} : U \in P) => T \in P
    <2> SUFFICES ASSUME NEW T \in SUBSET S, \A U \in (SUBSET T) \ {T} : U \in P PROVE T \in P
      OBVIOUS
    <2>1. CASE T = {}
      BY <2>1, SumEmpty
    <2>2. CASE T # {}
      <3>1. IsFiniteSet(T)
        BY FS_Subset
      <3>2. AnyOf(T) \in T
        BY <2>2, AnyIn
      <3>3. SumFunctionOnSet(f, T) = f[AnyOf(T)] + SumFunctionOnSet(f, T \ {AnyOf(T)})
        BY <2>2, <3>1, SumChosen
      <3>4. SumFunctionOnSet(f, T \ {AnyOf(T)}) = 0
        BY <3>2
      <3> QED BY <3>2, <3>3, <3>4
    <2> QED BY <2>1, <2>2
  <1>2. S \in P
    <2> HIDE DEF P
    <2> QED BY <1>1, SubsetInduction
  <1> QED BY <1>2

\* A sum of naturals is a natural, is no less than any of its summands, and
\* is zero when they all are.
LEMMA SumOfNaturals ==
    ASSUME NEW S, IsFiniteSet(S), NEW f, \A x \in S : f[x] \in Nat
    PROVE  /\ SumFunctionOnSet(f, S) \in Nat
           /\ \A x \in S : f[x] <= SumFunctionOnSet(f, S)
           /\ SumFunctionOnSet(f, S) = 0 => \A x \in S : f[x] = 0
  <1> DEFINE zero == [x \in S |-> 0]
  <1>1. \A T \in SUBSET S : IsFiniteSet(T) /\ SumFunctionOnSet(f, T) \in Nat
    <2> SUFFICES ASSUME NEW T \in SUBSET S PROVE IsFiniteSet(T) /\ SumFunctionOnSet(f, T) \in Nat
      OBVIOUS
    <2>1. IsFiniteSet(T)
      BY FS_Subset
    <2>2. SumFunctionOnSet(zero, T) = 0
      BY <2>1, SumOfZeros
    <2>3. SumFunctionOnSet(zero, T) <= SumFunctionOnSet(f, T)
      <3>1. \A x \in T : zero[x] \in Int /\ f[x] \in Int /\ zero[x] <= f[x]
        OBVIOUS
      <3> HIDE DEF zero
      <3> QED BY <2>1, <3>1, SumMonotone
    <2>4. SumFunctionOnSet(f, T) \in Int
      BY <2>1, SumType
    <2> QED BY <2>1, <2>2, <2>3, <2>4
  <1>2. \A x \in S : f[x] <= SumFunctionOnSet(f, S)
    <2> SUFFICES ASSUME NEW x \in S PROVE f[x] <= SumFunctionOnSet(f, S)
      OBVIOUS
    <2>1. SumFunctionOnSet(f, S) = f[x] + SumFunctionOnSet(f, S \ {x})
      BY SumElement
    <2> QED BY <2>1, <1>1
  <1> QED BY <1>1, <1>2

\* The sum of two functions is the sum of their sums.
LEMMA SumAdds ==
    ASSUME NEW S, IsFiniteSet(S), NEW f, NEW g, NEW h,
           \A x \in S : f[x] \in Int /\ g[x] \in Int /\ h[x] = f[x] + g[x]
    PROVE  SumFunctionOnSet(h, S) = SumFunctionOnSet(f, S) + SumFunctionOnSet(g, S)
  <1> DEFINE P == {T \in SUBSET S : SumFunctionOnSet(h, T) = SumFunctionOnSet(f, T) + SumFunctionOnSet(g, T)}
  <1>1. \A T \in SUBSET S : (\A U \in (SUBSET T) \ {T} : U \in P) => T \in P
    <2> SUFFICES ASSUME NEW T \in SUBSET S, \A U \in (SUBSET T) \ {T} : U \in P PROVE T \in P
      OBVIOUS
    <2>1. CASE T = {}
      BY <2>1, SumEmpty
    <2>2. CASE T # {}
      <3>1. PICK x \in T : TRUE
        BY <2>2
      <3>2. IsFiniteSet(T) /\ IsFiniteSet(T \ {x})
        BY FS_Subset
      <3>3. SumFunctionOnSet(f, T) = f[x] + SumFunctionOnSet(f, T \ {x})
        BY <3>1, <3>2, SumElement
      <3>4. SumFunctionOnSet(g, T) = g[x] + SumFunctionOnSet(g, T \ {x})
        BY <3>1, <3>2, SumElement
      <3>5. SumFunctionOnSet(h, T) = h[x] + SumFunctionOnSet(h, T \ {x})
        BY <3>1, <3>2, SumElement
      <3>6. SumFunctionOnSet(f, T \ {x}) \in Int /\ SumFunctionOnSet(g, T \ {x}) \in Int
        BY <3>2, SumType
      <3>7. SumFunctionOnSet(h, T \ {x}) = SumFunctionOnSet(f, T \ {x}) + SumFunctionOnSet(g, T \ {x})
        BY <3>1
      <3> HIDE DEF P
      <3>8. SumFunctionOnSet(h, T) = SumFunctionOnSet(f, T) + SumFunctionOnSet(g, T)
        BY <3>1, <3>3, <3>4, <3>5, <3>6, <3>7
      <3> QED BY <3>8 DEF P
    <2> QED BY <2>1, <2>2
  <1>2. S \in P
    <2> HIDE DEF P
    <2> QED BY <1>1, SubsetInduction
  <1> QED BY <1>2

\* What is zero outside of T adds up over T.
LEMMA SumOnSupport ==
    ASSUME NEW S, IsFiniteSet(S), NEW T \in SUBSET S, NEW f,
           \A x \in T : f[x] \in Int, \A x \in S \ T : f[x] = 0
    PROVE  SumFunctionOnSet(f, S) = SumFunctionOnSet(f, T)
  <1> DEFINE P == {U \in SUBSET S : SumFunctionOnSet(f, U) = SumFunctionOnSet(f, U \cap T)}
  <1>1. \A U \in SUBSET S : (\A V \in (SUBSET U) \ {U} : V \in P) => U \in P
    <2> SUFFICES ASSUME NEW U \in SUBSET S, \A V \in (SUBSET U) \ {U} : V \in P PROVE U \in P
      OBVIOUS
    <2>1. CASE U \subseteq T
      <3>1. U \cap T = U
        BY <2>1
      <3> QED BY <3>1
    <2>2. CASE ~(U \subseteq T)
      <3>1. PICK x \in U : x \notin T
        BY <2>2
      <3>2. IsFiniteSet(U) /\ IsFiniteSet(U \ {x}) /\ IsFiniteSet((U \ {x}) \cap T)
        BY FS_Subset
      <3>3. SumFunctionOnSet(f, U) = f[x] + SumFunctionOnSet(f, U \ {x})
        BY <3>1, <3>2, SumElement
      <3>4. SumFunctionOnSet(f, U \ {x}) = SumFunctionOnSet(f, (U \ {x}) \cap T)
        BY <3>1
      <3>5. SumFunctionOnSet(f, (U \ {x}) \cap T) = SumFunctionOnSet(f, U \cap T)
        <4>1. (U \ {x}) \cap T = U \cap T
          BY <3>1
        <4> QED BY ONLY <4>1, Zenon
      <3>6. f[x] = 0
        BY <3>1
      <3>7. SumFunctionOnSet(f, U \ {x}) \in Int
        BY <3>2, SumType
      <3> HIDE DEF P
      <3>8. SumFunctionOnSet(f, U) = SumFunctionOnSet(f, U \cap T)
        BY <3>3, <3>4, <3>5, <3>6, <3>7
      <3> QED BY <3>8 DEF P
    <2> QED BY <2>1, <2>2
  <1>2. S \in P
    <2> HIDE DEF P
    <2> QED BY <1>1, SubsetInduction
  <1>3. S \cap T = T
    OBVIOUS
  <1> QED BY <1>2, <1>3

-----------------------------------------------------------------------------
\* The largest element of a finite set of integers is in it.
LEMMA MaxOfFinite ==
    ASSUME NEW S \in SUBSET Int, IsFiniteSet(S), S # {}
    PROVE  Max(S) \in S /\ \A y \in S : Max(S) >= y
  <1> DEFINE P == {T \in SUBSET S : T = {} \/ \E x \in T : \A y \in T : x >= y}
  <1>1. \A T \in SUBSET S : (\A U \in (SUBSET T) \ {T} : U \in P) => T \in P
    <2> SUFFICES ASSUME NEW T \in SUBSET S, \A U \in (SUBSET T) \ {T} : U \in P, NEW z \in T
                 PROVE  \E x \in T : \A y \in T : x >= y
      OBVIOUS
    <2>1. T \ {z} \in P
      OBVIOUS
    <2>2. CASE T \ {z} = {}
      BY <2>2
    <2>3. ASSUME NEW x \in T \ {z}, \A y \in T \ {z} : x >= y
          PROVE  \E w \in T : \A y \in T : w >= y
      <3>1. CASE x >= z
        BY <2>3, <3>1
      <3>2. CASE ~(x >= z)
        BY <2>3, <3>2
      <3> QED BY <3>1, <3>2
    <2> QED BY <2>1, <2>2, <2>3
  <1>2. S \in P
    <2> HIDE DEF P
    <2> QED BY <1>1, SubsetInduction
  <1>3. \E x \in S : \A y \in S : x >= y
    BY <1>2
  <1> QED BY <1>3 DEF Max

\* So is the smallest.
LEMMA MinOfFinite ==
    ASSUME NEW S \in SUBSET Int, IsFiniteSet(S), S # {}
    PROVE  Min(S) \in S /\ \A y \in S : Min(S) <= y
  <1> DEFINE P == {T \in SUBSET S : T = {} \/ \E x \in T : \A y \in T : x <= y}
  <1>1. \A T \in SUBSET S : (\A U \in (SUBSET T) \ {T} : U \in P) => T \in P
    <2> SUFFICES ASSUME NEW T \in SUBSET S, \A U \in (SUBSET T) \ {T} : U \in P, NEW z \in T
                 PROVE  \E x \in T : \A y \in T : x <= y
      OBVIOUS
    <2>1. T \ {z} \in P
      OBVIOUS
    <2>2. CASE T \ {z} = {}
      BY <2>2
    <2>3. ASSUME NEW x \in T \ {z}, \A y \in T \ {z} : x <= y
          PROVE  \E w \in T : \A y \in T : w <= y
      <3>1. CASE x <= z
        BY <2>3, <3>1
      <3>2. CASE ~(x <= z)
        BY <2>3, <3>2
      <3> QED BY <3>1, <3>2
    <2> QED BY <2>1, <2>2, <2>3
  <1>2. S \in P
    <2> HIDE DEF P
    <2> QED BY <1>1, SubsetInduction
  <1>3. \E x \in S : \A y \in S : x <= y
    BY <1>2
  <1> QED BY <1>3 DEF Min

\* The larger and the smaller of two numbers.
LEMMA TwoNumbers ==
    ASSUME NEW x \in Int, NEW y \in Int
    PROVE  /\ Min({x, y}) = IF x < y THEN x ELSE y
           /\ Max({x, y}) = IF x < y THEN y ELSE x
  <1>1. {x, y} \in SUBSET Int /\ IsFiniteSet({x, y}) /\ {x, y} # {}
    <2>1. IsFiniteSet({y}) /\ {x, y} = {y} \cup {x}
      BY FS_Singleton
    <2> QED BY <2>1, FS_AddElement
  <1>2. Min({x, y}) \in {x, y} /\ Min({x, y}) <= x /\ Min({x, y}) <= y
    BY <1>1, MinOfFinite
  <1>3. Max({x, y}) \in {x, y} /\ Max({x, y}) >= x /\ Max({x, y}) >= y
    BY <1>1, MaxOfFinite
  <1> QED BY <1>2, <1>3

-----------------------------------------------------------------------------
(* Whole numbers.                                                          *)

LEMMA Products ==
    /\ \A x, y \in Int : x * y \in Int
    /\ \A x, y \in Nat : x * y \in Nat
    /\ \A x, y \in Nat \ {0} : x * y \in Nat \ {0}
    /\ \A x, y, z \in Int : x <= y /\ z >= 0 => x * z <= y * z
  OBVIOUS

LEMMA Quotients ==
    ASSUME NEW a \in Int, NEW b \in Nat \ {0}
    PROVE  a = b * (a \div b) + (a % b) /\ a % b \in 0 .. b - 1 /\ a \div b \in Int
  OBVIOUS

\* Rounding down loses no whole number below.
LEMMA AtMostQuotient ==
    ASSUME NEW a \in Int, NEW b \in Nat \ {0}, NEW q \in Int
    PROVE  q <= a \div b <=> q * b <= a
  <1> DEFINE d == a \div b
  <1>1. a = b * d + (a % b) /\ a % b \in 0 .. b - 1 /\ d \in Int
    BY Quotients
  <1> HIDE DEF d
  <1>2. ASSUME q <= d PROVE q * b <= a
    <2>1. q * b <= d * b
      BY <1>1, <1>2
    <2> QED BY <1>1, <2>1
  <1>3. ASSUME ~(q <= d) PROVE ~(q * b <= a)
    <2>1. (d + 1) * b <= q * b
      BY <1>1, <1>3
    <2> QED BY <1>1, <2>1
  <1> QED BY <1>2, <1>3 DEF d

\* A number rounded down to a multiple is the largest multiple below it.
LEMMA RoundedDown ==
    ASSUME NEW n \in Nat, NEW b \in Nat \ {0}
    PROVE  LET down == (n \div b) * b IN
           /\ down \in Nat /\ down <= n /\ down % b = 0
           /\ \A q \in Nat : q <= n /\ q % b = 0 => q <= down
  <1> DEFINE d == n \div b  down == d * b
  <1>1. n = b * d + (n % b) /\ n % b \in 0 .. b - 1 /\ d \in Int
    BY Quotients
  <1> HIDE DEF d
  <1>2. d >= 0
    <2>1. d < 0 => (d + 1) * b <= 0
      BY <1>1
    <2> QED BY <1>1, <2>1
  <1>3. down \in Nat /\ down <= n
    BY <1>1, <1>2
  <1>4. down % b = 0
    <2>0. PICK x \in Nat : x = down
      BY <1>3
    <2> DEFINE e == x \div b  r == x % b
    <2>1. x = b * e + r /\ r \in 0 .. b - 1 /\ e \in Int
      BY Quotients
    <2> HIDE DEF e, r
    <2>2. (d - e) * b = r
      BY <1>1, <2>0, <2>1
    <2>3. d - e = 0
      <3>1. d - e >= 1 => (d - e) * b >= b
        BY <1>1, <2>1
      <3>2. d - e <= -1 => (d - e) * b <= -b
        BY <1>1, <2>1
      <3> QED BY <1>1, <2>1, <2>2, <3>1, <3>2
    <2>4. r = 0
      BY <2>2, <2>3, <1>1, <2>1
    <2> QED BY <2>0, <2>4 DEF r
  <1>5. ASSUME NEW q \in Nat, q <= n, q % b = 0 PROVE q <= down
    <2> DEFINE e == q \div b
    <2>1. q = b * e /\ e \in Int
      BY <1>5, Quotients
    <2> HIDE DEF e
    <2>2. e >= d + 1 => b * e >= b * d + b
      BY <1>1, <2>1
    <2>3. e <= d
      BY <1>1, <1>5, <2>1, <2>2
    <2> QED BY <1>1, <2>1, <2>3
  <1> QED BY <1>3, <1>4, <1>5 DEF d

\* A percentage of the equity less what is there covers what fits beside it.
LEMMA PercentLeft ==
    ASSUME NEW percent \in Nat, NEW equity \in Int, NEW there \in Int, NEW more \in Int
    PROVE  /\ (percent * equity) \div 100 - there \in Int
           /\ more <= (percent * equity) \div 100 - there <=> 100 * (there + more) <= percent * equity
  <1>1. percent * equity \in Int
    BY Products
  <1>2. PICK x \in Int : x = percent * equity
    BY <1>1
  <1>3. there + more <= x \div 100 <=> (there + more) * 100 <= x
    BY AtMostQuotient
  <1>4. x \div 100 \in Int
    BY Quotients
  <1> QED BY <1>2, <1>3, <1>4

-----------------------------------------------------------------------------
(* Sums over parts and in order.                                           *)

\* A sum over a part is one over all, with zeros elsewhere.
LEMMA SumOfPart ==
    ASSUME NEW S, IsFiniteSet(S), NEW T \in SUBSET S, NEW f, \A x \in T : f[x] \in Int
    PROVE  SumFunctionOnSet(f, T) = SumFunctionOnSet([x \in S |-> IF x \in T THEN f[x] ELSE 0], S)
  <1> DEFINE g == [x \in S |-> IF x \in T THEN f[x] ELSE 0]
  <1>1. (\A x \in T : g[x] \in Int /\ g[x] = f[x]) /\ \A x \in S \ T : g[x] = 0
    OBVIOUS
  <1>2. IsFiniteSet(T)
    BY FS_Subset
  <1> HIDE DEF g
  <1>3. SumFunctionOnSet(g, S) = SumFunctionOnSet(g, T)
    BY <1>1, SumOnSupport
  <1>4. SumFunctionOnSet(g, T) = SumFunctionOnSet(f, T)
    BY <1>1, <1>2, SumCongruence
  <1> QED BY <1>3, <1>4 DEF g

\* Of finitely many records one is the newest.
LEMMA NewestExists ==
    ASSUME NEW D, IsFiniteSet(D), D # {}, NEW at \in [D -> Nat]
    PROVE  \E r \in D : \A s \in D : at[s] <= at[r]
  <1> DEFINE P == {T \in SUBSET D : T # {} => \E r \in T : \A s \in T : at[s] <= at[r]}
  <1>1. \A T \in SUBSET D : (\A U \in (SUBSET T) \ {T} : U \in P) => T \in P
    <2> SUFFICES ASSUME NEW T \in SUBSET D, \A U \in (SUBSET T) \ {T} : U \in P, NEW z \in T
                 PROVE  \E r \in T : \A s \in T : at[s] <= at[r]
      OBVIOUS
    <2>1. T \ {z} \in P
      OBVIOUS
    <2>2. CASE T \ {z} = {}
      <3>1. \A s \in T : s = z
        BY <2>2
      <3>2. at[z] <= at[z]
        OBVIOUS
      <3> QED BY <3>1, <3>2
    <2>3. ASSUME NEW x \in T \ {z}, \A s \in T \ {z} : at[s] <= at[x]
          PROVE  \E r \in T : \A s \in T : at[s] <= at[r]
      <3>1. CASE at[z] <= at[x]
        BY <2>3, <3>1
      <3>2. CASE at[x] <= at[z]
        <4>1. \A s \in T : at[s] <= at[z]
          BY <2>3, <3>2
        <4> QED BY <4>1
      <3>3. at[z] \in Nat /\ at[x] \in Nat
        OBVIOUS
      <3> QED BY <3>1, <3>2, <3>3
    <2> QED BY <2>1, <2>2, <2>3
  <1>2. D \in P
    <2> HIDE DEF P
    <2> QED BY <1>1, SubsetInduction
  <1> QED BY <1>2

\* Each of D takes, after the earlier ones, what it holds until there is enough.
Fifo(D, at, held, size, taken, earlier, older) ==
    /\ IsFiniteSet(D)
    /\ at \in [D -> Nat]
    /\ \A x, y \in D : at[x] = at[y] => x = y
    /\ \A r \in D : held[r] \in Nat
    /\ size \in Nat
    /\ \A r \in D : earlier[r] \subseteq D /\ \A s \in D : s \in earlier[r] <=> at[s] < at[r]
    /\ \A r \in D : older[r] = SumFunctionOnSet(held, earlier[r])
    /\ \A r \in D : taken[r] = IF older[r] >= size THEN 0
                               ELSE IF held[r] < size - older[r] THEN held[r] ELSE size - older[r]

\* Who takes from the oldest on what is there until it has enough has taken all
\* of it or enough.
LEMMA FifoTakes ==
    ASSUME NEW D, NEW at, NEW held, NEW size, NEW taken, NEW earlier, NEW older,
           Fifo(D, at, held, size, taken, earlier, older)
    PROVE  SumFunctionOnSet(taken, D) =
               IF SumFunctionOnSet(held, D) < size THEN SumFunctionOnSet(held, D) ELSE size
  <1> DEFINE Older(r) == {s \in D : at[s] < at[r]}
             Closed(T) == \A x \in T : Older(x) \subseteq T
             TakenIn(T) == SumFunctionOnSet(taken, T)
             HeldIn(T) == SumFunctionOnSet(held, T)
             P == {T \in SUBSET D : Closed(T) => TakenIn(T) = IF HeldIn(T) < size THEN HeldIn(T) ELSE size}
  <1>a. /\ IsFiniteSet(D) /\ at \in [D -> Nat] /\ (\A x, y \in D : at[x] = at[y] => x = y)
        /\ (\A r \in D : held[r] \in Nat) /\ size \in Nat
    BY DEF Fifo
  <1>b. \A r \in D : earlier[r] \subseteq D /\ \A s \in D : s \in earlier[r] <=> at[s] < at[r]
    BY DEF Fifo
  <1>c. \A r \in D : older[r] = SumFunctionOnSet(held, earlier[r])
    BY DEF Fifo
  <1>d. \A r \in D : taken[r] = IF older[r] >= size THEN 0
                                ELSE IF held[r] < size - older[r] THEN held[r] ELSE size - older[r]
    BY DEF Fifo
  <1> USE <1>a
  <1>0. \A T \in SUBSET D : IsFiniteSet(T) /\ HeldIn(T) \in Nat
    <2> SUFFICES ASSUME NEW T \in SUBSET D PROVE IsFiniteSet(T) /\ HeldIn(T) \in Nat
      OBVIOUS
    <2>1. IsFiniteSet(T)
      BY FS_Subset
    <2> QED BY <2>1, SumOfNaturals
  <1>t. \A r \in D : taken[r] = IF HeldIn(Older(r)) >= size THEN 0
                                ELSE IF held[r] < size - HeldIn(Older(r)) THEN held[r] ELSE size - HeldIn(Older(r))
    <2>1. \A r \in D : earlier[r] = Older(r)
      BY <1>b
    <2>2. \A r \in D : older[r] = HeldIn(Older(r))
      BY <1>c, <2>1
    <2> HIDE DEF HeldIn, Older
    <2> QED BY <1>d, <2>2
  <1>u. \A r \in D : taken[r] \in Int
    <2> SUFFICES ASSUME NEW r \in D PROVE taken[r] \in Int
      OBVIOUS
    <2>1. HeldIn(Older(r)) \in Nat /\ held[r] \in Nat
      BY <1>0
    <2> HIDE DEF HeldIn, Older
    <2> QED BY <1>t, <2>1
  <1>1. \A T \in SUBSET D : (\A U \in (SUBSET T) \ {T} : U \in P) => T \in P
    <2> SUFFICES ASSUME NEW T \in SUBSET D, \A U \in (SUBSET T) \ {T} : U \in P, Closed(T)
                 PROVE  TakenIn(T) = IF HeldIn(T) < size THEN HeldIn(T) ELSE size
      OBVIOUS
    <2>1. CASE T = {}
      <3>1. TakenIn(T) = 0 /\ HeldIn(T) = 0
        BY <2>1, SumEmpty
      <3> HIDE DEF TakenIn, HeldIn
      <3> QED BY <3>1
    <2>2. CASE T # {}
      <3>1. PICK r \in T : \A s \in T : at[s] <= at[r]
        <4>1. [s \in T |-> at[s]] \in [T -> Nat] /\ IsFiniteSet(T)
          BY <1>0
        <4>2. \E r \in T : \A s \in T : [x \in T |-> at[x]][s] <= [x \in T |-> at[x]][r]
          BY <4>1, <2>2, NewestExists
        <4> QED BY <4>2
      <3>2. T \ {r} = Older(r)
        <4>1. Older(r) \subseteq T /\ r \notin Older(r)
          BY <3>1
        <4>2. \A s \in T \ {r} : at[s] < at[r]
          <5> TAKE s \in T \ {r}
          <5>1. at[s] \in Nat /\ at[r] \in Nat /\ at[s] # at[r] /\ at[s] <= at[r]
            BY <3>1
          <5> QED BY <5>1
        <4> QED BY <4>1, <4>2
      <3>3. Closed(Older(r))
        <4> SUFFICES ASSUME NEW x \in Older(r), NEW y \in Older(x) PROVE y \in Older(r)
          OBVIOUS
        <4>1. at[x] \in Nat /\ at[y] \in Nat /\ at[r] \in Nat /\ at[y] < at[x] /\ at[x] < at[r]
          OBVIOUS
        <4> QED BY <4>1
      <3>4. TakenIn(Older(r)) = IF HeldIn(Older(r)) < size THEN HeldIn(Older(r)) ELSE size
        <4>1. Older(r) \in (SUBSET T) \ {T}
          BY <3>1, <3>2
        <4> QED BY <4>1, <3>3
      <3>5. IsFiniteSet(T) /\ \A s \in T : taken[s] \in Int /\ held[s] \in Int
        BY <1>0, <1>u
      <3>6. TakenIn(T) = taken[r] + TakenIn(Older(r)) /\ HeldIn(T) = held[r] + HeldIn(Older(r))
        <4>1. TakenIn(T) = taken[r] + TakenIn(T \ {r}) /\ HeldIn(T) = held[r] + HeldIn(T \ {r})
          BY <3>5, SumElement
        <4> QED BY <3>2, <4>1
      <3>7. HeldIn(Older(r)) \in Nat /\ held[r] \in Nat
        BY <1>0
      <3>8. taken[r] = IF HeldIn(Older(r)) >= size THEN 0
                       ELSE IF held[r] < size - HeldIn(Older(r)) THEN held[r] ELSE size - HeldIn(Older(r))
        BY <1>t
      <3> HIDE DEF TakenIn, HeldIn, Older
      <3> QED BY <3>4, <3>6, <3>7, <3>8
    <2> QED BY <2>1, <2>2
  <1>2. D \in P
    <2> HIDE DEF P
    <2> QED BY <1>1, SubsetInduction
  <1> QED BY <1>2

-----------------------------------------------------------------------------
(* A table, summed by its columns and by its rows.                         *)

\* What table f has in column a, and what it has in row r.
SpentBy(f, R, a) == SumFunctionOnSet([r \in R |-> f[<<r, a>>]], R)
GivenBy(f, X, r) == SumFunctionOnSet([a \in X |-> f[<<r, a>>]], X)

\* A table g is f with column a filled.
Added(g, f, R, X, a, take) ==
    /\ f \in [R \X X -> Nat]
    /\ \A r \in R : f[<<r, a>>] = 0
    /\ g = [p \in R \X X |-> f[p] + IF p[2] = a THEN take[p[1]] ELSE 0]

AddedUp(g, f, R, X, a, take) ==
    /\ g \in [R \X X -> Nat]
    /\ \A r \in R : g[<<r, a>>] = take[r]
    /\ \A r \in R, b \in X \ {a} : g[<<r, b>>] = f[<<r, b>>]
    /\ SpentBy(g, R, a) = SumFunctionOnSet(take, R)
    /\ \A b \in X \ {a} : SpentBy(g, R, b) = SpentBy(f, R, b)
    /\ \A r \in R : GivenBy(g, X, r) = GivenBy(f, X, r) + take[r]

\* What a column adds to the sums of the table.
LEMMA ColumnAdded ==
    ASSUME NEW R, NEW X, IsFiniteSet(R), IsFiniteSet(X),
           NEW f, NEW g, NEW a \in X, NEW take \in [R -> Nat], Added(g, f, R, X, a, take)
    PROVE  AddedUp(g, f, R, X, a, take)
  <1>1. g \in [R \X X -> Nat]
    <2>1. ASSUME NEW p \in R \X X PROVE f[p] + (IF p[2] = a THEN take[p[1]] ELSE 0) \in Nat
      <3>1. f[p] \in Nat
        BY DEF Added
      <3>2. take[p[1]] \in Nat
        OBVIOUS
      <3>3. (IF p[2] = a THEN take[p[1]] ELSE 0) \in Nat
        BY <3>2
      <3> HIDE <3>2
      <3> QED BY <3>1, <3>3
    <2>2. DOMAIN g = R \X X /\ \A p \in R \X X : g[p] \in Nat
      BY <2>1 DEF Added
    <2>3. g = [p \in DOMAIN g |-> g[p]]
      BY DEF Added
    <2> QED BY <2>2, <2>3
  <1>2. ASSUME NEW r \in R, NEW b \in X
        PROVE  g[<<r, b>>] = f[<<r, b>>] + IF b = a THEN take[r] ELSE 0
    <2>1. <<r, b>> \in R \X X /\ <<r, b>>[1] = r /\ <<r, b>>[2] = b
      OBVIOUS
    <2>2. g[<<r, b>>] = f[<<r, b>>] + IF <<r, b>>[2] = a THEN take[<<r, b>>[1]] ELSE 0
      BY <2>1 DEF Added
    <2> QED BY <2>1, <2>2
  <1>3. ASSUME NEW r \in R, NEW b \in X PROVE f[<<r, b>>] \in Nat
    <2>1. <<r, b>> \in R \X X
      OBVIOUS
    <2> QED BY <2>1 DEF Added
  <1>4. ASSUME NEW r \in R PROVE take[r] \in Nat
    OBVIOUS
  <1>5. ASSUME NEW r \in R PROVE g[<<r, a>>] = take[r]
    <2>1. g[<<r, a>>] = f[<<r, a>>] + take[r]
      BY <1>2
    <2>2. f[<<r, a>>] = 0
      BY DEF Added
    <2> QED BY <1>4, <2>1, <2>2
  <1>6. ASSUME NEW r \in R, NEW b \in X \ {a} PROVE g[<<r, b>>] = f[<<r, b>>]
    <2>1. g[<<r, b>>] = f[<<r, b>>] + 0
      BY <1>2
    <2> QED BY <1>3, <2>1
  <1>7. SpentBy(g, R, a) = SumFunctionOnSet(take, R)
    <2>1. PICK h : h = [r \in R |-> g[<<r, a>>]]
      OBVIOUS
    <2>2. \A r \in R : h[r] = take[r]
      BY <1>5, <2>1
    <2> QED BY <2>1, <2>2, SumCongruence DEF SpentBy
  <1>8. ASSUME NEW b \in X \ {a} PROVE SpentBy(g, R, b) = SpentBy(f, R, b)
    <2>1. PICK h : h = [r \in R |-> g[<<r, b>>]]
      OBVIOUS
    <2>2. PICK k : k = [r \in R |-> f[<<r, b>>]]
      OBVIOUS
    <2>3. \A r \in R : h[r] = k[r]
      BY <1>6, <2>1, <2>2
    <2> QED BY <2>1, <2>2, <2>3, SumCongruence DEF SpentBy
  <1>9. ASSUME NEW r \in R PROVE GivenBy(g, X, r) = GivenBy(f, X, r) + take[r]
    <2>1. PICK h : h = [b \in X |-> g[<<r, b>>]]
      OBVIOUS
    <2>2. PICK k : k = [b \in X |-> f[<<r, b>>]]
      OBVIOUS
    <2>3. \A b \in X : h[b] = g[<<r, b>>] /\ k[b] = f[<<r, b>>] /\ k[b] \in Int
      BY <1>3, <2>1, <2>2
    <2>a. f[<<r, a>>] = 0
      BY DEF Added
    <2>4. h[a] = take[r] /\ k[a] = 0 /\ h[a] \in Int
      BY <1>4, <1>5, <2>3, <2>a
    <2>5. \A b \in X \ {a} : h[b] = k[b]
      BY <1>6, <2>3
    <2>b. \A b \in X : k[b] \in Int
      BY <2>3
    <2>6. SumFunctionOnSet(h, X) = SumFunctionOnSet(k, X) + h[a] - k[a]
      BY <2>4, <2>5, <2>b, SumUpdate
    <2>7. SumFunctionOnSet(k, X) \in Nat
      <3>1. \A b \in X : k[b] \in Nat
        BY <1>3, <2>3
      <3> QED BY <3>1, SumOfNaturals
    <2>8. SumFunctionOnSet(h, X) = SumFunctionOnSet(k, X) + take[r]
      BY <1>4, <2>4, <2>6, <2>7
    <2>9. GivenBy(g, X, r) = SumFunctionOnSet(h, X) /\ GivenBy(f, X, r) = SumFunctionOnSet(k, X)
      BY <2>1, <2>2 DEF GivenBy
    <2> QED BY <2>8, <2>9
  <1> QED BY <1>1, <1>5, <1>6, <1>7, <1>8, <1>9 DEF AddedUp
=============================================================================
