----------------------------- MODULE SumLemmas -----------------------------
(***************************************************************************)
(* What SumFunction of the community modules computes, for any function    *)
(* from a finite set to the numbers.                                       *)
(*                                                                         *)
(* A sum is defined by recursion over the subsets of the domain, so every  *)
(* fact rests on an induction.  It is done by hand, with a set in the      *)
(* place of a predicate: among the subsets a claim fails for, take one     *)
(* with the fewest elements; that there is a least number is the           *)
(* well-foundedness of < on Nat.                                           *)
(***************************************************************************)
EXTENDS Integers, FiniteSets, Functions, FiniteSetTheorems, FunctionTheorems,
        WellFoundedInduction, TLAPS

(* A set of numbers has a least one. *)
LEMMA LeastNumber ==
    ASSUME NEW N \in SUBSET Nat, N # {}
    PROVE  \E n \in N : \A m \in N : n <= m
<1>1. PICK n \in N : \A m \in N : ~(<<m, n>> \in OpToRel(<, Nat))
  BY NatLessThanWellFounded, WFMin
<1>2. \A m \in N : ~(m < n)
  BY <1>1 DEF OpToRel
<1> QED
  BY <1>2

(* What holds of 0 and, with a number, of the next one holds of all. *)
LEMMA Counting ==
    ASSUME NEW G, 0 \in G, \A n \in Nat : n \in G => n + 1 \in G
    PROVE  Nat \subseteq G
<1> SUFFICES ASSUME ~(Nat \subseteq G) PROVE FALSE
  OBVIOUS
<1> DEFINE N == {n \in Nat : n \notin G}
<1>1. PICK n \in N : \A m \in N : n <= m
  <2>1. N \in SUBSET Nat /\ N # {}
    OBVIOUS
  <2> HIDE DEF N
  <2> QED
    BY <2>1, LeastNumber
<1>2. n # 0 /\ n \in Nat
  OBVIOUS
<1>3. n - 1 \in Nat /\ n - 1 \notin N
  BY <1>1, <1>2
<1> QED
  BY <1>3

(* A set of subsets that holds whenever it holds all smaller ones. *)
LEMMA SmallerFirst ==
    ASSUME NEW S, IsFiniteSet(S), NEW G,
           \A T \in SUBSET S : (\A U \in SUBSET T : U # T => U \in G) => T \in G
    PROVE  S \in G
<1> SUFFICES ASSUME S \notin G PROVE FALSE
  OBVIOUS
<1> DEFINE Bad == {T \in SUBSET S : T \notin G}
           N == {Cardinality(T) : T \in Bad}
<1>1. \A T \in Bad : IsFiniteSet(T) /\ Cardinality(T) \in Nat
  BY FS_Subset, FS_CardinalityType
<1>2. N \in SUBSET Nat /\ N # {}
  <2>1. S \in Bad
    OBVIOUS
  <2> QED
    BY <1>1, <2>1
<1>3. PICK n \in N : \A m \in N : n <= m
  <2> HIDE DEF N
  <2> QED
    BY <1>2, LeastNumber
<1>4. PICK T \in Bad : n = Cardinality(T)
  OBVIOUS
<1>5. ASSUME NEW U \in SUBSET T, U # T PROVE U \in G
  <2>1. SUFFICES ASSUME U \notin G PROVE FALSE
    OBVIOUS
  <2>2. U \in Bad
    BY <2>1
  <2>3. n <= Cardinality(U) /\ Cardinality(U) \in Nat /\ Cardinality(T) \in Nat
    BY <1>1, <1>3, <2>2
  <2>4. Cardinality(U) <= Cardinality(T) /\ (Cardinality(T) = Cardinality(U) => T = U)
    BY <1>1, FS_Subset
  <2> QED
    BY <1>4, <2>3, <2>4, <1>5
<1> QED
  BY <1>5

(* A set of subsets that holds the empty one and, with a subset, the subset and
   one element more. *)
LEMMA OneByOne ==
    ASSUME NEW S, IsFiniteSet(S), NEW G, {} \in G,
           \A T \in SUBSET S : \A x \in T : T \ {x} \in G => T \in G
    PROVE  S \in G
<1>1. ASSUME NEW T \in SUBSET S, \A U \in SUBSET T : U # T => U \in G PROVE T \in G
  <2>1. CASE T = {}
    BY <2>1
  <2>2. CASE T # {}
    <3>1. PICK x \in T : TRUE
      BY <2>2
    <3>2. T \ {x} \in G
      BY <1>1, <3>1
    <3> QED
      BY <3>1, <3>2
  <2> QED
    BY <2>1, <2>2
<1> QED
  BY <1>1, SmallerFirst

-----------------------------------------------------------------------------
(* The recursion has a solution *)

Pick(T) == CHOOSE x \in T : TRUE

(* g adds f up over every subset of S. *)
SumsUp(g, f, S) ==
    g = [T \in SUBSET S |-> IF T = {} THEN 0 ELSE f[Pick(T)] + g[T \ {Pick(T)}]]

(* There is such a function. *)
LEMMA SomethingSumsUp ==
    ASSUME NEW S, IsFiniteSet(S), NEW f \in [S -> Nat]
    PROVE  \E g : SumsUp(g, f, S)
<1> DEFINE Upto(g, n) ==
             \A T \in SUBSET S : Cardinality(T) <= n =>
               g[T] = IF T = {} THEN 0 ELSE f[Pick(T)] + g[T \ {Pick(T)}]
           G == {n \in Nat : \E g \in [SUBSET S -> Nat] : Upto(g, n)}
<1>1. \A T \in SUBSET S : T # {} =>
        /\ Pick(T) \in T /\ T \ {Pick(T)} \in SUBSET S /\ f[Pick(T)] \in Nat
        /\ Cardinality(T \ {Pick(T)}) = Cardinality(T) - 1
  <2> SUFFICES ASSUME NEW T \in SUBSET S, T # {}
               PROVE  /\ Pick(T) \in T /\ T \ {Pick(T)} \in SUBSET S /\ f[Pick(T)] \in Nat
                      /\ Cardinality(T \ {Pick(T)}) = Cardinality(T) - 1
    OBVIOUS
  <2>1. Pick(T) \in T
    BY DEF Pick
  <2>2. IsFiniteSet(T)
    BY FS_Subset
  <2> QED
    BY <2>1, <2>2, FS_RemoveElement
<1>2. \A T \in SUBSET S : Cardinality(T) \in Nat /\ (Cardinality(T) = 0 <=> T = {})
  BY FS_Subset, FS_CardinalityType, FS_EmptySet
<1>3. 0 \in G
  <2>1. [T \in SUBSET S |-> 0] \in [SUBSET S -> Nat] /\ Upto([T \in SUBSET S |-> 0], 0)
    BY <1>2
  <2> HIDE DEF Upto
  <2> QED
    BY <2>1
<1>4. ASSUME NEW n \in Nat, n \in G PROVE n + 1 \in G
  <2>1. PICK g \in [SUBSET S -> Nat] : Upto(g, n)
    BY <1>4
  <2> DEFINE h == [T \in SUBSET S |->
                     IF Cardinality(T) <= n THEN g[T]
                     ELSE IF T = {} THEN 0 ELSE f[Pick(T)] + g[T \ {Pick(T)}]]
  <2>2. h \in [SUBSET S -> Nat]
    BY <1>1
  <2>3. ASSUME NEW T \in SUBSET S, Cardinality(T) <= n + 1, T # {}
        PROVE  h[T] = f[Pick(T)] + h[T \ {Pick(T)}]
    <3>1. Cardinality(T \ {Pick(T)}) <= n /\ T \ {Pick(T)} \in SUBSET S
      BY <1>1, <1>2, <2>3
    <3>2. h[T \ {Pick(T)}] = g[T \ {Pick(T)}]
      BY <3>1
    <3>3. h[T] = f[Pick(T)] + g[T \ {Pick(T)}]
      BY <2>1, <2>3
    <3> QED
      BY <3>2, <3>3
  <2>4. h[{}] = 0
    <3>1. Cardinality({}) = 0 /\ {} \in SUBSET S
      BY FS_EmptySet
    <3> QED
      BY <2>1, <3>1
  <2>5. Upto(h, n + 1)
    <3> HIDE DEF h
    <3> QED
      BY <2>3, <2>4
  <2> HIDE DEF h, Upto
  <2> QED
    BY <2>2, <2>5
<1>5. Cardinality(S) \in G
  <2> HIDE DEF G
  <2> QED
    BY <1>2, <1>3, <1>4, Counting
<1>6. PICK g \in [SUBSET S -> Nat] : Upto(g, Cardinality(S))
  BY <1>5
<1>7. \A T \in SUBSET S : g[T] = IF T = {} THEN 0 ELSE f[Pick(T)] + g[T \ {Pick(T)}]
  BY <1>6, FS_Subset
<1>8. SumsUp(g, f, S)
  BY <1>7 DEF SumsUp
<1> QED
  BY <1>8

(* It gives what SumFunction computes. *)
LEMMA SumIsSummedUp ==
    ASSUME NEW S, IsFiniteSet(S), NEW f \in [S -> Nat]
    PROVE  \E g : SumsUp(g, f, S) /\ SumFunction(f) = g[S]
<1> DEFINE g == CHOOSE h : SumsUp(h, f, S)
<1>1. SumsUp(g, f, S)
  BY SomethingSumsUp
<1>2. SumFunction(f) = g[S]
  <2>1. DOMAIN f = S
    OBVIOUS
  <2> QED
    BY <2>1 DEF SumFunction, SumFunctionOnSet, FoldFunctionOnSet, MapThenFoldSet, SumsUp, Pick
<1> QED
  BY <1>1, <1>2

(* Its equation. *)
LEMMA SummedOnSubsets ==
    ASSUME NEW S, NEW f, NEW g, SumsUp(g, f, S), NEW T \in SUBSET S
    PROVE  g[T] = IF T = {} THEN 0 ELSE f[Pick(T)] + g[T \ {Pick(T)}]
BY DEF SumsUp

(* The element taken first is an element. *)
LEMMA PickOne == ASSUME NEW T, T # {} PROVE Pick(T) \in T
BY DEF Pick

(* Numbers add up to a number. *)
LEMMA SummedIsNat ==
    ASSUME NEW S, IsFiniteSet(S), NEW f \in [S -> Nat], NEW g, SumsUp(g, f, S),
           NEW R \in SUBSET S
    PROVE  g[R] \in Nat
<1> DEFINE G == {T \in SUBSET S : g[T] \in Nat}
<1>1. ASSUME NEW T \in SUBSET R, \A U \in SUBSET T : U # T => U \in G PROVE T \in G
  <2>1. CASE T = {}
    BY <2>1, SummedOnSubsets
  <2>2. CASE T # {}
    <3>1. Pick(T) \in T /\ f[Pick(T)] \in Nat
      BY <2>2, PickOne
    <3>2. g[T \ {Pick(T)}] \in Nat
      BY <1>1, <3>1
    <3>3. g[T] = f[Pick(T)] + g[T \ {Pick(T)}]
      BY <2>2, SummedOnSubsets
    <3>4. g[T] \in Nat
      BY <3>1, <3>2, <3>3
    <3> QED
      BY <3>4
  <2> QED
    BY <2>1, <2>2
<1>2. R \in G
  <2> HIDE DEF G
  <2> QED
    BY <1>1, FS_Subset, SmallerFirst
<1> QED
  BY <1>2

(* The order in which the elements are taken does not matter. *)
LEMMA AnyElementFirst ==
    ASSUME NEW S, IsFiniteSet(S), NEW f \in [S -> Nat], NEW g, SumsUp(g, f, S),
           NEW R \in SUBSET S, NEW y \in R
    PROVE  g[R] = f[y] + g[R \ {y}]
<1> DEFINE G == {T \in SUBSET S : \A x \in T : g[T] = f[x] + g[T \ {x}]}
<1>1. ASSUME NEW T \in SUBSET R, \A U \in SUBSET T : U # T => U \in G PROVE T \in G
  <2> SUFFICES ASSUME NEW x \in T PROVE g[T] = f[x] + g[T \ {x}]
    OBVIOUS
  <2> DEFINE p == Pick(T)
  <2>1. p \in T /\ g[T] = f[p] + g[T \ {p}]
    BY PickOne, SummedOnSubsets
  <2> HIDE DEF p
  <2>2. CASE x = p
    BY <2>1, <2>2
  <2>3. CASE x # p
    <3>1. T \ {p} \in G /\ T \ {x} \in G
      BY <1>1, <2>1
    <3> DEFINE rest == (T \ {p}) \ {x}
    <3>2. g[T \ {p}] = f[x] + g[rest]
      BY <2>1, <2>3, <3>1
    <3>3. g[T \ {x}] = f[p] + g[rest]
      <4>1. rest = (T \ {x}) \ {p}
        OBVIOUS
      <4> QED
        BY <2>1, <2>3, <3>1, <4>1
    <3>4. f[x] \in Nat /\ f[p] \in Nat /\ g[rest] \in Nat
      BY <2>1, SummedIsNat
    <3> HIDE DEF rest
    <3>5. f[p] + (f[x] + g[rest]) = f[x] + (f[p] + g[rest])
      BY <3>4
    <3> QED
      BY <2>1, <3>2, <3>3, <3>5
  <2> QED
    BY <2>2, <2>3
<1>2. R \in G
  <2> HIDE DEF G
  <2> QED
    BY <1>1, FS_Subset, SmallerFirst
<1> QED
  BY <1>2

(* A smaller domain gives its subsets the same sums. *)
LEMMA SameSums ==
    ASSUME NEW S, IsFiniteSet(S), NEW f \in [S -> Nat], NEW g, SumsUp(g, f, S),
           NEW R \in SUBSET S, NEW h, SumsUp(h, Restrict(f, R), R)
    PROVE  h[R] = g[R]
<1> DEFINE G == {T \in SUBSET R : h[T] = g[T]}
<1>1. ASSUME NEW T \in SUBSET R, \A U \in SUBSET T : U # T => U \in G PROVE T \in G
  <2>1. CASE T = {}
    BY <2>1, SummedOnSubsets
  <2>2. CASE T # {}
    <3>1. Pick(T) \in T
      BY <2>2, PickOne
    <3>2. h[T \ {Pick(T)}] = g[T \ {Pick(T)}] /\ Restrict(f, R)[Pick(T)] = f[Pick(T)]
      BY <1>1, <3>1 DEF Restrict
    <3>3. g[T] = f[Pick(T)] + g[T \ {Pick(T)}]
      BY <2>2, SummedOnSubsets
    <3>4. h[T] = Restrict(f, R)[Pick(T)] + h[T \ {Pick(T)}]
      BY <2>2, SummedOnSubsets
    <3> QED
      BY <3>2, <3>3, <3>4
  <2> QED
    BY <2>1, <2>2
<1>2. R \in G
  <2> HIDE DEF G
  <2> QED
    BY <1>1, FS_Subset, SmallerFirst
<1> QED
  BY <1>2

-----------------------------------------------------------------------------
(* What a sum is *)

SumOver(f, T) == SumFunction(Restrict(f, T))

(* A sum over a part of the domain is what is added up there. *)
LEMMA SumOverIs ==
    ASSUME NEW S, IsFiniteSet(S), NEW f \in [S -> Nat], NEW g, SumsUp(g, f, S),
           NEW T \in SUBSET S
    PROVE  SumOver(f, T) = g[T]
<1>1. Restrict(f, T) \in [T -> Nat] /\ IsFiniteSet(T)
  BY FS_Subset DEF Restrict
<1>2. PICK h : SumsUp(h, Restrict(f, T), T) /\ SumFunction(Restrict(f, T)) = h[T]
  BY <1>1, SumIsSummedUp
<1> QED
  BY <1>2, SameSums DEF SumOver

(* The equations of a sum: nothing adds up to 0, and any element may be taken
   out of a sum. *)
LEMMA SumOverEmpty ==
    ASSUME NEW S, IsFiniteSet(S), NEW f \in [S -> Nat]
    PROVE  SumOver(f, {}) = 0
<1>1. PICK g : SumsUp(g, f, S)
  BY SomethingSumsUp
<1>2. SumOver(f, {}) = g[{}]
  BY <1>1, SumOverIs
<1>3. g[{}] = 0
  BY <1>1, SummedOnSubsets
<1> QED
  BY <1>2, <1>3

(* A sum is a number. *)
LEMMA SumOverNat ==
    ASSUME NEW S, IsFiniteSet(S), NEW f \in [S -> Nat], NEW T \in SUBSET S
    PROVE  SumOver(f, T) \in Nat
<1>1. PICK g : SumsUp(g, f, S)
  BY SomethingSumsUp
<1> QED
  BY <1>1, SumOverIs, SummedIsNat

(* An element may be taken out of a sum. *)
LEMMA SumOverSplit ==
    ASSUME NEW S, IsFiniteSet(S), NEW f \in [S -> Nat], NEW T \in SUBSET S, NEW x \in T
    PROVE  SumOver(f, T) = f[x] + SumOver(f, T \ {x})
<1>1. PICK g : SumsUp(g, f, S)
  BY SomethingSumsUp
<1>2. SumOver(f, T) = g[T] /\ SumOver(f, T \ {x}) = g[T \ {x}]
  BY <1>1, SumOverIs
<1> QED
  BY <1>1, <1>2, AnyElementFirst

(* The whole domain is a part of itself. *)
LEMMA SumOverAll ==
    ASSUME NEW S, NEW f \in [S -> Nat]
    PROVE  SumOver(f, S) = SumFunction(f)
<1>1. Restrict(f, S) = f
  BY DEF Restrict
<1> QED
  BY <1>1 DEF SumOver

(* A sum over the whole domain is a number. *)
LEMMA SumNat ==
    ASSUME NEW S, IsFiniteSet(S), NEW f \in [S -> Nat]
    PROVE  SumFunction(f) \in Nat
BY SumOverNat, SumOverAll

-----------------------------------------------------------------------------
(* Laws of sums *)

(* Larger terms, larger sum. *)
LEMMA SumLeq ==
    ASSUME NEW S, IsFiniteSet(S), NEW f \in [S -> Nat], NEW g \in [S -> Nat],
           \A x \in S : f[x] <= g[x]
    PROVE  SumFunction(f) <= SumFunction(g)
<1> DEFINE G == {T \in SUBSET S : SumOver(f, T) <= SumOver(g, T)}
<1>1. {} \in G
  BY SumOverEmpty
<1>2. ASSUME NEW T \in SUBSET S, NEW x \in T, T \ {x} \in G PROVE T \in G
  <2>1. f[x] \in Nat /\ g[x] \in Nat /\ f[x] <= g[x]
    OBVIOUS
  <2>2. SumOver(f, T \ {x}) \in Nat /\ SumOver(g, T \ {x}) \in Nat
        /\ SumOver(f, T \ {x}) <= SumOver(g, T \ {x})
    BY <1>2, SumOverNat
  <2>3. SumOver(f, T) = f[x] + SumOver(f, T \ {x}) /\ SumOver(g, T) = g[x] + SumOver(g, T \ {x})
    BY SumOverSplit
  <2> QED
    BY <2>1, <2>2, <2>3
<1>3. S \in G
  <2> HIDE DEF G
  <2> QED
    BY <1>1, <1>2, OneByOne
<1> QED
  BY <1>3, SumOverAll

(* The sum of sums of terms. *)
LEMMA SumPlus ==
    ASSUME NEW S, IsFiniteSet(S), NEW f \in [S -> Nat], NEW g \in [S -> Nat],
           NEW h \in [S -> Nat], \A x \in S : h[x] = f[x] + g[x]
    PROVE  SumFunction(h) = SumFunction(f) + SumFunction(g)
<1> DEFINE G == {T \in SUBSET S : SumOver(h, T) = SumOver(f, T) + SumOver(g, T)}
<1>1. {} \in G
  BY SumOverEmpty
<1>2. ASSUME NEW T \in SUBSET S, NEW x \in T, T \ {x} \in G PROVE T \in G
  <2>1. f[x] \in Nat /\ g[x] \in Nat /\ h[x] = f[x] + g[x]
    OBVIOUS
  <2>2. /\ SumOver(f, T \ {x}) \in Nat /\ SumOver(g, T \ {x}) \in Nat
        /\ SumOver(h, T \ {x}) = SumOver(f, T \ {x}) + SumOver(g, T \ {x})
    BY <1>2, SumOverNat
  <2>3. /\ SumOver(f, T) = f[x] + SumOver(f, T \ {x})
        /\ SumOver(g, T) = g[x] + SumOver(g, T \ {x})
        /\ SumOver(h, T) = h[x] + SumOver(h, T \ {x})
    BY SumOverSplit
  <2> QED
    BY <2>1, <2>2, <2>3
<1>3. S \in G
  <2> HIDE DEF G
  <2> QED
    BY <1>1, <1>2, OneByOne
<1> QED
  BY <1>3, SumOverAll

(* Equal terms: their number times the term. *)
LEMMA SumConst ==
    ASSUME NEW S, IsFiniteSet(S), NEW k \in Nat, NEW f \in [S -> Nat],
           \A x \in S : f[x] = k
    PROVE  SumFunction(f) = k * Cardinality(S)
<1> DEFINE G == {T \in SUBSET S : SumOver(f, T) = k * Cardinality(T)}
<1>1. {} \in G
  BY SumOverEmpty, FS_EmptySet
<1>2. ASSUME NEW T \in SUBSET S, NEW x \in T, T \ {x} \in G PROVE T \in G
  <2>1. SumOver(f, T) = k + SumOver(f, T \ {x})
    BY SumOverSplit
  <2>2. SumOver(f, T \ {x}) = k * Cardinality(T \ {x})
    BY <1>2
  <2>3. /\ Cardinality(T \ {x}) \in Nat /\ Cardinality(T) \in Nat
        /\ Cardinality(T \ {x}) = Cardinality(T) - 1
    BY FS_Subset, FS_CardinalityType, FS_RemoveElement
  <2>4. k * Cardinality(T) = k + k * (Cardinality(T) - 1)
    BY <2>3
  <2> QED
    BY <2>1, <2>2, <2>3, <2>4
<1>3. S \in G
  <2> HIDE DEF G
  <2> QED
    BY <1>1, <1>2, OneByOne
<1> QED
  BY <1>3, SumOverAll

(* The sum of a single term. *)
LEMMA SumSingle ==
    ASSUME NEW S, IsFiniteSet(S), NEW f \in [S -> Nat], NEW x \in S
    PROVE  SumOver(f, {x}) = f[x]
<1>1. SumOver(f, {x}) = f[x] + SumOver(f, {x} \ {x})
  BY SumOverSplit
<1>2. {x} \ {x} = {} /\ f[x] \in Nat
  OBVIOUS
<1> QED
  BY <1>1, <1>2, SumOverEmpty

(* One term more, all others the same. *)
LEMMA SumUpdate ==
    ASSUME NEW C, IsFiniteSet(C), NEW f \in [C -> Nat], NEW g \in [C -> Nat],
           NEW d \in C, NEW a \in Nat, g[d] = a + f[d],
           \A c \in C \ {d} : g[c] = f[c]
    PROVE  SumFunction(g) = a + SumFunction(f)
<1>1. SumFunction(f) = f[d] + SumOver(f, C \ {d}) /\ SumFunction(g) = g[d] + SumOver(g, C \ {d})
  BY SumOverSplit, SumOverAll
<1>2. Restrict(f, C \ {d}) = Restrict(g, C \ {d})
  BY DEF Restrict
<1>3. SumOver(f, C \ {d}) = SumOver(g, C \ {d}) /\ SumOver(f, C \ {d}) \in Nat
  BY <1>2, SumOverNat DEF SumOver
<1> QED
  BY <1>1, <1>3

(* The elements that k maps to c. *)
Fibre(k, S, c) == {s \in S : k[s] = c}

(* A sum may be taken group by group. *)
LEMMA SumFibres ==
    ASSUME NEW S, IsFiniteSet(S), NEW C, IsFiniteSet(C), NEW k \in [S -> C],
           NEW f \in [S -> Nat]
    PROVE  SumFunction(f) = SumFunction([c \in C |-> SumOver(f, Fibre(k, S, c))])
<1> DEFINE Groups(T) == [c \in C |-> SumOver(f, Fibre(k, T, c))]
           G == {T \in SUBSET S : SumOver(f, T) = SumFunction(Groups(T))}
<1>1. \A T \in SUBSET S : Groups(T) \in [C -> Nat]
  BY SumOverNat DEF Fibre
<1>2. {} \in G
  <2>1. \A c \in C : Groups({})[c] = 0
    <3>1. \A c \in C : Fibre(k, {}, c) = {}
      BY DEF Fibre
    <3> QED
      BY <3>1, SumOverEmpty
  <2>2. SumFunction(Groups({})) = 0 * Cardinality(C)
    <3> HIDE DEF Groups
    <3> QED
      BY <1>1, <2>1, SumConst
  <2>3. Cardinality(C) \in Nat
    BY FS_CardinalityType
  <2> HIDE DEF Groups
  <2> QED
    BY <2>2, <2>3, SumOverEmpty
<1>3. ASSUME NEW T \in SUBSET S, NEW x \in T, T \ {x} \in G PROVE T \in G
  <2>1. k[x] \in C /\ f[x] \in Nat /\ x \in Fibre(k, T, k[x])
    BY DEF Fibre
  <2>2. Fibre(k, T \ {x}, k[x]) = Fibre(k, T, k[x]) \ {x}
    BY DEF Fibre
  <2>3. \A c \in C \ {k[x]} : Fibre(k, T \ {x}, c) = Fibre(k, T, c)
    BY DEF Fibre
  <2>4. Fibre(k, T, k[x]) \in SUBSET S
    BY DEF Fibre
  <2>5. SumOver(f, Fibre(k, T, k[x])) = f[x] + SumOver(f, Fibre(k, T, k[x]) \ {x})
    BY <2>1, <2>4, SumOverSplit
  <2>6. Groups(T)[k[x]] = f[x] + Groups(T \ {x})[k[x]]
    BY <2>1, <2>2, <2>5
  <2>7. \A c \in C \ {k[x]} : Groups(T)[c] = Groups(T \ {x})[c]
    BY <2>3
  <2>8. SumFunction(Groups(T)) = f[x] + SumFunction(Groups(T \ {x}))
    <3> DEFINE new == Groups(T)
               old == Groups(T \ {x})
    <3>1. new \in [C -> Nat] /\ old \in [C -> Nat]
      BY <1>1
    <3>2. new[k[x]] = f[x] + old[k[x]] /\ \A c \in C \ {k[x]} : new[c] = old[c]
      BY <2>6, <2>7
    <3> HIDE DEF new, old
    <3>3. SumFunction(new) = f[x] + SumFunction(old)
      BY <2>1, <3>1, <3>2, SumUpdate
    <3> QED
      BY <3>3 DEF new, old
  <2>9. SumOver(f, T) = f[x] + SumOver(f, T \ {x})
    BY SumOverSplit
  <2> HIDE DEF Groups
  <2> QED
    BY <1>3, <2>8, <2>9
<1>4. S \in G
  <2> HIDE DEF G
  <2> QED
    BY <1>2, <1>3, OneByOne
<1> QED
  BY <1>4, SumOverAll

(* Summing the same terms under other names. *)
LEMMA SumReindex ==
    ASSUME NEW S, IsFiniteSet(S), NEW C, IsFiniteSet(C), NEW k \in [S -> C],
           \A x, y \in S : k[x] = k[y] => x = y, \A c \in C : \E x \in S : k[x] = c,
           NEW f \in [S -> Nat], NEW g \in [C -> Nat], \A x \in S : f[x] = g[k[x]]
    PROVE  SumFunction(f) = SumFunction(g)
<1>1. ASSUME NEW c \in C PROVE SumOver(f, Fibre(k, S, c)) = g[c]
  <2>1. PICK x \in S : k[x] = c
    OBVIOUS
  <2>2. Fibre(k, S, c) = {x}
    BY <2>1 DEF Fibre
  <2> QED
    BY <2>1, <2>2, SumSingle
<1>2. [c \in C |-> SumOver(f, Fibre(k, S, c))] = g
  BY <1>1
<1> QED
  BY <1>2, SumFibres

(* The groups of a set have all its elements. *)
LEMMA CardFibres ==
    ASSUME NEW S, IsFiniteSet(S), NEW C, IsFiniteSet(C), NEW k \in [S -> C]
    PROVE  Cardinality(S) = SumFunction([c \in C |-> Cardinality(Fibre(k, S, c))])
<1> DEFINE f == [x \in S |-> 1]
<1>1. SumFunction(f) = 1 * Cardinality(S) /\ Cardinality(S) \in Nat
  <2>1. f \in [S -> Nat] /\ \A x \in S : f[x] = 1
    OBVIOUS
  <2> HIDE DEF f
  <2> QED
    BY <2>1, SumConst, FS_CardinalityType
<1>2. ASSUME NEW c \in C PROVE SumOver(f, Fibre(k, S, c)) = Cardinality(Fibre(k, S, c))
  <2> DEFINE g == Restrict(f, Fibre(k, S, c))
  <2>1. g \in [Fibre(k, S, c) -> Nat] /\ \A x \in Fibre(k, S, c) : g[x] = 1
    BY DEF Restrict, Fibre
  <2>2. IsFiniteSet(Fibre(k, S, c)) /\ Cardinality(Fibre(k, S, c)) \in Nat
    BY FS_Subset, FS_CardinalityType DEF Fibre
  <2>3. SumFunction(g) = 1 * Cardinality(Fibre(k, S, c))
    <3> HIDE DEF g
    <3> QED
      BY <2>1, <2>2, SumConst
  <2> QED
    BY <2>2, <2>3 DEF SumOver
<1>3. [c \in C |-> SumOver(f, Fibre(k, S, c))] = [c \in C |-> Cardinality(Fibre(k, S, c))]
  BY <1>2
<1>4. SumFunction(f) = SumFunction([c \in C |-> SumOver(f, Fibre(k, S, c))])
  <2>1. f \in [S -> Nat]
    OBVIOUS
  <2> HIDE DEF f
  <2> QED
    BY <2>1, SumFibres
<1> QED
  BY <1>1, <1>3, <1>4

(* A factor may be taken out of a sum. *)
LEMMA SumScale ==
    ASSUME NEW S, IsFiniteSet(S), NEW k \in Nat, NEW f \in [S -> Nat], NEW g \in [S -> Nat],
           \A x \in S : g[x] = k * f[x]
    PROVE  SumFunction(g) = k * SumFunction(f)
<1> DEFINE G == {T \in SUBSET S : SumOver(g, T) = k * SumOver(f, T)}
<1>1. {} \in G
  BY SumOverEmpty
<1>2. ASSUME NEW T \in SUBSET S, NEW x \in T, T \ {x} \in G PROVE T \in G
  <2>1. f[x] \in Nat /\ SumOver(f, T \ {x}) \in Nat
    BY SumOverNat
  <2>2. SumOver(g, T) = k * f[x] + SumOver(g, T \ {x})
    <3>1. g[x] = k * f[x]
      OBVIOUS
    <3> QED
      BY <3>1, SumOverSplit
  <2>3. SumOver(g, T \ {x}) = k * SumOver(f, T \ {x})
    BY <1>2
  <2>4. SumOver(f, T) = f[x] + SumOver(f, T \ {x})
    BY SumOverSplit
  <2>5. k * (f[x] + SumOver(f, T \ {x})) = k * f[x] + k * SumOver(f, T \ {x})
    BY <2>1
  <2>6. SumOver(g, T) = k * SumOver(f, T)
    BY <2>2, <2>3, <2>4, <2>5
  <2> QED
    BY <2>6
<1>3. S \in G
  <2> HIDE DEF G
  <2> QED
    BY <1>1, <1>2, OneByOne
<1> QED
  BY <1>3, SumOverAll

-----------------------------------------------------------------------------
(* Counting *)

(* What a bijection onto a finite set preserves. *)
LEMMA SameNumber ==
    ASSUME NEW T, IsFiniteSet(T), NEW S, NEW f \in [S -> T],
           \A x, y \in S : f[x] = f[y] => x = y,
           \A t \in T : \E x \in S : f[x] = t
    PROVE  Cardinality(S) = Cardinality(T) /\ IsFiniteSet(S)
<1>1. f \in Bijection(S, T)
  BY DEF Bijection, Injection, IsInjective, Surjection
<1>2. ExistsBijection(S, T)
  BY <1>1 DEF ExistsBijection
<1>3. ExistsBijection(T, S)
  BY <1>2, Fun_ExistsBijSymmetric
<1> QED
  BY <1>3, FS_Bijection

(* Two parts with nothing in common. *)
LEMMA DisjointParts ==
    ASSUME NEW S, IsFiniteSet(S), NEW A \in SUBSET S, NEW B \in SUBSET S, A \cap B = {}
    PROVE  Cardinality(A) + Cardinality(B) <= Cardinality(S)
<1>1. IsFiniteSet(A) /\ IsFiniteSet(B)
  BY FS_Subset
<1>2. Cardinality(A \cup B) = Cardinality(A) + Cardinality(B) - Cardinality(A \cap B)
  BY <1>1, FS_Union
<1>3. Cardinality(A \cap B) = 0
  BY FS_EmptySet
<1>4. Cardinality(A \cup B) <= Cardinality(S)
  <2>1. A \cup B \in SUBSET S
    OBVIOUS
  <2> QED
    BY <2>1, FS_Subset
<1>5. Cardinality(A) \in Nat /\ Cardinality(B) \in Nat
  BY <1>1, FS_CardinalityType
<1> QED
  BY <1>2, <1>3, <1>4, <1>5

(* Sets that may overlap have together no more elements than each on its own. *)
LEMMA UnionBound ==
    ASSUME NEW S, IsFiniteSet(S), NEW C, IsFiniteSet(C), NEW part \in [C -> SUBSET S],
           \A x \in S : \E c \in C : x \in part[c]
    PROVE  Cardinality(S) <= SumFunction([c \in C |-> Cardinality(part[c])])
<1> DEFINE k == [x \in S |-> CHOOSE c \in C : x \in part[c]]
           f == [c \in C |-> Cardinality(Fibre(k, S, c))]
           g == [c \in C |-> Cardinality(part[c])]
<1>1. k \in [S -> C] /\ \A x \in S : x \in part[k[x]]
  OBVIOUS
<1> HIDE DEF k
<1>2. ASSUME NEW c \in C
      PROVE  /\ Cardinality(Fibre(k, S, c)) \in Nat /\ Cardinality(part[c]) \in Nat
             /\ Cardinality(Fibre(k, S, c)) <= Cardinality(part[c])
  <2>1. IsFiniteSet(part[c]) /\ Fibre(k, S, c) \in SUBSET part[c]
    BY <1>1, FS_Subset DEF Fibre
  <2> QED
    BY <2>1, FS_Subset, FS_CardinalityType
<1>3. f \in [C -> Nat] /\ g \in [C -> Nat] /\ \A c \in C : f[c] <= g[c]
  BY <1>2
<1>4. Cardinality(S) = SumFunction(f)
  BY <1>1, CardFibres
<1> HIDE DEF f, g
<1>5. SumFunction(f) <= SumFunction(g)
  BY <1>3, SumLeq
<1>6. Cardinality(S) <= SumFunction(g)
  BY <1>4, <1>5
<1> QED
  BY <1>6 DEF g

(* How many pairs of R an element has on the right, and on the left. *)
ByLeft(R, A, B) == [a \in A |-> Cardinality({b \in B : <<a, b>> \in R})]
ByRight(R, A, B) == [b \in B |-> Cardinality({a \in A : <<a, b>> \in R})]

(* Pairs counted by their first component and by their second. *)
LEMMA CountPairs ==
    ASSUME NEW A, IsFiniteSet(A), NEW B, IsFiniteSet(B), NEW R \in SUBSET (A \X B)
    PROVE  /\ Cardinality(R) = SumFunction(ByLeft(R, A, B))
           /\ Cardinality(R) = SumFunction(ByRight(R, A, B))
<1>1. IsFiniteSet(R)
  BY FS_Product, FS_Subset
<1> DEFINE first == [e \in R |-> e[1]]
           second == [e \in R |-> e[2]]
<1>2. first \in [R -> A] /\ second \in [R -> B]
  OBVIOUS
<1>3. ASSUME NEW a \in A
      PROVE  Cardinality(Fibre(first, R, a)) = Cardinality({b \in B : <<a, b>> \in R})
  <2> DEFINE T == {b \in B : <<a, b>> \in R}
             F == Fibre(first, R, a)
             f == [e \in F |-> e[2]]
  <2>1. \A e \in F : e = <<a, e[2]>> /\ e[2] \in T
    BY DEF Fibre
  <2>2. \A b \in T : <<a, b>> \in F
    BY DEF Fibre
  <2>3. IsFiniteSet(T)
    BY FS_Subset
  <2> HIDE DEF F, T
  <2>4. /\ f \in [F -> T] /\ \A x, y \in F : f[x] = f[y] => x = y
    BY <2>1
  <2>5. ASSUME NEW b \in T PROVE \E x \in F : f[x] = b
    <3>1. f[<<a, b>>] = b
      BY <2>2
    <3> QED
      BY <3>1, <2>2
  <2>6. Cardinality(F) = Cardinality(T)
    <3> HIDE DEF f
    <3> QED
      BY <2>3, <2>4, <2>5, SameNumber
  <2> QED
    BY <2>6 DEF F, T
<1>4. ASSUME NEW b \in B
      PROVE  Cardinality(Fibre(second, R, b)) = Cardinality({a \in A : <<a, b>> \in R})
  <2> DEFINE T == {a \in A : <<a, b>> \in R}
             F == Fibre(second, R, b)
             f == [e \in F |-> e[1]]
  <2>1. \A e \in F : e = <<e[1], b>> /\ e[1] \in T
    BY DEF Fibre
  <2>2. \A a \in T : <<a, b>> \in F
    BY DEF Fibre
  <2>3. IsFiniteSet(T)
    BY FS_Subset
  <2> HIDE DEF F, T
  <2>4. /\ f \in [F -> T] /\ \A x, y \in F : f[x] = f[y] => x = y
    BY <2>1
  <2>5. ASSUME NEW a \in T PROVE \E x \in F : f[x] = a
    <3>1. f[<<a, b>>] = a
      BY <2>2
    <3> QED
      BY <3>1, <2>2
  <2>6. Cardinality(F) = Cardinality(T)
    <3> HIDE DEF f
    <3> QED
      BY <2>3, <2>4, <2>5, SameNumber
  <2> QED
    BY <2>6 DEF F, T
<1> HIDE DEF first, second
<1>5. /\ [a \in A |-> Cardinality(Fibre(first, R, a))] = ByLeft(R, A, B)
      /\ [b \in B |-> Cardinality(Fibre(second, R, b))] = ByRight(R, A, B)
  BY <1>3, <1>4 DEF ByLeft, ByRight
<1>6. /\ Cardinality(R) = SumFunction([a \in A |-> Cardinality(Fibre(first, R, a))])
      /\ Cardinality(R) = SumFunction([b \in B |-> Cardinality(Fibre(second, R, b))])
  BY <1>1, <1>2, CardFibres
<1> QED
  BY <1>5, <1>6

=============================================================================
