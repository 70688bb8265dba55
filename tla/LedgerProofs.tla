---------------------------- MODULE LedgerProofs ----------------------------
(***************************************************************************)
(* Lemmas about SumOfAmounts, for the components that compare a balance    *)
(* with the rows behind it.  The sum is a fold over a finite set: it is    *)
(* shown to satisfy its recursive equation, to be an integer, not to       *)
(* depend on the order in which rows are taken, and so to grow by the      *)
(* amount of a row that is added.                                          *)
(*                                                                         *)
(* Induction is on the cardinality, in the form of the least               *)
(* counterexample: the set of numbers at which a statement fails has no    *)
(* least element, and so is empty.                                         *)
(***************************************************************************)
EXTENDS Ledger, TLAPS, FiniteSetTheorems, WellFoundedInduction

\* A set of numbers has a least one, or none at all.
LEMMA Least ==
  ASSUME NEW T, T \subseteq Nat, T /= {}
  PROVE  \E n \in T : \A m \in T : n <= m
<1>1. PICK R : IsWellFoundedOn(R, Nat) /\ \A x, y \in Nat : <<y, x>> \in R <=> y < x
  <2> DEFINE R == OpToRel(<, Nat)
  <2>1. \A x, y \in Nat : <<y, x>> \in R <=> y < x
    BY DEF OpToRel
  <2>2. IsWellFoundedOn(R, Nat)
    BY NatLessThanWellFounded
  <2> HIDE DEF R
  <2> QED BY <2>1, <2>2
<1>3. \E x \in T : \A y \in T : ~(<<y, x>> \in R)
  BY <1>1, WFMin
<1>4. PICK n \in T : \A m \in T : ~(<<m, n>> \in R)
  BY <1>3
<1>5. \A m \in T : n <= m
  <2> SUFFICES ASSUME NEW m \in T PROVE n <= m
    OBVIOUS
  <2>1. ~(m < n) /\ m \in Nat /\ n \in Nat
    BY <1>1, <1>4
  <2> QED BY <2>1
<1> QED BY <1>5

\* The row that MapThenSumSet takes first, and its equation on the sets of Q.
Some(s) == CHOOSE x \in s : TRUE
Unfolds(g, Q) == g = [s \in Q |-> IF s = {} THEN 0 ELSE Some(s).amount + g[s \ {Some(s)}]]

\* The row a sum takes first is one of its rows.
LEMMA SomeIn == ASSUME NEW s, s /= {} PROVE Some(s) \in s
BY DEF Some

\* Subsets of a finite set are finite, and smaller without an element.
LEMMA Subsets ==
  ASSUME NEW S, IsFiniteSet(S)
  PROVE  \A T \in SUBSET S : /\ IsFiniteSet(T) /\ Cardinality(T) \in Nat
                             /\ T = {} <=> Cardinality(T) = 0
                             /\ \A x \in T : /\ T \ {x} \in SUBSET S
                                              /\ Cardinality(T \ {x}) = Cardinality(T) - 1
<1>1. \A T \in SUBSET S : IsFiniteSet(T) /\ Cardinality(T) \in Nat 
  BY FS_Subset, FS_CardinalityType
<1>2. \A T \in SUBSET S : \A x \in T : Cardinality(T \ {x}) = Cardinality(T) - 1
  BY <1>1, FS_RemoveElement
<1>3. \A T \in SUBSET S : T = {} <=> Cardinality(T) = 0
  BY <1>1, FS_EmptySet
<1> QED BY <1>1, <1>2, <1>3

\* There is a function that satisfies the equation: one for the sets of fewer than n
\* rows is continued by one step to those of n rows.
LEMMA UnfoldsExists ==
  ASSUME NEW S, IsFiniteSet(S)
  PROVE  \E g : Unfolds(g, SUBSET S)
<1> DEFINE Small(n) == {T \in SUBSET S : Cardinality(T) < n}
           Bad == {n \in Nat : \A g : ~Unfolds(g, Small(n))}
<1>1. \A T \in SUBSET S : IsFiniteSet(T) /\ Cardinality(T) \in Nat /\ Cardinality(T) <= Cardinality(S)
  BY FS_Subset, FS_CardinalityType
<1>3. Cardinality(S) \in Nat
  BY FS_CardinalityType
<1>4. Bad = {}
  <2> SUFFICES ASSUME NEW n \in Bad, \A m \in Bad : n <= m PROVE FALSE
    <3>1. Bad \subseteq Nat
      OBVIOUS
    <3> HIDE DEF Bad
    <3> QED BY <3>1, Least
  <2>1. n \in Nat /\ \A g : ~Unfolds(g, Small(n))
    OBVIOUS
  <2>2. n /= 0
    <3>1. Small(0) = {}
      BY <1>1
    <3>2. Unfolds([s \in {} |-> 0], {})
      BY DEF Unfolds
    <3> QED BY <3>1, <3>2, <2>1
  <2>3. PICK g : Unfolds(g, Small(n-1))
    <3>1. n - 1 \in Nat /\ n - 1 \notin Bad
      BY <2>1, <2>2
    <3> QED BY <3>1
  <2> DEFINE h == [s \in Small(n) |-> IF s = {} THEN 0 ELSE Some(s).amount + g[s \ {Some(s)}]]
  <2>4. \A s \in Small(n-1) : s \in Small(n) /\ h[s] = g[s]
    <3>1. \A s \in Small(n-1) : s \in Small(n)
      BY <1>1, <2>1
    <3> HIDE DEF Small
    <3> QED BY <3>1, <2>3 DEF Unfolds
  <2>5. \A s \in Small(n) : s /= {} => s \ {Some(s)} \in Small(n-1)
    <3> SUFFICES ASSUME NEW s \in Small(n), s /= {} PROVE s \ {Some(s)} \in Small(n-1)
      OBVIOUS
    <3>1. s \in SUBSET S /\ Some(s) \in s /\ Cardinality(s) < n
      BY SomeIn
    <3>2. s \ {Some(s)} \in SUBSET S /\ Cardinality(s \ {Some(s)}) = Cardinality(s) - 1
      BY <3>1, Subsets
    <3>3. Cardinality(s) \in Nat
      BY <3>1, Subsets
    <3> QED BY <3>1, <3>2, <3>3, <2>1
  <2>6. Unfolds(h, Small(n))
    <3> HIDE DEF Small
    <3>1. \A s \in Small(n) : h[s] = IF s = {} THEN 0 ELSE Some(s).amount + h[s \ {Some(s)}]
      BY <2>4, <2>5
    <3>2. h = [s \in Small(n) |-> h[s]]
      OBVIOUS
    <3> HIDE DEF h
    <3> QED BY <3>1, <3>2 DEF Unfolds
  <2> QED BY <2>1, <2>6
<1>5. SUBSET S = Small(Cardinality(S) + 1)
  BY <1>1, <1>3
<1>6. Cardinality(S) + 1 \in Nat
  BY <1>3
<1> QED BY <1>4, <1>5, <1>6

\* So the sum is the value of such a function.
LEMMA SumUnfolds ==
  ASSUME NEW S, IsFiniteSet(S)
  PROVE  \E g : Unfolds(g, SUBSET S) /\ SumOfAmounts(S) = g[S]
<1> DEFINE g == CHOOSE h : Unfolds(h, SUBSET S)
<1>1. SumOfAmounts(S) = g[S]
  BY DEF SumOfAmounts, MapThenSumSet, MapThenFoldSet, Unfolds, Some
<1>2. Unfolds(g, SUBSET S)
  BY UnfoldsExists
<1> QED BY <1>1, <1>2

\* The value at a set does not depend on the set whose subsets are summed.
LEMMA UnfoldsAgree ==
  ASSUME NEW S, IsFiniteSet(S), NEW T \in SUBSET S,
         NEW g, NEW h, Unfolds(g, SUBSET S), Unfolds(h, SUBSET T)
  PROVE  \A s \in SUBSET T : g[s] = h[s]
<1> DEFINE Bad == {n \in Nat : \E s \in SUBSET T : Cardinality(s) = n /\ g[s] /= h[s]}
<1>1. Bad = {}
  <2> SUFFICES ASSUME NEW n \in Bad, \A m \in Bad : n <= m PROVE FALSE
    <3>1. Bad \subseteq Nat
      OBVIOUS
    <3> HIDE DEF Bad
    <3> QED BY <3>1, Least
  <2>1. PICK s \in SUBSET T : Cardinality(s) = n /\ g[s] /= h[s]
    OBVIOUS
  <2>2. g[s] = IF s = {} THEN 0 ELSE Some(s).amount + g[s \ {Some(s)}]
    BY DEF Unfolds
  <2>3. h[s] = IF s = {} THEN 0 ELSE Some(s).amount + h[s \ {Some(s)}]
    BY DEF Unfolds
  <2>4. s /= {} /\ g[s \ {Some(s)}] /= h[s \ {Some(s)}]
    BY <2>1, <2>2, <2>3
  <2>5. Cardinality(s \ {Some(s)}) = n - 1 /\ s \ {Some(s)} \in SUBSET T /\ n - 1 \in Nat
    <3>1. s \in SUBSET S /\ Some(s) \in s
      BY <2>4, SomeIn
    <3>2. /\ Cardinality(s \ {Some(s)}) = Cardinality(s) - 1
          /\ Cardinality(s) \in Nat /\ Cardinality(s \ {Some(s)}) \in Nat
      BY <3>1, Subsets
    <3> QED BY <3>2, <2>1
  <2>6. n - 1 \in Bad
    BY <2>4, <2>5
  <2> QED BY <2>6, <2>5
<1>2. SUFFICES ASSUME NEW s \in SUBSET T, g[s] /= h[s] PROVE FALSE
  OBVIOUS
<1>3. Cardinality(s) \in Nat
  <2>1. s \in SUBSET S
    OBVIOUS
  <2> QED BY <2>1, Subsets
<1>4. Cardinality(s) \in Bad
  BY <1>2, <1>3
<1> QED BY <1>1, <1>4

\* The sum satisfies its own equation.
LEMMA SumStep ==
  ASSUME NEW S, IsFiniteSet(S)
  PROVE  SumOfAmounts(S) = IF S = {} THEN 0 ELSE Some(S).amount + SumOfAmounts(S \ {Some(S)})
<1>1. PICK g : Unfolds(g, SUBSET S) /\ SumOfAmounts(S) = g[S]
  BY SumUnfolds
<1> DEFINE T == S \ {Some(S)}
<1>2. T \in SUBSET S /\ IsFiniteSet(T)
  BY FS_RemoveElement
<1>3. S \in SUBSET S /\ g[S] = IF S = {} THEN 0 ELSE Some(S).amount + g[T]
  BY <1>1 DEF Unfolds
<1> HIDE DEF T
<1>4. PICK h : Unfolds(h, SUBSET T) /\ SumOfAmounts(T) = h[T]
  BY <1>2, SumUnfolds
<1>5. \A s \in SUBSET T : g[s] = h[s]
  <2>1. Unfolds(g, SUBSET S) /\ Unfolds(h, SUBSET T)
    BY <1>1, <1>4
  <2> QED BY <2>1, <1>2, UnfoldsAgree
<1>6. g[T] = h[T]
  BY <1>5
<1> QED BY <1>1, <1>3, <1>4, <1>6 DEF T

\* No rows add up to nothing.
LEMMA SumOfNone == SumOfAmounts({}) = 0
BY SumStep, FS_EmptySet

\* Integers add up to an integer.
LEMMA SumInt ==
  ASSUME NEW S, IsFiniteSet(S), \A r \in S : r.amount \in Int
  PROVE  SumOfAmounts(S) \in Int
<1> DEFINE Bad == {n \in Nat : \E T \in SUBSET S : Cardinality(T) = n /\ SumOfAmounts(T) \notin Int}
<1>1. Bad = {}
  <2> SUFFICES ASSUME NEW n \in Bad, \A m \in Bad : n <= m PROVE FALSE
    <3>1. Bad \subseteq Nat
      OBVIOUS
    <3> HIDE DEF Bad
    <3> QED BY <3>1, Least
  <2>1. PICK T \in SUBSET S : Cardinality(T) = n /\ SumOfAmounts(T) \notin Int
    OBVIOUS
  <2>2. T /= {} /\ Some(T) \in T
    BY <2>1, SumOfNone, SomeIn
  <2>3. /\ IsFiniteSet(T) /\ T \ {Some(T)} \in SUBSET S
        /\ Cardinality(T \ {Some(T)}) = n - 1 /\ Cardinality(T \ {Some(T)}) \in Nat
    BY <2>1, <2>2, Subsets
  <2>4. SumOfAmounts(T) = Some(T).amount + SumOfAmounts(T \ {Some(T)})
    BY <2>2, <2>3, SumStep
  <2>5. SumOfAmounts(T \ {Some(T)}) \notin Int
    BY <2>1, <2>2, <2>4
  <2> QED BY <2>3, <2>5
<1>2. Cardinality(S) \in Nat
  BY FS_CardinalityType
<1> QED BY <1>1, <1>2

\* Any row may be taken first.
LEMMA SumWithout ==
  ASSUME NEW S, IsFiniteSet(S), \A r \in S : r.amount \in Int
  PROVE  \A x \in S : SumOfAmounts(S) = x.amount + SumOfAmounts(S \ {x})
<1> DEFINE Differs(T) == \E x \in T : SumOfAmounts(T) /= x.amount + SumOfAmounts(T \ {x})
           Bad == {n \in Nat : \E T \in SUBSET S : Cardinality(T) = n /\ Differs(T)}
<1>1. Bad = {}
  <2> SUFFICES ASSUME NEW n \in Bad, \A m \in Bad : n <= m PROVE FALSE
    <3>1. Bad \subseteq Nat
      OBVIOUS
    <3> HIDE DEF Bad
    <3> QED BY <3>1, Least
  <2>1. PICK T \in SUBSET S : Cardinality(T) = n /\ Differs(T)
    OBVIOUS
  <2>2. PICK x \in T : SumOfAmounts(T) /= x.amount + SumOfAmounts(T \ {x})
    BY <2>1
  <2> DEFINE y == Some(T)
             U == T \ {x}  V == T \ {y}  W == (T \ {y}) \ {x}
  <2>3. y \in T
    BY SomeIn
  <2>4. /\ IsFiniteSet(T) /\ U \in SUBSET S /\ V \in SUBSET S
        /\ Cardinality(V) = n - 1 /\ Cardinality(U) = n - 1 /\ n - 1 \in Nat
    BY <2>1, <2>3, Subsets
  <2>5. SumOfAmounts(T) = y.amount + SumOfAmounts(V)
    BY <2>3, <2>4, SumStep
  <2>6. x /= y
    BY <2>2, <2>5
  <2>7. SumOfAmounts(V) = x.amount + SumOfAmounts(V \ {x})
    <3>1. n - 1 \notin Bad /\ x \in V
      BY <2>4, <2>6
    <3> HIDE DEF V
    <3> QED BY <2>4, <3>1
  <2>8. SumOfAmounts(U) = y.amount + SumOfAmounts(U \ {y})
    <3>1. n - 1 \notin Bad /\ y \in U
      BY <2>3, <2>4, <2>6
    <3> HIDE DEF U, y
    <3> QED BY <2>4, <3>1
  <2>9. U \ {y} = W /\ V \ {x} = W /\ W \in SUBSET S
    OBVIOUS
  <2>10. x.amount \in Int /\ y.amount \in Int /\ SumOfAmounts(W) \in Int
    <3>1. IsFiniteSet(W)
      BY <2>9, Subsets
    <3>2. SumOfAmounts(W) \in Int
      BY <2>9, <3>1, SumInt
    <3> QED BY <2>3, <3>2
  <2> HIDE DEF y, U, V, W
  <2>11. SumOfAmounts(T) = x.amount + SumOfAmounts(U)
    BY <2>5, <2>7, <2>8, <2>9, <2>10
  <2> QED BY <2>2, <2>11 DEF U
<1>2. Cardinality(S) \in Nat
  BY FS_CardinalityType
<1> QED BY <1>1, <1>2

\* A row that is added adds its amount.
LEMMA SumAdd ==
  ASSUME NEW S, IsFiniteSet(S), NEW x, x \notin S, \A r \in S \cup {x} : r.amount \in Int
  PROVE  SumOfAmounts(S \cup {x}) = SumOfAmounts(S) + x.amount
<1>1. IsFiniteSet(S \cup {x}) /\ (S \cup {x}) \ {x} = S
  BY FS_AddElement
<1>2. SumOfAmounts(S) \in Int
  BY SumInt
<1>3. SumOfAmounts(S \cup {x}) = x.amount + SumOfAmounts(S)
  <2>1. x \in S \cup {x}
    OBVIOUS
  <2>2. SumOfAmounts(S \cup {x}) = x.amount + SumOfAmounts((S \cup {x}) \ {x})
    BY <1>1, <2>1, SumWithout
  <2> QED BY <1>1, <2>2
<1>4. x.amount \in Int
  OBVIOUS
<1> QED BY <1>1, <1>2, <1>3, <1>4
=============================================================================
