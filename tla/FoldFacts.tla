------------------------------ MODULE FoldFacts ------------------------------
(***************************************************************************)
(* Facts about sums and folds over finite sets and sequences, for the      *)
(* proofs about the components: that the recursion which defines a fold    *)
(* has a solution, that it has one only, and what one element more adds.   *)
(*                                                                         *)
(* Induction is over sets (a set of subsets, a set of numbers), so that no *)
(* lemma takes an operator.                                                *)
(***************************************************************************)
EXTENDS Integers, Sequences, FiniteSets, FiniteSetsExt, FiniteSetTheorems, TLAPS

\* Among subsets of a finite set one is minimal.
LEMMA FiniteMinimal ==
  ASSUME NEW S, IsFiniteSet(S), NEW T, T \subseteq SUBSET S, T # {}
  PROVE  \E x \in T : \A y \in T : ~(y \subseteq x /\ y # x)
  <1>1. IsWellFoundedOn(StrictSubsetOrdering(S), FiniteSubsetsOf(S))
    BY FS_StrictSubsetOrderingWellFounded
  <1>2. T \subseteq FiniteSubsetsOf(S)
    BY FS_Subset DEF FiniteSubsetsOf
  <1>3. PICK x \in T : \A y \in T : ~ (<<y, x>> \in StrictSubsetOrdering(S))
    BY <1>1, <1>2, WFMin
  <1>4. ASSUME NEW y \in T, y \subseteq x, y # x PROVE FALSE
    BY <1>3, <1>4 DEF StrictSubsetOrdering
  <1>. QED BY <1>3, <1>4

\* Induction over the subsets of a finite set: a set of them that holds the empty one
\* and, with a set, that set and one element more, holds all of them.
LEMMA SetInduction ==
  ASSUME NEW S, IsFiniteSet(S), NEW T \in SUBSET (SUBSET S),
         {} \in T, \A s \in T : \A x \in S \ s : s \cup {x} \in T
  PROVE  T = SUBSET S
  <1>. SUFFICES ASSUME T # SUBSET S PROVE FALSE
    OBVIOUS
  <1>. DEFINE B == (SUBSET S) \ T
  <1>1. PICK b \in B : \A y \in B : ~(y \subseteq b /\ y # b)
    <2>1. B \subseteq SUBSET S /\ B # {}
      OBVIOUS
    <2>. HIDE DEF B
    <2>. QED BY <2>1, FiniteMinimal
  <1>2. PICK x \in b : TRUE
    BY <1>1
  <1>3. b \ {x} \in T
    BY <1>1, <1>2
  <1>4. (b \ {x}) \cup {x} = b
    BY <1>2
  <1>. QED BY <1>1, <1>2, <1>3, <1>4

\* Induction over the natural numbers, as a statement on a set of them.
LEMMA NatSetInduction ==
  ASSUME NEW T, 0 \in T, \A n \in Nat : n \in T => n + 1 \in T
  PROVE  Nat \subseteq T
  <1>. SUFFICES ASSUME NEW n \in Nat, n \notin T PROVE FALSE
    OBVIOUS
  <1>. DEFINE D == 1..n
              B == {s \in SUBSET D : \E k \in 0..n : s = 1..k /\ k \notin T}
  <1>1. IsFiniteSet(D)
    BY FS_Interval
  <1>2. B \subseteq SUBSET D
    OBVIOUS
  <1>3. D \in B
    OBVIOUS
  <1>4. PICK b \in B : \A y \in B : ~(y \subseteq b /\ y # b)
    <2>. HIDE DEF D, B
    <2>. QED BY <1>1, <1>2, <1>3, FiniteMinimal
  <1>5. PICK k \in 0..n : b = 1..k /\ k \notin T
    BY <1>4
  <1>6. k # 0 /\ k - 1 \in 0..n /\ k - 1 \notin T
    BY <1>5
  <1>7. 1..(k - 1) \in B
    BY <1>6
  <1>8. 1..(k-1) \subseteq b /\ 1..(k-1) # b
    <2>1. k \in b /\ k \notin 1..(k-1)
      BY <1>5, <1>6
    <2>. QED BY <1>5, <1>6, <2>1
  <1>. QED BY <1>4, <1>7, <1>8

\* A set of numbers with a bound has a greatest one.
LEMMA MaxExists ==
  ASSUME NEW b \in Nat, NEW S \in SUBSET (0..b), S # {}
  PROVE  Max(S) \in S /\ \A y \in S : Max(S) >= y
  <1>. DEFINE D == 1..b
              T == {s \in SUBSET D : \E n \in S : s = n+1..b}
  <1>1. T \subseteq SUBSET D /\ IsFiniteSet(D)
    BY FS_Interval
  <1>2. \A n \in S : n+1..b \in T
    OBVIOUS
  <1>3. PICK t \in T : \A y \in T : ~(y \subseteq t /\ y # t)
    <2>1. T # {}
      BY <1>2
    <2>. HIDE DEF T, D
    <2>. QED BY <1>1, <2>1, FiniteMinimal
  <1>4. PICK n \in S : t = n+1..b
    OBVIOUS
  <1>5. ASSUME NEW y \in S, y > n PROVE FALSE
    <2>1. n \in 0..b /\ y \in 0..b
      OBVIOUS
    <2>2. y+1..b \subseteq t /\ y \in t /\ y \notin y+1..b
      BY <1>4, <1>5, <2>1
    <2>3. y+1..b \in T
      BY <1>2
    <2>. QED BY <1>3, <2>2, <2>3
  <1>6. \A y \in S : n >= y
    BY <1>5
  <1>7. \E x \in S : \A y \in S : x >= y
    BY <1>6
  <1>. QED BY <1>7, Zenon DEF Max

\* A set of natural numbers that is not empty has a least element, which Min chooses.
LEMMA MinExists ==
  ASSUME NEW S \in SUBSET Nat, S # {}
  PROVE  Min(S) \in S /\ \A y \in S : Min(S) <= y
  <1>1. PICK b \in S : TRUE
    OBVIOUS
  <1>. DEFINE T == {b - x : x \in {y \in S : y <= b}}
  <1>2. b \in Nat /\ T \in SUBSET (0..b) /\ T # {}
    BY <1>1
  <1>3. Max(T) \in T /\ \A y \in T : Max(T) >= y
    <2>. HIDE DEF T
    <2>. QED BY <1>2, MaxExists
  <1>4. PICK x \in S : x <= b /\ Max(T) = b - x
    BY <1>3
  <1>5. ASSUME NEW y \in S PROVE x <= y
    <2>1. CASE y <= b
      <3>1. b - y \in T
        BY <2>1
      <3>2. Max(T) >= b - y
        BY <1>3, <3>1
      <3>. HIDE DEF T
      <3>. QED BY <1>2, <1>4, <3>2
    <2>2. CASE ~(y <= b)
      <3>1. x \in Nat /\ y \in Nat /\ b \in Nat
        OBVIOUS
      <3>. QED BY <1>4, <2>2, <3>1
    <2>. QED BY <2>1, <2>2
  <1>6. \E z \in S : \A y \in S : z <= y
    BY <1>5
  <1>. QED BY <1>6, Zenon DEF Min

\* A set that another is mapped onto, one to one, is as large.
LEMMA SameSize ==
  ASSUME NEW A, IsFiniteSet(A), NEW B, NEW g, \A x \in A : g[x] \in B, \A y \in B : \E x \in A : y = g[x],
         \A x, y \in A : g[x] = g[y] => x = y
  PROVE  IsFiniteSet(B) /\ Cardinality(B) = Cardinality(A)
  <1>. DEFINE f == [x \in A |-> g[x]]
  <1>1. f \in [A -> B] /\ (\A y \in B : \E x \in A : f[x] = y) /\ \A x, y \in A : f[x] = f[y] => x = y
    OBVIOUS
  <1>. HIDE DEF f
  <1>2. f \in Surjection(A, B) /\ f \in Injection(A, B)
    BY <1>1 DEF Surjection, Injection, IsInjective
  <1>. QED BY <1>2, FS_Surjection

-----------------------------------------------------------------------------
(* Folds *)

\* f folds G over the subsets of D from base on, taking the element that c chooses.
Folds(f, D, c, G, base) ==
  \A s \in SUBSET D : f[s] = IF s = {} THEN base ELSE G[<<c[s], f[s \ {c[s]}]>>]

\* There is such a function: it is built for one size of the sets after the other.
LEMMA FoldExists ==
  ASSUME NEW D, IsFiniteSet(D), NEW V, NEW base \in V, NEW G \in [D \X V -> V],
         NEW c, \A s \in SUBSET D : s # {} => c[s] \in s
  PROVE  \E f \in [SUBSET D -> V] : Folds(f, D, c, G, base)
  <1>. DEFINE Upto(n) == {s \in SUBSET D : Cardinality(s) <= n}
              Ok(f, n) == \A s \in Upto(n) : f[s] = IF s = {} THEN base ELSE G[<<c[s], f[s \ {c[s]}]>>]
              T == {n \in Nat : \E f \in [Upto(n) -> V] : Ok(f, n)}
  <1>1. \A s \in SUBSET D : IsFiniteSet(s) /\ Cardinality(s) \in Nat
    BY FS_Subset, FS_CardinalityType
  <1>2. \A s \in SUBSET D : s # {} => /\ c[s] \in D /\ s \ {c[s]} \in SUBSET D
                                     /\ Cardinality(s \ {c[s]}) = Cardinality(s) - 1
    <2>. SUFFICES ASSUME NEW s \in SUBSET D, s # {}
                  PROVE  /\ c[s] \in D /\ s \ {c[s]} \in SUBSET D
                         /\ Cardinality(s \ {c[s]}) = Cardinality(s) - 1
      OBVIOUS
    <2>1. IsFiniteSet(s) /\ c[s] \in s
      BY <1>1
    <2>2. Cardinality(s \ {c[s]}) = Cardinality(s) - 1
      BY <2>1, FS_RemoveElement
    <2>. QED BY <2>1, <2>2
  <1>3. \A s \in SUBSET D : s # {} => Cardinality(s) > 0
    BY <1>1, FS_EmptySet
  <1>4. 0 \in T
    <2>. DEFINE f == [s \in Upto(0) |-> base]
    <2>1. \A s \in Upto(0) : s = {}
      BY <1>1, <1>3
    <2>2. f \in [Upto(0) -> V] /\ Ok(f, 0)
      BY <2>1
    <2>. QED BY <2>2
  <1>5. ASSUME NEW n \in Nat, n \in T PROVE n + 1 \in T
    <2>1. PICK f \in [Upto(n) -> V] : Ok(f, n)
      BY <1>5
    <2>. DEFINE g == [s \in Upto(n + 1) |-> IF s = {} THEN base ELSE G[<<c[s], f[s \ {c[s]}]>>]]
    <2>2. ASSUME NEW s \in Upto(n + 1), s # {}
          PROVE  c[s] \in D /\ s \ {c[s]} \in Upto(n) /\ f[s \ {c[s]}] \in V
      BY <1>1, <1>2, <2>2
    <2>3. g \in [Upto(n + 1) -> V]
      <3>. SUFFICES ASSUME NEW s \in Upto(n + 1)
                    PROVE  (IF s = {} THEN base ELSE G[<<c[s], f[s \ {c[s]}]>>]) \in V
        OBVIOUS
      <3>. QED BY <2>2
    <2>4. \A s \in Upto(n) : s \in Upto(n + 1) /\ g[s] = f[s]
      BY <1>1, <2>1
    <2>5. Ok(g, n + 1)
      <3>. SUFFICES ASSUME NEW s \in Upto(n + 1)
                    PROVE  g[s] = IF s = {} THEN base ELSE G[<<c[s], g[s \ {c[s]}]>>]
        OBVIOUS
      <3>1. CASE s = {}
        BY <3>1
      <3>2. CASE s # {}
        <4>1. g[s \ {c[s]}] = f[s \ {c[s]}]
          BY <2>2, <2>4, <3>2
        <4>. QED BY <3>2, <4>1
      <3>. QED BY <3>1, <3>2
    <2>. HIDE DEF g, Ok, Upto
    <2>6. n + 1 \in Nat /\ \E h \in [Upto(n + 1) -> V] : Ok(h, n + 1)
      BY <2>3, <2>5
    <2>. QED BY <2>6
  <1>6. Nat \subseteq T
    <2>. HIDE DEF T
    <2>. QED BY <1>4, <1>5, NatSetInduction
  <1>7. Cardinality(D) \in T
    BY <1>1, <1>6
  <1>8. Upto(Cardinality(D)) = SUBSET D
    <2>1. \A s \in SUBSET D : Cardinality(s) <= Cardinality(D)
      BY FS_Subset
    <2>. QED BY <2>1
  <1>9. PICK f \in [Upto(Cardinality(D)) -> V] : Ok(f, Cardinality(D))
    BY <1>7
  <1>10. f \in [SUBSET D -> V] /\ \A s \in SUBSET D : f[s] = IF s = {} THEN base ELSE G[<<c[s], f[s \ {c[s]}]>>]
    BY <1>8, <1>9
  <1>. QED BY <1>10 DEF Folds

-----------------------------------------------------------------------------
(* Sums *)

AnyOf(s) == CHOOSE x \in s : TRUE

\* w gives integers on a finite set.
Summable(w, D) == IsFiniteSet(D) /\ \A x \in D : w[x] \in Int

Same(w, v, D) == \A x \in D : w[x] = v[x]

\* f gives the sum of w over every subset of D.
SumsUp(f, w, D) ==
  /\ f \in [SUBSET D -> Int]
  /\ \A s \in SUBSET D : f[s] = IF s = {} THEN 0 ELSE w[AnyOf(s)] + f[s \ {AnyOf(s)}]

Total(w, D) == (CHOOSE f : SumsUp(f, w, D))[D]

\* There is such a function.
LEMMA SumExists ==
  ASSUME NEW D, NEW w, Summable(w, D)
  PROVE  \E f : SumsUp(f, w, D)
  <1>. DEFINE c == [s \in SUBSET D |-> AnyOf(s)]
              G == [p \in D \X Int |-> w[p[1]] + p[2]]
  <1>1. G \in [D \X Int -> Int] /\ IsFiniteSet(D) /\ 0 \in Int
    BY DEF Summable
  <1>2. \A s \in SUBSET D : c[s] = AnyOf(s)
    OBVIOUS
  <1>3. \A s \in SUBSET D : s # {} => c[s] \in s
    BY DEF AnyOf
  <1>4. \A x \in D, y \in Int : G[<<x, y>>] = w[x] + y
    OBVIOUS
  <1>. HIDE DEF c, G
  <1>5. PICK f \in [SUBSET D -> Int] : Folds(f, D, c, G, 0)
    BY <1>1, <1>3, FoldExists
  <1>6. ASSUME NEW s \in SUBSET D
        PROVE  f[s] = IF s = {} THEN 0 ELSE w[AnyOf(s)] + f[s \ {AnyOf(s)}]
    <2>1. CASE s = {}
      BY <1>5, <2>1 DEF Folds
    <2>2. CASE s # {}
      <3>1. AnyOf(s) \in D /\ c[s] = AnyOf(s) /\ f[s \ {AnyOf(s)}] \in Int
        BY <1>2, <1>3, <2>2
      <3>2. f[s] = G[<<AnyOf(s), f[s \ {AnyOf(s)}]>>]
        BY <1>5, <2>2, <3>1 DEF Folds
      <3>. QED BY <1>4, <2>2, <3>1, <3>2
    <2>. QED BY <2>1, <2>2
  <1>. QED BY <1>6 DEF SumsUp

\* Sums of what is the same are the same.
LEMMA SumsAgree ==
  ASSUME NEW D, NEW E, NEW w, NEW v, NEW f, NEW g, SumsUp(f, w, D), SumsUp(g, v, E),
         NEW U, IsFiniteSet(U), U \subseteq D, U \subseteq E, Same(w, v, U)
  PROVE  f[U] = g[U]
  <1>. SUFFICES ASSUME f[U] # g[U] PROVE FALSE
    OBVIOUS
  <1>. DEFINE B == {s \in SUBSET U : f[s] # g[s]}
  <1>1. PICK b \in B : \A y \in B : ~(y \subseteq b /\ y # b)
    <2>1. B \subseteq SUBSET U /\ B # {}
      OBVIOUS
    <2>. HIDE DEF B
    <2>. QED BY <2>1, FiniteMinimal
  <1>2. b \in SUBSET D /\ b \in SUBSET E /\ b \subseteq U
    OBVIOUS
  <1>3. b # {}
    BY <1>1, <1>2 DEF SumsUp
  <1>4. AnyOf(b) \in b
    BY <1>3 DEF AnyOf
  <1>5. f[b \ {AnyOf(b)}] = g[b \ {AnyOf(b)}]
    <2>1. b \ {AnyOf(b)} \subseteq b /\ b \ {AnyOf(b)} # b /\ b \ {AnyOf(b)} \in SUBSET U
      BY <1>2, <1>4
    <2>. QED BY <1>1, <2>1
  <1>6. f[b] = w[AnyOf(b)] + f[b \ {AnyOf(b)}] /\ g[b] = v[AnyOf(b)] + g[b \ {AnyOf(b)}]
    BY <1>2, <1>3 DEF SumsUp
  <1>. QED BY <1>1, <1>2, <1>4, <1>5, <1>6 DEF Same

\* Any element may be the one that is added last.
LEMMA SumAny ==
  ASSUME NEW D, NEW w, Summable(w, D), NEW f, SumsUp(f, w, D), NEW U \in SUBSET D, NEW x \in U
  PROVE  f[U] = w[x] + f[U \ {x}]
  <1>. SUFFICES ASSUME f[U] # w[x] + f[U \ {x}] PROVE FALSE
    OBVIOUS
  <1>. DEFINE B == {s \in SUBSET D : \E y \in s : f[s] # w[y] + f[s \ {y}]}
  <1>1. PICK b \in B : \A s \in B : ~(s \subseteq b /\ s # b)
    <2>1. B \subseteq SUBSET D /\ B # {} /\ IsFiniteSet(D)
      BY DEF Summable
    <2>. HIDE DEF B
    <2>. QED BY <2>1, FiniteMinimal
  <1>2. PICK y \in b : f[b] # w[y] + f[b \ {y}]
    OBVIOUS
  <1>. DEFINE a == AnyOf(b)
  <1>3. a \in b /\ a \in D /\ y \in D /\ b \in SUBSET D /\ f[b] = w[a] + f[b \ {a}]
    BY <1>2 DEF AnyOf, SumsUp
  <1>4. a # y
    BY <1>2, <1>3
  <1>. HIDE DEF a
  <1>5. f[b \ {a}] = w[y] + f[(b \ {a}) \ {y}]
    <2>1. b \ {a} \in SUBSET D /\ b \ {a} \subseteq b /\ b \ {a} # b /\ y \in b \ {a}
      BY <1>2, <1>3, <1>4
    <2>. QED BY <1>1, <2>1
  <1>6. f[b \ {y}] = w[a] + f[(b \ {y}) \ {a}]
    <2>1. b \ {y} \in SUBSET D /\ b \ {y} \subseteq b /\ b \ {y} # b /\ a \in b \ {y}
      BY <1>2, <1>3, <1>4
    <2>. QED BY <1>1, <2>1
  <1>7. (b \ {a}) \ {y} = (b \ {y}) \ {a} /\ (b \ {a}) \ {y} \in SUBSET D
    BY <1>3
  <1>8. w[a] \in Int /\ w[y] \in Int /\ f[(b \ {a}) \ {y}] \in Int
    BY <1>3, <1>7 DEF Summable, SumsUp
  <1>9. f[b] = w[a] + (w[y] + f[(b \ {a}) \ {y}])
    BY <1>3, <1>5
  <1>10. w[y] + f[b \ {y}] = w[y] + (w[a] + f[(b \ {a}) \ {y}])
    BY <1>6, <1>7
  <1>11. f[b] = w[y] + f[b \ {y}]
    BY <1>8, <1>9, <1>10
  <1>. QED BY <1>2, <1>11

LEMMA SummablePart ==
  ASSUME NEW D, NEW w, Summable(w, D), NEW S \in SUBSET D
  PROVE  Summable(w, S)
  BY FS_Subset DEF Summable

\* Any such sum is Total.
LEMMA SumIsTotal ==
  ASSUME NEW D, NEW w, Summable(w, D), NEW f, SumsUp(f, w, D), NEW S \in SUBSET D
  PROVE  f[S] = Total(w, S)
  <1>. DEFINE g == CHOOSE h : SumsUp(h, w, S)
  <1>1. Summable(w, S)
    BY SummablePart
  <1>2. SumsUp(g, w, S)
    BY <1>1, SumExists
  <1>. HIDE DEF g
  <1>3. IsFiniteSet(S) /\ S \subseteq D /\ S \subseteq S /\ Same(w, w, S)
    BY <1>1 DEF Summable, Same
  <1>4. f[S] = g[S]
    BY <1>2, <1>3, SumsAgree
  <1>. QED BY <1>4 DEF g, Total

LEMMA TotalEmpty ==
  ASSUME NEW w
  PROVE  Total(w, {}) = 0
  <1>1. Summable(w, {})
    BY FS_EmptySet DEF Summable
  <1>2. PICK f : SumsUp(f, w, {})
    BY <1>1, SumExists
  <1>3. {} \in SUBSET {}
    OBVIOUS
  <1>4. f[{}] = Total(w, {})
    BY <1>1, <1>2, <1>3, SumIsTotal
  <1>5. f[{}] = 0
    BY <1>2, <1>3 DEF SumsUp
  <1>. QED BY <1>4, <1>5

LEMMA TotalType ==
  ASSUME NEW D, NEW w, Summable(w, D)
  PROVE  Total(w, D) \in Int
  <1>1. PICK f : SumsUp(f, w, D)
    BY SumExists
  <1>2. D \in SUBSET D
    OBVIOUS
  <1>3. f[D] = Total(w, D)
    BY <1>1, <1>2, SumIsTotal
  <1>. QED BY <1>1, <1>2, <1>3 DEF SumsUp

\* One element is taken out of a sum.
LEMMA TotalWithout ==
  ASSUME NEW D, NEW w, Summable(w, D), NEW x \in D
  PROVE  Total(w, D) = w[x] + Total(w, D \ {x})
  <1>1. PICK f : SumsUp(f, w, D)
    BY SumExists
  <1>2. D \in SUBSET D /\ D \ {x} \in SUBSET D
    OBVIOUS
  <1>3. f[D] = Total(w, D) /\ f[D \ {x}] = Total(w, D \ {x})
    BY <1>1, <1>2, SumIsTotal
  <1>4. f[D] = w[x] + f[D \ {x}]
    BY <1>1, <1>2, SumAny
  <1>. QED BY <1>3, <1>4

LEMMA TotalSame ==
  ASSUME NEW D, NEW w, NEW v, Summable(w, D), Same(w, v, D)
  PROVE  Total(w, D) = Total(v, D)
  <1>1. Summable(v, D) /\ IsFiniteSet(D) /\ D \subseteq D /\ D \in SUBSET D
    BY DEF Summable, Same
  <1>2. PICK f : SumsUp(f, w, D)
    BY SumExists
  <1>3. PICK g : SumsUp(g, v, D)
    BY <1>1, SumExists
  <1>4. f[D] = g[D]
    BY <1>1, <1>2, <1>3, SumsAgree
  <1>. QED BY <1>1, <1>2, <1>3, <1>4, SumIsTotal

\* The sum over a set is that over a part of it and that over the rest.
LEMMA TotalSplit ==
  ASSUME NEW D, NEW w, Summable(w, D), NEW S \in SUBSET D
  PROVE  Total(w, D) = Total(w, S) + Total(w, D \ S)
  <1>. DEFINE T == {s \in SUBSET S : Total(w, D) = Total(w, s) + Total(w, D \ s)}
  <1>1. IsFiniteSet(S) /\ \A s \in SUBSET D : Summable(w, s) /\ Total(w, s) \in Int
    BY SummablePart, TotalType DEF Summable
  <1>2. {} \in T
    <2>1. D \ {} = D /\ Total(w, D) \in Int
      BY <1>1
    <2>. QED BY <2>1, TotalEmpty
  <1>3. ASSUME NEW s \in T, NEW x \in S \ s PROVE s \cup {x} \in T
    <2>. DEFINE u == s \cup {x}
    <2>1. u \in SUBSET D /\ D \ s \in SUBSET D /\ D \ u \in SUBSET D /\ s \in SUBSET D
      BY <1>3
    <2>2. u \ {x} = s /\ (D \ s) \ {x} = D \ u /\ x \in D \ s /\ x \in u /\ w[x] \in Int
      BY <1>3 DEF Summable
    <2>. HIDE DEF u
    <2>3. Total(w, u) = w[x] + Total(w, s)
      BY <1>1, <2>1, <2>2, TotalWithout
    <2>4. Total(w, D \ s) = w[x] + Total(w, D \ u)
      BY <1>1, <2>1, <2>2, TotalWithout
    <2>5. Total(w, D) = Total(w, s) + Total(w, D \ s)
      BY <1>3
    <2>6. Total(w, s) \in Int /\ Total(w, D \ u) \in Int /\ Total(w, u) \in Int /\ Total(w, D \ s) \in Int
      BY <1>1, <2>1
    <2>7. Total(w, D) = Total(w, u) + Total(w, D \ u)
      BY <2>2, <2>3, <2>4, <2>5, <2>6
    <2>. QED BY <1>3, <2>7 DEF u
  <1>4. T = SUBSET S
    <2>1. T \in SUBSET (SUBSET S)
      OBVIOUS
    <2>. HIDE DEF T
    <2>. QED BY <1>1, <1>2, <1>3, <2>1, SetInduction
  <1>. QED BY <1>4

\* A sum of natural numbers is one.
LEMMA TotalNat ==
  ASSUME NEW D, IsFiniteSet(D), NEW w, \A x \in D : w[x] \in Nat
  PROVE  Total(w, D) \in Nat
  <1>. DEFINE T == {s \in SUBSET D : Total(w, s) \in Nat}
  <1>1. {} \in T
    BY TotalEmpty
  <1>2. ASSUME NEW s \in T, NEW x \in D \ s PROVE s \cup {x} \in T
    <2>1. Summable(w, s \cup {x}) /\ (s \cup {x}) \ {x} = s /\ x \in s \cup {x}
      BY <1>2, FS_Subset DEF Summable
    <2>2. Total(w, s \cup {x}) = w[x] + Total(w, s)
      BY <2>1, TotalWithout
    <2>. QED BY <1>2, <2>2
  <1>3. T = SUBSET D
    <2>1. T \in SUBSET (SUBSET D)
      OBVIOUS
    <2>. HIDE DEF T
    <2>. QED BY <1>1, <1>2, <2>1, SetInduction
  <1>. QED BY <1>3

\* The recursion of a sum has one solution: what it gives is the sum.
SolvesSum(f, w, D) == f = [s \in SUBSET D |-> IF s = {} THEN 0 ELSE w[AnyOf(s)] + f[s \ {AnyOf(s)}]]

LEMMA SolutionSums ==
  ASSUME NEW D, NEW w, Summable(w, D), NEW iter, SolvesSum(iter, w, D)
  PROVE  iter[D] = Total(w, D)
  <1>. DEFINE Next(f, s) == IF s = {} THEN 0 ELSE w[AnyOf(s)] + f[s \ {AnyOf(s)}]
  <1>1. \A s \in SUBSET D : iter[s] = IF s = {} THEN 0 ELSE w[AnyOf(s)] + iter[s \ {AnyOf(s)}]
    <2>1. iter = [s \in SUBSET D |-> Next(iter, s)]
      BY DEF SolvesSum
    <2>. QED BY <2>1, Zenon
  <1>2. DOMAIN iter = SUBSET D /\ iter = [s \in SUBSET D |-> iter[s]]
    <2>1. iter = [s \in SUBSET D |-> Next(iter, s)]
      BY DEF SolvesSum
    <2>. HIDE DEF Next
    <2>. QED BY <2>1
  <1>3. \A s \in SUBSET D : iter[s] \in Int
    <2>. DEFINE T == {s \in SUBSET D : iter[s] \notin Int}
    <2>1. IsFiniteSet(D) /\ \A s \in SUBSET D : s # {} => AnyOf(s) \in s /\ w[AnyOf(s)] \in Int
      BY DEF Summable, AnyOf
    <2>. SUFFICES ASSUME T # {} PROVE FALSE
      OBVIOUS
    <2>2. PICK b \in T : \A y \in T : ~(y \subseteq b /\ y # b)
      <3>1. T \subseteq SUBSET D
        OBVIOUS
      <3>. HIDE DEF T
      <3>. QED BY <2>1, <3>1, FiniteMinimal
    <2>3. b # {}
      <3>1. {} \in SUBSET D /\ 0 \in Int
        OBVIOUS
      <3>. QED BY <1>1, <2>2, <3>1
    <2>4. b \ {AnyOf(b)} \notin T
      BY <2>1, <2>2, <2>3
    <2>. QED BY <1>1, <2>1, <2>3, <2>4
  <1>4. SumsUp(iter, w, D)
    BY <1>1, <1>2, <1>3 DEF SumsUp
  <1>. QED BY <1>4, SumIsTotal

-----------------------------------------------------------------------------
(* Folds over sequences, from left to right: the sets are those of the indices *)

\* iter is a solution of the recursion, as far as it stays in V.
FoldsOver(iter, n, V, G, base) ==
  \A s \in SUBSET (1..n) :
    /\ s = {} => iter[s] = base
    /\ s # {} /\ iter[s \ {Max(s)}] \in V => iter[s] = G[<<Max(s), iter[s \ {Max(s)}]>>]

LeftFolds(f, n, G, base) ==
  \A s \in SUBSET (1..n) : f[s] = IF s = {} THEN base ELSE G[<<Max(s), f[s \ {Max(s)}]>>]

\* h runs through the results for the first k elements.
Running(h, n, G, base) == h[0] = base /\ \A k \in 1..n : h[k] = G[<<k, h[k-1]>>]

RunsTo(end, n, V, G, base) == \E h \in [0..n -> V] : Running(h, n, G, base) /\ end = h[n]

LEMMA MaxOfIndices ==
  ASSUME NEW n \in Nat, NEW s \in SUBSET (1..n), s # {}
  PROVE  Max(s) \in s /\ \A y \in s : Max(s) >= y
  <1>1. s \in SUBSET (0..n)
    OBVIOUS
  <1>. QED BY <1>1, MaxExists

LEMMA LeftFoldExists ==
  ASSUME NEW n \in Nat, NEW V, NEW base \in V, NEW G \in [(1..n) \X V -> V]
  PROVE  \E f \in [SUBSET (1..n) -> V] : LeftFolds(f, n, G, base)
  <1>. DEFINE D == 1..n
              c == [s \in SUBSET D |-> Max(s)]
  <1>1. IsFiniteSet(D)
    BY FS_Interval
  <1>2. \A s \in SUBSET D : c[s] = Max(s)
    OBVIOUS
  <1>3. \A s \in SUBSET D : s # {} => c[s] \in s
    BY <1>2, MaxOfIndices
  <1>4. G \in [D \X V -> V]
    OBVIOUS
  <1>. HIDE DEF c, D
  <1>5. PICK f \in [SUBSET D -> V] : Folds(f, D, c, G, base)
    BY <1>1, <1>3, <1>4, FoldExists
  <1>6. \A s \in SUBSET D : f[s] = IF s = {} THEN base ELSE G[<<Max(s), f[s \ {Max(s)}]>>]
    BY <1>2, <1>5 DEF Folds
  <1>. QED BY <1>6 DEF D, LeftFolds

LEMMA LeftFoldSteps ==
  ASSUME NEW n \in Nat, NEW V, NEW base \in V, NEW G \in [(1..n) \X V -> V],
         NEW iter, FoldsOver(iter, n, V, G, base)
  PROVE  RunsTo(iter[1..n], n, V, G, base)
  <1>. DEFINE h == [k \in 0..n |-> iter[1..k]]
              T == {k \in Nat : k <= n => iter[1..k] \in V}
  <1>1. ASSUME NEW k \in 1..n
        PROVE  /\ 1..k \in SUBSET (1..n) /\ 1..k # {} /\ k - 1 \in 0..n
               /\ Max(1..k) = k /\ (1..k) \ {Max(1..k)} = 1..(k-1)
    <2>1. 1..k \in SUBSET (1..n) /\ k \in 1..k /\ 1..k # {}
      OBVIOUS
    <2>2. Max(1..k) \in 1..k /\ Max(1..k) >= k
      BY <2>1, MaxOfIndices
    <2>. QED BY <2>1, <2>2
  <1>2. iter[1..0] = base
    <2>1. 1..0 = {} /\ {} \in SUBSET (1..n)
      OBVIOUS
    <2>. QED BY <2>1 DEF FoldsOver
  <1>3. ASSUME NEW k \in 1..n, iter[1..(k-1)] \in V
        PROVE  iter[1..k] = G[<<k, iter[1..(k-1)]>>] /\ iter[1..k] \in V
    <2>. DEFINE s == 1..k
    <2>1. s \in SUBSET (1..n) /\ s # {} /\ Max(s) = k /\ s \ {Max(s)} = 1..(k-1)
      BY <1>1
    <2>. HIDE DEF s
    <2>2. iter[s] = G[<<Max(s), iter[s \ {Max(s)}]>>]
      BY <1>3, <2>1 DEF FoldsOver
    <2>3. iter[s] = G[<<k, iter[1..(k-1)]>>]
      BY <2>1, <2>2
    <2>4. iter[s] \in V
      BY <1>3, <2>3
    <2>. QED BY <2>3, <2>4 DEF s
  <1>4. Nat \subseteq T
    <2>1. 0 \in T
      BY <1>2
    <2>2. ASSUME NEW k \in Nat, k \in T PROVE k + 1 \in T
      <3>1. CASE k + 1 <= n
        <4>1. k + 1 \in 1..n /\ iter[1..k] \in V /\ (k + 1) - 1 = k
          BY <2>2, <3>1
        <4>2. iter[1..(k+1)] \in V
          BY <1>3, <4>1
        <4>. QED BY <4>2
      <3>2. CASE ~(k + 1 <= n)
        BY <3>2
      <3>. QED BY <3>1, <3>2
    <2>. HIDE DEF T
    <2>. QED BY <2>1, <2>2, NatSetInduction
  <1>5. \A k \in 0..n : iter[1..k] \in V
    BY <1>4
  <1>6. h \in [0..n -> V] /\ h[0] = base /\ h[n] = iter[1..n]
    <2>1. h \in [0..n -> V]
      BY <1>5
    <2>2. 0 \in 0..n /\ n \in 0..n
      OBVIOUS
    <2>3. h[0] = iter[1..0] /\ h[n] = iter[1..n]
      BY <2>2
    <2>. QED BY <1>2, <2>1, <2>3
  <1>7. ASSUME NEW k \in 1..n PROVE h[k] = G[<<k, h[k-1]>>]
    <2>1. k - 1 \in 0..n /\ k \in 0..n
      BY <1>1
    <2>. QED BY <1>3, <1>5, <2>1
  <1>. HIDE DEF h
  <1>. QED BY <1>6, <1>7 DEF Running, RunsTo

\* h is P applied again and again to base.
Iterates(h, n, P, base) == h[0] = base /\ \A k \in 1..n : h[k] = P[h[k-1]]

\* A function that is iterated n times exists.
LEMMA IterExists ==
  ASSUME NEW n \in Nat, NEW V, NEW base \in V, NEW P \in [V -> V]
  PROVE  \E h \in [0..n -> V] : Iterates(h, n, P, base)
  <1>. DEFINE G == [p \in (1..n) \X V |-> P[p[2]]]
  <1>1. G \in [(1..n) \X V -> V] /\ \A k \in 1..n, v \in V : G[<<k, v>>] = P[v]
    <2>1. \A p \in (1..n) \X V : P[p[2]] \in V
      OBVIOUS
    <2>2. ASSUME NEW k \in 1..n, NEW v \in V PROVE G[<<k, v>>] = P[v]
      <3>1. <<k, v>> \in (1..n) \X V
        OBVIOUS
      <3>. QED BY <3>1
    <2>. QED BY <2>1, <2>2
  <1>. HIDE DEF G
  <1>2. PICK f \in [SUBSET (1..n) -> V] : LeftFolds(f, n, G, base)
    BY <1>1, LeftFoldExists
  <1>3. FoldsOver(f, n, V, G, base)
    <2>. SUFFICES ASSUME NEW s \in SUBSET (1..n)
                  PROVE  /\ s = {} => f[s] = base
                         /\ s # {} /\ f[s \ {Max(s)}] \in V => f[s] = G[<<Max(s), f[s \ {Max(s)}]>>]
      BY DEF FoldsOver
    <2>. QED BY <1>2 DEF LeftFolds
  <1>4. RunsTo(f[1..n], n, V, G, base)
    BY <1>1, <1>3, LeftFoldSteps
  <1>5. PICK h \in [0..n -> V] : Running(h, n, G, base)
    BY <1>4 DEF RunsTo
  <1>6. ASSUME NEW k \in 1..n PROVE h[k] = P[h[k-1]]
    <2>1. k - 1 \in 0..n /\ h[k-1] \in V
      OBVIOUS
    <2>. QED BY <1>1, <1>5, <2>1 DEF Running
  <1>. QED BY <1>5, <1>6 DEF Running, Iterates

\* What division gives back.
LEMMA Remainder ==
  ASSUME NEW n \in Nat, n > 0, NEW q \in Int, NEW r \in 0..n-1
  PROVE  (n * q + r) % n = r
  OBVIOUS

\* Every number is a multiple and a remainder.
LEMMA Division ==
  ASSUME NEW n \in Nat, n > 0, NEW x \in Int
  PROVE  \E q \in Int : x = n * q + (x % n) /\ x % n \in 0..n-1
  <1>. DEFINE d == x \div n
              m == x % n
  <1>1. d \in Int /\ m \in 0..n-1 /\ x = n * d + m
    OBVIOUS
  <1>. HIDE DEF d
  <1>. QED BY <1>1

\* One summand changes by d.
LEMMA TotalChanged ==
  ASSUME NEW S, NEW w, NEW v, Summable(w, S), NEW x \in S, NEW d \in Int,
         \A y \in S \ {x} : v[y] = w[y], v[x] = w[x] + d
  PROVE  Total(v, S) = Total(w, S) + d
  <1>. DEFINE R == S \ {x}
  <1>1. Summable(v, S) /\ Summable(w, R) /\ Same(w, v, R)
    <2>1. IsFiniteSet(S) /\ IsFiniteSet(R) /\ \A y \in S : w[y] \in Int
      BY FS_Subset DEF Summable
    <2>2. \A y \in S : v[y] \in Int
      BY <2>1
    <2>. QED BY <2>1, <2>2 DEF Summable, Same
  <1>2. Total(w, R) = Total(v, R)
    BY <1>1, TotalSame
  <1>3. Total(v, S) = v[x] + Total(v, R)
    BY <1>1, TotalWithout
  <1>4. Total(w, S) = w[x] + Total(w, R)
    BY TotalWithout
  <1>5. Total(w, R) \in Int /\ w[x] \in Int
    BY <1>1, TotalType DEF Summable
  <1>. QED BY <1>2, <1>3, <1>4, <1>5

\* One summand is added.
LEMMA TotalAdded ==
  ASSUME NEW S, NEW w, NEW v, Summable(w, S), NEW x, x \notin S, Same(w, v, S), v[x] \in Int
  PROVE  Total(v, S \cup {x}) = Total(w, S) + v[x]
  <1>. DEFINE U == S \cup {x}
  <1>1. U \ {x} = S /\ x \in U
    OBVIOUS
  <1>2. Summable(v, U)
    <2>1. IsFiniteSet(U)
      BY FS_AddElement DEF Summable
    <2>. QED BY <2>1 DEF Summable, Same
  <1>. HIDE DEF U
  <1>3. Total(v, U) = v[x] + Total(v, S)
    BY <1>1, <1>2, TotalWithout
  <1>4. Total(w, S) = Total(v, S) /\ Total(w, S) \in Int
    BY TotalSame, TotalType
  <1>. QED BY <1>3, <1>4 DEF U

\* Summands that are all zero.
LEMMA TotalZero ==
  ASSUME NEW D, IsFiniteSet(D), NEW w, \A x \in D : w[x] = 0
  PROVE  Total(w, D) = 0
  <1>. DEFINE T == {s \in SUBSET D : Total(w, s) = 0}
  <1>1. {} \in T
    BY TotalEmpty
  <1>2. ASSUME NEW s \in T, NEW x \in D \ s PROVE s \cup {x} \in T
    <2>1. IsFiniteSet(s \cup {x})
      BY FS_Subset
    <2>2. Summable(w, s \cup {x}) /\ x \in s \cup {x} /\ (s \cup {x}) \ {x} = s
      BY <2>1 DEF Summable
    <2>3. Total(w, s \cup {x}) = w[x] + Total(w, (s \cup {x}) \ {x})
      BY <2>2, TotalWithout
    <2>. QED BY <2>2, <2>3
  <1>3. T = SUBSET D
    <2>1. T \in SUBSET (SUBSET D)
      OBVIOUS
    <2>. HIDE DEF T
    <2>. QED BY <1>1, <1>2, <2>1, SetInduction
  <1>. QED BY <1>3

=============================================================================
