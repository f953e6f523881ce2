---------------------------- MODULE PlannerProofs ----------------------------
(***************************************************************************)
(* What the planner claims of its answers, for every request.  A plan that *)
(* satisfies the constraints and the validator is legal, a legal plan      *)
(* satisfies the constraints, and the bounded enumeration that was not cut *)
(* off has seen every assignment the validator accepts.  Then the refusals *)
(* that need no search, the audit of a plan, and the search for sections.  *)
(***************************************************************************)
EXTENDS Advising, PrerequisiteProofs, FiniteSetTheorems

USE DEF Unit

\* ------------------------------------------------------- numbers and sums

\* A step function has its iterates.
Iterates(L, S, base, step) ==
  {f \in [0..L -> S] : f[0] = base /\ \A n \in 1..L : f[n] = step[<<n, f[n - 1]>>]}

LEMMA IteratesExist ==
  ASSUME NEW L \in Nat, NEW S, NEW base \in S, NEW step \in [(1..L) \X S -> S]
  PROVE  Iterates(L, S, base, step) # {}
<1> DEFINE Begun(m) ==
      {f \in [0..m -> S] : f[0] = base /\ \A n \in 1..m : f[n] = step[<<n, f[n - 1]>>]}
<1> SUFFICES ASSUME Begun(L) = {} PROVE FALSE  BY DEF Iterates
<1> DEFINE Bad == {m \in 0..L : Begun(m) = {}}
<1>1. PICK m \in Bad : \A k \in Bad : m <= k
  <2>1. Bad \subseteq Nat /\ L \in Bad  OBVIOUS
  <2> HIDE DEF Bad
  <2> QED  BY <2>1, LeastNat
<1>2. m \in 0..L /\ Begun(m) = {}  OBVIOUS
<1>3. CASE m = 0
  <2>1. [n \in 0..0 |-> base] \in Begun(0)  OBVIOUS
  <2> QED  BY <1>2, <1>3, <2>1
<1>4. CASE m # 0
  <2>1. m - 1 \in 0..L /\ m - 1 \notin Bad  BY <1>1, <1>2, <1>4
  <2>2. PICK f \in Begun(m - 1) : TRUE  BY <2>1
  <2> DEFINE g == [n \in 0..m |-> IF n = m THEN step[<<m, f[m - 1]>>] ELSE f[n]]
  <2>3. f \in [0..(m - 1) -> S] /\ f[0] = base
        /\ \A n \in 1..(m - 1) : f[n] = step[<<n, f[n - 1]>>]
    BY <2>2
  <2>4. m - 1 \in 0..(m - 1) /\ m \in 1..L  BY <1>2, <1>4
  <2>5. step[<<m, f[m - 1]>>] \in S  BY <2>3, <2>4
  <2>6. g \in [0..m -> S]
    <3>1. ASSUME NEW n \in 0..m, n # m PROVE n \in 0..(m - 1)  BY <1>2, <3>1
    <3> QED  BY <2>3, <2>5, <3>1
  <2>7. g[0] = base  BY <1>2, <1>4, <2>3
  <2>8. ASSUME NEW n \in 1..m
        PROVE  g[n] = step[<<n, g[n - 1]>>]
    <3>1. n - 1 \in 0..m /\ n - 1 # m  BY <1>2, <2>8
    <3>2. g[n - 1] = f[n - 1]  BY <3>1
    <3>3. CASE n = m
      <4>1. g[n] = step[<<m, f[m - 1]>>]  BY <1>2, <3>3
      <4>2. g[n - 1] = f[m - 1]  BY <3>2, <3>3
      <4> HIDE DEF g
      <4> QED  BY <3>3, <4>1, <4>2
    <3>4. CASE n # m
      <4>1. n \in 1..(m - 1)  BY <1>2, <3>4
      <4> QED  BY <2>3, <3>2, <3>4, <4>1
    <3> QED  BY <3>3, <3>4
  <2> HIDE DEF g
  <2>9. g \in Begun(m)  BY <2>6, <2>7, <2>8
  <2> QED  BY <1>2, <2>9
<1> QED  BY <1>3, <1>4


\* Of a collection of finite sets one is the smallest.
LEMMA SmallestSet ==
  ASSUME NEW F, F # {}, \A s \in F : IsFiniteSet(s)
  PROVE  \E s \in F : \A t \in F : Cardinality(s) <= Cardinality(t)
<1> DEFINE sizes == {Cardinality(s) : s \in F}
<1>1. sizes \subseteq Nat /\ sizes # {}  BY FS_CardinalityType
<1>2. PICK n \in sizes : \A m \in sizes : n <= m
  <2> HIDE DEF sizes
  <2> QED  BY <1>1, LeastNat
<1>3. PICK s \in F : Cardinality(s) = n  OBVIOUS
<1>4. ASSUME NEW t \in F
      PROVE  Cardinality(s) <= Cardinality(t)
  BY <1>2, <1>3
<1> QED  BY <1>4

\* One unfolding of SumFunctionOnSet.
First(s) == CHOOSE x \in s : TRUE
Unfolded(f, g, s) == IF s = {} THEN 0 ELSE f[First(s)] + g[s \ {First(s)}]

Unfolds(f, g, S) == \A s \in SUBSET S : g[s] = Unfolded(f, g, s)

Folds(f, S) == {g \in [SUBSET S -> Int] : Unfolds(f, g, S)}

LEMMA FoldExists ==
  ASSUME NEW S, IsFiniteSet(S), NEW T, S \subseteq T, NEW f \in [T -> Int]
  PROVE  Folds(f, S) # {}
<1> DEFINE L == Cardinality(S) + 1
           Space == [SUBSET S -> Int]
           base == [s \in SUBSET S |-> 0]
           step == [p \in (1..L) \X Space |-> [s \in SUBSET S |-> Unfolded(f, p[2], s)]]
<1>1. Cardinality(S) \in Nat /\ L \in Nat  BY FS_CardinalityType
<1>2. ASSUME NEW g \in Space, NEW s \in SUBSET S
      PROVE  Unfolded(f, g, s) \in Int
  <2>1. CASE s = {}  BY <2>1 DEF Unfolded
  <2>2. CASE s # {}
    <3>1. First(s) \in s  BY <2>2 DEF First
    <3>2. f[First(s)] \in Int /\ g[s \ {First(s)}] \in Int  BY <3>1
    <3> QED  BY <2>2, <3>2 DEF Unfolded
  <2> QED  BY <2>1, <2>2
<1>3. step \in [(1..L) \X Space -> Space]  BY <1>2
<1>4. PICK it \in [0..L -> Space] : it[0] = base /\ \A n \in 1..L : it[n] = step[<<n, it[n - 1]>>]
  <2>1. base \in Space  OBVIOUS
  <2> HIDE DEF Space, base, step, L
  <2>2. Iterates(L, Space, base, step) # {}  BY <1>1, <1>3, <2>1, IteratesExist
  <2> QED  BY <2>2 DEF Iterates
<1>5. ASSUME NEW n \in 1..L, NEW s \in SUBSET S
      PROVE  it[n][s] = Unfolded(f, it[n - 1], s)
  <2>1. n - 1 \in 0..L  BY <1>1
  <2>2. it[n - 1] \in Space
    <3> HIDE DEF Space, L
    <3> QED  BY <2>1
  <2> HIDE DEF L
  <2>3. it[n] = step[<<n, it[n - 1]>>]  BY <1>4
  <2> DEFINE p == <<n, it[n - 1]>>
  <2>4. p \in (1..L) \X Space /\ p[2] = it[n - 1]
    <3> HIDE DEF Space
    <3> QED  BY <2>2
  <2>5. step[p] = [q \in SUBSET S |-> Unfolded(f, p[2], q)]
    <3> HIDE DEF p, Space
    <3> QED  BY <2>4
  <2> HIDE DEF p, step
  <2> QED  BY <2>3, <2>4, <2>5 DEF p
<1> DEFINE Stable(n) == \A s \in SUBSET S : Cardinality(s) < n => it[n][s] = it[n - 1][s]
           Bad == {n \in 1..L : ~Stable(n)}
<1>6. Bad = {}
  <2> SUFFICES ASSUME Bad # {} PROVE FALSE  OBVIOUS
  <2>1. PICK n \in Bad : \A m \in Bad : n <= m
    <3>1. Bad \subseteq Nat  OBVIOUS
    <3> HIDE DEF Bad
    <3> QED  BY <3>1, LeastNat
  <2>2. n \in 1..L /\ ~Stable(n)  OBVIOUS
  <2>3. PICK s \in SUBSET S : Cardinality(s) < n /\ it[n][s] # it[n - 1][s]  BY <2>2
  <2>4. IsFiniteSet(s) /\ Cardinality(s) \in Nat  BY FS_Subset, FS_CardinalityType
  <2>5. it[n][s] = Unfolded(f, it[n - 1], s)  BY <1>5, <2>2
  <2>6. CASE s = {}
    <3>1. it[n][s] = 0  BY <2>5, <2>6 DEF Unfolded
    <3>2. CASE n = 1
      <4>1. it[n - 1] = base  BY <1>4, <3>2
      <4> QED  BY <2>3, <3>1, <4>1
    <3>3. CASE n # 1
      <4>1. n - 1 \in 1..L  BY <1>1, <2>2, <3>3
      <4>2. it[n - 1][s] = Unfolded(f, it[(n - 1) - 1], s)  BY <1>5, <4>1
      <4> QED  BY <2>3, <2>6, <3>1, <4>2 DEF Unfolded
    <3> QED  BY <3>2, <3>3
  <2>7. CASE s # {}
    <3> DEFINE x == First(s)
    <3>1. x \in s  BY <2>7 DEF First
    <3>2. Cardinality(s \ {x}) = Cardinality(s) - 1  BY <2>4, <3>1, FS_RemoveElement
    <3>3. Cardinality(s \ {x}) \in Nat  BY <2>4, FS_RemoveElement, FS_CardinalityType, <3>1
    <3>4. n - 1 \in 1..L /\ ~(n <= n - 1) /\ Cardinality(s \ {x}) < n - 1
      BY <1>1, <2>2, <2>3, <2>4, <3>2, <3>3
    <3>5. Stable(n - 1)  BY <2>1, <3>4
    <3>6. it[n - 1][s \ {x}] = it[(n - 1) - 1][s \ {x}]
      <4>1. s \ {x} \in SUBSET S  OBVIOUS
      <4> HIDE DEF x
      <4> QED  BY <3>4, <3>5, <4>1
    <3>7. it[n - 1][s] = Unfolded(f, it[(n - 1) - 1], s)  BY <1>5, <3>4
    <3> QED  BY <2>3, <2>5, <2>7, <3>6, <3>7 DEF Unfolded
  <2> QED  BY <2>6, <2>7
<1> DEFINE g == it[L - 1]
<1>7. g \in Space
  <2>1. L - 1 \in 0..L  BY <1>1
  <2> HIDE DEF Space, L
  <2> QED  BY <2>1
<1>8. ASSUME NEW s \in SUBSET S
      PROVE  g[s] = Unfolded(f, g, s)
  <2>1. L \in 1..L  BY <1>1
  <2>2. Cardinality(s) < L  
    <3>1. Cardinality(s) <= Cardinality(S) /\ Cardinality(s) \in Nat  BY FS_Subset, FS_CardinalityType
    <3> QED  BY <1>1, <3>1
  <2> HIDE DEF L
  <2>3. it[L][s] = it[L - 1][s]  BY <1>6, <2>1, <2>2
  <2>4. it[L][s] = Unfolded(f, it[L - 1], s)  BY <1>5, <2>1
  <2> QED  BY <2>3, <2>4
<1> HIDE DEF g
<1>9. g \in Folds(f, S)  BY <1>7, <1>8 DEF Folds, Unfolds
<1> QED  BY <1>9

\* Two unfoldings agree where both are defined.
LEMMA FoldUnique ==
  ASSUME NEW S, IsFiniteSet(S), NEW f, NEW g, NEW h,
         Unfolds(f, g, S), Unfolds(f, h, S)
  PROVE  \A s \in SUBSET S : g[s] = h[s]
<1> DEFINE Bad == {s \in SUBSET S : g[s] # h[s]}
<1> SUFFICES ASSUME Bad # {} PROVE FALSE  OBVIOUS
<1>1. PICK s \in Bad : \A t \in Bad : Cardinality(s) <= Cardinality(t)
  <2>1. \A s \in Bad : IsFiniteSet(s)  BY FS_Subset
  <2> HIDE DEF Bad
  <2> QED  BY <2>1, SmallestSet
<1>2. s \in SUBSET S /\ g[s] # h[s]  OBVIOUS
<1>3. g[s] = Unfolded(f, g, s) /\ h[s] = Unfolded(f, h, s)  BY <1>2 DEF Unfolds
<1>4. s # {}  BY <1>2, <1>3 DEF Unfolded
<1> DEFINE x == First(s)
<1>5. x \in s  BY <1>4 DEF First
<1>6. IsFiniteSet(s)  BY <1>2, FS_Subset
<1>7. Cardinality(s \ {x}) = Cardinality(s) - 1 /\ Cardinality(s) \in Nat
  BY <1>5, <1>6, FS_RemoveElement, FS_CardinalityType
<1>8. ~(Cardinality(s) <= Cardinality(s \ {x}))  BY <1>7
<1>9. g[s \ {x}] = h[s \ {x}]
  <2>1. s \ {x} \in SUBSET S  BY <1>2
  <2> HIDE DEF x
  <2> QED  BY <1>1, <1>8, <2>1
<1> QED  BY <1>2, <1>3, <1>9 DEF Unfolded

LEMMA SumIsFold ==
  ASSUME NEW S, IsFiniteSet(S), NEW T, S \subseteq T, NEW f \in [T -> Int], NEW g \in Folds(f, S)
  PROVE  \A R \in SUBSET S : SumFunctionOnSet(f, R) = g[R]
<1> SUFFICES ASSUME NEW R \in SUBSET S PROVE SumFunctionOnSet(f, R) = g[R]  OBVIOUS
<1>1. IsFiniteSet(R) /\ R \subseteq T  BY FS_Subset
<1> DEFINE G == CHOOSE h : h = [s \in SUBSET R |-> Unfolded(f, h, s)]
<1>2. SumFunctionOnSet(f, R) = G[R]
  BY DEF SumFunctionOnSet, FoldFunctionOnSet, MapThenFoldSet, Unfolded, First
<1>3. PICK h \in [SUBSET R -> Int] : \A s \in SUBSET R : h[s] = Unfolded(f, h, s)
  <2>1. Folds(f, R) # {}  BY <1>1, FoldExists
  <2> QED  BY <2>1 DEF Folds, Unfolds
<1>4. h = [s \in SUBSET R |-> Unfolded(f, h, s)]  BY <1>3
<1>5. G = [s \in SUBSET R |-> Unfolded(f, G, s)]  BY <1>4
<1> HIDE DEF G
<1>6. Unfolds(f, G, R)  BY <1>5 DEF Unfolds
<1>7. Unfolds(f, g, R)  BY DEF Folds, Unfolds
<1>8. \A s \in SUBSET R : G[s] = g[s]  BY <1>1, <1>6, <1>7, FoldUnique
<1> QED  BY <1>2, <1>8

\* A sum is a number, and takes its elements in any order.
LEMMA SumStep ==
  ASSUME NEW S, IsFiniteSet(S), NEW T, S \subseteq T, NEW f \in [T -> Int]
  PROVE  /\ SumFunctionOnSet(f, {}) = 0
         /\ \A R \in SUBSET S : SumFunctionOnSet(f, R) \in Int
         /\ \A R \in SUBSET S : \A x \in R :
              SumFunctionOnSet(f, R) = f[x] + SumFunctionOnSet(f, R \ {x})
<1>1. PICK g \in Folds(f, S) : g \in [SUBSET S -> Int]
  <2>1. Folds(f, S) # {}  BY FoldExists
  <2> QED  BY <2>1 DEF Folds
<1>2. \A R \in SUBSET S : SumFunctionOnSet(f, R) = g[R]  BY <1>1, SumIsFold
<1>3. \A s \in SUBSET S : g[s] = Unfolded(f, g, s)  BY DEF Folds, Unfolds
<1>4. g[{}] = 0  BY <1>3 DEF Unfolded
<1> DEFINE Bad == {s \in SUBSET S : \E x \in s : g[s] # f[x] + g[s \ {x}]}
<1>5. Bad = {}
  <2> SUFFICES ASSUME Bad # {} PROVE FALSE  OBVIOUS
  <2>1. PICK s \in Bad : \A t \in Bad : Cardinality(s) <= Cardinality(t)
    <3>1. \A s \in Bad : IsFiniteSet(s)  BY FS_Subset
    <3> HIDE DEF Bad
    <3> QED  BY <3>1, SmallestSet
  <2>2. s \in SUBSET S /\ IsFiniteSet(s)  BY FS_Subset
  <2>3. PICK x \in s : g[s] # f[x] + g[s \ {x}]  OBVIOUS
  <2>4. PICK y \in s : g[s] = f[y] + g[s \ {y}]
    <3>1. First(s) \in s /\ s # {}  BY <2>3 DEF First
    <3>2. g[s] = f[First(s)] + g[s \ {First(s)}]  BY <1>3, <2>2, <3>1 DEF Unfolded
    <3> QED  BY <3>1, <3>2
  <2>5. x # y  BY <2>3, <2>4
  <2>6. ASSUME NEW z \in s
        PROVE  s \ {z} \in SUBSET S /\ s \ {z} \notin Bad
    <3>1. Cardinality(s \ {z}) = Cardinality(s) - 1 /\ Cardinality(s) \in Nat
      BY <2>2, FS_RemoveElement, FS_CardinalityType
    <3>2. ~(Cardinality(s) <= Cardinality(s \ {z}))  BY <3>1
    <3> QED  BY <2>1, <2>2, <3>2
  <2> DEFINE rest == (s \ {x}) \ {y}
  <2>7. g[s \ {y}] = f[x] + g[rest]
    <3>1. x \in s \ {y} /\ (s \ {y}) \ {x} = rest  BY <2>5
    <3> HIDE DEF rest
    <3>2. s \ {y} \in SUBSET S /\ s \ {y} \notin Bad  BY <2>6
    <3> QED  BY <3>1, <3>2
  <2>8. g[s \ {x}] = f[y] + g[rest]
    <3>1. y \in s \ {x}  BY <2>5
    <3>2. s \ {x} \in SUBSET S /\ s \ {x} \notin Bad  BY <2>6
    <3> QED  BY <3>1, <3>2
  <2>9. f[x] \in Int /\ f[y] \in Int /\ rest \in SUBSET S  BY <2>2
  <2> HIDE DEF rest
  <2>10. g[rest] \in Int  BY <1>1, <2>9
  <2> QED  BY <2>3, <2>4, <2>7, <2>8, <2>9, <2>10
<1>6. ASSUME NEW R \in SUBSET S, NEW x \in R
      PROVE  SumFunctionOnSet(f, R) = f[x] + SumFunctionOnSet(f, R \ {x})
  <2>1. R \ {x} \in SUBSET S /\ g[R] = f[x] + g[R \ {x}]  BY <1>5
  <2> QED  BY <1>2, <2>1
<1>7. {} \in SUBSET S  OBVIOUS
<1>8. \A R \in SUBSET S : g[R] \in Int  BY <1>1
<1> QED  BY <1>2, <1>4, <1>6, <1>7, <1>8

\* What is counted twice is left out of neither part.
LEMMA SumUnion ==
  ASSUME NEW A, NEW B, IsFiniteSet(A), IsFiniteSet(B), A \cap B = {},
         NEW T, A \subseteq T, B \subseteq T, NEW f \in [T -> Int]
  PROVE  SumFunctionOnSet(f, A \cup B) = SumFunctionOnSet(f, A) + SumFunctionOnSet(f, B)
<1> DEFINE S == A \cup B
           sum(s) == SumFunctionOnSet(f, s)
           Bad == {s \in SUBSET B : sum(A \cup s) # sum(A) + sum(s)}
<1>1. IsFiniteSet(S) /\ S \subseteq T  BY FS_Union
<1> HIDE DEF S
<1>2. /\ sum({}) = 0
      /\ \A R \in SUBSET S : sum(R) \in Int
      /\ \A R \in SUBSET S : \A x \in R : sum(R) = f[x] + sum(R \ {x})
  BY <1>1, SumStep
<1> HIDE DEF sum
<1>3. SUFFICES ASSUME Bad # {} PROVE FALSE
  BY DEF sum
<1>4. PICK s \in Bad : \A t \in Bad : Cardinality(s) <= Cardinality(t)
  <2>1. \A s \in Bad : IsFiniteSet(s)  BY FS_Subset
  <2> HIDE DEF Bad
  <2> QED  BY <1>3, <2>1, SmallestSet
<1>5. s \in SUBSET B /\ IsFiniteSet(s) /\ sum(A \cup s) # sum(A) + sum(s)  BY FS_Subset
<1>6. A \in SUBSET S /\ sum(A) \in Int  BY <1>2 DEF S
<1>7. s # {}
  <2> SUFFICES ASSUME s = {} PROVE FALSE  OBVIOUS
  <2>1. A \cup s = A  OBVIOUS
  <2> QED  BY <1>2, <1>5, <1>6, <2>1
<1>8. PICK x \in s : TRUE  BY <1>7
<1> DEFINE rest == s \ {x}
<1>9. (A \cup s) \ {x} = A \cup rest  BY <1>5
<1>10. /\ A \cup s \in SUBSET S /\ s \in SUBSET S /\ rest \in SUBSET S /\ rest \in SUBSET B
       /\ x \in A \cup s /\ f[x] \in Int
  BY <1>1, <1>5 DEF S
<1>11. rest \notin Bad
  <2>1. Cardinality(rest) = Cardinality(s) - 1 /\ Cardinality(s) \in Nat
    BY <1>5, FS_RemoveElement, FS_CardinalityType
  <2>2. ~(Cardinality(s) <= Cardinality(rest))  BY <2>1
  <2> HIDE DEF Bad, rest
  <2> QED  BY <1>4, <2>2
<1>12. sum(A \cup rest) = sum(A) + sum(rest)  BY <1>10, <1>11
<1>13. sum(A \cup s) = f[x] + sum(A \cup rest) /\ sum(s) = f[x] + sum(rest) /\ sum(rest) \in Int
  <2>1. sum(A \cup s) = f[x] + sum((A \cup s) \ {x})  BY <1>2, <1>10
  <2> QED  BY <1>2, <1>9, <1>10, <2>1
<1> QED  BY <1>5, <1>6, <1>10, <1>12, <1>13

\* A sum of numbers that are not negative grows with the set.
LEMMA SumGrows ==
  ASSUME NEW A, NEW B, IsFiniteSet(B), A \subseteq B,
         NEW T, B \subseteq T, NEW f \in [T -> Nat]
  PROVE  SumFunctionOnSet(f, A) <= SumFunctionOnSet(f, B)
<1> DEFINE sum(s) == SumFunctionOnSet(f, s)
           Bad == {s \in SUBSET B : ~(sum(s) >= 0)}
<1>1. f \in [T -> Int]  OBVIOUS
<1>2. /\ sum({}) = 0
      /\ \A R \in SUBSET B : sum(R) \in Int
      /\ \A R \in SUBSET B : \A x \in R : sum(R) = f[x] + sum(R \ {x})
  BY <1>1, SumStep
<1> HIDE DEF sum
<1>3. Bad = {}
  <2> SUFFICES ASSUME Bad # {} PROVE FALSE  OBVIOUS
  <2>1. PICK s \in Bad : \A t \in Bad : Cardinality(s) <= Cardinality(t)
    <3>1. \A s \in Bad : IsFiniteSet(s)  BY FS_Subset
    <3> HIDE DEF Bad
    <3> QED  BY <3>1, SmallestSet
  <2>2. s \in SUBSET B /\ IsFiniteSet(s) /\ ~(sum(s) >= 0)  BY FS_Subset
  <2>3. s # {}
    <3> SUFFICES ASSUME s = {} PROVE FALSE  OBVIOUS
    <3>1. sum(s) = 0  BY <1>2
    <3> QED  BY <2>2, <3>1
  <2>4. PICK x \in s : TRUE  BY <2>3
  <2> DEFINE rest == s \ {x}
  <2>5. rest \in SUBSET B /\ f[x] \in Nat  BY <2>2
  <2>6. rest \notin Bad
    <3>1. Cardinality(rest) = Cardinality(s) - 1 /\ Cardinality(s) \in Nat
      BY <2>2, FS_RemoveElement, FS_CardinalityType
    <3>2. ~(Cardinality(s) <= Cardinality(rest))  BY <3>1
    <3> HIDE DEF Bad, rest
    <3> QED  BY <2>1, <3>2
  <2>7. sum(rest) >= 0 /\ sum(rest) \in Int  BY <1>2, <2>5, <2>6
  <2>8. sum(s) = f[x] + sum(rest)  BY <1>2, <2>2
  <2> HIDE DEF rest
  <2> QED  BY <2>2, <2>5, <2>7, <2>8
<1>4. IsFiniteSet(A) /\ IsFiniteSet(B \ A)  BY FS_Subset
<1>5. A \cup (B \ A) = B /\ A \cap (B \ A) = {} /\ A \subseteq T /\ B \ A \subseteq T  OBVIOUS
<1>6. sum(A \cup (B \ A)) = sum(A) + sum(B \ A)
  BY <1>1, <1>4, <1>5, SumUnion DEF sum
<1>7. sum(B \ A) >= 0 /\ sum(B \ A) \in Int /\ sum(A) \in Int
  <2>1. B \ A \in SUBSET B /\ A \in SUBSET B  OBVIOUS
  <2> QED  BY <1>2, <1>3, <2>1
<1>8. sum(B) = sum(A) + sum(B \ A)
  <2> DEFINE rest == B \ A
  <2> HIDE DEF rest
  <2>1. A \cup rest = B /\ sum(A \cup rest) = sum(A) + sum(rest)  BY <1>5, <1>6 DEF rest
  <2>2. sum(B) = sum(A) + sum(rest)  BY <2>1
  <2> QED  BY <2>2 DEF rest
<1>9. sum(A) <= sum(B)  BY <1>7, <1>8
<1> QED  BY <1>9 DEF sum

\* The parts of a family that share nothing add up.
LEMMA SumOfParts ==
  ASSUME NEW I, IsFiniteSet(I), NEW T, IsFiniteSet(T), NEW f \in [T -> Int],
         NEW P \in [I -> SUBSET T],
         \A i, j \in I : i # j => P[i] \cap P[j] = {},
         NEW parts, parts = [i \in I |-> SumFunctionOnSet(f, P[i])]
  PROVE  /\ parts \in [I -> Int]
         /\ SumFunctionOnSet(parts, I) = SumFunctionOnSet(f, UNION {P[i] : i \in I})
<1> DEFINE sum(s) == SumFunctionOnSet(f, s)
           all(J) == SumFunctionOnSet(parts, J)
           Joined(J) == UNION {P[i] : i \in J}
           Bad == {J \in SUBSET I : all(J) # sum(Joined(J))}
<1>1. /\ sum({}) = 0
      /\ \A R \in SUBSET T : sum(R) \in Int
  BY SumStep
<1>2. parts \in [I -> Int]  BY <1>1
<1>3. /\ all({}) = 0
      /\ \A J \in SUBSET I : \A i \in J : all(J) = parts[i] + all(J \ {i})
  BY <1>2, SumStep
<1> HIDE DEF sum, all
<1>4. Bad = {}
  <2> SUFFICES ASSUME Bad # {} PROVE FALSE  OBVIOUS
  <2>1. PICK J \in Bad : \A K \in Bad : Cardinality(J) <= Cardinality(K)
    <3>1. \A J \in Bad : IsFiniteSet(J)  BY FS_Subset
    <3> HIDE DEF Bad
    <3> QED  BY <3>1, SmallestSet
  <2>2. J \in SUBSET I /\ IsFiniteSet(J) /\ all(J) # sum(Joined(J))  BY FS_Subset
  <2>3. J # {}
    <3> SUFFICES ASSUME J = {} PROVE FALSE  OBVIOUS
    <3>1. Joined(J) = {}  OBVIOUS
    <3> QED  BY <1>1, <1>3, <2>2, <3>1
  <2>4. PICK i \in J : TRUE  BY <2>3
  <2> DEFINE rest == J \ {i}
  <2>5. rest \in SUBSET I /\ i \in I  BY <2>2
  <2>6. rest \notin Bad
    <3>1. Cardinality(rest) = Cardinality(J) - 1 /\ Cardinality(J) \in Nat
      BY <2>2, FS_RemoveElement, FS_CardinalityType
    <3>2. ~(Cardinality(J) <= Cardinality(rest))  BY <3>1
    <3> HIDE DEF Bad, rest
    <3> QED  BY <2>1, <3>2
  <2>7. all(rest) = sum(Joined(rest))  BY <2>5, <2>6
  <2>8. all(J) = sum(P[i]) + all(rest)
    <3>1. all(J) = parts[i] + all(rest)  BY <1>3, <2>2
    <3>2. parts[i] = sum(P[i])  BY <2>5 DEF sum
    <3> QED  BY <3>1, <3>2
  <2>9. Joined(J) = P[i] \cup Joined(rest) /\ P[i] \cap Joined(rest) = {}
    <3>1. \A j \in rest : P[i] \cap P[j] = {}  BY <2>5
    <3> QED  BY <3>1
  <2>10. P[i] \subseteq T /\ Joined(rest) \subseteq T  BY <2>5
  <2>11. sum(P[i] \cup Joined(rest)) = sum(P[i]) + sum(Joined(rest))
    <3> DEFINE A == P[i]
               B == Joined(rest)
    <3>1. A \cap B = {} /\ A \subseteq T /\ B \subseteq T  BY <2>9, <2>10
    <3> HIDE DEF A, B
    <3>2. IsFiniteSet(A) /\ IsFiniteSet(B)  BY <3>1, FS_Subset
    <3>3. sum(A \cup B) = sum(A) + sum(B)  BY <3>1, <3>2, SumUnion DEF sum
    <3> QED  BY <3>3 DEF A, B
  <2> HIDE DEF Joined, rest
  <2> QED  BY <2>2, <2>7, <2>8, <2>9, <2>11
<1>5. all(I) = sum(Joined(I))  BY <1>4
<1> QED  BY <1>2, <1>5 DEF all, sum

\* Whole credits against fixed-point ones, summed.
LEMMA SumCompares ==
  ASSUME NEW I, IsFiniteSet(I), NEW w \in [I -> Int], NEW u \in [I -> Int]
  PROVE  /\ (\A i \in I : w[i] * 1000 <= u[i]) =>
              SumFunctionOnSet(w, I) * 1000 <= SumFunctionOnSet(u, I)
         /\ (\A i \in I : u[i] <= w[i] * 1000) =>
              SumFunctionOnSet(u, I) <= SumFunctionOnSet(w, I) * 1000
<1> DEFINE W(J) == SumFunctionOnSet(w, J)
           U(J) == SumFunctionOnSet(u, J)
<1>1. /\ W({}) = 0 /\ \A J \in SUBSET I : W(J) \in Int
      /\ \A J \in SUBSET I : \A i \in J : W(J) = w[i] + W(J \ {i})
  BY SumStep
<1>2. /\ U({}) = 0 /\ \A J \in SUBSET I : U(J) \in Int
      /\ \A J \in SUBSET I : \A i \in J : U(J) = u[i] + U(J \ {i})
  BY SumStep
<1> HIDE DEF W, U
<1> DEFINE Good(J) == /\ (\A i \in I : w[i] * 1000 <= u[i]) => W(J) * 1000 <= U(J)
                      /\ (\A i \in I : u[i] <= w[i] * 1000) => U(J) <= W(J) * 1000
           Bad == {J \in SUBSET I : ~Good(J)}
<1>3. Bad = {}
  <2> SUFFICES ASSUME Bad # {} PROVE FALSE  OBVIOUS
  <2>1. PICK J \in Bad : \A K \in Bad : Cardinality(J) <= Cardinality(K)
    <3>1. \A J \in Bad : IsFiniteSet(J)  BY FS_Subset
    <3> HIDE DEF Bad
    <3> QED  BY <3>1, SmallestSet
  <2>2. J \in SUBSET I /\ IsFiniteSet(J) /\ ~Good(J)  BY FS_Subset
  <2>3. J # {}
    <3> SUFFICES ASSUME J = {} PROVE FALSE  OBVIOUS
    <3>1. W(J) = 0 /\ U(J) = 0  BY <1>1, <1>2
    <3> QED  BY <2>2, <3>1
  <2>4. PICK i \in J : TRUE  BY <2>3
  <2> DEFINE rest == J \ {i}
  <2>5. rest \in SUBSET I /\ i \in I  BY <2>2
  <2>6. rest \notin Bad
    <3>1. Cardinality(rest) = Cardinality(J) - 1 /\ Cardinality(J) \in Nat
      BY <2>2, FS_RemoveElement, FS_CardinalityType
    <3>2. ~(Cardinality(J) <= Cardinality(rest))  BY <3>1
    <3> HIDE DEF Bad, rest
    <3> QED  BY <2>1, <3>2
  <2>7. Good(rest)  
    <3> HIDE DEF Good
    <3> QED  BY <2>5, <2>6
  <2>8. /\ W(J) = w[i] + W(rest) /\ U(J) = u[i] + U(rest)
        /\ W(rest) \in Int /\ U(rest) \in Int /\ w[i] \in Int /\ u[i] \in Int
    BY <1>1, <1>2, <2>2, <2>5
  <2> HIDE DEF rest
  <2> QED  BY <2>2, <2>5, <2>7, <2>8
<1>4. Good(I)
  <2> HIDE DEF Good
  <2> QED  BY <1>3
<1> QED  BY <1>4 DEF W, U

LEMMA SumAtMost ==
  ASSUME NEW I, IsFiniteSet(I), NEW w \in [I -> Int], NEW u \in [I -> Int],
         \A i \in I : u[i] <= w[i] * 1000
  PROVE  SumFunctionOnSet(u, I) <= SumFunctionOnSet(w, I) * 1000
<1>1. (\A i \in I : u[i] <= w[i] * 1000) =>
        SumFunctionOnSet(u, I) <= SumFunctionOnSet(w, I) * 1000
  BY SumCompares
<1> QED  BY <1>1

\* ---------------------------------------------------------------- requests

\* The courses of a valid request have different codes.
LEMMA CodesDiffer ==
  ASSUME NEW r \in Requests, InputValid(r),
         NEW i \in DOMAIN r.courses, NEW j \in DOMAIN r.courses,
         r.courses[i].code = r.courses[j].code
  PROVE  i = j
<1> DEFINE S == 1..Len(r.courses)
           f == [k \in S |-> r.courses[k].code]
<1>1. DOMAIN r.courses = S /\ Len(r.courses) \in Nat  BY PlannerAssumption
<1>2. f \in Surjection(S, Codes(r))  BY <1>1 DEF Surjection, Codes
<1>3. IsFiniteSet(S) /\ Cardinality(S) = Len(r.courses)
  BY <1>1, FS_Interval
<1>4. Cardinality(Codes(r)) = Cardinality(S)  BY <1>3 DEF InputValid
<1>5. f \in Injection(S, Codes(r))
  <2> HIDE DEF f, S
  <2> QED  BY <1>2, <1>3, <1>4, FS_Surjection
<1> QED  BY <1>1, <1>5 DEF Injection, IsInjective

\* A course is found under its code.
LEMMA CourseAt ==
  ASSUME NEW r \in Requests, InputValid(r), NEW i \in DOMAIN r.courses
  PROVE  Course(r, r.courses[i].code) = r.courses[i]
<1> DEFINE j == CHOOSE k \in DOMAIN r.courses : r.courses[k].code = r.courses[i].code
<1>1. j \in DOMAIN r.courses /\ r.courses[j].code = r.courses[i].code  OBVIOUS
<1>2. j = i
  <2> HIDE DEF j
  <2> QED  BY <1>1, CodesDiffer
<1> QED  BY <1>2 DEF Course

LEMMA TermsDiffer ==
  ASSUME NEW r \in Requests, InputValid(r),
         NEW i \in DOMAIN r.terms, NEW j \in DOMAIN r.terms,
         r.terms[i].index = r.terms[j].index
  PROVE  i = j
<1> DEFINE S == 1..Len(r.terms)
           f == [k \in S |-> r.terms[k].index]
<1>1. DOMAIN r.terms = S /\ Len(r.terms) \in Nat  BY PlannerAssumption
<1>2. f \in Surjection(S, Terms(r))  BY <1>1 DEF Surjection, Terms
<1>3. IsFiniteSet(S) /\ Cardinality(S) = Len(r.terms)
  BY <1>1, FS_Interval
<1>4. Cardinality(Terms(r)) = Cardinality(S)  BY <1>3 DEF InputValid
<1>5. f \in Injection(S, Terms(r))
  <2> HIDE DEF f, S
  <2> QED  BY <1>2, <1>3, <1>4, FS_Surjection
<1> QED  BY <1>1, <1>5 DEF Injection, IsInjective

LEMMA FiniteCodes ==
  ASSUME NEW r \in Requests
  PROVE  IsFiniteSet(Codes(r)) /\ Codes(r) \subseteq Nat
<1> DEFINE N == Len(r.courses)
           f == [k \in 1..N |-> r.courses[k].code]
<1>1. N \in Nat /\ DOMAIN r.courses = 1..N  BY PlannerAssumption
<1>2. f \in Surjection(1..N, Codes(r))  BY <1>1 DEF Surjection, Codes
<1>3. Codes(r) \subseteq Nat  BY PlannerAssumption DEF Codes
<1> HIDE DEF f, N
<1>4. IsFiniteSet(1..N)  BY <1>1, FS_Interval
<1> QED  BY <1>2, <1>3, <1>4, FS_Surjection

UnitsOf(r) == [c \in Codes(r) |-> Course(r, c).units]

LEMMA UnitsTyped ==
  ASSUME NEW r \in Requests
  PROVE  UnitsOf(r) \in [Codes(r) -> Int]
<1>1. ASSUME NEW c \in Codes(r)
      PROVE  Course(r, c).units \in Int
  <2>1. PICK i \in DOMAIN r.courses : Course(r, c) = r.courses[i]  BY DEF Codes, Course
  <2> QED  BY <2>1, PlannerAssumption
<1> QED  BY <1>1 DEF UnitsOf

\* No course has no credits.
LEMMA NoUnits ==
  ASSUME NEW r \in Requests
  PROVE  Units(r, {}) = 0
<1>1. Units(r, {}) = SumFunctionOnSet(UnitsOf(r), {})  BY DEF Units, UnitsOf
<1>2. SumFunctionOnSet(UnitsOf(r), {}) = 0  BY FiniteCodes, UnitsTyped, SumStep
<1> QED  BY <1>1, <1>2

\* ------------------------------------------- two readings of prerequisites

Nodes == Expressions \X BOOLEAN
Truths == [Nodes -> BOOLEAN]

\* The truth at a node, given that at the parts, for the leaves that hold, where
\* one part is enough for some kinds of nodes.
UnderCoreq(x) == x[2] \/ x[1].op = "corequisite"

Values(f, x) == {f[<<part, UnderCoreq(x)>>] : part \in Parts(x[1])}

ReadFrom(f, x, leaves, choices) ==
  \/ x \in leaves
  \/ x[1].op \in Compounds \ choices /\ FALSE \notin Values(f, x)
  \/ x[1].op \in choices /\ TRUE \in Values(f, x)

Follows(f, leaves, choices) == f = [x \in Nodes |-> ReadFrom(f, x, leaves, choices)]

LEMMA PartsOfNode ==
  ASSUME NEW x \in Nodes, NEW part \in Parts(x[1]), NEW coreq \in BOOLEAN
  PROVE  <<part, coreq>> \in Nodes /\ Depth(part) < Depth(x[1])
BY ExpressionsAssumption DEF Nodes

LEMMA ReadIsLocal ==
  ASSUME NEW x \in Nodes, NEW f \in Truths, NEW g \in Truths, NEW leaves, NEW choices,
         \A y \in Nodes : Depth(y[1]) < Depth(x[1]) => f[y] = g[y]
  PROVE  ReadFrom(f, x, leaves, choices) = ReadFrom(g, x, leaves, choices)
<1>1. UnderCoreq(x) \in BOOLEAN  BY DEF UnderCoreq
<1>2. \A part \in Parts(x[1]) : f[<<part, UnderCoreq(x)>>] = g[<<part, UnderCoreq(x)>>]
  <2> SUFFICES ASSUME NEW part \in Parts(x[1]) PROVE f[<<part, UnderCoreq(x)>>] = g[<<part, UnderCoreq(x)>>]
    OBVIOUS
  <2>1. PICK y : y = <<part, UnderCoreq(x)>>  OBVIOUS
  <2>2. y \in Nodes /\ y[1] = part /\ Depth(part) < Depth(x[1])  BY <1>1, <2>1, PartsOfNode
  <2> QED  BY <2>1, <2>2
<1>3. Values(f, x) = Values(g, x)  BY <1>2 DEF Values
<1> QED  BY <1>3 DEF ReadFrom

LEMMA ReadFollows ==
  ASSUME NEW leaves, NEW choices
  PROVE  \E f : Follows(f, leaves, choices)
<1> DEFINE depth == [x \in Nodes |-> Depth(x[1])]
           rule == [p \in Nodes \X Truths |-> ReadFrom(p[2], p[1], leaves, choices)]
<1>1. depth \in [Nodes -> Nat]  BY ExpressionsAssumption DEF Nodes
<1>2. ASSUME NEW x \in Nodes, NEW f \in Truths
      PROVE  rule[<<x, f>>] = ReadFrom(f, x, leaves, choices)
  <2>1. PICK p : p = <<x, f>>  OBVIOUS
  <2>2. p \in Nodes \X Truths /\ p[1] = x /\ p[2] = f  BY <2>1
  <2>3. rule[p] = ReadFrom(p[2], p[1], leaves, choices)  BY <2>2
  <2> HIDE DEF rule
  <2> QED  BY <2>1, <2>2, <2>3
<1>3. \A f, x : ReadFrom(f, x, leaves, choices) \in BOOLEAN  BY DEF ReadFrom
<1>4. rule \in [Nodes \X Truths -> BOOLEAN]  BY <1>3
<1>5. \A x \in Nodes : depth[x] = Depth(x[1])  OBVIOUS
<1> HIDE DEF rule, depth
<1>6. Local(Nodes, BOOLEAN, depth, rule)  BY <1>2, <1>5, ReadIsLocal DEF Local, Truths
<1>7. Followers(Nodes, BOOLEAN, rule) # {}  BY <1>1, <1>4, <1>6, RecursionExists DEF Truths
<1>8. PICK f \in Truths : \A x \in Nodes : f[x] = rule[<<x, f>>]  BY <1>7 DEF Followers, Truths
<1>9. f = [x \in Nodes |-> ReadFrom(f, x, leaves, choices)]  BY <1>2, <1>8 DEF Truths
<1> QED  BY <1>9 DEF Follows

LEMMA FollowsTyped ==
  ASSUME NEW f, NEW leaves, NEW choices, Follows(f, leaves, choices)
  PROVE  f \in Truths /\ \A x \in Nodes : f[x] = ReadFrom(f, x, leaves, choices)
<1>1. \A x \in Nodes : ReadFrom(f, x, leaves, choices) \in BOOLEAN  BY DEF ReadFrom
<1> QED  BY <1>1 DEF Follows, Truths

\* What holds still holds when more leaves do.
LEMMA FollowsGrows ==
  ASSUME NEW f, NEW g, NEW leaves, NEW more, NEW choices, leaves \subseteq more,
         Follows(f, leaves, choices), Follows(g, more, choices), NEW e \in Expressions
  PROVE  f[<<e, FALSE>>] => g[<<e, FALSE>>]
<1> DEFINE Good == {x \in Expressions : \A coreq \in BOOLEAN : f[<<x, coreq>>] => g[<<x, coreq>>]}
<1>1. /\ f \in Truths /\ \A x \in Nodes : f[x] = ReadFrom(f, x, leaves, choices)
      /\ g \in Truths /\ \A x \in Nodes : g[x] = ReadFrom(g, x, more, choices)
  BY FollowsTyped
<1>2. ASSUME NEW x \in Expressions, \A part \in Parts(x) : part \in Good
      PROVE  x \in Good
  <2> SUFFICES ASSUME NEW coreq \in BOOLEAN, f[<<x, coreq>>] PROVE g[<<x, coreq>>]  OBVIOUS
  <2>1. PICK node : node = <<x, coreq>>  OBVIOUS
  <2>2. node \in Nodes /\ node[1] = x /\ node[2] = coreq  BY <2>1 DEF Nodes
  <2>3. UnderCoreq(node) \in BOOLEAN  BY DEF UnderCoreq
  <2>4. \A part \in Parts(x) : f[<<part, UnderCoreq(node)>>] => g[<<part, UnderCoreq(node)>>]
    BY <1>2, <2>3
  <2>5. \A part \in Parts(x) : /\ f[<<part, UnderCoreq(node)>>] \in BOOLEAN
                               /\ g[<<part, UnderCoreq(node)>>] \in BOOLEAN
    <3> SUFFICES ASSUME NEW part \in Parts(x)
                 PROVE  /\ f[<<part, UnderCoreq(node)>>] \in BOOLEAN
                        /\ g[<<part, UnderCoreq(node)>>] \in BOOLEAN
      OBVIOUS
    <3>1. <<part, UnderCoreq(node)>> \in Nodes  BY <2>2, <2>3, PartsOfNode
    <3> QED  BY <1>1, <3>1 DEF Truths
  <2>6. ReadFrom(f, node, leaves, choices)  BY <1>1, <2>1, <2>2
  <2>7. ASSUME node \in leaves
        PROVE  ReadFrom(g, node, more, choices)
    BY <2>7 DEF ReadFrom
  <2>8. ASSUME node[1].op \in Compounds \ choices, FALSE \notin Values(f, node)
        PROVE  ReadFrom(g, node, more, choices)
    <3>1. \A part \in Parts(x) : f[<<part, UnderCoreq(node)>>] # FALSE  BY <2>2, <2>8 DEF Values
    <3>2. \A part \in Parts(x) : g[<<part, UnderCoreq(node)>>] # FALSE  BY <2>4, <2>5, <3>1
    <3>3. FALSE \notin Values(g, node)  BY <2>2, <3>2 DEF Values
    <3> QED  BY <2>8, <3>3 DEF ReadFrom
  <2>9. ASSUME node[1].op \in choices, TRUE \in Values(f, node)
        PROVE  ReadFrom(g, node, more, choices)
    <3>1. PICK part \in Parts(x) : f[<<part, UnderCoreq(node)>>] = TRUE  BY <2>2, <2>9 DEF Values
    <3>2. g[<<part, UnderCoreq(node)>>] = TRUE  BY <2>4, <2>5, <3>1
    <3>3. TRUE \in Values(g, node)  BY <2>2, <3>2 DEF Values
    <3> QED  BY <2>9, <3>3 DEF ReadFrom
  <2>10. ReadFrom(g, node, more, choices)
    <3>1. \/ node \in leaves
          \/ node[1].op \in Compounds \ choices /\ FALSE \notin Values(f, node)
          \/ node[1].op \in choices /\ TRUE \in Values(f, node)
      BY <2>6 DEF ReadFrom
    <3> QED  BY <2>7, <2>8, <2>9, <3>1
  <2>11. g[node]  BY <1>1, <2>2, <2>10
  <2> QED  BY <2>1, <2>11
<1> HIDE DEF Good
<1>3. Expressions \subseteq Good  BY <1>2, ExpressionInduction
<1>4. e \in Good  BY <1>3
<1> QED  BY <1>4 DEF Good

\* Whole credits, and their exact comparison.
EarnedWhole(r, a, t, n) == r.earned + Units(r, Before(r, a, t)) \div Unit >= n

EarnedExactly(r, a, t, n) ==
  r.earned * Unit + Units(r, Before(r, a, t) \ r.completed) >= n * Unit

\* The leaves that hold for the validator, and for the solver.
ValidLeaves(t, a, r) == {x \in Nodes : Met(x[1], UnderCoreq(x), t, a, r)}

LiteralLeaves(t, a, r) ==
  {x \in Nodes :
     \/ x[1].op = "course" /\ x[1].code \in r.completed
     \/ /\ x[1].op = "course" /\ x[1].code \in Codes(r) /\ a[x[1].code] > 0
        /\ Relation(a, x[1].code, t, UnderCoreq(x))
     \/ /\ x[1].op = "grade" /\ x[1].code \in r.completed
        /\ Points(r.grade) >= Points(x[1].grade)
     \/ x[1].op = "credits" /\ EarnedExactly(r, a, t, x[1].credits)
     \/ x[1].op \in Predicates /\ x[1].value \in r.verified}

\* The three recursions are of that shape.
LEMMA SatisfiedFollows ==
  ASSUME NEW e, NEW t, NEW a, NEW r
  PROVE  \E f : Follows(f, ValidLeaves(t, a, r), {"or"}) /\ Satisfied(e, t, a, r) = f[<<e, FALSE>>]
<1> DEFINE leaves == ValidLeaves(t, a, r)
           Body(f, x) ==
             LET node == x[1]
                 coreq == x[2] \/ node.op = "corequisite"
                 values == {f[<<part, coreq>>] : part \in Parts(node)}
             IN  \/ Met(node, coreq, t, a, r)
                 \/ node.op \in {"and", "corequisite"} /\ FALSE \notin values
                 \/ node.op = "or" /\ TRUE \in values
           holds == CHOOSE f : f = [x \in Expressions \X BOOLEAN |-> Body(f, x)]
<1>1. ASSUME NEW f, NEW x \in Nodes
      PROVE  Body(f, x) <=> ReadFrom(f, x, leaves, {"or"})
  <2>1. Compounds \ {"or"} = {"and", "corequisite"}  BY DEF Compounds
  <2>2. Body(f, x) <=>
          \/ Met(x[1], UnderCoreq(x), t, a, r)
          \/ x[1].op \in {"and", "corequisite"} /\ FALSE \notin Values(f, x)
          \/ x[1].op = "or" /\ TRUE \in Values(f, x)
    BY DEF Values, UnderCoreq
  <2> HIDE DEF Body
  <2> QED  BY <2>1, <2>2 DEF ReadFrom, ValidLeaves
<1>2. Satisfied(e, t, a, r) = holds[<<e, FALSE>>]  BY DEF Satisfied
<1>3. ASSUME NEW f
      PROVE  [x \in Expressions \X BOOLEAN |-> Body(f, x)]
               = [x \in Nodes |-> ReadFrom(f, x, leaves, {"or"})]
  <2>1. \A x \in Nodes : Body(f, x) \in BOOLEAN /\ ReadFrom(f, x, leaves, {"or"}) \in BOOLEAN
    BY DEF ReadFrom
  <2> HIDE DEF Body, leaves
  <2>2. \A x \in Nodes : Body(f, x) = ReadFrom(f, x, leaves, {"or"})  BY <1>1, <2>1
  <2> QED  BY <2>2 DEF Nodes
<1> HIDE DEF Body, leaves
<1>4. PICK f : Follows(f, leaves, {"or"})  BY ReadFollows
<1>5. f = [x \in Expressions \X BOOLEAN |-> Body(f, x)]  BY <1>3, <1>4 DEF Follows
<1>6. holds = [x \in Expressions \X BOOLEAN |-> Body(holds, x)]  BY <1>5
<1> HIDE DEF holds
<1>7. Follows(holds, leaves, {"or"})  BY <1>3, <1>6 DEF Follows
<1> QED  BY <1>2, <1>7 DEF leaves

LEMMA UnobjectedFollows ==
  ASSUME NEW e, NEW t, NEW a, NEW r
  PROVE  \E f : Follows(f, ValidLeaves(t, a, r), {}) /\ Unobjected(e, t, a, r) = f[<<e, FALSE>>]
<1> DEFINE leaves == ValidLeaves(t, a, r)
           Body(f, x) ==
             LET node == x[1]
                 coreq == x[2] \/ node.op = "corequisite"
             IN  IF node.op \in Compounds
                 THEN FALSE \notin {f[<<part, coreq>>] : part \in Parts(node)}
                 ELSE Met(node, coreq, t, a, r)
           silent == CHOOSE f : f = [x \in Expressions \X BOOLEAN |-> Body(f, x)]
<1>1. ASSUME NEW f, NEW x \in Nodes
      PROVE  Body(f, x) <=> ReadFrom(f, x, leaves, {})
  <2>1. x[1].op \in Compounds => ~Met(x[1], UnderCoreq(x), t, a, r)
    BY DEF Compounds, Met, Predicates
  <2>2. Body(f, x) <=> IF x[1].op \in Compounds THEN FALSE \notin Values(f, x)
                       ELSE Met(x[1], UnderCoreq(x), t, a, r)
    BY DEF Values, UnderCoreq
  <2> HIDE DEF Body
  <2> QED  BY <2>1, <2>2 DEF ReadFrom, ValidLeaves
<1>2. Unobjected(e, t, a, r) = silent[<<e, FALSE>>]  BY DEF Unobjected
<1>3. ASSUME NEW f
      PROVE  [x \in Expressions \X BOOLEAN |-> Body(f, x)]
               = [x \in Nodes |-> ReadFrom(f, x, leaves, {})]
  <2>1. \A x \in Nodes : Body(f, x) \in BOOLEAN /\ ReadFrom(f, x, leaves, {}) \in BOOLEAN
    BY DEF ReadFrom, Met
  <2> HIDE DEF Body, leaves
  <2>2. \A x \in Nodes : Body(f, x) = ReadFrom(f, x, leaves, {})  BY <1>1, <2>1
  <2> QED  BY <2>2 DEF Nodes
<1> HIDE DEF Body, leaves
<1>4. PICK f : Follows(f, leaves, {})  BY ReadFollows
<1>5. f = [x \in Expressions \X BOOLEAN |-> Body(f, x)]  BY <1>3, <1>4 DEF Follows
<1>6. silent = [x \in Expressions \X BOOLEAN |-> Body(silent, x)]  BY <1>5
<1> HIDE DEF silent
<1>7. Follows(silent, leaves, {})  BY <1>3, <1>6 DEF Follows
<1> QED  BY <1>2, <1>7 DEF leaves

LEMMA LiteralFollows ==
  ASSUME NEW e, NEW t, NEW a, NEW r
  PROVE  \E f : Follows(f, LiteralLeaves(t, a, r), {"or"}) /\ LiteralOf(e, t, a, r) = f[<<e, FALSE>>]
<1> DEFINE leaves == LiteralLeaves(t, a, r)
           Body(f, x) ==
             LET node == x[1]
                 coreq == x[2] \/ node.op = "corequisite"
                 values == {f[<<part, coreq>>] : part \in Parts(node)}
             IN  \/ node.op = "course" /\ node.code \in r.completed
                 \/ /\ node.op = "course" /\ node.code \in Codes(r) /\ a[node.code] > 0
                    /\ Relation(a, node.code, t, coreq)
                 \/ /\ node.op = "grade" /\ node.code \in r.completed
                    /\ Points(r.grade) >= Points(node.grade)
                 \/ /\ node.op = "credits"
                    /\ r.earned * Unit + Units(r, Before(r, a, t) \ r.completed)
                         >= node.credits * Unit
                 \/ node.op \in Predicates /\ node.value \in r.verified
                 \/ node.op \in {"and", "corequisite"} /\ FALSE \notin values
                 \/ node.op = "or" /\ TRUE \in values
           literal == CHOOSE f : f = [x \in Expressions \X BOOLEAN |-> Body(f, x)]
<1>1. ASSUME NEW f, NEW x \in Nodes
      PROVE  Body(f, x) <=> ReadFrom(f, x, leaves, {"or"})
  <2>1. Compounds \ {"or"} = {"and", "corequisite"}  BY DEF Compounds
  <2>2. Body(f, x) <=>
          \/ x[1].op = "course" /\ x[1].code \in r.completed
          \/ /\ x[1].op = "course" /\ x[1].code \in Codes(r) /\ a[x[1].code] > 0
             /\ Relation(a, x[1].code, t, UnderCoreq(x))
          \/ /\ x[1].op = "grade" /\ x[1].code \in r.completed
             /\ Points(r.grade) >= Points(x[1].grade)
          \/ x[1].op = "credits" /\ EarnedExactly(r, a, t, x[1].credits)
          \/ x[1].op \in Predicates /\ x[1].value \in r.verified
          \/ x[1].op \in {"and", "corequisite"} /\ FALSE \notin Values(f, x)
          \/ x[1].op = "or" /\ TRUE \in Values(f, x)
    BY DEF Values, UnderCoreq, EarnedExactly
  <2> HIDE DEF Body
  <2> QED  BY <2>1, <2>2 DEF ReadFrom, LiteralLeaves
<1>2. LiteralOf(e, t, a, r) = literal[<<e, FALSE>>]  BY DEF LiteralOf
<1>3. ASSUME NEW f
      PROVE  [x \in Expressions \X BOOLEAN |-> Body(f, x)]
               = [x \in Nodes |-> ReadFrom(f, x, leaves, {"or"})]
  <2>1. \A x \in Nodes : Body(f, x) \in BOOLEAN /\ ReadFrom(f, x, leaves, {"or"}) \in BOOLEAN
    BY DEF ReadFrom
  <2> HIDE DEF Body, leaves
  <2>2. \A x \in Nodes : Body(f, x) = ReadFrom(f, x, leaves, {"or"})  BY <1>1, <2>1
  <2> QED  BY <2>2 DEF Nodes
<1> HIDE DEF Body, leaves
<1>4. PICK f : Follows(f, leaves, {"or"})  BY ReadFollows
<1>5. f = [x \in Expressions \X BOOLEAN |-> Body(f, x)]  BY <1>3, <1>4 DEF Follows
<1>6. literal = [x \in Expressions \X BOOLEAN |-> Body(literal, x)]  BY <1>5
<1> HIDE DEF literal
<1>7. Follows(literal, leaves, {"or"})  BY <1>3, <1>6 DEF Follows
<1> QED  BY <1>2, <1>7 DEF leaves

\* A leaf that holds for the solver holds for the validator: whole credits
\* against an exact comparison that leaves out completed courses, a course that
\* is taken against one with a term above 0.  Where no completed course is taken
\* again, the same leaves hold for both.
LEMMA LeavesCompare ==
  ASSUME NEW r \in Requests, NEW a \in [Codes(r) -> Nat], NEW t
  PROVE  /\ InputValid(r) => LiteralLeaves(t, a, r) \subseteq ValidLeaves(t, a, r)
         /\ Fresh(r, a) => ValidLeaves(t, a, r) = LiteralLeaves(t, a, r)
<1>1. /\ Before(r, a, t) \subseteq Codes(r)
      /\ Before(r, a, t) \ r.completed \subseteq Before(r, a, t)
      /\ Fresh(r, a) => Before(r, a, t) \ r.completed = Before(r, a, t)
  BY DEF Fresh, Before, Taken
<1> DEFINE all == Units(r, Before(r, a, t))
           new == Units(r, Before(r, a, t) \ r.completed)
<1>2. all \in Int /\ new \in Int
  <2>1. PICK S : S = Before(r, a, t)  OBVIOUS
  <2>2. PICK N : N = Before(r, a, t) \ r.completed  OBVIOUS
  <2>3. S \in SUBSET Codes(r) /\ N \in SUBSET Codes(r)  BY <1>1, <2>1, <2>2
  <2>4. SumFunctionOnSet(UnitsOf(r), S) \in Int /\ SumFunctionOnSet(UnitsOf(r), N) \in Int
    BY <2>3, FiniteCodes, UnitsTyped, SumStep
  <2> QED  BY <2>1, <2>2, <2>4 DEF Units, UnitsOf
<1>3. InputValid(r) => new <= all
  <2> SUFFICES ASSUME InputValid(r) PROVE new <= all  OBVIOUS
  <2>1. PICK S : S = Before(r, a, t)  OBVIOUS
  <2>2. PICK N : N = Before(r, a, t) \ r.completed  OBVIOUS
  <2>3. S \subseteq Codes(r) /\ N \subseteq S  BY <1>1, <2>1, <2>2
  <2>4. UnitsOf(r) \in [Codes(r) -> Nat]
    <3>1. ASSUME NEW c \in Codes(r)
          PROVE  UnitsOf(r)[c] \in Nat
      <4>1. UnitsOf(r)[c] = Course(r, c).units /\ UnitsOf(r)[c] \in Int  BY UnitsTyped DEF UnitsOf
      <4>2. Course(r, c).units > 0  BY DEF InputValid
      <4> QED  BY <4>1, <4>2
    <3> QED  BY <3>1 DEF UnitsOf
  <2>5. IsFiniteSet(S)  BY <2>3, FiniteCodes, FS_Subset
  <2>6. SumFunctionOnSet(UnitsOf(r), N) <= SumFunctionOnSet(UnitsOf(r), S)
    BY <2>3, <2>4, <2>5, SumGrows
  <2> QED  BY <2>1, <2>2, <2>6 DEF Units, UnitsOf
<1>4. \A c : c \in Taken(r, a) <=> c \in Codes(r) /\ a[c] > 0  BY DEF Taken
<1>5. ASSUME NEW x \in Nodes, x[1].op = "credits"
      PROVE  /\ Fresh(r, a) => (EarnedWhole(r, a, t, x[1].credits) <=> EarnedExactly(r, a, t, x[1].credits))
             /\ InputValid(r) /\ EarnedExactly(r, a, t, x[1].credits) => EarnedWhole(r, a, t, x[1].credits)
  <2>1. PICK u, v, n, k : u = all /\ v = new /\ n = x[1].credits /\ k = r.earned  OBVIOUS
  <2>2. u \in Int /\ v \in Int /\ n \in Int /\ k \in Int
    BY <1>2, <1>5, <2>1, ExpressionsAssumption, PlannerAssumption DEF Nodes
  <2>3. k + u \div 1000 >= n <=> k * 1000 + u >= n * 1000  BY <2>2
  <2>4. EarnedWhole(r, a, t, x[1].credits) <=> k + u \div 1000 >= n  BY <2>1 DEF EarnedWhole
  <2>5. EarnedExactly(r, a, t, x[1].credits) <=> k * 1000 + v >= n * 1000
    BY <2>1 DEF EarnedExactly
  <2>6. Fresh(r, a) => v = u  BY <1>1, <2>1
  <2>7. InputValid(r) /\ k * 1000 + v >= n * 1000 => k * 1000 + u >= n * 1000
    <3>1. InputValid(r) => v <= u  BY <1>3, <2>1
    <3> QED  BY <2>2, <3>1
  <2> QED  BY <2>3, <2>4, <2>5, <2>6, <2>7
<1> HIDE DEF all, new
<1>6. ASSUME NEW x \in Nodes, x[1].op = "course"
      PROVE  x \in ValidLeaves(t, a, r) <=> x \in LiteralLeaves(t, a, r)
  BY <1>4, <1>6 DEF ValidLeaves, Met, LiteralLeaves, Relation, Predicates
<1>7. ASSUME NEW x \in Nodes, x[1].op = "credits"
      PROVE  /\ x \in ValidLeaves(t, a, r) <=> EarnedWhole(r, a, t, x[1].credits)
             /\ x \in LiteralLeaves(t, a, r) <=> EarnedExactly(r, a, t, x[1].credits)
  BY <1>7 DEF ValidLeaves, Met, LiteralLeaves, Predicates, EarnedWhole
<1>8. ASSUME NEW x \in Nodes, x[1].op \notin {"course", "credits"}
      PROVE  x \in ValidLeaves(t, a, r) <=> x \in LiteralLeaves(t, a, r)
  BY <1>8 DEF ValidLeaves, Met, LiteralLeaves
<1>9. ValidLeaves(t, a, r) \subseteq Nodes /\ LiteralLeaves(t, a, r) \subseteq Nodes
  BY DEF ValidLeaves, LiteralLeaves
<1>10. ASSUME NEW x \in Nodes
       PROVE  /\ Fresh(r, a) => (x \in ValidLeaves(t, a, r) <=> x \in LiteralLeaves(t, a, r))
              /\ InputValid(r) /\ x \in LiteralLeaves(t, a, r) => x \in ValidLeaves(t, a, r)
  BY <1>5, <1>6, <1>7, <1>8
<1> QED  BY <1>9, <1>10

\* The two readings of a prerequisite are values of two functions.
TwoReadings(needs, t, a, r) ==
  \E f, g : /\ Follows(f, ValidLeaves(t, a, r), {"or"})
            /\ Satisfied(needs, t, a, r) = f[<<needs, FALSE>>]
            /\ Follows(g, LiteralLeaves(t, a, r), {"or"})
            /\ LiteralOf(needs, t, a, r) = g[<<needs, FALSE>>]

\* They are, for every prerequisite.
LEMMA ReadingsFollow ==
  ASSUME NEW needs, NEW t, NEW a, NEW r
  PROVE  TwoReadings(needs, t, a, r)
<1>1. PICK f : Follows(f, ValidLeaves(t, a, r), {"or"}) /\ Satisfied(needs, t, a, r) = f[<<needs, FALSE>>]
  BY SatisfiedFollows
<1>2. PICK g : Follows(g, LiteralLeaves(t, a, r), {"or"}) /\ LiteralOf(needs, t, a, r) = g[<<needs, FALSE>>]
  BY LiteralFollows
<1> QED  BY <1>1, <1>2 DEF TwoReadings

\* A prerequisite whose literal is true is satisfied, and the other way round
\* when no completed course is taken again.
LEMMA LiteralPrepares ==
  ASSUME NEW r \in Requests, NEW a \in [Codes(r) -> Nat], NEW t, NEW needs \in Expressions \cup {None}
  PROVE  /\ InputValid(r) /\ Literal(needs, t, a, r) => Prepared(needs, t, a, r)
         /\ Fresh(r, a) => (Literal(needs, t, a, r) <=> Prepared(needs, t, a, r))
<1>1. CASE needs = None  BY <1>1 DEF Literal, Prepared
<1>2. CASE needs \in Expressions /\ needs # None
  <2>0. TwoReadings(needs, t, a, r)  BY ReadingsFollow
  <2>1. PICK f, g : /\ Follows(f, ValidLeaves(t, a, r), {"or"})
                    /\ Satisfied(needs, t, a, r) = f[<<needs, FALSE>>]
                    /\ Follows(g, LiteralLeaves(t, a, r), {"or"})
                    /\ LiteralOf(needs, t, a, r) = g[<<needs, FALSE>>]
    BY <2>0 DEF TwoReadings
  <2>2. Follows(g, LiteralLeaves(t, a, r), {"or"}) /\ LiteralOf(needs, t, a, r) = g[<<needs, FALSE>>]
    BY <2>1
  <2>3. ASSUME InputValid(r)
        PROVE  g[<<needs, FALSE>>] => f[<<needs, FALSE>>]
    <3>1. LiteralLeaves(t, a, r) \subseteq ValidLeaves(t, a, r)  BY <2>3, LeavesCompare
    <3> QED  BY <1>2, <2>1, <2>2, <3>1, FollowsGrows
  <2>4. Fresh(r, a) => (g[<<needs, FALSE>>] <=> f[<<needs, FALSE>>])
    <3> SUFFICES ASSUME Fresh(r, a) PROVE g[<<needs, FALSE>>] <=> f[<<needs, FALSE>>]  OBVIOUS
    <3>1. /\ LiteralLeaves(t, a, r) \subseteq ValidLeaves(t, a, r)
          /\ ValidLeaves(t, a, r) \subseteq LiteralLeaves(t, a, r)
      BY LeavesCompare
    <3>2. g[<<needs, FALSE>>] => f[<<needs, FALSE>>]  BY <1>2, <2>1, <2>2, <3>1, FollowsGrows
    <3>3. f[<<needs, FALSE>>] => g[<<needs, FALSE>>]  BY <1>2, <2>1, <2>2, <3>1, FollowsGrows
    <3>4. f[<<needs, FALSE>>] \in BOOLEAN /\ g[<<needs, FALSE>>] \in BOOLEAN
      <4>1. <<needs, FALSE>> \in Nodes  BY <1>2 DEF Nodes
      <4> QED  BY <2>1, <2>2, <4>1, FollowsTyped DEF Truths
    <3> QED  BY <3>2, <3>3, <3>4
  <2>5. /\ Literal(needs, t, a, r) <=> g[<<needs, FALSE>>]
        /\ Prepared(needs, t, a, r) <=> f[<<needs, FALSE>>]
    BY <1>2, <2>1, <2>2 DEF Literal, Prepared
  <2> QED  BY <2>3, <2>4, <2>5
<1> QED  BY <1>1, <1>2

\* What is within the parts is within the whole.
LEMMA WithinParts ==
  ASSUME NEW e \in Expressions
  PROVE  e \in Within(e) /\ \A part \in Parts(e) : Within(part) \subseteq Within(e)
<1> DEFINE S == SUBSET Expressions
           Body(f, x) == {x} \cup UNION {f[part] : part \in Parts(x)}
           depth == [x \in Expressions |-> Depth(x)]
           rule == [p \in Expressions \X [Expressions -> S] |-> Body(p[2], p[1])]
           within == CHOOSE f : f = [x \in Expressions |-> Body(f, x)]
<1>1. depth \in [Expressions -> Nat]  BY ExpressionsAssumption
<1>2. ASSUME NEW x \in Expressions, NEW f \in [Expressions -> S]
      PROVE  rule[<<x, f>>] = Body(f, x)
  <2>1. PICK p : p = <<x, f>>  OBVIOUS
  <2>2. p \in Expressions \X [Expressions -> S] /\ p[1] = x /\ p[2] = f  BY <2>1
  <2>3. rule[p] = Body(p[2], p[1])  BY <2>2
  <2> HIDE DEF rule, Body
  <2> QED  BY <2>1, <2>2, <2>3
<1>3. ASSUME NEW x \in Expressions, NEW f \in [Expressions -> S]
      PROVE  Body(f, x) \in S
  <2>1. \A part \in Parts(x) : part \in Expressions  BY ExpressionsAssumption
  <2> QED  BY <2>1
<1>4. rule \in [Expressions \X [Expressions -> S] -> S]
  <2>1. \A p \in Expressions \X [Expressions -> S] : Body(p[2], p[1]) \in S  BY <1>3
  <2> HIDE DEF Body, S
  <2> QED  BY <2>1
<1>5. ASSUME NEW x \in Expressions, NEW f \in [Expressions -> S], NEW g \in [Expressions -> S],
             \A y \in Expressions : depth[y] < depth[x] => f[y] = g[y]
      PROVE  Body(f, x) = Body(g, x)
  <2>1. \A part \in Parts(x) : f[part] = g[part]
    <3> SUFFICES ASSUME NEW part \in Parts(x) PROVE f[part] = g[part]  OBVIOUS
    <3>1. part \in Expressions /\ Depth(part) < Depth(x)  BY ExpressionsAssumption
    <3> QED  BY <1>5, <3>1
  <2>2. {f[part] : part \in Parts(x)} = {g[part] : part \in Parts(x)}  BY <2>1
  <2> QED  BY <2>2
<1>6. {} \in S  OBVIOUS
<1>7. Within(e) = within[e] /\ \A part \in Parts(e) : Within(part) = within[part]  BY DEF Within
<1> HIDE DEF rule, depth, Body, S
<1>8. Local(Expressions, S, depth, rule)  BY <1>2, <1>5 DEF Local
<1>9. PICK f \in [Expressions -> S] : \A x \in Expressions : f[x] = rule[<<x, f>>]
  <2>1. Followers(Expressions, S, rule) # {}  BY <1>1, <1>4, <1>6, <1>8, RecursionExists
  <2> QED  BY <2>1 DEF Followers
<1>10. f = [x \in Expressions |-> Body(f, x)]  BY <1>2, <1>9
<1>11. within = [x \in Expressions |-> Body(within, x)]  BY <1>10
<1> HIDE DEF within
<1>12. within[e] = {e} \cup UNION {within[part] : part \in Parts(e)}  BY <1>11 DEF Body
<1> QED  BY <1>7, <1>12

\* Where every OR has an item, what gives no reason against it is satisfied.
LEMMA SilenceSatisfies ==
  ASSUME NEW leaves, NEW f, NEW g, Follows(f, leaves, {}), Follows(g, leaves, {"or"}),
         NEW e \in Expressions, ~HasEmptyChoice(e), f[<<e, FALSE>>]
  PROVE  g[<<e, FALSE>>]
<1> DEFINE Good == {x \in Expressions : \A coreq \in BOOLEAN :
                      ~HasEmptyChoice(x) /\ f[<<x, coreq>>] => g[<<x, coreq>>]}
<1>1. /\ f \in Truths /\ \A x \in Nodes : f[x] = ReadFrom(f, x, leaves, {})
      /\ g \in Truths /\ \A x \in Nodes : g[x] = ReadFrom(g, x, leaves, {"or"})
  BY FollowsTyped
<1>2. ASSUME NEW x \in Expressions, \A part \in Parts(x) : part \in Good
      PROVE  x \in Good
  <2> SUFFICES ASSUME NEW coreq \in BOOLEAN, ~HasEmptyChoice(x), f[<<x, coreq>>]
               PROVE  g[<<x, coreq>>]
    OBVIOUS
  <2>1. PICK node : node = <<x, coreq>>  OBVIOUS
  <2>2. node \in Nodes /\ node[1] = x /\ node[2] = coreq  BY <2>1 DEF Nodes
  <2>3. UnderCoreq(node) \in BOOLEAN  BY DEF UnderCoreq
  <2>4. \A part \in Parts(x) : ~HasEmptyChoice(part)  BY WithinParts DEF HasEmptyChoice
  <2>5. \A part \in Parts(x) : f[<<part, UnderCoreq(node)>>] => g[<<part, UnderCoreq(node)>>]
    BY <1>2, <2>3, <2>4
  <2>6. \A part \in Parts(x) : /\ f[<<part, UnderCoreq(node)>>] \in BOOLEAN
                               /\ g[<<part, UnderCoreq(node)>>] \in BOOLEAN
    <3> SUFFICES ASSUME NEW part \in Parts(x)
                 PROVE  /\ f[<<part, UnderCoreq(node)>>] \in BOOLEAN
                        /\ g[<<part, UnderCoreq(node)>>] \in BOOLEAN
      OBVIOUS
    <3>1. <<part, UnderCoreq(node)>> \in Nodes  BY <2>2, <2>3, PartsOfNode
    <3> QED  BY <1>1, <3>1 DEF Truths
  <2>7. ReadFrom(f, node, leaves, {})  BY <1>1, <2>1, <2>2
  <2>8. CASE node \notin leaves
    <3>1. x.op \in Compounds /\ FALSE \notin Values(f, node)  BY <2>2, <2>7, <2>8 DEF ReadFrom
    <3>2. \A part \in Parts(x) : g[<<part, UnderCoreq(node)>>] = TRUE
      BY <2>2, <2>5, <2>6, <3>1 DEF Values
    <3>3. x.op = "or" => Parts(x) # {}  BY WithinParts DEF HasEmptyChoice
    <3>4. FALSE \notin Values(g, node) /\ (x.op = "or" => TRUE \in Values(g, node))
      BY <2>2, <3>2, <3>3 DEF Values
    <3>5. ReadFrom(g, node, leaves, {"or"})  BY <2>2, <3>1, <3>4 DEF ReadFrom
    <3> QED  BY <1>1, <2>1, <2>2, <3>5
  <2>9. CASE node \in leaves
    <3>1. ReadFrom(g, node, leaves, {"or"})  BY <2>9 DEF ReadFrom
    <3> QED  BY <1>1, <2>1, <2>2, <3>1
  <2> QED  BY <2>8, <2>9
<1> HIDE DEF Good
<1>3. Expressions \subseteq Good  BY <1>2, ExpressionInduction
<1>4. e \in Good  BY <1>3
<1> QED  BY <1>4 DEF Good

\* The two readings of every prerequisite of a request agree.
LEMMA ReadAlike ==
  ASSUME NEW r \in Requests
  PROVE  ReadingsAgree(r)
<1> SUFFICES ASSUME NEW i \in DOMAIN r.courses, NEW a \in Assignments(r), Fresh(r, a), NEW t, NEW needs,
                    needs = r.courses[i].needs
             PROVE  /\ Literal(needs, t, a, r) => Evaluate(needs, t, a, r)
                    /\ Evaluate(needs, t, a, r) =>
                         Literal(needs, t, a, r) \/ (needs # None /\ HasEmptyChoice(needs))
  BY DEF ReadingsAgree
<1>1. needs \in Expressions \cup {None}  BY PlannerAssumption
<1>2. a \in [Codes(r) -> Nat]
  <2>1. Terms(r) \subseteq Nat  BY PlannerAssumption DEF Terms
  <2> QED  BY <2>1 DEF Assignments
<1>3. Literal(needs, t, a, r) <=> Prepared(needs, t, a, r)  BY <1>1, <1>2, LiteralPrepares
<1>4. CASE needs = None  BY <1>4 DEF Literal, Evaluate
<1>5. CASE needs \in Expressions /\ needs # None
  <2>1. PICK f : Follows(f, ValidLeaves(t, a, r), {}) /\ Unobjected(needs, t, a, r) = f[<<needs, FALSE>>]
    BY UnobjectedFollows
  <2>2. PICK g : Follows(g, ValidLeaves(t, a, r), {"or"}) /\ Satisfied(needs, t, a, r) = g[<<needs, FALSE>>]
    BY SatisfiedFollows
  <2>3. ~HasEmptyChoice(needs) /\ Unobjected(needs, t, a, r) => Satisfied(needs, t, a, r)
    BY <1>5, <2>1, <2>2, SilenceSatisfies
  <2> QED  BY <1>3, <1>5, <2>3 DEF Evaluate, Prepared
<1> QED  BY <1>1, <1>4, <1>5

\* ------------------------------------------------- constraints and contract

\* The validator rounds, the constraints do not see a co-requisite that is
\* listed later; together they are the contract.
LEMMA BothMakeLegal ==
  ASSUME NEW r \in Requests, NEW a \in Solutions(r), Feasible(r, a), Valid(r, a)
  PROVE  Legal(r, a)
<1>1. PICK flags \in SUBSET {f \in (DOMAIN r.groups) \X Taken(r, a) : f[2] \in r.groups[f[1]].codes} :
        Allocates(r, a, flags)
  BY DEF Feasible
<1> DEFINE counted == [i \in DOMAIN r.groups |-> {c \in Codes(r) : <<i, c>> \in flags}]
<1>2. counted \in [DOMAIN r.groups -> SUBSET Taken(r, a)]
  BY <1>1
<1>3. ASSUME NEW i \in DOMAIN r.groups
      PROVE  /\ counted[i] \subseteq r.groups[i].codes
             /\ Cardinality(counted[i]) >= r.groups[i].courses
             /\ Units(r, counted[i]) >= r.groups[i].credits * 1000
  <2>1. counted[i] \subseteq r.groups[i].codes  BY <1>1
  <2>2. CASE r.groups[i].codes \cap Codes(r) # {}
    BY <2>1, <2>2, <1>1 DEF Allocates
  <2>3. CASE r.groups[i].codes \cap Codes(r) = {}
    <3>1. counted[i] = {} /\ Selected(r, a, r.groups[i]) = {}
      BY <2>1, <2>3 DEF Selected, Taken
    <3>2. r.groups[i].courses \in Nat /\ r.groups[i].credits \in Nat
      BY PlannerAssumption
    <3>3. GroupValid(r, a, r.groups[i])  BY DEF Valid
    <3>4. Cardinality({}) >= r.groups[i].courses /\ Units(r, {}) \div 1000 >= r.groups[i].credits
      BY <3>1, <3>3 DEF GroupValid
    <3>5. Cardinality({}) = 0  BY FS_EmptySet
    <3>6. 0 >= r.groups[i].courses /\ 0 \div 1000 >= r.groups[i].credits
      BY <3>4, <3>5, NoUnits
    <3>7. r.groups[i].courses = 0 /\ r.groups[i].credits = 0  BY <3>2, <3>6
    <3>8. Cardinality(counted[i]) = 0 /\ Units(r, counted[i]) = 0  BY <3>1, <3>5, NoUnits
    <3> HIDE DEF counted
    <3> QED  BY <2>1, <3>7, <3>8
  <2> QED  BY <2>2, <2>3
<1>4. ASSUME NEW i \in DOMAIN r.groups, NEW j \in DOMAIN r.groups,
             i # j, counted[i] \cap counted[j] # {}
      PROVE  r.groups[i].double \/ r.groups[j].double
  <2>1. PICK c : c \in counted[i] /\ c \in counted[j]  BY <1>4
  <2>2. <<i, c>> \in flags /\ <<j, c>> \in flags /\ <<i, c>> # <<j, c>>  BY <2>1, <1>4
  <2> QED  BY <2>2, <1>1 DEF Allocates
<1>5. \A i \in DOMAIN r.terms : TermConstraints(r, a, r.terms[i])  BY DEF Feasible
<1>6. ASSUME NEW c \in Codes(r), a[c] # 0
      PROVE  Prepared(Course(r, c).needs, a[c], a, r)
  <2>1. PICK i \in DOMAIN r.courses : r.courses[i].code = c  BY DEF Codes
  <2>2. InputValid(r)  BY DEF Valid
  <2>3. Course(r, c) = r.courses[i]  BY <2>1, <2>2, CourseAt
  <2>4. Literal(r.courses[i].needs, a[c], a, r)
    BY <1>6, <2>1 DEF Feasible, CourseConstraints
  <2>5. a \in [Codes(r) -> Nat] /\ r.courses[i].needs \in Expressions \cup {None}
    BY PlannerAssumption DEF Solutions
  <2> QED  BY <2>2, <2>3, <2>4, <2>5, LiteralPrepares
<1> HIDE DEF counted
<1> QED  BY <1>2, <1>3, <1>4, <1>5, <1>6 DEF Legal, Valid, TermConstraints

\* No constraint excludes a legal plan that takes no completed course again.
LEMMA LegalIsFeasible ==
  ASSUME NEW r \in Requests, NEW a \in Solutions(r), Legal(r, a), Fresh(r, a)
  PROVE  Feasible(r, a)
<1>1. ASSUME NEW i \in DOMAIN r.courses
      PROVE  CourseConstraints(r, a, i)
  <2> DEFINE c == r.courses[i].code
  <2>1. c \in Codes(r)  BY DEF Codes
  <2>2. Course(r, c) = r.courses[i]  BY CourseAt DEF Legal
  <2>3. CourseValid(r, a, c)  BY <2>1 DEF Legal
  <2>4. a[c] # 0 => Literal(r.courses[i].needs, a[c], a, r)
    <3>1. a[c] # 0 => Prepared(r.courses[i].needs, a[c], a, r)  BY <2>1, <2>2 DEF Legal
    <3>2. a \in [Codes(r) -> Nat] /\ r.courses[i].needs \in Expressions \cup {None}
      BY PlannerAssumption DEF Solutions
    <3> QED  BY <3>1, <3>2, LiteralPrepares
  <2>5. Built(r, i) \subseteq Codes(r)  
    BY PlannerAssumption DEF Built, Codes
  <2> QED  BY <2>2, <2>3, <2>4, <2>5 DEF CourseConstraints, CourseValid
<1>2. PICK counted \in [DOMAIN r.groups -> SUBSET Taken(r, a)] :
        /\ \A i \in DOMAIN r.groups :
             /\ counted[i] \subseteq r.groups[i].codes
             /\ Cardinality(counted[i]) >= r.groups[i].courses
             /\ Units(r, counted[i]) >= r.groups[i].credits * 1000
        /\ \A i, j \in DOMAIN r.groups :
             i # j /\ counted[i] \cap counted[j] # {} => r.groups[i].double \/ r.groups[j].double
  BY DEF Legal
<1> DEFINE flags == {f \in (DOMAIN r.groups) \X Taken(r, a) : f[2] \in counted[f[1]]}
<1>3. flags \in SUBSET {f \in (DOMAIN r.groups) \X Taken(r, a) : f[2] \in r.groups[f[1]].codes}
  BY <1>2
<1>4. ASSUME NEW i \in DOMAIN r.groups
      PROVE  {c \in Codes(r) : <<i, c>> \in flags} = counted[i]
  BY <1>2 DEF Taken
<1>5. ASSUME NEW f \in flags, NEW g \in flags, f # g, f[2] = g[2]
      PROVE  r.groups[f[1]].double \/ r.groups[g[1]].double
  <2>1. f[1] \in DOMAIN r.groups /\ g[1] \in DOMAIN r.groups /\ f[1] # g[1]  BY <1>5
  <2>2. f[2] \in counted[f[1]] \cap counted[g[1]]  BY <1>5
  <2> QED  BY <1>2, <2>1, <2>2
<1>6. Allocates(r, a, flags)
  <2> DEFINE codes(i) == {c \in Codes(r) : <<i, c>> \in flags}
  <2>1. ASSUME NEW i \in DOMAIN r.groups
        PROVE  /\ Cardinality(codes(i)) >= r.groups[i].courses
               /\ Units(r, codes(i)) >= r.groups[i].credits * 1000
    <3>1. codes(i) = counted[i]  BY <1>4
    <3> HIDE DEF codes
    <3> QED  BY <1>2, <3>1
  <2> HIDE DEF flags
  <2> QED  BY <1>5, <2>1 DEF Allocates
<1>7. \A i \in DOMAIN r.terms : TermConstraints(r, a, r.terms[i])
  BY DEF Legal, TermConstraints
<1> HIDE DEF flags
<1> QED  BY <1>1, <1>3, <1>6, <1>7 DEF Feasible

\* ------------------------------------------------------------- enumeration

\* There are finitely many choices of terms.
LEMMA FinitelyManyChoices ==
  ASSUME NEW r \in Requests
  PROVE  IsFiniteSet(Product(r))
<1> DEFINE Offers == {Offered(r, c) : c \in Codes(r)}
           V == {0} \cup UNION Offers
           Pairs == Codes(r) \X V
           g == [a \in Product(r) |-> {p \in Pairs : a[p[1]] = p[2]}]
<1>1. IsFiniteSet(Codes(r))  BY FiniteCodes
<1>2. IsFiniteSet(Terms(r))
  <2> DEFINE N == Len(r.terms)
             f == [k \in 1..N |-> r.terms[k].index]
  <2>1. N \in Nat /\ DOMAIN r.terms = 1..N  BY PlannerAssumption
  <2>2. f \in Surjection(1..N, Terms(r))  BY <2>1 DEF Surjection, Terms
  <2> HIDE DEF f, N
  <2>3. IsFiniteSet(1..N)  BY <2>1, FS_Interval
  <2> QED  BY <2>2, <2>3, FS_Surjection
<1>3. \A S \in Offers : IsFiniteSet(S)
  <2> SUFFICES ASSUME NEW c \in Codes(r) PROVE IsFiniteSet(Offered(r, c))  OBVIOUS
  <2>1. PICK i \in DOMAIN r.courses : Course(r, c) = r.courses[i]  BY DEF Codes, Course
  <2>2. IsFiniteSet(Course(r, c).terms)  BY <2>1, PlannerAssumption
  <2> QED  BY <1>2, <2>2 DEF Offered
<1>4. IsFiniteSet(Offers)
  <2> DEFINE h == [c \in Codes(r) |-> Offered(r, c)]
  <2>1. h \in Surjection(Codes(r), Offers)  BY DEF Surjection
  <2> HIDE DEF h, Offers
  <2> QED  BY <1>1, <2>1, FS_Surjection
<1>5. IsFiniteSet(V)
  <2> HIDE DEF Offers
  <2>1. IsFiniteSet(UNION Offers)  BY <1>3, <1>4, FS_UNION
  <2>2. IsFiniteSet({0})  BY FS_Singleton
  <2> QED  BY <2>1, <2>2, FS_Union
<1>6. Product(r) \subseteq [Codes(r) -> V]  BY DEF Product
<1> HIDE DEF V
<1>7. IsFiniteSet(SUBSET Pairs)  BY <1>1, <1>5, FS_Product, FS_SUBSET
<1>8. ASSUME NEW a \in Product(r), NEW b \in Product(r), g[a] = g[b]
      PROVE  a = b
  <2>1. ASSUME NEW c \in Codes(r)
        PROVE  a[c] = b[c]
    <3>1. <<c, a[c]>> \in Pairs  BY <1>6
    <3>2. <<c, a[c]>> \in g[a]  BY <3>1
    <3>3. <<c, a[c]>> \in g[b]  BY <3>2, <1>8
    <3> QED  BY <3>3
  <2> QED  BY <1>6, <2>1
<1>9. g \in [Product(r) -> SUBSET Pairs]  OBVIOUS
<1>10. g \in Injection(Product(r), SUBSET Pairs)
  <2> HIDE DEF g
  <2> QED  BY <1>8, <1>9 DEF Injection, IsInjective
<1> HIDE DEF g, Pairs
<1> QED  BY <1>7, <1>10, FS_Injection

LEMMA ProductTyped ==
  ASSUME NEW r \in Requests
  PROVE  Product(r) \subseteq [Codes(r) -> Int]
<1>1. ASSUME NEW c \in Codes(r)
      PROVE  Offered(r, c) \subseteq Int
  <2>1. PICK i \in DOMAIN r.courses : Course(r, c) = r.courses[i]  BY DEF Codes, Course
  <2>2. Course(r, c).terms \subseteq Int  BY <2>1, PlannerAssumption
  <2>3. Terms(r) \subseteq Int  BY PlannerAssumption DEF Terms
  <2> QED  BY <2>2, <2>3 DEF Offered
<1> QED  BY <1>1 DEF Product

\* An enumeration that was not cut off looked at everything.
LEMMA NotCutOff ==
  ASSUME NEW r \in Requests, ~Truncated(r)
  PROVE  Checked(r) = Product(r)
<1>1. IsFiniteSet(Product(r))
  BY FinitelyManyChoices
<1>2. Cardinality(Product(r)) \in Nat  BY <1>1, FS_CardinalityType
<1>3. ASSUME NEW a \in Product(r)
      PROVE  Cardinality({b \in Product(r) : Earlier(r, b, a)}) < MaxAssignments
  <2> DEFINE E == {b \in Product(r) : Earlier(r, b, a)}
  <2>1. E \in SUBSET Product(r)  OBVIOUS
  <2> HIDE DEF E
  <2>2. IsFiniteSet(E) /\ Cardinality(E) <= Cardinality(Product(r))
    BY <1>1, <2>1, FS_Subset
  <2>3. Cardinality(E) \in Nat  BY <2>2, FS_CardinalityType
  <2>4. Cardinality(E) < MaxAssignments
    BY <1>2, <2>2, <2>3, PlannerAssumption DEF Truncated
  <2> QED  BY <2>4 DEF E
<1> QED  BY <1>3 DEF Checked

\* The validator accepts nothing the enumeration could not come to.
LEMMA ValidIsEnumerated ==
  ASSUME NEW r \in Requests, NEW a \in Assignments(r), Valid(r, a)
  PROVE  a \in Product(r)
<1>1. \A c \in Codes(r) : a[c] \in {0} \cup Offered(r, c)  BY DEF Valid, CourseValid
<1> QED  BY <1>1 DEF Assignments, Product

\* --------------------------------------------------------------- invariant

Plannings == {"new", "solving", "done", "failed"}
Statuses == {"optimal", "feasible", "infeasible", "unknown", "invalid_model"}
AnyPlan == [Codes(request) -> Int]
Answers == [status : Statuses, plan : AnyPlan \cup {NoPlan}]

\* While the search goes on, exactly the plans that were given are blocked.
PlannerInv ==
  /\ request \in Requests /\ native \in BOOLEAN /\ phase \in Plannings
  /\ results \in Seq(Answers)
  /\ phase = "new" => results = <<>> /\ blocked = {}
  /\ phase = "solving" => native /\ blocked = Given(Len(results) + 1)

\* What an answer has to be, when some plans were given before.
Right(answer, given) ==
  answer.status \in {"optimal", "feasible"} =>
    (Codes(request) # {} => Legal(request, answer.plan)) /\ answer.plan \notin given

Truthful(answer, given) ==
  LET others == {a \in Plans(request) \ given : a \in Solutions(request) /\ Fresh(request, a)}
  IN  /\ answer.status = "infeasible" => others = {}
      /\ answer.status = "optimal" =>
           \A a \in others : Objective(request, a) <= Objective(request, answer.plan)

LEMMA RightAnswers ==
  AnswersAreLegal <=> (native => \A i \in DOMAIN results : Right(results[i], Given(i)))
BY DEF AnswersAreLegal, Right, Answered

LEMMA TruthfulAnswers ==
  ClaimsAreTrue <=> (native => \A i \in DOMAIN results : Truthful(results[i], Given(i)))
BY DEF ClaimsAreTrue, Truthful

\* An answer more leaves the others, and what was given before each, as it was.
LEMMA OneMore ==
  ASSUME PlannerInv, NEW answer \in Answers, results' = Append(results, answer)
  PROVE  /\ Len(results) \in Nat
         /\ Len(results') = Len(results) + 1
         /\ DOMAIN results = 1..Len(results) /\ DOMAIN results' = 1..(Len(results) + 1)
         /\ \A i \in 1..Len(results) : results'[i] = results[i]
         /\ results'[Len(results) + 1] = answer
         /\ \A i \in 1..(Len(results) + 1) : Given(i)' = Given(i)
<1> DEFINE S == Answers
           N == Len(results)
<1>1. results \in Seq(S) /\ answer \in S  BY DEF PlannerInv
<1> HIDE DEF S
<1>2. /\ N \in Nat /\ Len(results') = N + 1
      /\ DOMAIN results = 1..N /\ DOMAIN results' = 1..(N + 1)
      /\ \A i \in 1..N : results'[i] = results[i]
      /\ results'[N + 1] = answer
  BY <1>1
<1> HIDE DEF N
<1>3. ASSUME NEW i \in 1..(N + 1)
      PROVE  Given(i)' = Given(i)
  <2>1. \A j \in 1..(i - 1) : results'[j] = results[j]  BY <1>2
  <2> QED  BY <2>1 DEF Given, Answered
<1> QED  BY <1>2, <1>3 DEF N

\* What is given before the answer after the next.
LEMMA GivenNext ==
  ASSUME PlannerInv, NEW answer \in Answers, results' = Append(results, answer),
         NEW m \in Nat, m = Len(results) + 1
  PROVE  Given(m + 1)' = Given(m) \cup (IF answer.status \in {"optimal", "feasible"}
                                        THEN {answer.plan} ELSE {})
<1>1. /\ Len(results) \in Nat
      /\ \A i \in 1..Len(results) : results'[i] = results[i]
      /\ results'[m] = answer
  BY OneMore
<1>2. 1..((m + 1) - 1) = (1..Len(results)) \cup {m} /\ 1..(m - 1) = 1..Len(results)
  BY <1>1
<1>3. Given(m + 1)' = {results'[j].plan : j \in {k \in 1..((m + 1) - 1) : results'[k].status \in {"optimal", "feasible"}}}
  BY DEF Given, Answered
<1>4. Given(m) = {results[j].plan : j \in {k \in 1..Len(results) : results[k].status \in {"optimal", "feasible"}}}
  BY <1>2 DEF Given, Answered
<1> QED  BY <1>1, <1>2, <1>3, <1>4

\* An answer that is right and truthful keeps the claims of all answers.
LEMMA ClaimsKept ==
  ASSUME PlannerInv, NEW answer \in Answers, results' = Append(results, answer),
         UNCHANGED <<request, native>>
  PROVE  /\ AnswersAreLegal /\ Right(answer, Given(Len(results) + 1)) => AnswersAreLegal'
         /\ ClaimsAreTrue /\ Truthful(answer, Given(Len(results) + 1)) => ClaimsAreTrue'
<1>1. /\ Len(results) \in Nat
      /\ DOMAIN results = 1..Len(results) /\ DOMAIN results' = 1..(Len(results) + 1)
      /\ \A i \in 1..Len(results) : results'[i] = results[i]
      /\ results'[Len(results) + 1] = answer
      /\ \A i \in 1..(Len(results) + 1) : Given(i)' = Given(i)
  BY OneMore
<1>2. DOMAIN results' = (1..Len(results)) \cup {Len(results) + 1}  BY <1>1
<1>3. ASSUME AnswersAreLegal, Right(answer, Given(Len(results) + 1))
      PROVE  AnswersAreLegal'
  <2>1. SUFFICES ASSUME native, NEW i \in DOMAIN results'
                 PROVE  Right(results'[i], Given(i))
    <3>1. ASSUME NEW i \in DOMAIN results', Right(results'[i], Given(i))
          PROVE  (Right(results[i], Given(i)))'
      <4>1. Given(i)' = Given(i)  BY <1>1
      <4> QED  BY <3>1, <4>1 DEF Right, Legal
    <3>2. AnswersAreLegal' <=> (native => \A i \in DOMAIN results : Right(results[i], Given(i)))'
      BY RightAnswers, PTL
    <3> QED  BY <3>1, <3>2
  <2>2. CASE i \in 1..Len(results)  BY <1>1, <1>3, <2>1, <2>2, RightAnswers
  <2>3. CASE i = Len(results) + 1  BY <1>1, <1>3, <2>3
  <2> QED  BY <1>2, <2>1, <2>2, <2>3
<1>4. ASSUME ClaimsAreTrue, Truthful(answer, Given(Len(results) + 1))
      PROVE  ClaimsAreTrue'
  <2>1. SUFFICES ASSUME native, NEW i \in DOMAIN results'
                 PROVE  Truthful(results'[i], Given(i))
    <3>1. ASSUME NEW i \in DOMAIN results', Truthful(results'[i], Given(i))
          PROVE  (Truthful(results[i], Given(i)))'
      <4>1. Given(i)' = Given(i)  BY <1>1
      <4>2. (Truthful(results[i], Given(i)))' <=> Truthful(results'[i], Given(i)')
        BY Zenon DEF Truthful, Fresh
      <4> QED  BY <3>1, <4>1, <4>2
    <3>2. ClaimsAreTrue' <=> (native => \A i \in DOMAIN results : Truthful(results[i], Given(i)))'
      BY TruthfulAnswers, PTL
    <3> QED  BY <3>1, <3>2
  <2>2. CASE i \in 1..Len(results)  BY <1>1, <1>4, <2>1, <2>2, TruthfulAnswers
  <2>3. CASE i = Len(results) + 1  BY <1>1, <1>4, <2>3
  <2> QED  BY <1>2, <2>1, <2>2, <2>3
<1> QED  BY <1>3, <1>4

\* What holds of an answer that is appended, and of the search when it goes on.
LEMMA AppendKeepsInv ==
  ASSUME PlannerInv, phase = "solving", NEW answer \in Answers, results' = Append(results, answer),
         UNCHANGED <<request, native>>, phase' \in {"done", "solving"},
         phase' = "solving" =>
           blocked' = blocked \cup (IF answer.status \in {"optimal", "feasible"}
                                    THEN {answer.plan} ELSE {})
  PROVE  PlannerInv'
<1>1. results \in Seq(Answers) /\ Answers' = Answers  BY DEF PlannerInv, Answers, AnyPlan, Codes
<1>2. results' \in Seq(Answers')
  <2> DEFINE S == Answers
  <2>1. results \in Seq(S) /\ answer \in S  BY <1>1
  <2> HIDE DEF S
  <2>2. results' \in Seq(S)  BY <2>1
  <2> QED  BY <1>1, <2>2 DEF S
<1>3. phase' = "solving" => blocked' = Given(Len(results) + 1)'
  <2>1. Len(results) \in Nat  BY OneMore
  <2>2. PICK m \in Nat : m = Len(results) + 1  BY <2>1
  <2>3. Len(results)' = m  BY <2>2, OneMore
  <2>4. Given(m + 1)' = Given(m) \cup (IF answer.status \in {"optimal", "feasible"}
                                       THEN {answer.plan} ELSE {})
    BY <2>2, GivenNext
  <2>5. Given(Len(results) + 1)' = Given(m + 1)'  BY <2>3, Zenon DEF Given
  <2>6. blocked = Given(m)  BY <2>2 DEF PlannerInv
  <2> QED  BY <2>4, <2>5, <2>6
<1>4. phase' # "new" /\ phase' \in Plannings  BY DEF Plannings
<1> QED  BY <1>2, <1>3, <1>4 DEF PlannerInv

\* What CP-SAT found and the validator saw.
LEMMA SolutionStep ==
  ASSUME PlannerInv, phase = "solving", AnswersAreLegal,
         NEW status \in {"optimal", "feasible"}, NEW a \in Open,
         status = "optimal" => \A b \in Open : Objective(request, b) <= Objective(request, a),
         Solution(status, a)
  PROVE  /\ PlannerInv' /\ AnswersAreLegal'
         /\ ClaimsAreTrue => ClaimsAreTrue'
<1>1. /\ request \in Requests /\ native /\ blocked = Given(Len(results) + 1)
  BY DEF PlannerInv
<1>2. a \in Solutions(request) /\ a \in AnyPlan /\ Feasible(request, a) /\ a \notin blocked
  BY PlannerAssumption DEF Open, Solutions, AnyPlan
<1>3. CASE Codes(request) = {} \/ Valid(request, a)
  <2> DEFINE answer == Result(status, a)
  <2>1. answer \in Answers  BY <1>2 DEF Result, Answers, Statuses
  <2>2. answer.status = status /\ answer.plan = a  BY DEF Result
  <2>3. /\ results' = Append(results, answer) /\ UNCHANGED <<request, native>>
        /\ phase' \in {"done", "solving"}
        /\ phase' = "solving" => blocked' = blocked \cup {a}
    BY <1>3 DEF Solution
  <2> HIDE DEF answer
  <2>4. PlannerInv'  BY <2>1, <2>2, <2>3, AppendKeepsInv
  <2>5. Right(answer, Given(Len(results) + 1))
    BY <1>1, <1>2, <1>3, <2>2, BothMakeLegal DEF Right
  <2>6. Truthful(answer, Given(Len(results) + 1))
    <3>1. ASSUME status = "optimal",
                 NEW b \in Plans(request) \ blocked, b \in Solutions(request), Fresh(request, b)
          PROVE  Objective(request, b) <= Objective(request, a)
      <4>1. b \in Open  BY <1>1, <3>1, LegalIsFeasible DEF Plans, Open
      <4> QED  BY <3>1, <4>1
    <3> QED  BY <1>1, <2>2, <3>1 DEF Truthful
  <2> QED  BY <2>1, <2>3, <2>4, <2>5, <2>6, ClaimsKept
<1>4. CASE ~(Codes(request) = {} \/ Valid(request, a))
  <2> DEFINE answer == Result("invalid_model", a)
  <2>1. answer \in Answers  BY <1>2 DEF Result, Answers, Statuses
  <2>2. answer.status = "invalid_model"  BY DEF Result
  <2>3. /\ results' = Append(results, answer) /\ UNCHANGED <<request, native>>
        /\ phase' = "done"
    BY <1>4 DEF Solution
  <2> HIDE DEF answer
  <2>4. PlannerInv'  BY <2>1, <2>3, AppendKeepsInv
  <2>5. Right(answer, Given(Len(results) + 1)) /\ Truthful(answer, Given(Len(results) + 1))
    BY <2>2 DEF Right, Truthful
  <2> QED  BY <2>1, <2>3, <2>4, <2>5, ClaimsKept
<1> QED  BY <1>3, <1>4

\* No solution, whether there is none or time ran out.
LEMMA NoSolutionStep ==
  ASSUME PlannerInv, AnswersAreLegal,
         NEW status \in {"infeasible", "unknown"}, status = "infeasible" => Open = {},
         NoSolution(status)
  PROVE  /\ PlannerInv' /\ AnswersAreLegal'
         /\ ClaimsAreTrue => ClaimsAreTrue'
<1>1. /\ request \in Requests /\ phase = "solving" /\ blocked = Given(Len(results) + 1)
  BY DEF PlannerInv, NoSolution
<1> DEFINE answer == Result(status, NoPlan)
<1>2. answer \in Answers  BY DEF Result, Answers, Statuses
<1>3. answer.status = status  BY DEF Result
<1>4. /\ results' = Append(results, answer) /\ UNCHANGED <<request, native, blocked>>
      /\ phase' \in {"done", "solving"}
  BY DEF NoSolution
<1> HIDE DEF answer
<1>5. PlannerInv'  BY <1>1, <1>2, <1>3, <1>4, AppendKeepsInv
<1>6. Right(answer, Given(Len(results) + 1))  BY <1>3 DEF Right
<1>7. Truthful(answer, Given(Len(results) + 1))
  <2>1. ASSUME status = "infeasible",
               NEW b \in Plans(request) \ blocked, b \in Solutions(request), Fresh(request, b)
        PROVE  FALSE
    <3>1. b \in Open  BY <1>1, <2>1, LegalIsFeasible DEF Plans, Open
    <3> QED  BY <2>1, <3>1
  <2> QED  BY <1>1, <1>3, <2>1 DEF Truthful
<1> QED  BY <1>2, <1>4, <1>5, <1>6, <1>7, ClaimsKept

\* Answers without a plan, and without a proof.
LEMMA NothingClaimed ==
  ASSUME PlannerInv, UNCHANGED <<request, native>>, phase' \in {"done", "failed"},
         results' = <<>> \/ \E answer \in Answers : results' = <<answer>> /\ answer.status = "invalid_model"
  PROVE  PlannerInv' /\ AnswersAreLegal' /\ ClaimsAreTrue'
<1>1. Answers' = Answers  BY DEF Answers, AnyPlan, Codes
<1>2. PlannerInv'
  <2>1. results' \in Seq(Answers)
    <3> DEFINE S == Answers
    <3>1. PICK s \in {<<>>} \cup {<<answer>> : answer \in S} : s = results'  OBVIOUS
    <3> HIDE DEF S
    <3>2. CASE s = <<>>
      <4>1. <<>> \in Seq(S)  OBVIOUS
      <4> QED  BY <3>1, <3>2, <4>1 DEF S
    <3>3. CASE \E answer \in S : s = <<answer>>
      <4>1. \A answer \in S : <<answer>> \in Seq(S)  OBVIOUS
      <4> QED  BY <3>1, <3>3, <4>1 DEF S
    <3> QED  BY <3>1, <3>2, <3>3
  <2> QED  BY <1>1, <2>1 DEF PlannerInv, Plannings
<1>3. \A i \in DOMAIN results' : results'[i].status = "invalid_model"  OBVIOUS
<1>4. AnswersAreLegal'  BY <1>3 DEF AnswersAreLegal, Answered
<1>5. ClaimsAreTrue'
  <2>1. ClaimsAreTrue' <=> (native => \A i \in DOMAIN results : Truthful(results[i], Given(i)))'
    BY TruthfulAnswers, PTL
  <2>2. ASSUME NEW i \in DOMAIN results'
        PROVE  (Truthful(results[i], Given(i)))'
    <3>1. results'[i].status # "infeasible" /\ results'[i].status # "optimal"  BY <1>3
    <3> QED  BY <3>1, Zenon DEF Truthful
  <2> QED  BY <2>1, <2>2
<1> QED  BY <1>2, <1>4, <1>5

\* ---------------------------------------------------------------- theorems

LEMMA PlannerInit ==
  Init => PlannerInv /\ AnswersAreLegal /\ ClaimsAreTrue /\ FallbackClaims
<1> SUFFICES ASSUME Init PROVE PlannerInv /\ AnswersAreLegal /\ ClaimsAreTrue /\ FallbackClaims
  OBVIOUS
<1>1. results = <<>> /\ phase = "new" /\ request \in Requests /\ native \in BOOLEAN /\ blocked = {}
  BY DEF Init
<1>2. results \in Seq(Answers)  BY <1>1
<1>3. PlannerInv  BY <1>1, <1>2 DEF PlannerInv, Plannings
<1>4. DOMAIN results = {}  BY <1>1
<1> QED  BY <1>1, <1>3, <1>4 DEF AnswersAreLegal, ClaimsAreTrue, FallbackClaims

\* The fallback: it says something only when it has looked at everything.
LEMMA FallbackStep ==
  ASSUME PlannerInv, Fallback
  PROVE  PlannerInv' /\ AnswersAreLegal' /\ ClaimsAreTrue' /\ FallbackClaims'
<1>1. request \in Requests /\ native = FALSE /\ native' = FALSE /\ request' = request /\ phase' = "done"
  BY DEF PlannerInv, Fallback
<1>2. PICK status \in {"optimal", "infeasible"}, plan \in AnyPlan \cup {NoPlan} :
        /\ results' = <<Result(IF Truncated(request) THEN "unknown" ELSE status, plan)>>
        /\ status = "optimal" => plan \in Accepted(request) /\ IsBest(request, plan)
        /\ status = "infeasible" => Accepted(request) = {}
  <2>1. CASE \E a \in Accepted(request) : IsBest(request, a)
               /\ results' = <<Result(IF Truncated(request) THEN "unknown" ELSE "optimal", a)>>
    <3>1. PICK a \in Accepted(request) :
            /\ IsBest(request, a)
            /\ results' = <<Result(IF Truncated(request) THEN "unknown" ELSE "optimal", a)>>
      BY <2>1
    <3>2. a \in AnyPlan
      <4>1. a \in Product(request)  BY DEF Accepted, Checked
      <4> QED  BY <1>1, <4>1, ProductTyped DEF AnyPlan
    <3> QED  BY <3>1, <3>2
  <2>2. CASE Accepted(request) = {}
               /\ results' = <<Result(IF Truncated(request) THEN "unknown" ELSE "infeasible", NoPlan)>>
    BY <2>2
  <2> QED  BY <2>1, <2>2 DEF Fallback
<1> DEFINE answer == Result(IF Truncated(request) THEN "unknown" ELSE status, plan)
<1>3. answer \in Answers /\ answer.plan = plan
      /\ answer.status = IF Truncated(request) THEN "unknown" ELSE status
  BY DEF Result, Answers, Statuses
<1>4. results' = <<answer>>  BY <1>2
<1> HIDE DEF answer
<1>5. Answers' = Answers  BY <1>1 DEF Answers, AnyPlan, Codes
<1>6. results' \in Seq(Answers)
  <2> DEFINE S == Answers
  <2>1. answer \in S  BY <1>3
  <2> HIDE DEF S
  <2>2. results' \in Seq(S)  BY <1>4, <2>1
  <2> QED  BY <2>2 DEF S
<1>7. PlannerInv'  BY <1>1, <1>5, <1>6 DEF PlannerInv, Plannings
<1>8. AnswersAreLegal' /\ ClaimsAreTrue'  BY <1>1 DEF AnswersAreLegal, ClaimsAreTrue
<1>9. results'[1] = answer  BY <1>4
<1>10. ASSUME answer.status # "unknown"
       PROVE  LET valid == {a \in Assignments(request) : Valid(request, a)}
              IN  IF answer.status = "infeasible" THEN valid = {}
                  ELSE /\ answer.plan \in valid
                       /\ \A a \in valid : OracleScore(request, a) <= OracleScore(request, answer.plan)
  <2> DEFINE valid == {a \in Assignments(request) : Valid(request, a)}
  <2>1. ~Truncated(request) /\ answer.status = status  BY <1>2, <1>3, <1>10
  <2>2. valid = Accepted(request)
    <3>1. \A a \in Product(request) : Valid(request, a) => a \in Assignments(request)
      <4>1. SUFFICES ASSUME NEW a \in Product(request), Valid(request, a)
                     PROVE  a \in Assignments(request)
        OBVIOUS
      <4>2. a \in [Codes(request) -> Int]  BY <1>1, ProductTyped
      <4>3. \A c \in Codes(request) : a[c] \in {0} \cup Terms(request)  BY <4>1 DEF Valid, CourseValid
      <4> QED  BY <4>2, <4>3 DEF Assignments
    <3>2. Accepted(request) = {a \in Product(request) : Valid(request, a)}
      BY <1>1, <2>1, NotCutOff DEF Accepted
    <3>3. \A a \in Assignments(request) : Valid(request, a) => a \in Product(request)
      BY <1>1, ValidIsEnumerated
    <3> QED  BY <3>1, <3>2, <3>3
  <2> HIDE DEF valid
  <2>3. CASE status = "infeasible"  BY <1>2, <2>1, <2>2, <2>3 DEF valid
  <2>4. CASE status = "optimal"
    <3>1. plan \in valid /\ \A a \in valid : OracleScore(request, a) <= OracleScore(request, plan)
      BY <1>2, <2>2, <2>4 DEF IsBest
    <3> QED  BY <1>3, <2>1, <2>4, <3>1 DEF valid
  <2> QED  BY <1>2, <2>3, <2>4
<1>11. FallbackClaims'  BY <1>1, <1>9, <1>10 DEF FallbackClaims
<1> QED  BY <1>7, <1>8, <1>11

LEMMA PlannerStep ==
  ASSUME PlannerInv, AnswersAreLegal, FallbackClaims, [Next]_vars
  PROVE  /\ PlannerInv' /\ AnswersAreLegal' /\ FallbackClaims'
         /\ ClaimsAreTrue => ClaimsAreTrue'
<1>1. ASSUME native, native' = native
      PROVE  FallbackClaims'
  BY <1>1 DEF FallbackClaims
<1>2. CASE Build
  <2>1. native /\ phase = "new" /\ results = <<>> /\ blocked = {} /\ UNCHANGED <<request, native, blocked>>
    BY <1>2 DEF Build, PlannerInv
  <2>2. CASE results' = results /\ phase' = "solving"
    <3>1. Answers' = Answers  BY <2>1 DEF Answers, AnyPlan, Codes
    <3>2. (Given(Len(results) + 1))' = {}  BY <2>1, <2>2 DEF Given, Answered
    <3>3. results' \in Seq(Answers)  BY <2>2 DEF PlannerInv
    <3>4. PlannerInv'  BY <2>1, <2>2, <3>1, <3>2, <3>3 DEF PlannerInv, Plannings
    <3>5. DOMAIN results' = {}  BY <2>1, <2>2
    <3>6. AnswersAreLegal' /\ ClaimsAreTrue'  BY <3>5 DEF AnswersAreLegal, ClaimsAreTrue
    <3> QED  BY <1>1, <2>1, <3>4, <3>6
  <2>3. CASE results' = results /\ phase' = "failed"
    BY <1>1, <2>1, <2>3, NothingClaimed
  <2>4. CASE results' = <<Result("invalid_model", NoPlan)>> /\ phase' = "done"
    <3>1. Result("invalid_model", NoPlan) \in Answers /\ Result("invalid_model", NoPlan).status = "invalid_model"
      BY DEF Result, Answers, Statuses
    <3> QED  BY <1>1, <2>1, <2>4, <3>1, NothingClaimed
  <2> QED  BY <1>2, <2>2, <2>3, <2>4 DEF Build
<1>3. CASE SolveOptimal \/ SolveFeasible
  <2>1. phase = "solving" /\ native  BY <1>3 DEF SolveOptimal, SolveFeasible, PlannerInv
  <2>2. PICK status \in {"optimal", "feasible"}, a \in Open :
          /\ status = "optimal" => \A b \in Open : Objective(request, b) <= Objective(request, a)
          /\ Solution(status, a)
    BY <1>3 DEF SolveOptimal, SolveFeasible
  <2>3. native' = native  BY <2>2 DEF Solution
  <2> QED  BY <1>1, <2>1, <2>2, <2>3, SolutionStep
<1>4. CASE BlockRefused
  <2>1. phase = "solving" /\ native /\ UNCHANGED <<request, native>> /\ phase' = "failed" /\ results' = <<>>
    BY <1>4 DEF BlockRefused, PlannerInv
  <2> QED  BY <1>1, <2>1, NothingClaimed
<1>5. CASE SolveInfeasible \/ SolveUnknown
  <2>1. PICK status \in {"infeasible", "unknown"} : (status = "infeasible" => Open = {}) /\ NoSolution(status)
    BY <1>5 DEF SolveInfeasible, SolveUnknown
  <2>2. native /\ native' = native  BY <2>1 DEF NoSolution, PlannerInv
  <2> QED  BY <1>1, <2>1, <2>2, NoSolutionStep
<1>6. CASE Fallback  BY <1>6, FallbackStep
<1>7. CASE UNCHANGED vars
  <2>1. UNCHANGED <<request, native, phase, blocked, results>>  BY <1>7 DEF vars
  <2>2. PlannerInv'  BY <2>1 DEF PlannerInv, Answers, AnyPlan, Codes, Given, Answered
  <2>3. AnswersAreLegal'  BY <2>1 DEF AnswersAreLegal, Answered, Given
  <2>4. ClaimsAreTrue => ClaimsAreTrue'  BY <2>1 DEF ClaimsAreTrue, Given, Answered
  <2>5. FallbackClaims'  BY <2>1 DEF FallbackClaims
  <2> QED  BY <2>2, <2>3, <2>4, <2>5
<1> QED  BY <1>2, <1>3, <1>4, <1>5, <1>6, <1>7 DEF Next

\* Every plan CP-SAT is said to have found keeps the whole contract and none is
\* offered twice, for every request and every reading of prerequisites
\* (solve() of planning/solver.py with validate_plan behind it).
THEOREM PlansAreLegal == Spec => []AnswersAreLegal
<1> DEFINE Inv == PlannerInv /\ AnswersAreLegal /\ FallbackClaims
<1>1. Init => Inv  BY PlannerInit
<1>2. Inv /\ [Next]_vars => Inv'
  BY PlannerStep
<1>3. Inv => AnswersAreLegal  OBVIOUS
<1> QED  BY <1>1, <1>2, <1>3, PTL DEF Spec

\* Where the enumeration stands in for CP-SAT, it claims no proof it does not
\* have, for every bound (planning/oracle.py).
THEOREM FallbackIsHonest == Spec => []FallbackClaims
<1> DEFINE Inv == PlannerInv /\ AnswersAreLegal /\ FallbackClaims
<1>1. Init => Inv  BY PlannerInit
<1>2. Inv /\ [Next]_vars => Inv'  BY PlannerStep
<1>3. Inv => FallbackClaims  OBVIOUS
<1> QED  BY <1>1, <1>2, <1>3, PTL DEF Spec

\* Where the literal _expr_bool builds for the solver is true, _evaluate of the
\* validator accepts, and the other way round unless the prerequisite has an OR
\* without items: at every depth, for plans that take no completed course again.
THEOREM ReadingsAreOne == Spec => []SameReading
<1> DEFINE Inv == PlannerInv /\ AnswersAreLegal /\ FallbackClaims
<1>1. Init => Inv  BY PlannerInit
<1>2. Inv /\ [Next]_vars => Inv'  BY PlannerStep
<1>3. Inv => SameReading  BY ReadAlike DEF SameReading, PlannerInv
<1> QED  BY <1>1, <1>2, <1>3, PTL DEF Spec

\* "infeasible" and "optimal" mean what they say (planning/solver.py): no legal
\* plan exists, or none that scores higher, among those that take no completed
\* course again and use no term whose index is above the number of terms.  The
\* solver decides by its own reading of prerequisites, so this rests on that
\* reading being the value of _evaluate.
THEOREM ClaimsAreProved == Spec => []ClaimsAreTrue
<1> DEFINE Inv == PlannerInv /\ AnswersAreLegal /\ FallbackClaims /\ ClaimsAreTrue
<1>1. Init => Inv  BY PlannerInit
<1>2. Inv /\ [Next]_vars => Inv'  BY PlannerStep
<1>3. Inv => ClaimsAreTrue  OBVIOUS
<1> QED  BY <1>1, <1>2, <1>3, PTL DEF Spec

\* --------------------------------------------------------------- precheck

\* The credits of the groups come from courses that are counted once, those
\* are among the courses taken, and these are spread over the terms.
LEMMA LegalFits ==
  ASSUME NEW r \in Requests, NEW a \in Assignments(r), Legal(r, a),
         \A i \in DOMAIN r.groups : ~r.groups[i].double
  PROVE  /\ ~CapacityExceeded(r)
         /\ \A i \in DOMAIN r.groups :
              LET eligible == r.groups[i].codes \cap Codes(r)
              IN  /\ Units(r, eligible) \div 1000 >= r.groups[i].credits
                  /\ Cardinality(eligible) >= r.groups[i].courses
<1> DEFINE C == Codes(r)
           G == DOMAIN r.groups
           T == DOMAIN r.terms
           f == UnitsOf(r)
           sum(S) == SumFunctionOnSet(f, S)
<1>1. IsFiniteSet(C) /\ IsFiniteSet(G) /\ IsFiniteSet(T)
  <2> DEFINE M == Len(r.groups)
             L == Len(r.terms)
  <2>1. M \in Nat /\ L \in Nat /\ G = 1..M /\ T = 1..L  BY PlannerAssumption
  <2> HIDE DEF M, L
  <2>2. IsFiniteSet(1..M) /\ IsFiniteSet(1..L)  BY <2>1, FS_Interval
  <2> QED  BY <2>1, <2>2, FiniteCodes
<1>2. f \in [C -> Nat]
  <2>1. ASSUME NEW c \in C
        PROVE  f[c] \in Nat
    <3>1. f[c] = Course(r, c).units /\ f[c] \in Int  BY UnitsTyped DEF UnitsOf
    <3>2. Course(r, c).units > 0  BY DEF Legal, InputValid
    <3> QED  BY <3>1, <3>2
  <2> QED  BY <2>1 DEF UnitsOf
<1>3. \A S : Units(r, S) = sum(S)  BY DEF Units, UnitsOf
<1>4. PICK counted \in [G -> SUBSET Taken(r, a)] :
        /\ \A i \in G : /\ counted[i] \subseteq r.groups[i].codes
                        /\ Cardinality(counted[i]) >= r.groups[i].courses
                        /\ Units(r, counted[i]) >= r.groups[i].credits * 1000
        /\ \A i, j \in G : i # j => counted[i] \cap counted[j] = {}
  BY DEF Legal
<1>5. Taken(r, a) \subseteq C /\ counted \in [G -> SUBSET C]  BY <1>4 DEF Taken
<1>6. \A S \in SUBSET C : sum(S) \in Int
  <2>1. f \in [C -> Int]  BY <1>2
  <2> HIDE DEF f, C
  <2> QED  BY <1>1, <2>1, SumStep
<1>7. \A A, B \in SUBSET C : A \subseteq B => sum(A) <= sum(B)
  <2> SUFFICES ASSUME NEW A \in SUBSET C, NEW B \in SUBSET C, A \subseteq B
               PROVE  sum(A) <= sum(B)
    OBVIOUS
  <2>1. IsFiniteSet(B)
    <3> HIDE DEF C
    <3> QED  BY <1>1, FS_Subset
  <2> HIDE DEF f, C
  <2> QED  BY <1>2, <2>1, SumGrows
<1> HIDE DEF C, G, T, f
<1>8. ASSUME NEW i \in G
      PROVE  LET eligible == r.groups[i].codes \cap C
             IN  /\ Units(r, eligible) \div 1000 >= r.groups[i].credits
                 /\ Cardinality(eligible) >= r.groups[i].courses
  <2> DEFINE eligible == r.groups[i].codes \cap C
             mine == counted[i]
  <2>1. mine \subseteq eligible /\ eligible \in SUBSET C /\ mine \in SUBSET C  BY <1>4, <1>5
  <2>2. r.groups[i].courses \in Nat /\ r.groups[i].credits \in Nat  BY PlannerAssumption DEF G
  <2>3. Cardinality(mine) >= r.groups[i].courses /\ sum(mine) >= r.groups[i].credits * 1000
    BY <1>3, <1>4
  <2> HIDE DEF eligible, mine, sum
  <2>4. IsFiniteSet(eligible)  BY <1>1, <2>1, FS_Subset
  <2>5. Cardinality(mine) <= Cardinality(eligible) /\ Cardinality(mine) \in Nat /\ Cardinality(eligible) \in Nat
    BY <2>1, <2>4, FS_Subset, FS_CardinalityType
  <2>6. sum(mine) <= sum(eligible) /\ sum(mine) \in Int /\ sum(eligible) \in Int
    BY <1>6, <1>7, <2>1
  <2>7. sum(eligible) \div 1000 >= r.groups[i].credits  BY <2>2, <2>3, <2>6
  <2>8. Units(r, eligible) \div 1000 >= r.groups[i].credits
        /\ Cardinality(eligible) >= r.groups[i].courses
    BY <1>3, <2>2, <2>3, <2>5, <2>7
  <2> QED  BY <2>8 DEF eligible
<1> DEFINE credits == [i \in G |-> r.groups[i].credits]
           most == [t \in T |-> r.terms[t].max]
           ofGroup == [i \in G |-> sum(counted[i])]
           inTerm == [t \in T |-> InTerm(r, a, r.terms[t].index)]
           ofTerm == [t \in T |-> sum(inTerm[t])]
           used == UNION {counted[i] : i \in G}
           spread == UNION {inTerm[t] : t \in T}
<1>9. credits \in [G -> Int] /\ most \in [T -> Int]
  BY PlannerAssumption DEF G, T
<1>10. ofGroup \in [G -> Int] /\ SumFunctionOnSet(ofGroup, G) = sum(used)
  <2>1. f \in [C -> Int]  BY <1>2
  <2>2. \A i, j \in G : i # j => counted[i] \cap counted[j] = {}  BY <1>4
  <2> QED  BY <1>1, <1>5, <2>1, <2>2, SumOfParts
<1>11. ofTerm \in [T -> Int] /\ SumFunctionOnSet(ofTerm, T) = sum(spread)
  <2>1. f \in [C -> Int]  BY <1>2
  <2>2. inTerm \in [T -> SUBSET C]  BY DEF InTerm, C
  <2>3. ASSUME NEW t \in T, NEW u \in T, t # u
        PROVE  inTerm[t] \cap inTerm[u] = {}
    <3>1. r.terms[t].index # r.terms[u].index  BY <2>3, TermsDiffer DEF Legal, T
    <3> QED  BY <3>1 DEF InTerm
  <2>4. PICK P \in [T -> SUBSET C] : P = inTerm  BY <2>2
  <2>5. PICK parts : parts = [t \in T |-> SumFunctionOnSet(f, P[t])]  OBVIOUS
  <2>6. \A t, u \in T : t # u => P[t] \cap P[u] = {}  BY <2>3, <2>4
  <2>7. parts \in [T -> Int] /\ SumFunctionOnSet(parts, T) = SumFunctionOnSet(f, UNION {P[t] : t \in T})
    BY <1>1, <2>1, <2>5, <2>6, SumOfParts
  <2>8. parts = ofTerm  BY <2>4, <2>5
  <2>9. UNION {P[t] : t \in T} = spread  BY <2>4
  <2> QED  BY <2>7, <2>8, <2>9
<1>12. sum(used) <= sum(spread) /\ sum(used) \in Int /\ sum(spread) \in Int
  <2>1. Taken(r, a) \subseteq spread
    <3>1. ASSUME NEW c \in Taken(r, a)
          PROVE  \E t \in T : c \in InTerm(r, a, r.terms[t].index)
      BY DEF Taken, InTerm, Assignments, Terms, T
    <3> QED  BY <3>1
  <2>2. used \subseteq Taken(r, a)  BY <1>4
  <2>3. spread \in SUBSET C  BY DEF InTerm, C
  <2>4. used \in SUBSET C /\ used \subseteq spread  BY <1>5, <2>1, <2>2
  <2> HIDE DEF used, spread, sum
  <2> QED  BY <1>6, <1>7, <2>3, <2>4
<1>13. \A i \in G : credits[i] * 1000 <= ofGroup[i]
  <2> SUFFICES ASSUME NEW i \in G PROVE credits[i] * 1000 <= ofGroup[i]  OBVIOUS
  <2>1. sum(counted[i]) >= r.groups[i].credits * 1000  BY <1>3, <1>4
  <2>2. sum(counted[i]) \in Int /\ r.groups[i].credits \in Nat
    BY <1>5, <1>6, PlannerAssumption DEF G
  <2> HIDE DEF sum
  <2> QED  BY <2>1, <2>2
<1>14. \A t \in T : ofTerm[t] <= most[t] * 1000
  <2> SUFFICES ASSUME NEW t \in T PROVE ofTerm[t] <= most[t] * 1000  OBVIOUS
  <2>1. Units(r, InTerm(r, a, r.terms[t].index)) <= r.terms[t].max * 1000  BY DEF Legal, T
  <2> QED  BY <1>3, <2>1
<1> HIDE DEF credits, most, ofGroup, ofTerm, used, spread, sum
<1>15. SumFunctionOnSet(credits, G) * 1000 <= SumFunctionOnSet(ofGroup, G)
  BY <1>1, <1>9, <1>10, <1>13, SumCompares
<1>16. SumFunctionOnSet(ofTerm, T) <= SumFunctionOnSet(most, T) * 1000
  <2>1. IsFiniteSet(T) /\ most \in [T -> Int] /\ ofTerm \in [T -> Int]  BY <1>1, <1>9, <1>11
  <2>2. SumFunctionOnSet(ofTerm, T) \in Int /\ SumFunctionOnSet(most, T) \in Int
    BY <2>1, SumStep
  <2> QED  BY <2>1, <2>2, <1>14, SumAtMost
<1>17. SumFunctionOnSet(credits, G) \in Int /\ SumFunctionOnSet(most, T) \in Int
  BY <1>1, <1>9, SumStep
<1>18. SumFunctionOnSet(credits, G) <= SumFunctionOnSet(most, T)
  BY <1>10, <1>11, <1>12, <1>15, <1>16, <1>17
<1>19. Required(r) = SumFunctionOnSet(credits, G) /\ Capacity(r) = SumFunctionOnSet(most, T)
  BY DEF Required, Capacity, SumFunction, credits, most, G, T
<1>20. ~CapacityExceeded(r)  BY <1>17, <1>18, <1>19 DEF CapacityExceeded
<1> QED  BY <1>8, <1>20 DEF C, G

\* A refusal that needs no search is never wrong, for every request: no legal
\* plan is lost to it unless groups may share courses (planning/prechecks.py).
THEOREM RefusalsAreRight == Spec => []PrecheckNeverWrong
<1>1. Init => request \in Requests  BY DEF Init
<1>2. request \in Requests /\ [Next]_vars => (request \in Requests)'
  BY DEF Next, vars, Build, SolveOptimal, SolveFeasible, Solution, BlockRefused, SolveInfeasible,
         SolveUnknown, NoSolution, Fallback
<1>3. request \in Requests => PrecheckNeverWrong
  <2> SUFFICES ASSUME request \in Requests, NEW a \in Assignments(request), Legal(request, a),
                      \A i \in DOMAIN request.groups : ~request.groups[i].double
               PROVE  ~PrecheckFails(request)
    BY DEF PrecheckNeverWrong, Plans
  <2>1. InputValid(request)  BY DEF Legal
  <2>2. ASSUME NEW c \in DOMAIN request.pinned \cap Codes(request)
        PROVE  request.pinned[c] \in Offered(request, c)
    <3>1. a[c] = request.pinned[c] /\ a[c] \in Terms(request)
      BY <2>1 DEF Legal, CourseValid, InputValid
    <3>2. a[c] # 0  BY <3>1, PlannerAssumption DEF Terms
    <3> QED  BY <3>1, <3>2 DEF Legal, CourseValid
  <2>3. /\ ~CapacityExceeded(request)
        /\ \A i \in DOMAIN request.groups :
             LET eligible == request.groups[i].codes \cap Codes(request)
             IN  /\ Units(request, eligible) \div 1000 >= request.groups[i].credits
                 /\ Cardinality(eligible) >= request.groups[i].courses
    BY LegalFits
  <2>4. ASSUME NEW i \in DOMAIN request.groups
        PROVE  LET eligible == request.groups[i].codes \cap Codes(request)
               IN  /\ ~(Units(request, eligible) \div 1000 < request.groups[i].credits)
                   /\ ~(Cardinality(eligible) < request.groups[i].courses)
    <3> DEFINE eligible == request.groups[i].codes \cap Codes(request)
               n == Cardinality(eligible)
               u == Units(request, eligible)
    <3>1. n \in Int
      <4>1. eligible \subseteq Codes(request)  OBVIOUS
      <4> HIDE DEF eligible
      <4> QED  BY <4>1, FiniteCodes, FS_Subset, FS_CardinalityType
    <3>2. u \in Int
      <4>1. eligible \in SUBSET Codes(request)  OBVIOUS
      <4> HIDE DEF eligible
      <4>2. SumFunctionOnSet(UnitsOf(request), eligible) \in Int
        BY <4>1, FiniteCodes, UnitsTyped, SumStep
      <4> QED  BY <4>2 DEF Units, UnitsOf
    <3>3. request.groups[i].credits \in Nat /\ request.groups[i].courses \in Nat
      BY PlannerAssumption
    <3>4. u \div 1000 >= request.groups[i].credits /\ n >= request.groups[i].courses  BY <2>3
    <3> HIDE DEF n, u
    <3>5. ~(u \div 1000 < request.groups[i].credits) /\ ~(n < request.groups[i].courses)
      BY <3>1, <3>2, <3>3, <3>4
    <3> QED  BY <3>5 DEF n, u
  <2> SUFFICES ASSUME PrecheckFails(request) PROVE FALSE  OBVIOUS
  <2>5. CASE \E c \in DOMAIN request.pinned \cap Codes(request) :
               request.pinned[c] \notin Offered(request, c)
    BY <2>2, <2>5
  <2>6. CASE \E i \in DOMAIN request.groups :
               LET eligible == request.groups[i].codes \cap Codes(request)
               IN  \/ Units(request, eligible) \div 1000 < request.groups[i].credits
                   \/ Cardinality(eligible) < request.groups[i].courses
    BY <2>4, <2>6
  <2> QED  BY <2>1, <2>3, <2>5, <2>6 DEF PrecheckFails
<1> QED  BY <1>1, <1>2, <1>3, PTL DEF Spec

\* ------------------------------------------------------------------ audit

LEMMA MaxZero ==
  ASSUME NEW n \in Int
  PROVE  Max({0, n}) = IF n > 0 THEN n ELSE 0
<1> DEFINE m == IF n > 0 THEN n ELSE 0
<1>1. m \in {0, n} /\ \A y \in {0, n} : m >= y  OBVIOUS
<1>2. \A x \in {0, n} : (\A y \in {0, n} : x >= y) => x = m  OBVIOUS
<1> HIDE DEF m
<1>3. (CHOOSE x \in {0, n} : \A y \in {0, n} : x >= y) = m  BY <1>1, <1>2
<1> QED  BY <1>3 DEF Max, m

\* sorted(S)[:n] has n elements, or all there are.
LEMMA LeastCardinality ==
  ASSUME NEW S, S \subseteq Nat, IsFiniteSet(S), NEW n \in Nat
  PROVE  /\ Least(S, n) \subseteq S /\ IsFiniteSet(Least(S, n))
         /\ Cardinality(Least(S, n)) = IF n < Cardinality(S) THEN n ELSE Cardinality(S)
<1> DEFINE Below(c) == {d \in S : d < c}
           C == Cardinality(S)
           rank == [c \in S |-> Cardinality(Below(c))]
<1>1. C \in Nat  BY FS_CardinalityType
<1>2. ASSUME NEW c \in S
      PROVE  IsFiniteSet(Below(c)) /\ rank[c] \in 0..(C - 1)
  <2>1. Below(c) \in SUBSET S /\ c \notin Below(c)
    <3>1. c \in Nat  OBVIOUS
    <3> QED  BY <3>1
  <2> DEFINE B == Below(c)
  <2>2. rank[c] = Cardinality(B)  OBVIOUS
  <2> HIDE DEF B, rank, C
  <2>3. IsFiniteSet(B) /\ Cardinality(B) <= C /\ (C = Cardinality(B) => S = B)
    BY <2>1, FS_Subset DEF B, C
  <2>4. Cardinality(B) \in Nat  BY <2>3, FS_CardinalityType
  <2>5. Cardinality(B) # C  BY <2>1, <2>3 DEF B
  <2>6. Cardinality(B) \in 0..(C - 1)  BY <1>1, <2>3, <2>4, <2>5
  <2> QED  BY <2>2, <2>3, <2>6 DEF B
<1>3. ASSUME NEW c \in S, NEW d \in S, c < d
      PROVE  rank[c] < rank[d]
  <2>1. Below(c) \cup {c} \in SUBSET Below(d) /\ c \notin Below(c)
    <3>1. c \in Nat /\ d \in Nat  OBVIOUS
    <3>2. ASSUME NEW e \in Below(c) PROVE e \in Below(d)
      <4>1. e \in S /\ e \in Nat /\ e < c  OBVIOUS
      <4>2. e < d  BY <1>3, <3>1, <4>1
      <4> QED  BY <4>1, <4>2
    <3>3. c \in Below(d)  BY <1>3
    <3>4. c \notin Below(c)  BY <3>1
    <3> QED  BY <3>2, <3>3, <3>4
  <2>2. IsFiniteSet(Below(c)) /\ IsFiniteSet(Below(d))  BY <1>2
  <2> DEFINE X == Below(c)
             Y == Below(d)
  <2>3. rank[c] = Cardinality(X) /\ rank[d] = Cardinality(Y)  OBVIOUS
  <2>4. X \cup {c} \in SUBSET Y /\ c \notin X /\ IsFiniteSet(X) /\ IsFiniteSet(Y)  BY <2>1, <2>2
  <2> HIDE DEF X, Y, rank
  <2>5. Cardinality(X \cup {c}) = Cardinality(X) + 1  BY <2>4, FS_AddElement
  <2>6. Cardinality(X \cup {c}) <= Cardinality(Y)  BY <2>4, FS_Subset
  <2>7. Cardinality(X) \in Nat /\ Cardinality(Y) \in Nat  BY <2>4, FS_CardinalityType
  <2> QED  BY <2>3, <2>5, <2>6, <2>7
<1>4. rank \in Injection(S, 0..(C - 1))
  <2>1. rank \in [S -> 0..(C - 1)]  BY <1>2
  <2>2. ASSUME NEW c \in S, NEW d \in S, rank[c] = rank[d] PROVE c = d
    <3>1. c \in Nat /\ d \in Nat /\ rank[c] \in Nat /\ rank[d] \in Nat  BY <1>2
    <3> HIDE DEF rank
    <3>2. ~(c < d) /\ ~(d < c)  BY <1>3, <2>2, <3>1
    <3> QED  BY <3>1, <3>2
  <2> HIDE DEF rank, C
  <2> QED  BY <2>1, <2>2 DEF Injection, IsInjective
<1>5. rank \in Surjection(S, 0..(C - 1))
  <2>1. IsFiniteSet(0..(C - 1)) /\ Cardinality(0..(C - 1)) = C
    <3> HIDE DEF C
    <3>1. C - 1 \in Int  BY <1>1
    <3> QED  BY <1>1, <3>1, FS_Interval
  <2>2. Cardinality(S) = C  OBVIOUS
  <2> HIDE DEF C, rank
  <2> QED  BY <1>4, <2>1, <2>2, FS_Injection
<1> DEFINE m == IF n < C THEN n ELSE C
           T == Least(S, n)
           low == [c \in T |-> rank[c]]
<1>6. T = {c \in S : rank[c] < n}  BY DEF Least
<1>7. m \in Nat /\ m <= C /\ m <= n  BY <1>1
<1>8. low \in Surjection(T, 0..(m - 1))
  <2>1. ASSUME NEW c \in T PROVE rank[c] \in 0..(m - 1)
    <3>1. rank[c] \in 0..(C - 1) /\ rank[c] < n  BY <1>2, <1>6
    <3> HIDE DEF rank, C, T
    <3> QED  BY <1>1, <3>1
  <2>2. ASSUME NEW k \in 0..(m - 1) PROVE \E c \in T : rank[c] = k
    <3>1. k \in 0..(C - 1) /\ k < n
      <4> HIDE DEF C
      <4> QED  BY <1>1
    <3>2. PICK c \in S : rank[c] = k
      <4> HIDE DEF rank, C
      <4> QED  BY <1>5, <3>1 DEF Surjection
    <3> QED  BY <1>6, <3>1, <3>2
  <2> HIDE DEF rank, T, m
  <2> QED  BY <2>1, <2>2 DEF Surjection
<1>9. low \in Injection(T, 0..(m - 1))
  <2>1. low \in [T -> 0..(m - 1)]  BY <1>8 DEF Surjection
  <2>2. ASSUME NEW c \in T, NEW d \in T, low[c] = low[d] PROVE c = d
    <3>1. c \in S /\ d \in S /\ rank[c] = rank[d]  BY <1>6, <2>2
    <3> HIDE DEF rank
    <3> QED  BY <1>4, <3>1 DEF Injection, IsInjective
  <2> HIDE DEF low, m, T
  <2> QED  BY <2>1, <2>2 DEF Injection, IsInjective
<1>10. T \subseteq S /\ IsFiniteSet(T)
  <2>1. T \in SUBSET S  BY <1>6
  <2> HIDE DEF T
  <2> QED  BY <2>1, FS_Subset
<1>11. Cardinality(T) = m
  <2> HIDE DEF T, low, m
  <2>1. IsFiniteSet(0..(m - 1)) /\ Cardinality(0..(m - 1)) = m
    <3>1. m - 1 \in Int /\ m \in Nat  BY <1>7
    <3>2. IsFiniteSet(0..(m - 1)) /\ Cardinality(0..(m - 1)) = IF 0 > m - 1 THEN 0 ELSE (m - 1) - 0 + 1
      BY <3>1, FS_Interval
    <3>3. (IF 0 > m - 1 THEN 0 ELSE (m - 1) - 0 + 1) = m  BY <3>1
    <3> QED  BY <3>2, <3>3
  <2> DEFINE I == 0..(m - 1)
  <2>2. IsFiniteSet(I) /\ low \in Surjection(T, I) /\ low \in Injection(T, I)  BY <1>8, <1>9, <2>1
  <2> HIDE DEF I
  <2>3. Cardinality(T) = Cardinality(I)  BY <2>2, FS_Injection
  <2> QED  BY <2>1, <2>3 DEF I
<1> QED  BY <1>10, <1>11

\* What a row takes is what earlier rows left.
LEMMA RowTakes ==
  ASSUME NEW group, NEW before, NEW completed, NEW proposed, NEW credit
  PROVE  LET row == Row(group, before, completed, proposed, credit)
         IN  /\ row.done \subseteq (completed \cap group.codes) \ before
             /\ row.planned \subseteq (proposed \cap group.codes) \ before
             /\ \/ row.allocated = before
                \/ row.allocated = before \cup row.done \cup row.planned
<1>1. \A S, n : Least(S, n) \subseteq S  BY DEF Least
<1> QED  BY <1>1 DEF Row, EligibleFor

LEMMA UnknownRow ==
  ASSUME NEW group, NEW before, NEW completed, NEW proposed, NEW credit, group.unknown
  PROVE  LET row == Row(group, before, completed, proposed, credit)
         IN  row.done = {} /\ row.planned = {}
BY DEF Row

LEMMA RowAllocates ==
  ASSUME NEW group, NEW before, NEW completed, NEW proposed, NEW credit, ~group.unknown, ~group.double
  PROVE  LET row == Row(group, before, completed, proposed, credit)
         IN  row.allocated = before \cup row.done \cup row.planned
BY DEF Row

LEMMA RowCounts ==
  ASSUME NEW group, NEW before, NEW completed, NEW proposed, NEW credit, ~group.unknown
  PROVE  LET row == Row(group, before, completed, proposed, credit)
         IN  /\ row.done = Least(EligibleFor(completed, group, before), group.courses)
             /\ row.planned = Least(EligibleFor(proposed, group, before),
                                    Max({0, group.courses - Cardinality(row.done)}))
             /\ row.missing_courses =
                  Max({0, group.courses - Cardinality(row.done) - Cardinality(row.planned)})
<1> DEFINE done == Least(EligibleFor(completed, group, before), group.courses)
           planned == Least(EligibleFor(proposed, group, before),
                            Max({0, group.courses - Cardinality(done)}))
           row == Row(group, before, completed, proposed, credit)
<1>1. /\ row.done = done /\ row.planned = planned
      /\ row.missing_courses = Max({0, group.courses - Cardinality(done) - Cardinality(planned)})
  BY DEF Row
<1> HIDE DEF row
<1> QED  BY <1>1 DEF row

\* What was allocated before each row, when the rows follow each other.
Allocations(groups, completed, proposed, credit, rows) ==
  {before \in [0..Len(groups) -> SUBSET (completed \cup proposed)] :
     /\ before[0] = {}
     /\ \A n \in 1..Len(groups) :
          before[n] = Row(groups[n], before[n - 1], completed, proposed, credit).allocated
     /\ rows = [n \in DOMAIN groups |-> Row(groups[n], before[n - 1], completed, proposed, credit)]}

LEMMA AuditRows ==
  ASSUME NEW groups, Len(groups) \in Nat, DOMAIN groups = 1..Len(groups),
         NEW completed, NEW proposed, NEW credit
  PROVE  Allocations(groups, completed, proposed, credit,
                     Audit(groups, completed, proposed, credit)) # {}
<1> DEFINE L == Len(groups)
           S == SUBSET (completed \cup proposed)
           Next1(n, b) == Row(groups[n], b, completed, proposed, credit)
           step == [p \in (1..L) \X S |-> Next1(p[1], p[2]).allocated]
<1>1. ASSUME NEW n \in 1..L, NEW b \in S
      PROVE  Next1(n, b).allocated \in S
  <2> DEFINE row == Next1(n, b)
  <2>1. /\ row.done \subseteq (completed \cap groups[n].codes) \ b
        /\ row.planned \subseteq (proposed \cap groups[n].codes) \ b
        /\ row.allocated = b \/ row.allocated = b \cup row.done \cup row.planned
    BY RowTakes
  <2> HIDE DEF row
  <2>2. row.allocated \in S  BY <2>1
  <2> QED  BY <2>2 DEF row
<1>2. step \in [(1..L) \X S -> S]
  <2> HIDE DEF Next1, S, L
  <2> QED  BY <1>1
<1>3. PICK before \in [0..L -> S] :
        before[0] = {} /\ \A n \in 1..L : before[n] = step[<<n, before[n - 1]>>]
  <2>1. {} \in S /\ L \in Nat  OBVIOUS
  <2> HIDE DEF S, L, step
  <2>2. Iterates(L, S, {}, step) # {}  BY <1>2, <2>1, IteratesExist
  <2> QED  BY <2>2 DEF Iterates
<1>4. ASSUME NEW n \in 1..L
      PROVE  before[n] = Next1(n, before[n - 1]).allocated
  <2>1. n - 1 \in 0..L  BY <1>4
  <2>2. before[n - 1] \in S
    <3> HIDE DEF S, L
    <3> QED  BY <1>3, <2>1
  <2> HIDE DEF Next1, S, L
  <2>3. <<n, before[n - 1]>> \in (1..L) \X S  BY <2>2
  <2>4. step[<<n, before[n - 1]>>] = Next1(n, before[n - 1]).allocated  BY <2>3
  <2> HIDE DEF step
  <2>5. before[n] = step[<<n, before[n - 1]>>]  BY <1>3
  <2> QED  BY <2>4, <2>5
<1> DEFINE rec(g) == [n \in 0..L |-> IF n = 0 THEN [allocated |-> {}] ELSE Next1(n, g[n - 1].allocated)]
           R == CHOOSE g : g = rec(g)
           G == [n \in 0..L |-> IF n = 0 THEN [allocated |-> {}] ELSE Next1(n, before[n - 1])]
<1>5. ASSUME NEW n \in 0..L
      PROVE  G[n].allocated = before[n]
  <2>1. CASE n = 0  BY <1>3, <2>1
  <2>2. CASE n # 0
    <3>1. n \in 1..L  BY <2>2
    <3> HIDE DEF Next1
    <3> QED  BY <1>4, <2>2, <3>1
  <2> QED  BY <2>1, <2>2
<1>6. G = rec(G)
  <2>1. ASSUME NEW n \in 0..L, n # 0 PROVE G[n - 1].allocated = before[n - 1]
    <3>1. n - 1 \in 0..L  BY <2>1
    <3> HIDE DEF G
    <3> QED  BY <1>5, <3>1
  <2> DEFINE H == G
  <2>2. \A n \in 0..L : n # 0 => H[n - 1].allocated = before[n - 1]  BY <2>1
  <2>3. H = [n \in 0..L |-> IF n = 0 THEN [allocated |-> {}] ELSE Next1(n, before[n - 1])]  OBVIOUS
  <2> HIDE DEF H, Next1
  <2>4. H = [n \in 0..L |-> IF n = 0 THEN [allocated |-> {}] ELSE Next1(n, H[n - 1].allocated)]
    BY <2>2, <2>3
  <2> QED  BY <2>4 DEF H
<1>7. R = rec(R)
  <2> HIDE DEF G, rec
  <2> QED  BY <1>6
<1>8. ASSUME NEW m \in 0..L, \A k \in 0..L : k < m => R[k] = G[k]
      PROVE  R[m] = G[m]
  <2>1. R[m] = IF m = 0 THEN [allocated |-> {}] ELSE Next1(m, R[m - 1].allocated)
    <3> HIDE DEF R, Next1
    <3> QED  BY <1>7
  <2>2. G[m] = IF m = 0 THEN [allocated |-> {}] ELSE Next1(m, before[m - 1])
    <3> HIDE DEF Next1
    <3> QED  OBVIOUS
  <2>3. CASE m = 0
    <3> HIDE DEF R, G, Next1
    <3> QED  BY <2>1, <2>2, <2>3
  <2>4. CASE m # 0
    <3>1. m - 1 \in 0..L /\ m - 1 < m  BY <2>4
    <3> HIDE DEF R, G, Next1
    <3>2. R[m - 1].allocated = before[m - 1]  BY <1>5, <1>8, <3>1
    <3> QED  BY <2>1, <2>2, <2>4, <3>2
  <2> QED  BY <2>3, <2>4
<1>9. ASSUME NEW n \in 0..L
      PROVE  R[n] = G[n]
  <2> SUFFICES ASSUME R[n] # G[n] PROVE FALSE  OBVIOUS
  <2> DEFINE Bad == {k \in 0..L : R[k] # G[k]}
  <2> HIDE DEF R, G
  <2>1. PICK m \in Bad : \A k \in Bad : m <= k
    <3>1. Bad \subseteq Nat /\ n \in Bad  OBVIOUS
    <3> HIDE DEF Bad
    <3> QED  BY <3>1, LeastNat
  <2>2. m \in 0..L /\ \A k \in 0..L : k < m => R[k] = G[k]  BY <2>1
  <2> QED  BY <1>8, <2>1, <2>2
<1>10. Audit(groups, completed, proposed, credit) = [n \in DOMAIN groups |-> R[n]]
  BY DEF Audit
<1>11. ASSUME NEW n \in 1..L
       PROVE  R[n] = Next1(n, before[n - 1])
  <2>1. n \in 0..L /\ n # 0  BY <1>11
  <2>2. G[n] = Next1(n, before[n - 1])
    <3> HIDE DEF Next1
    <3> QED  BY <2>1
  <2> HIDE DEF R, G, Next1
  <2> QED  BY <1>9, <2>1, <2>2
<1> HIDE DEF R, G, rec, step
<1>12. Audit(groups, completed, proposed, credit) = [n \in DOMAIN groups |-> Next1(n, before[n - 1])]
  BY <1>10, <1>11
<1>13. before \in Allocations(groups, completed, proposed, credit, Audit(groups, completed, proposed, credit))
  BY <1>3, <1>4, <1>12 DEF Allocations
<1> QED  BY <1>13

\* Whatever is asked, two rows share no course unless one of them may.
LEMMA RowsShareNothing ==
  ASSUME NEW groups, Len(groups) \in Nat, DOMAIN groups = 1..Len(groups),
         NEW completed, NEW proposed, NEW credit, NEW rows,
         rows = Audit(groups, completed, proposed, credit),
         NEW i \in DOMAIN groups, NEW j \in DOMAIN groups, i < j,
         ~groups[i].double
  PROVE  (rows[i].done \cup rows[i].planned) \cap (rows[j].done \cup rows[j].planned) = {}
<1> DEFINE L == Len(groups)
<1>1. PICK before \in [0..L -> SUBSET (completed \cup proposed)] :
        /\ before[0] = {}
        /\ \A n \in 1..L : before[n] = Row(groups[n], before[n - 1], completed, proposed, credit).allocated
        /\ rows = [n \in DOMAIN groups |-> Row(groups[n], before[n - 1], completed, proposed, credit)]
  <2>1. Allocations(groups, completed, proposed, credit, rows) # {}  BY AuditRows
  <2> QED  BY <2>1 DEF Allocations
<1>2. ASSUME NEW n \in 1..L
      PROVE  /\ rows[n] = Row(groups[n], before[n - 1], completed, proposed, credit)
             /\ before[n] = rows[n].allocated
  BY <1>1
<1>3. ASSUME NEW n \in 1..L
      PROVE  before[n - 1] \subseteq before[n]
  <2>1. before[n] = before[n - 1] \/ before[n] = before[n - 1] \cup rows[n].done \cup rows[n].planned
    BY <1>2, RowTakes
  <2> QED  BY <2>1
<1>4. ASSUME NEW m \in i..L
      PROVE  before[i] \subseteq before[m]
  <2> SUFFICES ASSUME ~(before[i] \subseteq before[m]) PROVE FALSE  OBVIOUS
  <2> DEFINE Bad == {k \in i..L : ~(before[i] \subseteq before[k])}
  <2>1. PICK k \in Bad : \A h \in Bad : k <= h
    <3>1. Bad \subseteq Nat /\ m \in Bad  OBVIOUS
    <3> HIDE DEF Bad
    <3> QED  BY <3>1, LeastNat
  <2>2. k \in i..L /\ ~(before[i] \subseteq before[k]) /\ k # i  OBVIOUS
  <2>3. k - 1 \in i..L /\ ~(k <= k - 1) /\ k \in 1..L  BY <2>2
  <2>4. before[i] \subseteq before[k - 1]  BY <2>1, <2>3
  <2>5. before[k - 1] \subseteq before[k]  BY <1>3, <2>3
  <2> QED  BY <2>2, <2>4, <2>5
<1>5. rows[i].done \cup rows[i].planned \subseteq before[i]
  <2>1. rows[i] = Row(groups[i], before[i - 1], completed, proposed, credit) /\ before[i] = rows[i].allocated
    BY <1>2
  <2>2. CASE groups[i].unknown
    <3>1. rows[i].done = {} /\ rows[i].planned = {}  BY <2>1, <2>2, UnknownRow
    <3> QED  BY <3>1
  <2>3. CASE ~groups[i].unknown
    <3>1. rows[i].allocated = before[i - 1] \cup rows[i].done \cup rows[i].planned
      BY <2>1, <2>3, RowAllocates
    <3> QED  BY <2>1, <3>1
  <2> QED  BY <2>2, <2>3
<1>6. (rows[j].done \cup rows[j].planned) \cap before[j - 1] = {}
  <2>1. rows[j] = Row(groups[j], before[j - 1], completed, proposed, credit)  BY <1>2
  <2> QED  BY <2>1, RowTakes
<1>7. j - 1 \in i..L  OBVIOUS
<1>8. before[i] \subseteq before[j - 1]  BY <1>4, <1>7
<1> QED  BY <1>5, <1>6, <1>8

\* The greedy allocation does not lose a course the validator counted.
LEMMA NothingMissing ==
  ASSUME NEW r \in Requests, NEW a, Valid(r, a), NEW credit, NEW rows,
         rows = Audit(r.groups, r.completed, Taken(r, a), credit),
         \A k \in DOMAIN r.groups : ~r.groups[k].double /\ ~r.groups[k].unknown,
         NEW i \in DOMAIN r.groups
  PROVE  rows[i].missing_courses = 0
<1> DEFINE L == Len(r.groups)
           proposed == Taken(r, a)
<1>1. L \in Nat /\ DOMAIN r.groups = 1..L  BY PlannerAssumption
<1>2. PICK before \in [0..L -> SUBSET (r.completed \cup proposed)] :
        /\ before[0] = {}
        /\ \A n \in 1..L : before[n] = Row(r.groups[n], before[n - 1], r.completed, proposed, credit).allocated
        /\ rows = [n \in DOMAIN r.groups |-> Row(r.groups[n], before[n - 1], r.completed, proposed, credit)]
  <2>1. Allocations(r.groups, r.completed, proposed, credit, rows) # {}  BY <1>1, AuditRows
  <2> QED  BY <2>1 DEF Allocations
<1>3. ASSUME NEW n \in 1..L
      PROVE  /\ rows[n] = Row(r.groups[n], before[n - 1], r.completed, proposed, credit)
             /\ before[n] = rows[n].allocated
  BY <1>1, <1>2
<1>4. ASSUME NEW n \in 1..L
      PROVE  before[n] \subseteq before[n - 1] \cup r.groups[n].codes
  BY <1>3, RowTakes
<1>5. ASSUME NEW m \in 0..L, NEW c \in before[m]
      PROVE  \E k \in 1..m : c \in r.groups[k].codes
  <2> SUFFICES ASSUME ~\E k \in 1..m : c \in r.groups[k].codes PROVE FALSE  OBVIOUS
  <2> DEFINE Bad == {k \in 0..L : c \in before[k] /\ ~\E h \in 1..k : c \in r.groups[h].codes}
  <2>1. PICK k \in Bad : \A h \in Bad : k <= h
    <3>1. Bad \subseteq Nat /\ m \in Bad  BY <1>1, <1>5
    <3> HIDE DEF Bad
    <3> QED  BY <3>1, LeastNat
  <2>2. k \in 1..L  BY <1>1, <1>2
  <2>3. c \notin r.groups[k].codes /\ c \in before[k]  BY <2>2
  <2>4. c \in before[k - 1]  BY <1>4, <2>2, <2>3
  <2>5. k - 1 \in 0..L /\ ~(k <= k - 1)  BY <2>2
  <2>6. PICK h \in 1..(k - 1) : c \in r.groups[h].codes  BY <2>1, <2>4, <2>5
  <2>7. h \in 1..k  BY <2>2
  <2> QED  BY <2>6, <2>7
<1> DEFINE g == r.groups[i]
           b == before[i - 1]
           row == rows[i]
           D == EligibleFor(r.completed, g, b)
           E == EligibleFor(proposed, g, b)
<1>6. i \in 1..L /\ i - 1 \in 0..L  BY <1>1
<1>7. E = Selected(r, a, g)
  <2>1. ASSUME NEW c \in Selected(r, a, g), c \in b PROVE FALSE
    <3>1. PICK k \in 1..(i - 1) : c \in r.groups[k].codes  BY <1>5, <1>6, <2>1
    <3>2. k \in DOMAIN r.groups /\ k # i  BY <1>1, <1>6
    <3>3. c \in Selected(r, a, r.groups[k]) /\ c \in Selected(r, a, r.groups[i])
      BY <2>1, <3>1 DEF Selected
    <3>4. Selected(r, a, r.groups[k]) \cap Selected(r, a, r.groups[i]) = {}
      BY <3>2 DEF Valid, AllocatedOnce
    <3> QED  BY <3>3, <3>4
  <2> QED  BY <2>1 DEF EligibleFor, Selected
<1>8. g.courses \in Nat /\ Cardinality(Selected(r, a, g)) >= g.courses
  BY PlannerAssumption DEF Valid, GroupValid
<1>9. D \subseteq Nat /\ IsFiniteSet(D)
  <2>1. r.completed \subseteq Nat /\ IsFiniteSet(r.completed)  BY PlannerAssumption
  <2>2. D \in SUBSET r.completed  BY DEF EligibleFor
  <2> HIDE DEF D
  <2> QED  BY <2>1, <2>2, FS_Subset
<1>10. E \subseteq Nat /\ IsFiniteSet(E)
  <2>1. Codes(r) \subseteq Nat /\ IsFiniteSet(Codes(r))  BY FiniteCodes
  <2>2. E \in SUBSET Codes(r)  BY DEF EligibleFor, Taken
  <2> HIDE DEF E
  <2> QED  BY <2>1, <2>2, FS_Subset
<1>11. /\ ~g.unknown
       /\ row = Row(g, b, r.completed, proposed, credit)
  BY <1>1, <1>3
<1> HIDE DEF row, b, g, proposed
<1>12. /\ row.done = Least(D, g.courses)
       /\ row.planned = Least(E, Max({0, g.courses - Cardinality(row.done)}))
       /\ row.missing_courses = Max({0, g.courses - Cardinality(row.done) - Cardinality(row.planned)})
  BY <1>11, RowCounts
<1> HIDE DEF D, E
<1>13. Cardinality(row.done) \in Nat /\ Cardinality(row.done) <= g.courses
  <2>1. Cardinality(D) \in Nat  BY <1>9, FS_CardinalityType
  <2>2. Cardinality(Least(D, g.courses)) = IF g.courses < Cardinality(D) THEN g.courses ELSE Cardinality(D)
    BY <1>8, <1>9, LeastCardinality
  <2> QED  BY <1>8, <1>12, <2>1, <2>2
<1> DEFINE n == g.courses - Cardinality(row.done)
<1>14. n \in Nat /\ n <= g.courses  BY <1>8, <1>13
<1>15. Max({0, n}) = n  BY <1>14, MaxZero
<1>16. Cardinality(row.planned) = n
  <2>1. Cardinality(E) \in Nat /\ Cardinality(E) >= g.courses  BY <1>7, <1>8, <1>10, FS_CardinalityType
  <2> HIDE DEF n
  <2>2. Cardinality(Least(E, n)) = IF n < Cardinality(E) THEN n ELSE Cardinality(E)
    BY <1>10, <1>14, LeastCardinality
  <2>3. row.planned = Least(E, n)  BY <1>12, <1>15 DEF n
  <2> QED  BY <1>8, <1>14, <2>1, <2>2, <2>3
<1>17. row.missing_courses = Max({0, n - n})  BY <1>12, <1>16
<1>18. n - n = 0 /\ 0 \in Int  BY <1>14
<1>19. Max({0, 0}) = 0  BY MaxZero
<1> QED  BY <1>17, <1>18, <1>19 DEF row

\* Every plan that was answered is one the validator let through, by CP-SAT or
\* by the enumeration, unless there was nothing to validate.
PlansValid ==
  \A i \in DOMAIN results : Answered(i) => Codes(request) = {} \/ Valid(request, results[i].plan)

LEMMA ValidKept ==
  ASSUME PlannerInv, PlansValid, NEW answer \in Answers, results' = Append(results, answer),
         request' = request,
         answer.status \in {"optimal", "feasible"} =>
           Codes(request) = {} \/ Valid(request, answer.plan)
  PROVE  PlansValid'
<1>1. /\ DOMAIN results = 1..Len(results) /\ DOMAIN results' = 1..(Len(results) + 1)
      /\ Len(results) \in Nat
      /\ \A i \in 1..Len(results) : results'[i] = results[i]
      /\ results'[Len(results) + 1] = answer
  BY OneMore
<1>2. ASSUME NEW i \in DOMAIN results', results'[i].status \in {"optimal", "feasible"}
      PROVE  Codes(request) = {} \/ Valid(request, results'[i].plan)
  <2>1. CASE i = Len(results) + 1  BY <1>1, <1>2, <2>1
  <2>2. CASE i # Len(results) + 1
    <3>1. i \in 1..Len(results)  BY <1>1, <2>2
    <3> QED  BY <1>1, <1>2, <3>1 DEF PlansValid, Answered
  <2> QED  BY <2>1, <2>2
<1> QED  BY <1>2 DEF PlansValid, Answered

LEMMA PlansValidStep ==
  ASSUME PlannerInv, PlansValid, [Next]_vars
  PROVE  PlansValid'
<1>1. ASSUME request' = request, \A i \in DOMAIN results' : results'[i].status = "invalid_model"
      PROVE  PlansValid'
  BY <1>1 DEF PlansValid, Answered
<1>2. ASSUME request' = request, results' = results
      PROVE  PlansValid'
  BY <1>2 DEF PlansValid, Answered
<1>3. CASE Build
  <2>1. request' = request
        /\ (results' = results \/ results' = <<Result("invalid_model", NoPlan)>>)
    BY <1>3 DEF Build
  <2> QED  BY <1>1, <1>2, <2>1 DEF Result
<1>4. CASE SolveOptimal \/ SolveFeasible
  <2>1. PICK status \in {"optimal", "feasible"}, a \in Open : Solution(status, a)
    BY <1>4 DEF SolveOptimal, SolveFeasible
  <2>2. a \in AnyPlan  BY PlannerAssumption DEF PlannerInv, Open, Solutions, AnyPlan
  <2>3. PICK answer \in Answers :
          /\ results' = Append(results, answer) /\ request' = request
          /\ answer.status \in {"optimal", "feasible"} =>
               Codes(request) = {} \/ Valid(request, answer.plan)
    <3>1. CASE Codes(request) = {} \/ Valid(request, a)
      <4>1. Result(status, a) \in Answers /\ Result(status, a).plan = a
        BY <2>2 DEF Result, Answers, Statuses
      <4>2. results' = Append(results, Result(status, a)) /\ request' = request
        BY <2>1, <3>1 DEF Solution
      <4> QED  BY <3>1, <4>1, <4>2
    <3>2. CASE ~(Codes(request) = {} \/ Valid(request, a))
      <4>1. Result("invalid_model", a) \in Answers /\ Result("invalid_model", a).status = "invalid_model"
        BY <2>2 DEF Result, Answers, Statuses
      <4>2. results' = Append(results, Result("invalid_model", a)) /\ request' = request
        BY <2>1, <3>2 DEF Solution
      <4> QED  BY <4>1, <4>2
    <3> QED  BY <3>1, <3>2
  <2> QED  BY <2>3, ValidKept
<1>5. CASE BlockRefused  BY <1>1, <1>5 DEF BlockRefused
<1>6. CASE SolveInfeasible \/ SolveUnknown
  <2>1. PICK status \in {"infeasible", "unknown"} : NoSolution(status)
    BY <1>6 DEF SolveInfeasible, SolveUnknown
  <2>2. Result(status, NoPlan) \in Answers /\ Result(status, NoPlan).status = status
    BY DEF Result, Answers, Statuses
  <2>3. results' = Append(results, Result(status, NoPlan)) /\ request' = request
    BY <2>1 DEF NoSolution
  <2> QED  BY <2>2, <2>3, ValidKept
<1>7. CASE Fallback
  <2>1. request' = request  BY <1>7 DEF Fallback
  <2>2. PICK status, plan :
          /\ status \in Statuses
          /\ results' = <<Result(status, plan)>>
          /\ status \in {"optimal", "feasible"} => Valid(request, plan)
    <3>1. PICK s, p :
            /\ s \in {"optimal", "infeasible"}
            /\ results' = <<Result(IF Truncated(request) THEN "unknown" ELSE s, p)>>
            /\ s = "optimal" => Valid(request, p)
      <4>1. PICK s \in {"optimal", "infeasible"} :
              \E p : /\ results' = <<Result(IF Truncated(request) THEN "unknown" ELSE s, p)>>
                     /\ s = "optimal" => Valid(request, p)
        BY <1>7 DEF Fallback, Accepted
      <4> QED  BY <4>1
    <3>2. CASE Truncated(request)
      <4>1. results' = <<Result("unknown", p)>> /\ "unknown" \in Statuses  BY <3>1, <3>2 DEF Statuses
      <4> QED  BY <4>1
    <3>3. CASE ~Truncated(request)
      <4>1. results' = <<Result(s, p)>> /\ s \in Statuses  BY <3>1, <3>3 DEF Statuses
      <4> QED  BY <3>1, <4>1
    <3> QED  BY <3>2, <3>3
  <2> DEFINE answer == Result(status, plan)
  <2>3. answer.status = status /\ answer.plan = plan  BY DEF Result
  <2>4. results' = <<answer>>  BY <2>2
  <2> HIDE DEF answer
  <2>5. \A i \in DOMAIN results' : results'[i] = answer  BY <2>4
  <2>6. \A i \in DOMAIN results' : results'[i].status \in {"optimal", "feasible"} =>
          Valid(request, results'[i].plan)
    BY <2>2, <2>3, <2>5
  <2> QED  BY <2>1, <2>6 DEF PlansValid, Answered
<1>8. CASE UNCHANGED vars  BY <1>2, <1>8 DEF vars
<1> QED  BY <1>3, <1>4, <1>5, <1>6, <1>7, <1>8 DEF Next

\* The audit is that of the last plan, which does not change any more.
AuditInv ==
  audit # NotAsked =>
    /\ HasPlan
    /\ audit = Audit(request.groups, request.completed, Taken(request, Plan), CreditOf(request))

LEMMA AuditStep ==
  ASSUME AuditInv, [AuditNext]_auditVars
  PROVE  AuditInv'
<1>1. ASSUME UNCHANGED vars
      PROVE  /\ HasPlan' = HasPlan
             /\ Audit(request.groups, request.completed, Taken(request, Plan), CreditOf(request))'
                  = Audit(request.groups, request.completed, Taken(request, Plan), CreditOf(request))
  <2>1. request' = request /\ phase' = phase /\ results' = results  BY <1>1 DEF vars
  <2> QED  BY <2>1 DEF HasPlan, Answered, Plan
<1>2. CASE AuditPlan  BY <1>1, <1>2 DEF AuditPlan, AuditInv
<1>3. CASE Next /\ UNCHANGED audit
  <2>1. audit = NotAsked
    <3>1. phase # "done"
      BY <1>3 DEF Next, Build, SolveOptimal, SolveFeasible, BlockRefused, SolveInfeasible,
                  SolveUnknown, NoSolution, Fallback
    <3> QED  BY <3>1 DEF AuditInv, HasPlan
  <2> QED  BY <1>3, <2>1 DEF AuditInv
<1>4. CASE UNCHANGED auditVars  BY <1>1, <1>4 DEF auditVars, AuditInv
<1> QED  BY <1>2, <1>3, <1>4 DEF AuditNext

LEMMA SoundAudit ==
  ASSUME PlannerInv, PlansValid, AuditInv
  PROVE  AuditIsSound
<1> SUFFICES ASSUME audit # NotAsked PROVE AuditIsSound  BY DEF AuditIsSound
<1> DEFINE G == request.groups
           C == request.completed
           T == Taken(request, Plan)
           K == CreditOf(request)
<1>1. request \in Requests /\ Len(G) \in Nat /\ DOMAIN G = 1..Len(G)
  BY PlannerAssumption DEF PlannerInv
<1>2. HasPlan /\ audit = Audit(G, C, T, K)  BY DEF AuditInv
<1>3. DOMAIN audit = DOMAIN G  BY <1>2 DEF Audit
<1>4. ASSUME Codes(request) # {}
      PROVE  Valid(request, Plan)
  <2>1. Len(results) \in DOMAIN results
    <3> DEFINE S == Answers
    <3>1. results \in Seq(S) /\ results # <<>>  BY <1>2 DEF PlannerInv, HasPlan
    <3> HIDE DEF S
    <3> QED  BY <3>1
  <2> QED  BY <1>2, <1>4, <2>1 DEF PlansValid, HasPlan, Plan
<1> HIDE DEF G, C, T, K
<1>5. ASSUME NEW i \in DOMAIN audit, NEW j \in DOMAIN audit, i # j, ~G[i].double, ~G[j].double
      PROVE  (audit[i].done \cup audit[i].planned) \cap (audit[j].done \cup audit[j].planned) = {}
  <2>1. i \in DOMAIN G /\ j \in DOMAIN G /\ (i < j \/ j < i)  BY <1>1, <1>3, <1>5
  <2>2. CASE i < j  BY <1>1, <1>2, <1>5, <2>1, <2>2, RowsShareNothing
  <2>3. CASE j < i
    <3>1. (audit[j].done \cup audit[j].planned) \cap (audit[i].done \cup audit[i].planned) = {}
      BY <1>1, <1>2, <1>5, <2>1, <2>3, RowsShareNothing
    <3> QED  BY <3>1
  <2> QED  BY <2>1, <2>2, <2>3
<1>6. ASSUME Codes(request) # {}, \A i \in DOMAIN audit : ~G[i].double /\ ~G[i].unknown,
             NEW i \in DOMAIN audit
      PROVE  audit[i].missing_courses = 0
  <2>1. Valid(request, Plan)  BY <1>4, <1>6
  <2>2. audit = Audit(request.groups, request.completed, Taken(request, Plan), K)
    BY <1>2 DEF G, C, T
  <2>3. \A k \in DOMAIN request.groups : ~request.groups[k].double /\ ~request.groups[k].unknown
    BY <1>3, <1>6 DEF G
  <2>4. i \in DOMAIN request.groups  BY <1>3 DEF G
  <2> QED  BY <1>1, <2>1, <2>2, <2>3, <2>4, NothingMissing
<1> QED  BY <1>5, <1>6 DEF AuditIsSound, G

\* The audit of every plan, solved or enumerated, counts no course for two
\* groups that may not share it, and misses no course where no group may: the
\* greedy allocation of planning/audit.py and the validator's count agree.
THEOREM AuditsAreSound == AuditSpec => []AuditIsSound
<1> DEFINE Inv == PlannerInv /\ AnswersAreLegal /\ FallbackClaims /\ PlansValid /\ AuditInv
<1>1. AuditInit => Inv
  <2> SUFFICES ASSUME AuditInit PROVE Inv  OBVIOUS
  <2>1. PlannerInv /\ AnswersAreLegal /\ FallbackClaims  BY PlannerInit DEF AuditInit
  <2>2. DOMAIN results = {}  BY DEF AuditInit, Init
  <2> QED  BY <2>1, <2>2 DEF PlansValid, AuditInv, AuditInit
<1>2. Inv /\ [AuditNext]_auditVars => Inv'
  <2> SUFFICES ASSUME Inv, [AuditNext]_auditVars PROVE Inv'  OBVIOUS
  <2>1. [Next]_vars  BY DEF AuditNext, AuditPlan, auditVars
  <2>2. PlannerInv' /\ AnswersAreLegal' /\ FallbackClaims'  BY <2>1, PlannerStep
  <2>3. PlansValid'  BY <2>1, PlansValidStep
  <2>4. AuditInv'  BY AuditStep
  <2> QED  BY <2>2, <2>3, <2>4
<1>3. Inv => AuditIsSound  BY SoundAudit
<1> QED  BY <1>1, <1>2, <1>3, PTL DEF AuditSpec

\* --------------------------------------------------------------- sections

\* A strict order in which any two elements of S can be compared.
StrictlyOrders(less, S) ==
  /\ \A x \in S : <<x, x>> \notin less
  /\ \A x, y \in S : x # y => <<x, y>> \in less \/ <<y, x>> \in less
  /\ \A x, y, z \in S : <<x, y>> \in less /\ <<y, z>> \in less => <<x, z>> \in less

\* Sorted lists every element of S once, in order.
LEMMA SortedLists ==
  ASSUME NEW S, IsFiniteSet(S), NEW less, StrictlyOrders(less, S)
  PROVE  /\ Cardinality(S) \in Nat
         /\ Sorted(S, less) \in [1..Cardinality(S) -> S]
         /\ \A x \in S : \E k \in 1..Cardinality(S) : Sorted(S, less)[k] = x
         /\ \A i, j \in 1..Cardinality(S) :
              i < j => <<Sorted(S, less)[i], Sorted(S, less)[j]>> \in less
<1> DEFINE Below(x) == {y \in S : <<y, x>> \in less}
           C == Cardinality(S)
           rank == [x \in S |-> Cardinality(Below(x))]
<1>1. C \in Nat  BY FS_CardinalityType
<1>2. ASSUME NEW x \in S
      PROVE  IsFiniteSet(Below(x)) /\ rank[x] \in 0..(C - 1)
  <2>1. Below(x) \in SUBSET S /\ x \notin Below(x)  BY DEF StrictlyOrders
  <2> DEFINE B == Below(x)
  <2>2. rank[x] = Cardinality(B)  OBVIOUS
  <2> HIDE DEF B, rank, C
  <2>3. IsFiniteSet(B) /\ Cardinality(B) <= C /\ (C = Cardinality(B) => S = B)
    BY <2>1, FS_Subset DEF B, C
  <2>4. Cardinality(B) \in Nat  BY <2>3, FS_CardinalityType
  <2>5. Cardinality(B) # C  BY <2>1, <2>3 DEF B
  <2>6. Cardinality(B) \in 0..(C - 1)  BY <1>1, <2>3, <2>4, <2>5
  <2> QED  BY <2>2, <2>3, <2>6 DEF B
<1>3. ASSUME NEW x \in S, NEW y \in S, <<x, y>> \in less
      PROVE  rank[x] < rank[y]
  <2>1. Below(x) \cup {x} \in SUBSET Below(y) /\ x \notin Below(x)
    BY <1>3 DEF StrictlyOrders
  <2>2. IsFiniteSet(Below(x)) /\ IsFiniteSet(Below(y))  BY <1>2
  <2> DEFINE X == Below(x)
             Y == Below(y)
  <2>3. rank[x] = Cardinality(X) /\ rank[y] = Cardinality(Y)  OBVIOUS
  <2>4. X \cup {x} \in SUBSET Y /\ x \notin X /\ IsFiniteSet(X) /\ IsFiniteSet(Y)  BY <2>1, <2>2
  <2> HIDE DEF X, Y, rank
  <2>5. Cardinality(X \cup {x}) = Cardinality(X) + 1  BY <2>4, FS_AddElement
  <2>6. Cardinality(X \cup {x}) <= Cardinality(Y)  BY <2>4, FS_Subset
  <2>7. Cardinality(X) \in Nat /\ Cardinality(Y) \in Nat  BY <2>4, FS_CardinalityType
  <2> QED  BY <2>3, <2>5, <2>6, <2>7
<1>4. ASSUME NEW x \in S, NEW y \in S, rank[x] = rank[y]
      PROVE  x = y
  <2>1. rank[x] \in 0..(C - 1) /\ rank[y] \in 0..(C - 1)  BY <1>2
  <2> HIDE DEF rank, C
  <2>2. ~(rank[x] < rank[y]) /\ ~(rank[y] < rank[x])  BY <1>1, <1>4, <2>1
  <2>3. <<x, y>> \notin less /\ <<y, x>> \notin less  BY <1>3, <2>2
  <2> QED  BY <2>3 DEF StrictlyOrders
<1>5. rank \in Surjection(S, 0..(C - 1))
  <2>1. rank \in [S -> 0..(C - 1)]  BY <1>2
  <2>2. IsFiniteSet(0..(C - 1)) /\ Cardinality(0..(C - 1)) = C
    <3> HIDE DEF C
    <3>1. C - 1 \in Int  BY <1>1
    <3> QED  BY <1>1, <3>1, FS_Interval
  <2>3. Cardinality(S) = C  OBVIOUS
  <2> HIDE DEF C, rank
  <2>4. rank \in Injection(S, 0..(C - 1))  BY <1>4, <2>1 DEF Injection, IsInjective
  <2> QED  BY <2>2, <2>3, <2>4, FS_Injection
<1> DEFINE s == [k \in 1..C |-> CHOOSE x \in S : Cardinality(Below(x)) = k - 1]
<1>6. Sorted(S, less) = s  BY DEF Sorted
<1>7. ASSUME NEW k \in 1..C
      PROVE  s[k] \in S /\ rank[s[k]] = k - 1
  <2>1. k - 1 \in 0..(C - 1)
    <3> HIDE DEF C
    <3> QED  BY <1>1
  <2>2. \E x \in S : rank[x] = k - 1
    <3> HIDE DEF rank, C
    <3> QED  BY <1>5, <2>1 DEF Surjection
  <2>3. \E x \in S : Cardinality(Below(x)) = k - 1  BY <2>2
  <2>4. s[k] \in S /\ Cardinality(Below(s[k])) = k - 1
    <3>1. s[k] = CHOOSE x \in S : Cardinality(Below(x)) = k - 1  OBVIOUS
    <3> HIDE DEF s
    <3> QED  BY <2>3, <3>1
  <2> HIDE DEF s
  <2> QED  BY <2>4
<1>8. s \in [1..C -> S]  BY <1>7
<1>9. ASSUME NEW x \in S
      PROVE  \E k \in 1..C : s[k] = x
  <2> HIDE DEF s, rank, C
  <2>1. rank[x] \in 0..(C - 1)  BY <1>2
  <2>2. rank[x] + 1 \in 1..C /\ (rank[x] + 1) - 1 = rank[x]  BY <1>1, <2>1
  <2>3. s[rank[x] + 1] \in S /\ rank[s[rank[x] + 1]] = rank[x]  BY <1>7, <2>2
  <2>4. s[rank[x] + 1] = x  BY <1>4, <2>3
  <2> QED  BY <2>2, <2>4
<1>10. ASSUME NEW i \in 1..C, NEW j \in 1..C, i < j
       PROVE  <<s[i], s[j]>> \in less
  <2> HIDE DEF s, rank, C
  <2>1. s[i] \in S /\ s[j] \in S /\ rank[s[i]] = i - 1 /\ rank[s[j]] = j - 1  BY <1>7
  <2>2. i \in Int /\ j \in Int  OBVIOUS
  <2>3. s[i] # s[j] /\ ~(rank[s[j]] < rank[s[i]])  BY <1>10, <2>1, <2>2
  <2>4. <<s[j], s[i]>> \notin less  BY <1>3, <2>1, <2>3
  <2> QED  BY <2>1, <2>3, <2>4 DEF StrictlyOrders
<1> HIDE DEF s, rank
<1> QED  BY <1>1, <1>6, <1>8, <1>9, <1>10

LEMMA MinIsLeast ==
  ASSUME NEW T, T \subseteq Nat, T # {}
  PROVE  Min(T) \in T /\ \A y \in T : Min(T) <= y
<1>1. \E x \in T : \A y \in T : x <= y  BY LeastNat
<1> QED  BY <1>1 DEF Min

\* The body of search, with another function in the place of search.
Results(tried, blocking, f, selected) ==
  [k \in DOMAIN tried |->
     IF \E i \in DOMAIN selected : Conflicts(tried[k], selected[i]) THEN Nothing
     ELSE IF blocking # {} /\ tried[k].meetings # {} THEN Raised
     ELSE f[Append(selected, tried[k])]]

FirstResult(result) ==
  LET ends == {k \in DOMAIN result : result[k] # Nothing}
  IN  IF ends = {} THEN Nothing ELSE result[Min(ends)]

SearchStep(order, tries, blocking, f, selected) ==
  IF Len(selected) = Len(order) THEN Found(selected)
  ELSE FirstResult(Results(tries[order[Len(selected) + 1]], blocking, f, selected))

\* Every course of the order has a list of options.
TriesTyped(order, tries, options) ==
  /\ Len(order) \in Nat
  /\ \A i \in 1..Len(order) : \E n \in Nat : tries[order[i]] \in [1..n -> options]

Outcomes(P) == {Nothing, Raised} \cup {Found(s) : s \in P}

LEMMA PrefixFacts ==
  ASSUME NEW order, Len(order) \in Nat, NEW options, NEW s \in Prefixes(order, options)
  PROVE  /\ s \in Seq(options) /\ Len(s) \in 0..Len(order) /\ DOMAIN s = 1..Len(s)
         /\ \A i \in 1..Len(s) : s[i] \in options
         /\ \A o \in options : Len(s) # Len(order) =>
              /\ Append(s, o) \in Prefixes(order, options)
              /\ Len(Append(s, o)) = Len(s) + 1
              /\ Append(s, o)[Len(s) + 1] = o
              /\ \A i \in 1..Len(s) : Append(s, o)[i] = s[i]
<1>1. PICK n \in 0..Len(order) : s \in [1..n -> options]  BY DEF Prefixes
<1>2. s \in Seq(options) /\ Len(s) = n /\ DOMAIN s = 1..n
  <2>1. n \in Nat  BY <1>1
  <2> QED  BY <1>1, <2>1
<1>3. ASSUME NEW o \in options, n # Len(order)
      PROVE  /\ Append(s, o) \in Prefixes(order, options)
             /\ Len(Append(s, o)) = n + 1
             /\ Append(s, o)[n + 1] = o
             /\ \A i \in 1..n : Append(s, o)[i] = s[i]
  <2> DEFINE t == Append(s, o)
  <2>1. t \in Seq(options) /\ Len(t) = n + 1 /\ t[n + 1] = o /\ \A i \in 1..n : t[i] = s[i]
    BY <1>2
  <2>2. t \in [1..(n + 1) -> options]
    <3> HIDE DEF t
    <3> QED  BY <2>1
  <2>3. n + 1 \in 0..Len(order)  BY <1>1, <1>3
  <2>4. t \in Prefixes(order, options)
    <3> HIDE DEF t
    <3> QED  BY <2>2, <2>3 DEF Prefixes
  <2> QED  BY <2>1, <2>4
<1> QED  BY <1>1, <1>2, <1>3

LEMMA NoPrefix ==
  ASSUME NEW order, Len(order) \in Nat, NEW options
  PROVE  <<>> \in Prefixes(order, options) /\ Len(<<>>) = 0 /\ DOMAIN <<>> = {}
<1>1. <<>> \in [1..0 -> options] /\ 0 \in 0..Len(order)  OBVIOUS
<1> QED  BY <1>1 DEF Prefixes

\* A step only looks at longer selections, and has one of the outcomes.
LEMMA StepLooksAhead ==
  ASSUME NEW order, NEW tries, NEW options, NEW blocking, TriesTyped(order, tries, options),
         NEW s \in Prefixes(order, options), NEW f, NEW g,
         \A t \in Prefixes(order, options) : Len(t) > Len(s) => f[t] = g[t]
  PROVE  SearchStep(order, tries, blocking, f, s) = SearchStep(order, tries, blocking, g, s)
<1>1. CASE Len(s) = Len(order)  BY <1>1 DEF SearchStep
<1>2. CASE Len(s) # Len(order)
  <2> DEFINE tried == tries[order[Len(s) + 1]]
  <2>1. Len(s) \in 0..Len(order) /\ Len(order) \in Nat  BY PrefixFacts DEF TriesTyped
  <2>2. Len(s) + 1 \in 1..Len(order)  BY <1>2, <2>1
  <2>3. PICK n \in Nat : tried \in [1..n -> options]  BY <2>2 DEF TriesTyped
  <2>4. ASSUME NEW k \in DOMAIN tried
        PROVE  f[Append(s, tried[k])] = g[Append(s, tried[k])]
    <3>1. tried[k] \in options  BY <2>3
    <3>2. Append(s, tried[k]) \in Prefixes(order, options) /\ Len(Append(s, tried[k])) = Len(s) + 1
      BY <1>2, <2>1, <3>1, PrefixFacts
    <3>3. Len(s) + 1 > Len(s)  BY <2>1
    <3> QED  BY <3>2, <3>3
  <2> HIDE DEF tried
  <2>5. Results(tried, blocking, f, s) = Results(tried, blocking, g, s)  BY <2>4 DEF Results
  <2> QED  BY <1>2, <2>5 DEF SearchStep, tried
<1> QED  BY <1>1, <1>2

LEMMA StepTyped ==
  ASSUME NEW order, NEW tries, NEW options, NEW blocking, TriesTyped(order, tries, options),
         NEW s \in Prefixes(order, options), NEW f, NEW R, Nothing \in R, Raised \in R,
         Found(s) \in R,
         \A t \in Prefixes(order, options) : Len(t) > Len(s) => f[t] \in R
  PROVE  SearchStep(order, tries, blocking, f, s) \in R
<1>1. CASE Len(s) = Len(order)  BY <1>1 DEF SearchStep
<1>2. CASE Len(s) # Len(order)
  <2> DEFINE tried == tries[order[Len(s) + 1]]
             result == Results(tried, blocking, f, s)
             ends == {k \in DOMAIN result : result[k] # Nothing}
  <2>1. Len(s) \in 0..Len(order) /\ Len(order) \in Nat  BY PrefixFacts DEF TriesTyped
  <2>2. Len(s) + 1 \in 1..Len(order)  BY <1>2, <2>1
  <2>3. PICK n \in Nat : tried \in [1..n -> options]  BY <2>2 DEF TriesTyped
  <2>4. ASSUME NEW k \in DOMAIN tried
        PROVE  result[k] \in R
    <3>1. tried[k] \in options  BY <2>3
    <3>2. Append(s, tried[k]) \in Prefixes(order, options) /\ Len(Append(s, tried[k])) = Len(s) + 1
      BY <1>2, <2>1, <3>1, PrefixFacts
    <3>3. Len(s) + 1 > Len(s)  BY <2>1
    <3>4. f[Append(s, tried[k])] \in R  BY <3>2, <3>3
    <3> HIDE DEF tried
    <3> QED  BY <3>4 DEF Results
  <2>5. DOMAIN result = 1..n  BY <2>3 DEF Results
  <2> HIDE DEF tried, result
  <2>6. ends # {} => Min(ends) \in ends
    <3>1. ends \subseteq Nat  BY <2>5
    <3> HIDE DEF ends
    <3> QED  BY <3>1, MinIsLeast
  <2>7. FirstResult(result) = IF ends = {} THEN Nothing ELSE result[Min(ends)]  BY DEF FirstResult
  <2>8. DOMAIN tried = 1..n  BY <2>3
  <2>9. FirstResult(result) \in R
    <3>1. CASE ends = {}  BY <2>7, <3>1
    <3>2. CASE ends # {}
      <4>1. Min(ends) \in 1..n  BY <2>5, <2>6, <3>2
      <4> HIDE DEF ends
      <4> QED  BY <2>4, <2>7, <2>8, <3>2, <4>1
    <3> QED  BY <3>1, <3>2
  <2> QED  BY <1>2, <2>9 DEF SearchStep, tried, result
<1> QED  BY <1>1, <1>2

\* There is a function that search describes, and the search is its value.
Searches(order, tries, blocking, options) ==
  {f \in [Prefixes(order, options) -> Outcomes(Prefixes(order, options))] :
     \A s \in Prefixes(order, options) : f[s] = SearchStep(order, tries, blocking, f, s)}

LEMMA SearchesExist ==
  ASSUME NEW order, NEW tries, NEW options, NEW blocking, TriesTyped(order, tries, options)
  PROVE  Searches(order, tries, blocking, options) # {}
<1> DEFINE P == Prefixes(order, options)
           O == Outcomes(P)
           L == Len(order)
           From(m) == {s \in P : Len(s) >= m}
           Partial(m) == {f \in [From(m) -> O] :
             \A s \in From(m) : f[s] = SearchStep(order, tries, blocking, f, s)}
           Bad == {d \in 0..L : Partial(L - d) = {}}
<1>1. L \in Nat /\ \A s \in P : Len(s) \in 0..L  BY PrefixFacts DEF TriesTyped
<1>2. Nothing \in O /\ Raised \in O /\ \A s \in P : Found(s) \in O  BY DEF Outcomes
<1> HIDE DEF P, O, L
<1>3. SUFFICES ASSUME Searches(order, tries, blocking, options) = {} PROVE FALSE  OBVIOUS
<1>4. Partial(0) = {}
  <2>1. From(0) = P  BY <1>1
  <2> QED  BY <1>3, <2>1 DEF Searches, P, O
<1>5. PICK d \in Bad : \A e \in Bad : d <= e
  <2>1. L \in Bad /\ Bad \subseteq Nat
    <3>1. L - L = 0 /\ L \in 0..L  BY <1>1
    <3>2. Partial(L - L) = {}  BY <1>4, <3>1
    <3> QED  BY <3>1, <3>2
  <2> HIDE DEF Bad
  <2> QED  BY <2>1, LeastNat
<1> DEFINE m == L - d
<1>6. d \in 0..L /\ Partial(m) = {} /\ m \in 0..L  BY <1>1
<1>7. CASE d = 0
  <2> DEFINE f == [s \in From(m) |-> Found(s)]
  <2>1. m = L  BY <1>1, <1>7
  <2>2. \A s \in From(m) : Len(s) = L  BY <1>1, <2>1
  <2>3. \A s \in From(m) : s \in P /\ f[s] = Found(s)  OBVIOUS
  <2>4. f \in [From(m) -> O]  BY <1>2, <2>3
  <2>5. \A s \in From(m) : SearchStep(order, tries, blocking, f, s) = Found(s)
    <3> HIDE DEF f, m
    <3> QED  BY <2>2 DEF SearchStep, L
  <2>6. f \in Partial(m)
    <3> HIDE DEF f, m
    <3> QED  BY <2>3, <2>4, <2>5
  <2> QED  BY <1>6, <2>6
<1>8. CASE d # 0
  <2>1. d - 1 \in 0..L /\ d - 1 \notin Bad /\ L - (d - 1) = m + 1
    <3>1. d - 1 \in 0..L /\ ~(d <= d - 1)  BY <1>1, <1>6, <1>8
    <3>2. d - 1 \notin Bad
      <4> HIDE DEF Bad
      <4> QED  BY <1>5, <3>1
    <3> QED  BY <1>1, <1>6, <3>1, <3>2
  <2>2. PICK f : f \in Partial(m + 1)  BY <2>1
  <2> DEFINE g == [s \in From(m) |->
                     IF Len(s) = m THEN SearchStep(order, tries, blocking, f, s) ELSE f[s]]
  <2>3. m \in Int /\ \A s \in From(m) : s \in P /\ Len(s) \in Int /\ Len(s) >= m  BY <1>1, <1>6
  <2> HIDE DEF m
  <2>4. \A s \in From(m) : Len(s) # m => s \in From(m + 1)  BY <2>3
  <2>5. \A t \in P : Len(t) > m => t \in From(m + 1) /\ t \in From(m) /\ Len(t) # m  BY <1>1, <2>3
  <2>6. /\ \A t \in From(m + 1) : f[t] \in O
        /\ \A t \in From(m + 1) : f[t] = SearchStep(order, tries, blocking, f, t)
    BY <2>2
  <2>7. \A t \in P : Len(t) > m => f[t] \in O /\ g[t] = f[t]  BY <2>5, <2>6
  <2>8. \A s \in From(m) : Len(s) = m => g[s] = SearchStep(order, tries, blocking, f, s)  OBVIOUS
  <2>9. \A s \in From(m) : Len(s) # m => g[s] = SearchStep(order, tries, blocking, f, s)
    BY <2>4, <2>6
  <2> HIDE DEF g
  <2>10. ASSUME NEW s \in From(m)
         PROVE  SearchStep(order, tries, blocking, f, s) = SearchStep(order, tries, blocking, g, s)
    <3>1. \A t \in P : Len(t) > Len(s) => Len(t) > m  BY <1>1, <2>3
    <3>2. \A t \in P : Len(t) > Len(s) => f[t] = g[t]  BY <2>7, <3>1
    <3>3. s \in Prefixes(order, options)  BY <2>3 DEF P
    <3> HIDE DEF From
    <3> QED  BY <3>2, <3>3, StepLooksAhead DEF P
  <2>11. ASSUME NEW s \in From(m)
         PROVE  SearchStep(order, tries, blocking, f, s) \in O
    <3>1. \A t \in P : Len(t) > Len(s) => Len(t) > m  BY <1>1, <2>3
    <3>2. \A t \in P : Len(t) > Len(s) => f[t] \in O  BY <2>7, <3>1
    <3>3. s \in P  BY <2>3
    <3>4. Nothing \in O /\ Raised \in O /\ Found(s) \in O  BY <1>2, <3>3
    <3> HIDE DEF From
    <3> QED  BY <3>2, <3>3, <3>4, StepTyped DEF P
  <2>12. \A s \in From(m) : g[s] = SearchStep(order, tries, blocking, f, s)  BY <2>8, <2>9
  <2>13. g \in [From(m) -> O]
    <3>1. DOMAIN g = From(m) /\ g = [s \in From(m) |-> g[s]]  BY DEF g
    <3> HIDE DEF From
    <3> QED  BY <2>11, <2>12, <3>1
  <2>14. g \in Partial(m)
    <3> HIDE DEF From
    <3> QED  BY <2>10, <2>12, <2>13
  <2> QED  BY <1>6, <2>14 DEF m
<1> QED  BY <1>7, <1>8

LEMMA SearchIsOne ==
  ASSUME NEW order, NEW tries, NEW options, NEW blocking, TriesTyped(order, tries, options)
  PROVE  \E f : /\ \A s \in Prefixes(order, options) :
                     f[s] = SearchStep(order, tries, blocking, f, s)
                /\ Search(order, tries, blocking, options) = f[<<>>]
<1> DEFINE P == Prefixes(order, options)
           search == CHOOSE f : f = [s \in P |-> SearchStep(order, tries, blocking, f, s)]
<1>1. Search(order, tries, blocking, options) = search[<<>>]
  BY DEF Search, SearchStep, Results, FirstResult
<1>2. \E f : f = [s \in P |-> SearchStep(order, tries, blocking, f, s)]
  <2>1. PICK f : f \in Searches(order, tries, blocking, options)  BY SearchesExist
  <2>2. f \in [P -> Outcomes(P)] /\ \A s \in P : f[s] = SearchStep(order, tries, blocking, f, s)
    BY <2>1 DEF Searches
  <2> HIDE DEF P
  <2>3. f = [s \in P |-> SearchStep(order, tries, blocking, f, s)]  BY <2>2
  <2> QED  BY <2>3
<1>3. search = [s \in P |-> SearchStep(order, tries, blocking, search, s)]  BY <1>2
<1> HIDE DEF search
<1> QED  BY <1>1, <1>3

\* The first n sections are from the lists of their courses, and do not conflict.
Listed(order, tries, t, n) ==
  \A i \in 1..n : \E k \in DOMAIN tries[order[i]] : t[i] = tries[order[i]][k]

Compatible(t, n) == \A i, j \in 1..n : i < j => ~Conflicts(t[j], t[i])

\* Full selections that continue s.
Completions(order, tries, options, s) ==
  {t \in [1..Len(order) -> options] :
     /\ Listed(order, tries, t, Len(order)) /\ Compatible(t, Len(order))
     /\ \A i \in 1..Len(s) : t[i] = s[i]}

\* For the course at place j of the order, t has the first option of its list
\* that a selection with the same sections before can have.
FirstChoice(order, tries, options, s, t, j) ==
  \E m \in DOMAIN tries[order[j]] :
    /\ t[j] = tries[order[j]][m]
    /\ \A k \in DOMAIN tries[order[j]], u \in Completions(order, tries, options, s) :
         k < m /\ (\A i \in 1..(j - 1) : u[i] = t[i]) => u[j] # tries[order[j]][k]

\* What search may return for s.
Searched(order, tries, options, s, out) ==
  \/ out = Raised
  \/ out = Nothing /\ Completions(order, tries, options, s) = {}
  \/ \E t \in Completions(order, tries, options, s) :
       /\ out = Found(t)
       /\ \A j \in 1..Len(order) :
            j > Len(s) => FirstChoice(order, tries, options, s, t, j)

LEMMA RightStep ==
  ASSUME NEW order, NEW tries, NEW options, NEW blocking, TriesTyped(order, tries, options),
         NEW s \in Prefixes(order, options), Len(s) # Len(order),
         Listed(order, tries, s, Len(s)), Compatible(s, Len(s)), NEW f,
         \A p \in Prefixes(order, options) :
           Len(p) = Len(s) + 1 /\ Listed(order, tries, p, Len(p)) /\ Compatible(p, Len(p)) =>
             Searched(order, tries, options, p, f[p])
  PROVE  Searched(order, tries, options, s, SearchStep(order, tries, blocking, f, s))
<1> DEFINE n == Len(s)
           tried == tries[order[n + 1]]
           result == Results(tried, blocking, f, s)
           ends == {k \in DOMAIN result : result[k] # Nothing}
           C == Completions(order, tries, options, s)
           with(k) == Append(s, tried[k])
           D(k) == Completions(order, tries, options, with(k))
<1>1. /\ Len(order) \in Nat /\ n \in 0..Len(order) /\ n + 1 \in 1..Len(order)
      /\ DOMAIN s = 1..n
  <2>1. Len(order) \in Nat /\ n \in 0..Len(order) /\ DOMAIN s = 1..n
    BY PrefixFacts DEF TriesTyped
  <2> QED  BY <2>1
<1>2. PICK N \in Nat : tried \in [1..N -> options]  BY <1>1 DEF TriesTyped
<1>3. DOMAIN tried = 1..N /\ DOMAIN result = 1..N  BY <1>2 DEF Results
<1>4. ASSUME NEW k \in 1..N
      PROVE  /\ with(k) \in Prefixes(order, options) /\ Len(with(k)) = n + 1
             /\ with(k)[n + 1] = tried[k] /\ \A i \in 1..n : with(k)[i] = s[i]
  <2>1. tried[k] \in options  BY <1>2
  <2> QED  BY <1>1, <2>1, PrefixFacts
<1>5. ASSUME NEW k \in 1..N
      PROVE  D(k) = {u \in C : u[n + 1] = tried[k]}
  <2>1. \A i \in 1..(n + 1) : i \in 1..n \/ i = n + 1  BY <1>1
  <2>2. 1..n \subseteq 1..(n + 1) /\ n + 1 \in 1..(n + 1)  BY <1>1
  <2>3. ASSUME NEW u
        PROVE  (\A i \in 1..Len(with(k)) : u[i] = with(k)[i])
                 <=> (\A i \in 1..n : u[i] = s[i]) /\ u[n + 1] = tried[k]
    <3> DEFINE p == with(k)
    <3>1. Len(p) = n + 1 /\ p[n + 1] = tried[k] /\ \A i \in 1..n : p[i] = s[i]  BY <1>4
    <3> HIDE DEF p, n, tried
    <3>2. (\A i \in 1..Len(p) : u[i] = p[i])
                 <=> (\A i \in 1..n : u[i] = s[i]) /\ u[n + 1] = tried[k]
      BY <2>1, <2>2, <3>1
    <3> QED  BY <3>2 DEF p
  <2> HIDE DEF with, tried
  <2> QED  BY <2>3 DEF Completions
<1>6. ASSUME NEW k \in 1..N, ~\E i \in 1..n : Conflicts(tried[k], s[i])
      PROVE  Searched(order, tries, options, with(k), f[with(k)])
  <2> DEFINE p == with(k)
  <2>1. /\ p \in Prefixes(order, options) /\ Len(p) = n + 1
        /\ p[n + 1] = tried[k] /\ \A i \in 1..n : p[i] = s[i]
    BY <1>4
  <2>2. \A i \in 1..(n + 1) : i \in 1..n \/ i = n + 1  BY <1>1
  <2>3. Listed(order, tries, p, n + 1)
    <3>1. k \in DOMAIN tries[order[n + 1]] /\ p[n + 1] = tries[order[n + 1]][k]  BY <1>3, <2>1
    <3> HIDE DEF p, tried, n
    <3>2. \A i \in 1..n : \E l \in DOMAIN tries[order[i]] : s[i] = tries[order[i]][l]
      BY DEF Listed, n
    <3> QED  BY <2>1, <2>2, <3>1, <3>2 DEF Listed
  <2>4. Compatible(p, n + 1)
    <3>1. ASSUME NEW i \in 1..(n + 1), NEW j \in 1..(n + 1), i < j
          PROVE  ~Conflicts(p[j], p[i])
      <4>1. i \in 1..n  BY <1>1, <3>1
      <4>2. CASE j = n + 1  BY <1>6, <2>1, <4>1, <4>2
      <4>3. CASE j # n + 1
        <5>1. j \in 1..n  BY <1>1, <4>3
        <5>2. ~Conflicts(s[j], s[i])  BY <3>1, <4>1, <5>1 DEF Compatible
        <5> HIDE DEF p
        <5> QED  BY <2>1, <4>1, <5>1, <5>2
      <4> QED  BY <4>2, <4>3
    <3> QED  BY <3>1 DEF Compatible
  <2> HIDE DEF p
  <2>5. Searched(order, tries, options, p, f[p])  BY <2>1, <2>3, <2>4
  <2> QED  BY <2>5 DEF p
<1>7. ASSUME NEW k \in 1..N
      PROVE  /\ (\E i \in 1..n : Conflicts(tried[k], s[i])) => result[k] = Nothing
             /\ (~\E i \in 1..n : Conflicts(tried[k], s[i])) =>
                  result[k] \in {Raised, f[with(k)]}
  BY <1>1, <1>3 DEF Results
<1>8. Nothing # Raised /\ \A t : Found(t) # Nothing /\ Found(t) # Raised
  <2>1. Nothing.outcome = "nothing" /\ Raised.outcome = "raised"  BY DEF Nothing, Raised
  <2>2. \A t : Found(t).outcome = "found"  BY DEF Found
  <2> QED  BY <2>1, <2>2
<1>9. \A u \in C : /\ \A i \in 1..n : u[i] = s[i]
                   /\ Listed(order, tries, u, Len(order)) /\ Compatible(u, Len(order))
  BY DEF Completions
<1> HIDE DEF result, with, C, D, tried
<1>10. ASSUME NEW k \in 1..N, result[k] = Nothing, NEW u \in C
       PROVE  u[n + 1] # tried[k]
  <2>1. CASE \E i \in 1..n : Conflicts(tried[k], s[i])
    <3>1. PICK i \in 1..n : Conflicts(tried[k], s[i])  BY <2>1
    <3>2. i \in 1..Len(order) /\ i < n + 1  BY <1>1
    <3>3. ~Conflicts(u[n + 1], u[i])  BY <1>1, <1>9, <3>2 DEF Compatible
    <3> QED  BY <1>9, <3>1, <3>3
  <2>2. CASE ~\E i \in 1..n : Conflicts(tried[k], s[i])
    <3>1. f[with(k)] = Nothing  BY <1>7, <1>8, <1>10, <2>2
    <3>2. Searched(order, tries, options, with(k), Nothing)  BY <1>6, <2>2, <3>1
    <3>3. D(k) = {}  BY <1>8, <3>2 DEF Searched, D
    <3> QED  BY <1>5, <3>3
  <2> QED  BY <2>1, <2>2
<1>11. FirstResult(result) = IF ends = {} THEN Nothing ELSE result[Min(ends)]  BY DEF FirstResult
<1>12. CASE ends = {}
  <2>1. FirstResult(result) = Nothing  BY <1>11, <1>12
  <2>2. \A k \in 1..N : result[k] = Nothing  BY <1>3, <1>12
  <2>3. ASSUME NEW u \in C PROVE FALSE
    <3>1. PICK k \in DOMAIN tries[order[n + 1]] : u[n + 1] = tries[order[n + 1]][k]
      BY <1>1, <1>9 DEF Listed
    <3>2. k \in 1..N /\ u[n + 1] = tried[k]  BY <1>3, <3>1 DEF tried
    <3> QED  BY <1>10, <2>2, <3>2
  <2>4. Searched(order, tries, options, s, FirstResult(result))  BY <2>1, <2>3 DEF Searched, C
  <2> QED  BY <2>4 DEF SearchStep, result, tried
<1>13. CASE ends # {}
  <2> DEFINE m == Min(ends)
  <2>1. m \in ends /\ \A k \in ends : m <= k
    <3>1. ends \subseteq Nat  BY <1>3
    <3> HIDE DEF ends
    <3> QED  BY <1>13, <3>1, MinIsLeast
  <2>2. m \in 1..N /\ result[m] # Nothing  BY <1>3, <2>1
  <2>3. ASSUME NEW k \in 1..N, k < m
        PROVE  result[k] = Nothing
    <3>1. k \in Int /\ m \in Int  BY <2>2
    <3> HIDE DEF m
    <3>2. ~(m <= k)  BY <2>3, <3>1
    <3> QED  BY <1>3, <2>1, <3>2
  <2>4. FirstResult(result) = result[m]  BY <1>11, <1>13
  <2> HIDE DEF m
  <2>5. CASE result[m] = Raised
    <3>1. Searched(order, tries, options, s, FirstResult(result))  BY <2>4, <2>5 DEF Searched
    <3> QED  BY <3>1 DEF SearchStep, result, tried
  <2>6. CASE result[m] # Raised
    <3>1. /\ ~\E i \in 1..n : Conflicts(tried[m], s[i])
          /\ result[m] = f[with(m)]
      BY <1>7, <2>2, <2>6
    <3>2. Searched(order, tries, options, with(m), result[m])  BY <1>6, <2>2, <3>1
    <3>3. PICK t \in D(m) :
            /\ result[m] = Found(t)
            /\ \A j \in 1..Len(order) :
                 j > Len(with(m)) => FirstChoice(order, tries, options, with(m), t, j)
      BY <2>2, <2>6, <3>2 DEF Searched, D
    <3>4. t \in C /\ t[n + 1] = tried[m]  BY <1>5, <2>2, <3>3
    <3>5. ASSUME NEW j \in 1..Len(order), j > n
          PROVE  FirstChoice(order, tries, options, s, t, j)
      <4>1. CASE j = n + 1
        <5>1. m \in DOMAIN tries[order[j]] /\ t[j] = tries[order[j]][m]
          BY <1>3, <2>2, <3>4, <4>1 DEF tried
        <5>2. ASSUME NEW k \in DOMAIN tries[order[j]], NEW u \in C, k < m
              PROVE  u[j] # tries[order[j]][k]
          <6>1. k \in 1..N /\ tries[order[j]][k] = tried[k]  BY <1>3, <4>1 DEF tried
          <6>2. result[k] = Nothing  BY <2>3, <5>2, <6>1
          <6> QED  BY <1>10, <4>1, <6>1, <6>2
        <5> QED  BY <5>1, <5>2 DEF FirstChoice, C
      <4>2. CASE j # n + 1
        <5>1. j > n + 1 /\ n + 1 \in 1..(j - 1)  BY <1>1, <3>5, <4>2
        <5>2. Len(with(m)) = n + 1  BY <1>4, <2>2
        <5>3. FirstChoice(order, tries, options, with(m), t, j)  BY <3>3, <5>1, <5>2
        <5>4. PICK l \in DOMAIN tries[order[j]] :
                /\ t[j] = tries[order[j]][l]
                /\ \A k \in DOMAIN tries[order[j]], u \in D(m) :
                     k < l /\ (\A i \in 1..(j - 1) : u[i] = t[i]) => u[j] # tries[order[j]][k]
          BY <5>3 DEF FirstChoice, D
        <5>5. ASSUME NEW k \in DOMAIN tries[order[j]], NEW u \in C, k < l,
                     \A i \in 1..(j - 1) : u[i] = t[i]
              PROVE  u[j] # tries[order[j]][k]
          <6>1. u[n + 1] = tried[m]  BY <3>4, <5>1, <5>5
          <6>2. u \in D(m)  BY <1>5, <2>2, <6>1
          <6> QED  BY <5>4, <5>5, <6>2
        <5> QED  BY <5>4, <5>5 DEF FirstChoice, C
      <4> QED  BY <4>1, <4>2
    <3>6. Searched(order, tries, options, s, FirstResult(result))
      <4>1. FirstResult(result) = Found(t)  BY <2>4, <3>3
      <4> QED  BY <3>4, <3>5, <4>1 DEF Searched, C
    <3> QED  BY <3>6 DEF SearchStep, result, tried
  <2> QED  BY <2>5, <2>6
<1> QED  BY <1>12, <1>13

\* The backtracking search, by induction over the courses that are left.
LEMMA SearchRight ==
  ASSUME NEW order, NEW tries, NEW options, NEW blocking, TriesTyped(order, tries, options)
  PROVE  Searched(order, tries, options, <<>>, Search(order, tries, blocking, options))
<1> DEFINE P == Prefixes(order, options)
           L == Len(order)
<1>1. PICK f : /\ \A s \in P : f[s] = SearchStep(order, tries, blocking, f, s)
               /\ Search(order, tries, blocking, options) = f[<<>>]
  BY SearchIsOne
<1> DEFINE Decided(s) == Listed(order, tries, s, Len(s)) /\ Compatible(s, Len(s))
           Wrong(s) == Decided(s) /\ ~Searched(order, tries, options, s, f[s])
           Bad == {d \in 0..L : \E s \in P : Len(s) = L - d /\ Wrong(s)}
<1>2. L \in Nat /\ \A s \in P : Len(s) \in 0..L  BY PrefixFacts DEF TriesTyped
<1>3. Bad = {}
  <2> SUFFICES ASSUME Bad # {} PROVE FALSE  OBVIOUS
  <2>1. PICK d \in Bad : \A e \in Bad : d <= e
    <3>1. Bad \subseteq Nat  BY <1>2
    <3> HIDE DEF Bad
    <3> QED  BY <3>1, LeastNat
  <2>2. PICK s \in P : Len(s) = L - d /\ Wrong(s)  OBVIOUS
  <2>3. d \in 0..L  OBVIOUS
  <2>4. CASE d = 0
    <3>1. Len(s) = L  BY <1>2, <2>2, <2>4
    <3>2. f[s] = Found(s)  BY <1>1, <3>1 DEF SearchStep
    <3>3. s \in [1..L -> options]
      <4>1. s \in Seq(options)  BY <1>2, PrefixFacts
      <4> HIDE DEF P
      <4> QED  BY <3>1, <4>1
    <3>4. s \in Completions(order, tries, options, s)  BY <2>2, <3>1, <3>3 DEF Completions
    <3>5. \A j \in 1..L : ~(j > Len(s))  BY <1>2, <3>1
    <3>6. Searched(order, tries, options, s, f[s])  BY <3>2, <3>4, <3>5 DEF Searched
    <3> QED  BY <2>2, <3>6
  <2>5. CASE d # 0
    <3>1. d - 1 \in 0..L /\ ~(d <= d - 1) /\ L - (d - 1) = Len(s) + 1 /\ Len(s) # L
      BY <1>2, <2>2, <2>3, <2>5
    <3>2. d - 1 \notin Bad
      <4> HIDE DEF Bad
      <4> QED  BY <2>1, <3>1
    <3>3. \A p \in P : Len(p) = Len(s) + 1 => ~Wrong(p)  BY <3>1, <3>2
    <3>4. \A p \in P : Len(p) = Len(s) + 1 /\ Listed(order, tries, p, Len(p)) /\ Compatible(p, Len(p)) =>
            Searched(order, tries, options, p, f[p])
      BY <3>3
    <3>5. Listed(order, tries, s, Len(s)) /\ Compatible(s, Len(s))  BY <2>2
    <3>6. s \in Prefixes(order, options) /\ Len(s) # Len(order)  BY <3>1
    <3>7. Searched(order, tries, options, s, SearchStep(order, tries, blocking, f, s))
      BY <3>4, <3>5, <3>6, RightStep
    <3> QED  BY <1>1, <2>2, <3>7
  <2> QED  BY <2>4, <2>5
<1>4. <<>> \in P /\ Len(<<>>) = 0  BY <1>2, NoPrefix
<1>5. Decided(<<>>)  BY <1>4 DEF Listed, Compatible
<1>6. ~Wrong(<<>>)
  <2>1. L \in 0..L /\ L - L = 0  BY <1>2
  <2>2. L \notin Bad  BY <1>3
  <2> HIDE DEF Wrong
  <2> QED  BY <1>4, <2>1, <2>2
<1> QED  BY <1>1, <1>5, <1>6

\* ------------------------------------------------------ choosing sections

\* What SectionsAssumption says of the options of one query.
OptionsSound(options) ==
  /\ IsFiniteSet(options)
  /\ \A o, p \in options :
       o.course = p.course /\ o.term = p.term /\ o.id = p.id => o = p
  /\ \A o \in options :
       /\ o.id \in Int
       /\ \A m \in o.meetings :
            m.start \in Int /\ m.end \in Int /\ (Timed(m) => m.start < m.end)

LEMMA CandidatesOrdered ==
  ASSUME NEW options, OptionsSound(options), NEW planned, NEW c
  PROVE  LET S == Candidates(planned, options, c)
         IN  /\ IsFiniteSet(S)
             /\ StrictlyOrders({p \in S \X S : Sooner(p[1], p[2])}, S)
<1> DEFINE S == Candidates(planned, options, c)
           less == {p \in S \X S : Sooner(p[1], p[2])}
<1>1. IsFiniteSet(S)
  <2>1. S \in SUBSET options /\ IsFiniteSet(options)  BY DEF OptionsSound, Candidates
  <2> HIDE DEF S
  <2> QED  BY <2>1, FS_Subset
<1>2. /\ \A o \in S : o.id \in Int
      /\ \A o, p \in S : o.id = p.id => o = p
  BY DEF OptionsSound, Candidates
<1> HIDE DEF S
<1>3. \A o, p \in S : <<o, p>> \in less <=> Sooner(o, p)  OBVIOUS
<1> HIDE DEF less
<1>4. \A o \in S : <<o, o>> \notin less  BY <1>2, <1>3 DEF Sooner
<1>5. ASSUME NEW o \in S, NEW p \in S, o # p
      PROVE  <<o, p>> \in less \/ <<p, o>> \in less
  <2>1. o.id \in Int /\ p.id \in Int /\ o.id # p.id  BY <1>2, <1>5
  <2>2. o.id < p.id \/ p.id < o.id  BY <2>1
  <2> QED  BY <1>3, <2>2 DEF Sooner
<1>6. ASSUME NEW o \in S, NEW p \in S, NEW q1 \in S, <<o, p>> \in less, <<p, q1>> \in less
      PROVE  <<o, q1>> \in less
  <2>1. o.id \in Int /\ p.id \in Int /\ q1.id \in Int  BY <1>2
  <2>2. Sooner(o, p) /\ Sooner(p, q1)  BY <1>3, <1>6
  <2>3. Sooner(o, q1)  BY <2>1, <2>2 DEF Sooner
  <2> QED  BY <1>3, <2>3
<1>7. StrictlyOrders(less, S)  BY <1>4, <1>5, <1>6 DEF StrictlyOrders
<1> QED  BY <1>1, <1>7 DEF S, less

LEMMA CoursesOrdered ==
  ASSUME NEW options, OptionsSound(options), NEW planned,
         DOMAIN planned \subseteq Nat
  PROVE  StrictlyOrders({p \in (DOMAIN planned) \X (DOMAIN planned) :
                           Fewer(planned, options, p[1], p[2])}, DOMAIN planned)
<1> DEFINE S == DOMAIN planned
           less == {p \in S \X S : Fewer(planned, options, p[1], p[2])}
           size == [c \in S |-> Cardinality(Candidates(planned, options, c))]
<1>1. \A c \in S : c \in Nat /\ size[c] \in Nat
  <2>1. ASSUME NEW c \in S PROVE Cardinality(Candidates(planned, options, c)) \in Nat
    <3>1. IsFiniteSet(Candidates(planned, options, c))  BY CandidatesOrdered
    <3> QED  BY <3>1, FS_CardinalityType
  <2> QED  BY <2>1
<1>2. \A c, d \in S : <<c, d>> \in less <=> size[c] < size[d] \/ (size[c] = size[d] /\ c < d)
  BY DEF Fewer
<1> HIDE DEF S, less, size
<1>3. \A c \in S : <<c, c>> \notin less  BY <1>1, <1>2
<1>4. ASSUME NEW c \in S, NEW d \in S, c # d
      PROVE  <<c, d>> \in less \/ <<d, c>> \in less
  <2>1. c \in Nat /\ d \in Nat /\ size[c] \in Nat /\ size[d] \in Nat  BY <1>1
  <2> QED  BY <1>2, <1>4, <2>1
<1>5. ASSUME NEW c \in S, NEW d \in S, NEW e \in S, <<c, d>> \in less, <<d, e>> \in less
      PROVE  <<c, e>> \in less
  <2>1. /\ c \in Nat /\ d \in Nat /\ e \in Nat
        /\ size[c] \in Nat /\ size[d] \in Nat /\ size[e] \in Nat
    BY <1>1
  <2> QED  BY <1>2, <1>5, <2>1
<1>6. StrictlyOrders(less, S)  BY <1>3, <1>4, <1>5 DEF StrictlyOrders
<1>7. less = {p \in (DOMAIN planned) \X (DOMAIN planned) : Fewer(planned, options, p[1], p[2])}
  BY DEF less, S
<1> QED  BY <1>6, <1>7 DEF S

\* Meetings conflict exactly if they share a minute.
LEMMA ConflictsClash ==
  ASSUME NEW options, OptionsSound(options),
         NEW o \in options, NEW p \in options
  PROVE  Conflicts(o, p) <=> \E m \in o.meetings, n \in p.meetings : Clash(m, n)
<1>1. ASSUME NEW m \in o.meetings, NEW n \in p.meetings
      PROVE  Overlaps(m, n) <=> Clash(m, n)
  <2>1. /\ m.start \in Int /\ m.end \in Int /\ (Timed(m) => m.start < m.end)
        /\ n.start \in Int /\ n.end \in Int /\ (Timed(n) => n.start < n.end)
    BY DEF OptionsSound
  <2>2. CASE ~(Timed(m) /\ Timed(n) /\ m.day = n.day)  BY <2>2 DEF Overlaps, Clash
  <2>3. CASE Timed(m) /\ Timed(n) /\ m.day = n.day
    <3>1. m.start < m.end /\ n.start < n.end  BY <2>1, <2>3
    <3>2. ASSUME m.start < n.end, n.start < m.end
          PROVE  (m.start..(m.end - 1)) \cap (n.start..(n.end - 1)) # {}
      <4> DEFINE x == IF m.start < n.start THEN n.start ELSE m.start
      <4>1. x \in m.start..(m.end - 1) /\ x \in n.start..(n.end - 1)  BY <2>1, <3>1, <3>2
      <4> QED  BY <4>1
    <3>3. ASSUME NEW x \in (m.start..(m.end - 1)) \cap (n.start..(n.end - 1))
          PROVE  m.start < n.end /\ n.start < m.end
      <4>1. x \in Int /\ m.start <= x /\ x <= m.end - 1 /\ n.start <= x /\ x <= n.end - 1
        BY <2>1
      <4> QED  BY <2>1, <4>1
    <3> QED  BY <2>3, <3>2, <3>3 DEF Overlaps, Clash
  <2> QED  BY <2>2, <2>3
<1> QED  BY <1>1 DEF Conflicts

\* All lists of options in ChooseSections.
OptionLists(planned, options) == [c \in DOMAIN planned |-> OptionList(planned, options, c)]

LEMMA OrderFacts ==
  ASSUME NEW options, OptionsSound(options), NEW planned,
         DOMAIN planned \subseteq Nat, IsFiniteSet(DOMAIN planned), NEW order,
         order = CourseOrder(planned, options)
  PROVE  /\ Len(order) \in Nat /\ order \in [1..Len(order) -> DOMAIN planned]
         /\ \A c \in DOMAIN planned : \E i \in 1..Len(order) : order[i] = c
         /\ \A i, j \in 1..Len(order) : i < j =>
              order[i] # order[j] /\ Fewer(planned, options, order[i], order[j])
<1> DEFINE S == DOMAIN planned
           less == {p \in S \X S : Fewer(planned, options, p[1], p[2])}
           C == Cardinality(S)
<1>1. StrictlyOrders(less, S)  BY CoursesOrdered
<1>2. order = Sorted(S, less)  BY DEF CourseOrder
<1>3. \A p \in less : Fewer(planned, options, p[1], p[2])  OBVIOUS
<1> HIDE DEF S, less
<1>4. /\ C \in Nat /\ order \in [1..C -> S]
      /\ \A x \in S : \E k \in 1..C : order[k] = x
      /\ \A i, j \in 1..C : i < j => <<order[i], order[j]>> \in less
  BY <1>1, <1>2, SortedLists DEF S
<1> HIDE DEF C
<1>5. Len(order) = C  BY <1>4
<1>6. ASSUME NEW i \in 1..C, NEW j \in 1..C, i < j
      PROVE  order[i] # order[j] /\ Fewer(planned, options, order[i], order[j])
  <2>1. <<order[i], order[j]>> \in less /\ order[i] \in S  BY <1>4, <1>6
  <2> DEFINE p == <<order[i], order[j]>>
  <2>2. Fewer(planned, options, p[1], p[2])
    <3>1. p \in less  BY <2>1
    <3> HIDE DEF p
    <3> QED  BY <1>3, <3>1
  <2>3. order[i] # order[j]  BY <1>1, <2>1 DEF StrictlyOrders
  <2> QED  BY <2>2, <2>3
<1> QED  BY <1>4, <1>5, <1>6 DEF S

LEMMA ListFacts ==
  ASSUME NEW options, OptionsSound(options), NEW planned, NEW c,
         NEW list, list = OptionList(planned, options, c)
  PROVE  /\ \E n \in Nat : list \in [1..n -> options]
         /\ DOMAIN list \subseteq Nat
         /\ \A k \in DOMAIN list : list[k] \in Candidates(planned, options, c)
         /\ \A o \in Candidates(planned, options, c) : \E k \in DOMAIN list : list[k] = o
         /\ \A k, l \in DOMAIN list : k < l => Sooner(list[k], list[l])
<1> DEFINE S == Candidates(planned, options, c)
           less == {p \in S \X S : Sooner(p[1], p[2])}
           C == Cardinality(S)
<1>1. IsFiniteSet(S) /\ StrictlyOrders(less, S)  BY CandidatesOrdered
<1>2. list = Sorted(S, less)  BY DEF OptionList
<1>3. \A p \in less : Sooner(p[1], p[2])  OBVIOUS
<1>4. S \subseteq options  BY DEF Candidates
<1> HIDE DEF S, less
<1>5. /\ C \in Nat /\ list \in [1..C -> S]
      /\ \A x \in S : \E k \in 1..C : list[k] = x
      /\ \A i, j \in 1..C : i < j => <<list[i], list[j]>> \in less
  BY <1>1, <1>2, SortedLists
<1> HIDE DEF C
<1>6. DOMAIN list = 1..C /\ list \in [1..C -> options]  BY <1>4, <1>5
<1>7. ASSUME NEW k \in 1..C, NEW l \in 1..C, k < l
      PROVE  Sooner(list[k], list[l])
  <2> DEFINE p == <<list[k], list[l]>>
  <2>1. p \in less /\ p[1] = list[k] /\ p[2] = list[l]  BY <1>5, <1>7
  <2> HIDE DEF p
  <2>2. Sooner(p[1], p[2])  BY <1>3, <2>1
  <2> QED  BY <2>1, <2>2
<1> QED  BY <1>5, <1>6, <1>7 DEF S

LEMMA ListsTyped ==
  ASSUME NEW options, OptionsSound(options), NEW planned,
         DOMAIN planned \subseteq Nat, IsFiniteSet(DOMAIN planned)
  PROVE  TriesTyped(CourseOrder(planned, options), OptionLists(planned, options), options)
<1>1. PICK order : order = CourseOrder(planned, options)  OBVIOUS
<1>2. Len(order) \in Nat /\ order \in [1..Len(order) -> DOMAIN planned]  BY <1>1, OrderFacts
<1>3. ASSUME NEW i \in 1..Len(order)
      PROVE  \E n \in Nat : OptionLists(planned, options)[order[i]] \in [1..n -> options]
  <2>1. order[i] \in DOMAIN planned  BY <1>2
  <2>2. OptionLists(planned, options)[order[i]] = OptionList(planned, options, order[i])
    BY <2>1 DEF OptionLists
  <2>3. \E n \in Nat : OptionList(planned, options, order[i]) \in [1..n -> options]  BY ListFacts
  <2> QED  BY <2>2, <2>3
<1>4. TriesTyped(order, OptionLists(planned, options), options)  BY <1>2, <1>3 DEF TriesTyped
<1> QED  BY <1>1, <1>4

\* FreeSelections, for any plan.
FreeFor(planned, options) ==
  {s \in [DOMAIN planned -> options] :
     /\ \A c \in DOMAIN s : s[c].course = c /\ s[c].term = planned[c]
     /\ \A c, d \in DOMAIN s : c # d =>
          \A m \in s[c].meetings, n \in s[d].meetings : ~Clash(m, n)}

LEMMA ConflictsSymmetric == \A o, p : Conflicts(o, p) => Conflicts(p, o)
BY DEF Conflicts, Overlaps

\* A full selection, by place, is one by course ...
LEMMA SelectionByCourse ==
  ASSUME NEW options, OptionsSound(options), NEW planned,
         DOMAIN planned \subseteq Nat, IsFiniteSet(DOMAIN planned),
         NEW order, order = CourseOrder(planned, options),
         NEW t \in Completions(order, OptionLists(planned, options), options, <<>>),
         NEW s, DOMAIN s = DOMAIN planned,
         \A c \in DOMAIN planned : \E i \in 1..Len(order) : order[i] = c /\ s[c] = t[i],
         s = [c \in DOMAIN planned |-> s[c]]
  PROVE  s \in FreeFor(planned, options)
<1> DEFINE tries == OptionLists(planned, options)
           L == Len(order)
<1>1. /\ L \in Nat /\ order \in [1..L -> DOMAIN planned]
  BY OrderFacts
<1>2. /\ t \in [1..L -> options] /\ Listed(order, tries, t, L) /\ Compatible(t, L)
  BY DEF Completions
<1>3. ASSUME NEW i \in 1..L
      PROVE  t[i] \in Candidates(planned, options, order[i])
  <2>1. PICK k \in DOMAIN tries[order[i]] : t[i] = tries[order[i]][k]  BY <1>2 DEF Listed
  <2>2. tries[order[i]] = OptionList(planned, options, order[i])  BY <1>1 DEF OptionLists
  <2>3. PICK list : list = tries[order[i]]  OBVIOUS
  <2> HIDE DEF tries
  <2>4. \A l \in DOMAIN list : list[l] \in Candidates(planned, options, order[i])
    BY <2>2, <2>3, ListFacts
  <2> QED  BY <2>1, <2>3, <2>4
<1>4. ASSUME NEW c \in DOMAIN planned
      PROVE  s[c] \in options /\ s[c].course = c /\ s[c].term = planned[c]
  BY <1>3 DEF Candidates
<1>5. ASSUME NEW c \in DOMAIN planned, NEW d \in DOMAIN planned, c # d
      PROVE  \A m \in s[c].meetings, n \in s[d].meetings : ~Clash(m, n)
  <2>1. PICK i \in 1..L : order[i] = c /\ s[c] = t[i]  OBVIOUS
  <2>2. PICK j \in 1..L : order[j] = d /\ s[d] = t[j]  OBVIOUS
  <2>3. i < j \/ j < i
    <3>1. i # j  BY <1>5, <2>1, <2>2
    <3>2. i \in Int /\ j \in Int  OBVIOUS
    <3> QED  BY <3>1, <3>2
  <2>4. ~Conflicts(s[c], s[d])
    <3>1. ~Conflicts(t[j], t[i]) \/ ~Conflicts(t[i], t[j])  BY <1>2, <2>3 DEF Compatible
    <3> QED  BY <2>1, <2>2, <3>1, ConflictsSymmetric
  <2> QED  BY <1>4, <2>4, ConflictsClash
<1>6. s \in [DOMAIN planned -> options]  BY <1>4
<1> QED  BY <1>4, <1>5, <1>6 DEF FreeFor

\* ... and the other way round.
LEMMA SelectionByPlace ==
  ASSUME NEW options, OptionsSound(options), NEW planned,
         DOMAIN planned \subseteq Nat, IsFiniteSet(DOMAIN planned),
         NEW order, order = CourseOrder(planned, options),
         NEW s \in FreeFor(planned, options)
  PROVE  [i \in 1..Len(order) |-> s[order[i]]]
           \in Completions(order, OptionLists(planned, options), options, <<>>)
<1> DEFINE tries == OptionLists(planned, options)
           L == Len(order)
           t == [i \in 1..L |-> s[order[i]]]
<1>1. /\ L \in Nat /\ order \in [1..L -> DOMAIN planned]
      /\ \A i, j \in 1..L : i < j => order[i] # order[j]
  BY OrderFacts
<1>2. /\ s \in [DOMAIN planned -> options]
      /\ \A c \in DOMAIN planned : s[c].course = c /\ s[c].term = planned[c]
      /\ \A c, d \in DOMAIN planned : c # d =>
           \A m \in s[c].meetings, n \in s[d].meetings : ~Clash(m, n)
  BY DEF FreeFor
<1>3. ASSUME NEW i \in 1..L
      PROVE  t[i] = s[order[i]] /\ t[i] \in options /\ order[i] \in DOMAIN planned
  BY <1>1, <1>2
<1> HIDE DEF t
<1>4. ASSUME NEW i \in 1..L
      PROVE  \E k \in DOMAIN tries[order[i]] : t[i] = tries[order[i]][k]
  <2>1. t[i] \in Candidates(planned, options, order[i])  BY <1>2, <1>3 DEF Candidates
  <2>2. tries[order[i]] = OptionList(planned, options, order[i])  BY <1>3 DEF OptionLists
  <2>3. PICK list, c : list = tries[order[i]] /\ c = order[i]  OBVIOUS
  <2> HIDE DEF tries
  <2>4. list = OptionList(planned, options, c)  BY <2>2, <2>3
  <2>5. \A o \in Candidates(planned, options, c) : \E k \in DOMAIN list : list[k] = o
    BY <2>4, ListFacts
  <2> QED  BY <2>1, <2>3, <2>5
<1>5. ASSUME NEW i \in 1..L, NEW j \in 1..L, i < j
      PROVE  ~Conflicts(t[j], t[i])
  <2>1. \A m \in t[j].meetings, n \in t[i].meetings : ~Clash(m, n)  BY <1>1, <1>2, <1>3, <1>5
  <2> QED  BY <1>3, <2>1, ConflictsClash
<1>6. t \in [1..L -> options]  BY <1>3 DEF t
<1>7. \A i \in 1..Len(<<>>) : t[i] = <<>>[i]  OBVIOUS
<1>8. t \in Completions(order, tries, options, <<>>)
  BY <1>4, <1>5, <1>6, <1>7 DEF Completions, Listed, Compatible
<1> QED  BY <1>8 DEF t

\* ChooseSections, for any plan and any options the assumption allows.
LEMMA ChosenSections ==
  ASSUME NEW options, OptionsSound(options), NEW planned,
         DOMAIN planned \subseteq Nat, IsFiniteSet(DOMAIN planned),
         NEW times, NEW sch, sch = ChooseSections(planned, options, times)
  PROVE  \/ sch.status = "raised"
         \/ sch = Schedule("infeasible", <<>>) /\ FreeFor(planned, options) = {}
         \/ \E s \in FreeFor(planned, options) :
              /\ sch = Schedule("feasible", s)
              /\ \A c \in DOMAIN planned, u \in FreeFor(planned, options) :
                   /\ HasUnknownMeetings(s[c])
                   /\ \A d \in DOMAIN planned : Fewer(planned, options, d, c) => u[d] = s[d]
                   => HasUnknownMeetings(u[c])
<1> DEFINE free == FreeFor(planned, options)
<1>1. PICK order : order = CourseOrder(planned, options)  OBVIOUS
<1>2. PICK tries : tries = OptionLists(planned, options)  OBVIOUS
<1>3. PICK found : found = Search(order, tries, times, options)  OBVIOUS
<1> DEFINE place(c) == CHOOSE i \in DOMAIN order : order[i] = c
           Some == \E c \in DOMAIN planned : Candidates(planned, options, c) = {}
           selected == [c \in DOMAIN planned |-> found.selected[place(c)]]
<1>4. sch = IF Some THEN Schedule("infeasible", <<>>)
            ELSE IF found.outcome = "raised" THEN Schedule("raised", <<>>)
            ELSE IF found.outcome = "nothing" THEN Schedule("infeasible", <<>>)
            ELSE Schedule("feasible", selected)
  BY <1>1, <1>2, <1>3 DEF ChooseSections, CourseOrder, OptionLists, OptionList
<1>5. /\ Len(order) \in Nat /\ order \in [1..Len(order) -> DOMAIN planned]
      /\ \A c \in DOMAIN planned : \E i \in 1..Len(order) : order[i] = c
      /\ \A i, j \in 1..Len(order) : i < j =>
           order[i] # order[j] /\ Fewer(planned, options, order[i], order[j])
  BY <1>1, OrderFacts
<1>6. Searched(order, tries, options, <<>>, found)  BY <1>1, <1>2, <1>3, ListsTyped, SearchRight
<1>7. CASE Some
  <2>1. free = {}
    <3>1. PICK c \in DOMAIN planned : Candidates(planned, options, c) = {}  BY <1>7
    <3>2. ASSUME NEW s \in free PROVE FALSE
      <4>1. s[c] \in options /\ s[c].course = c /\ s[c].term = planned[c]  BY DEF FreeFor
      <4> QED  BY <3>1, <4>1 DEF Candidates
    <3> QED  BY <3>2
  <2> QED  BY <1>4, <1>7, <2>1
<1>8. CASE ~Some /\ found = Raised
  <2>1. found.outcome = "raised"  BY <1>8 DEF Raised
  <2>2. sch = Schedule("raised", <<>>)  BY <1>4, <1>8, <2>1
  <2> QED  BY <2>2 DEF Schedule
<1>9. CASE ~Some /\ found = Nothing /\ Completions(order, tries, options, <<>>) = {}
  <2>1. found.outcome = "nothing"  BY <1>9 DEF Nothing
  <2>2. sch = Schedule("infeasible", <<>>)  BY <1>4, <1>9, <2>1
  <2>3. free = {}
    <3> SUFFICES ASSUME NEW s \in free PROVE FALSE  OBVIOUS
    <3>1. [i \in 1..Len(order) |-> s[order[i]]] \in Completions(order, tries, options, <<>>)
      BY <1>1, <1>2, SelectionByPlace
    <3> QED  BY <1>9, <3>1
  <2> QED  BY <2>2, <2>3
<1>10. ASSUME ~Some, NEW t \in Completions(order, tries, options, <<>>), found = Found(t),
              \A j \in 1..Len(order) :
                j > Len(<<>>) => FirstChoice(order, tries, options, <<>>, t, j)
       PROVE  \E s \in free :
                /\ sch = Schedule("feasible", s)
                /\ \A c \in DOMAIN planned, u \in free :
                     /\ HasUnknownMeetings(s[c])
                     /\ \A d \in DOMAIN planned : Fewer(planned, options, d, c) => u[d] = s[d]
                     => HasUnknownMeetings(u[c])
  <2>1. found.outcome = "found" /\ found.selected = t  BY <1>10 DEF Found
  <2>2. sch = Schedule("feasible", selected)  BY <1>4, <1>10, <2>1
  <2>3. ASSUME NEW c \in DOMAIN planned
        PROVE  place(c) \in 1..Len(order) /\ order[place(c)] = c /\ selected[c] = t[place(c)]
    <3>1. DOMAIN order = 1..Len(order)  BY <1>5
    <3>2. \E i \in DOMAIN order : order[i] = c  BY <1>5, <3>1
    <3>3. place(c) \in DOMAIN order /\ order[place(c)] = c  BY <3>2
    <3>4. selected[c] = t[place(c)]  BY <2>1
    <3> HIDE DEF selected, place
    <3> QED  BY <3>1, <3>3, <3>4
  <2>4. DOMAIN selected = DOMAIN planned /\ selected = [c \in DOMAIN planned |-> selected[c]]
    OBVIOUS
  <2>5. PICK s : s = selected  OBVIOUS
  <2> HIDE DEF selected, place
  <2>6. s \in free
    <3>1. \A c \in DOMAIN planned : \E i \in 1..Len(order) : order[i] = c /\ s[c] = t[i]
      BY <2>3, <2>5
    <3>2. DOMAIN s = DOMAIN planned /\ s = [c \in DOMAIN planned |-> s[c]]  BY <2>4, <2>5
    <3>3. t \in Completions(order, OptionLists(planned, options), options, <<>>)  BY <1>2
    <3> QED  BY <1>1, <3>1, <3>2, <3>3, SelectionByCourse
  <2>7. ASSUME NEW c \in DOMAIN planned, NEW u \in free, HasUnknownMeetings(s[c]),
               \A d \in DOMAIN planned : Fewer(planned, options, d, c) => u[d] = s[d]
        PROVE  HasUnknownMeetings(u[c])
    <3>1. PICK j : j = place(c)  OBVIOUS
    <3>2. j \in 1..Len(order) /\ order[j] = c /\ s[c] = t[j]  BY <2>3, <2>5, <3>1
    <3>3. PICK v : v = [i \in 1..Len(order) |-> u[order[i]]]  OBVIOUS
    <3>4. v \in Completions(order, tries, options, <<>>)  BY <1>1, <1>2, <3>3, SelectionByPlace
    <3>5. ASSUME NEW i \in 1..(j - 1) PROVE v[i] = t[i]
      <4>1. i \in 1..Len(order) /\ i < j  BY <1>5, <3>2
      <4>2. Fewer(planned, options, order[i], c) /\ order[i] \in DOMAIN planned
        BY <1>5, <3>2, <4>1
      <4>3. u[order[i]] = s[order[i]]  BY <2>7, <4>2
      <4>4. place(order[i]) \in 1..Len(order) /\ order[place(order[i])] = order[i]
            /\ s[order[i]] = t[place(order[i])]
        BY <2>3, <2>5, <4>2
      <4>5. PICK p : p = place(order[i])  OBVIOUS
      <4>6. p = i
        <5>1. p \in 1..Len(order) /\ order[p] = order[i]  BY <4>4, <4>5
        <5>2. ~(p < i) /\ ~(i < p)  BY <1>5, <4>1, <5>1
        <5>3. p \in Int /\ i \in Int  BY <1>5, <5>1
        <5> QED  BY <5>2, <5>3
      <4> QED  BY <3>3, <4>1, <4>3, <4>4, <4>5, <4>6
    <3>6. PICK list : list = tries[c]  OBVIOUS
    <3>7. list = OptionList(planned, options, c)  BY <1>2, <3>6 DEF OptionLists
    <3>8. /\ DOMAIN list \subseteq Nat
          /\ \A o \in Candidates(planned, options, c) : \E k \in DOMAIN list : list[k] = o
          /\ \A k, l \in DOMAIN list : k < l => Sooner(list[k], list[l])
      BY <3>7, ListFacts
    <3>9. PICK m \in DOMAIN list :
            /\ t[j] = list[m]
            /\ \A k \in DOMAIN list : k < m => v[j] # list[k]
      <4>1. j > Len(<<>>)  BY <3>2, NoPrefix, <1>5
      <4>2. FirstChoice(order, tries, options, <<>>, t, j)  BY <1>10, <3>2, <4>1
      <4> QED  BY <3>2, <3>4, <3>5, <3>6, <4>2 DEF FirstChoice
    <3>10. v[j] = u[c]  BY <3>2, <3>3
    <3>11. u[c] \in Candidates(planned, options, c)  BY DEF FreeFor, Candidates
    <3>12. PICK k \in DOMAIN list : list[k] = u[c]  BY <3>8, <3>11
    <3>13. k = m \/ m < k
      <4>1. k \in Nat /\ m \in Nat  BY <3>8
      <4>2. ~(k < m)  BY <3>9, <3>10, <3>12
      <4> QED  BY <4>1, <4>2
    <3>14. CASE k = m  BY <2>7, <3>2, <3>9, <3>12, <3>14
    <3>15. CASE m < k
      <4>1. Sooner(s[c], u[c])  BY <3>2, <3>8, <3>9, <3>12, <3>15
      <4> QED  BY <2>7, <4>1 DEF Sooner
    <3> QED  BY <3>13, <3>14, <3>15
  <2> QED  BY <2>2, <2>5, <2>6, <2>7
<1> HIDE DEF Some, place
<1>11. CASE ~Some /\ found # Raised /\ ~(found = Nothing /\ Completions(order, tries, options, <<>>) = {})
  <2>1. PICK t \in Completions(order, tries, options, <<>>) :
          /\ found = Found(t)
          /\ \A j \in 1..Len(order) :
               j > Len(<<>>) => FirstChoice(order, tries, options, <<>>, t, j)
    BY <1>6, <1>11 DEF Searched
  <2> QED  BY <1>10, <1>11, <2>1
<1> QED  BY <1>7, <1>8, <1>9, <1>11

\* The schedule is that of the last plan, which does not change any more.
ScheduleInv ==
  schedule # NotAsked =>
    /\ HasPlan
    /\ request \in DOMAIN SectionQueries /\ query \in SectionQueries[request]
    /\ schedule = Response(Planned, query)

LEMMA ScheduleStep ==
  ASSUME ScheduleInv, [AdvisingNext]_allVars
  PROVE  ScheduleInv'
<1>1. ASSUME UNCHANGED vars
      PROVE  /\ HasPlan' = HasPlan /\ request' = request
             /\ \A q : Response(Planned, q)' = Response(Planned, q)
  <2>1. request' = request /\ phase' = phase /\ results' = results  BY <1>1 DEF vars
  <2> QED  BY <2>1 DEF HasPlan, Answered, Plan, Planned
<1>2. CASE ChooseSchedule
  <2>1. UNCHANGED vars  BY <1>2 DEF ChooseSchedule, auditVars
  <2>2. PICK q \in SectionQueries[request] : query' = q /\ schedule' = Response(Planned, q)
    BY <1>2 DEF ChooseSchedule
  <2>3. schedule' = Response(Planned, q)'  BY <1>1, <2>1, <2>2
  <2> QED  BY <1>1, <1>2, <2>1, <2>2, <2>3 DEF ChooseSchedule, ScheduleInv
<1>3. CASE UNCHANGED vars /\ UNCHANGED <<query, schedule>>  BY <1>1, <1>3 DEF ScheduleInv
<1>4. CASE Next /\ UNCHANGED <<query, schedule>>
  <2>1. phase # "done"
    BY <1>4 DEF Next, Build, SolveOptimal, SolveFeasible, BlockRefused, SolveInfeasible,
                SolveUnknown, NoSolution, Fallback
  <2>2. schedule = NotAsked  BY <2>1 DEF ScheduleInv, HasPlan
  <2> QED  BY <1>4, <2>2 DEF ScheduleInv
<1> QED  BY <1>2, <1>3, <1>4 DEF AdvisingNext, AuditNext, AuditPlan, allVars, auditVars

LEMMA ExactSchedule ==
  ASSUME PlannerInv, ScheduleInv
  PROVE  SearchIsExact
<1> SUFFICES ASSUME schedule # NotAsked, schedule.status # "raised"
             PROVE  SearchIsExact
  BY DEF SearchIsExact
<1>1. /\ request \in Requests /\ request \in DOMAIN SectionQueries
      /\ query \in SectionQueries[request] /\ schedule = Response(Planned, query)
  BY DEF PlannerInv, ScheduleInv
<1>2. PICK planned, options, sch :
        /\ planned = Planned /\ options = query.options
        /\ sch = ChooseSections(planned, options, query.blocked)
  OBVIOUS
<1>3. OptionsSound(options)  BY <1>1, <1>2, SectionsAssumption DEF OptionsSound
<1>4. DOMAIN planned \subseteq Nat /\ IsFiniteSet(DOMAIN planned)
  <2>1. DOMAIN planned \in SUBSET Codes(request)  BY <1>2 DEF Planned, Taken
  <2>2. IsFiniteSet(Codes(request)) /\ Codes(request) \subseteq Nat  BY <1>1, FiniteCodes
  <2> QED  BY <2>1, <2>2, FS_Subset
<1>5. FreeSelections = FreeFor(planned, options)  BY <1>2 DEF FreeSelections, FreeFor
<1>6. schedule = sch \/ schedule = [sch EXCEPT !.status = "invalid"]
  BY <1>1, <1>2 DEF Response
<1>7. sch.status # "raised"
  <2>1. sch.status = "raised" => schedule = sch  BY <1>1, <1>2 DEF Response
  <2> QED  BY <2>1
<1>8. CASE sch = Schedule("infeasible", <<>>) /\ FreeFor(planned, options) = {}
  <2>1. schedule.selected = <<>> /\ schedule.status # "feasible"  BY <1>6, <1>8 DEF Schedule
  <2>2. DOMAIN schedule.selected # DOMAIN planned
    <3> SUFFICES ASSUME DOMAIN planned = {} PROVE FALSE  BY <2>1
    <3>1. <<>> \in FreeFor(planned, options)  BY DEF FreeFor
    <3> QED  BY <1>8, <3>1
  <2> QED  BY <1>2, <1>5, <1>8, <2>1, <2>2 DEF SearchIsExact
<1>9. ASSUME NEW s \in FreeFor(planned, options), sch = Schedule("feasible", s),
             \A c \in DOMAIN planned, u \in FreeFor(planned, options) :
               /\ HasUnknownMeetings(s[c])
               /\ \A d \in DOMAIN planned : Fewer(planned, options, d, c) => u[d] = s[d]
               => HasUnknownMeetings(u[c])
      PROVE  SearchIsExact
  <2>1. /\ schedule.selected = s /\ DOMAIN s = DOMAIN planned
        /\ schedule.unknown = {c \in DOMAIN s : HasUnknownMeetings(s[c])}
    BY <1>6, <1>9 DEF Schedule, FreeFor
  <2>2. ASSUME NEW c \in schedule.unknown, NEW u \in FreeSelections,
               \A d \in {e \in DOMAIN planned : Fewer(planned, options, e, c)} : u[d] = s[d]
        PROVE  HasUnknownMeetings(u[c])
    <3>1. c \in DOMAIN planned /\ HasUnknownMeetings(s[c])  BY <2>1
    <3>2. \A d \in DOMAIN planned : Fewer(planned, options, d, c) => u[d] = s[d]  BY <2>2
    <3> QED  BY <1>5, <1>9, <3>1, <3>2
  <2> QED  BY <1>2, <1>5, <2>1, <2>2 DEF SearchIsExact
<1>10. \/ sch = Schedule("infeasible", <<>>) /\ FreeFor(planned, options) = {}
       \/ \E s \in FreeFor(planned, options) :
            /\ sch = Schedule("feasible", s)
            /\ \A c \in DOMAIN planned, u \in FreeFor(planned, options) :
                 /\ HasUnknownMeetings(s[c])
                 /\ \A d \in DOMAIN planned : Fewer(planned, options, d, c) => u[d] = s[d]
                 => HasUnknownMeetings(u[c])
  BY <1>2, <1>3, <1>4, <1>7, ChosenSections
<1> QED  BY <1>8, <1>9, <1>10

\* Asking for sections leaves the solver and the audit alone, so all that is
\* proved of answers and audits above holds beside it.
THEOREM AdvisingAudits == AdvisingSpec => AuditSpec /\ Spec
<1>1. AdvisingInit => AuditInit /\ Init  BY DEF AdvisingInit, AuditInit
<1>2. [AdvisingNext]_allVars => [AuditNext]_auditVars /\ [Next]_vars
  BY DEF AdvisingNext, ChooseSchedule, AuditNext, AuditPlan, allVars, auditVars
<1> QED  BY <1>1, <1>2, PTL DEF AdvisingSpec, AuditSpec, Spec

\* sections/scheduler.py, for every plan and all options: the backtracking
\* search answers with a section for each planned course, without a clash,
\* exactly if there is such a selection, and its order of options gives a course
\* an unknown time only where nothing else fits the courses decided before it.
THEOREM SearchesAreExact == AdvisingSpec => []SearchIsExact
<1> DEFINE Inv == PlannerInv /\ AnswersAreLegal /\ FallbackClaims /\ ScheduleInv
<1>1. AdvisingInit => Inv
  <2> SUFFICES ASSUME AdvisingInit PROVE Inv  OBVIOUS
  <2>1. PlannerInv /\ AnswersAreLegal /\ FallbackClaims
    BY PlannerInit DEF AdvisingInit, AuditInit
  <2> QED  BY <2>1 DEF ScheduleInv, AdvisingInit
<1>2. Inv /\ [AdvisingNext]_allVars => Inv'
  <2> SUFFICES ASSUME Inv, [AdvisingNext]_allVars PROVE Inv'  OBVIOUS
  <2>1. [Next]_vars
    BY DEF AdvisingNext, ChooseSchedule, AuditNext, AuditPlan, allVars, auditVars
  <2>2. PlannerInv' /\ AnswersAreLegal' /\ FallbackClaims'  BY <2>1, PlannerStep
  <2>3. ScheduleInv'  BY ScheduleStep
  <2> QED  BY <2>2, <2>3
<1>3. Inv => SearchIsExact  BY ExactSchedule
<1> QED  BY <1>1, <1>2, <1>3, PTL DEF AdvisingSpec
=============================================================================
