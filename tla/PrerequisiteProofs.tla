------------------------- MODULE PrerequisiteProofs -------------------------
(***************************************************************************)
(* Recursion over prerequisite expressions: a function whose value at an   *)
(* expression follows from its values at the parts exists, and what holds  *)
(* of an expression whenever it holds of the parts holds of all.  The      *)
(* least number principle, over the depth, stands in for induction.        *)
(***************************************************************************)
EXTENDS PrerequisiteAst, FiniteSetTheorems, TLAPS

\* Of a set of numbers one is the least.
LEMMA LeastNat ==
  ASSUME NEW T, T \subseteq Nat, T # {}
  PROVE  \E x \in T : \A y \in T : x <= y
<1> DEFINE Less == {p \in Nat \X Nat : p[1] < p[2]}
<1>1. IsWellFoundedOn(Less, Nat)
  <2>1. OpToRel(<, Nat) = Less  BY DEF OpToRel
  <2> QED  BY <2>1, NatLessThanWellFounded
<1>2. PICK x \in T : \A y \in T : <<y, x>> \notin Less
  <2> HIDE DEF Less
  <2> QED  BY <1>1, WFMin
<1>3. ASSUME NEW y \in T
      PROVE  x <= y
  <2>1. x \in Nat /\ y \in Nat  OBVIOUS
  <2>2. <<y, x>> \in Nat \X Nat /\ <<y, x>>[1] = y /\ <<y, x>>[2] = x  BY <2>1
  <2>3. ~(y < x)  BY <1>2, <2>2
  <2> QED  BY <2>1, <2>3
<1> QED  BY <1>3

\* A rule that gives the value at x from the values at what is less deep has a
\* function that follows it.
Local(D, S, depth, rule) ==
  \A x \in D : \A f, g \in [D -> S] :
    (\A y \in D : depth[y] < depth[x] => f[y] = g[y]) => rule[<<x, f>>] = rule[<<x, g>>]

\* The functions that follow it below a depth.
Following(D, S, depth, rule, n) ==
  {f \in [D -> S] : \A x \in D : depth[x] < n => f[x] = rule[<<x, f>>]}

LEMMA FollowingExists ==
  ASSUME NEW D, NEW S, NEW base \in S, NEW depth \in [D -> Nat],
         NEW rule \in [D \X [D -> S] -> S], Local(D, S, depth, rule), NEW n \in Nat
  PROVE  Following(D, S, depth, rule, n) # {}
<1> DEFINE F(k) == Following(D, S, depth, rule, k)
           Bad == {k \in Nat : F(k) = {}}
<1>1. SUFFICES ASSUME n \in Bad PROVE FALSE  OBVIOUS
<1>2. PICK k \in Bad : \A j \in Bad : k <= j
  <2>1. Bad \subseteq Nat /\ Bad # {}  BY <1>1
  <2> HIDE DEF Bad
  <2> QED  BY <2>1, LeastNat
<1>3. k \in Nat /\ F(k) = {}  OBVIOUS
<1>4. CASE k = 0
  <2> DEFINE f == [x \in D |-> base]
  <2>1. f \in [D -> S]  OBVIOUS
  <2>2. \A x \in D : ~(depth[x] < 0)  OBVIOUS
  <2>3. f \in F(0)  BY <2>1, <2>2 DEF Following
  <2> QED  BY <1>3, <1>4, <2>3
<1>5. CASE k # 0
  <2>1. k - 1 \in Nat /\ ~(k <= k - 1)  BY <1>3, <1>5
  <2>2. k - 1 \notin Bad
    <3> HIDE DEF Bad
    <3> QED  BY <1>2, <2>1
  <2>3. PICK f : f \in F(k - 1)  BY <2>1, <2>2
  <2>4. f \in [D -> S] /\ \A x \in D : depth[x] < k - 1 => f[x] = rule[<<x, f>>]
    BY <2>3 DEF Following
  <2> DEFINE g == [x \in D |-> rule[<<x, f>>]]
  <2>5. g \in [D -> S] /\ \A x \in D : g[x] = rule[<<x, f>>]
    <3>1. \A x \in D : <<x, f>> \in D \X [D -> S]  BY <2>4
    <3> QED  BY <3>1
  <2> HIDE DEF g
  <2>6. ASSUME NEW x \in D, depth[x] < k
        PROVE  g[x] = rule[<<x, g>>]
    <3>1. \A y \in D : depth[y] < depth[x] => depth[y] < k - 1
      <4>1. depth[x] \in Nat /\ \A y \in D : depth[y] \in Nat  OBVIOUS
      <4> QED  BY <1>3, <2>6, <4>1
    <3>2. \A y \in D : depth[y] < depth[x] => f[y] = g[y]  BY <2>4, <2>5, <3>1
    <3>3. rule[<<x, f>>] = rule[<<x, g>>]  BY <2>4, <2>5, <3>2 DEF Local
    <3> QED  BY <2>5, <3>3
  <2>7. g \in F(k)  BY <2>5, <2>6 DEF Following
  <2> QED  BY <1>3, <2>7
<1> QED  BY <1>4, <1>5

\* Two of them agree where both follow the rule.
LEMMA FollowingAgrees ==
  ASSUME NEW D, NEW S, NEW depth \in [D -> Nat], NEW rule, Local(D, S, depth, rule),
         NEW m \in Nat, NEW n \in Nat,
         NEW f \in Following(D, S, depth, rule, m), NEW g \in Following(D, S, depth, rule, n),
         NEW x \in D, depth[x] < m, depth[x] < n
  PROVE  f[x] = g[x]
<1> DEFINE Bad == {d \in Nat : d < m /\ d < n /\ \E y \in D : depth[y] = d /\ f[y] # g[y]}
<1>1. SUFFICES ASSUME f[x] # g[x] PROVE FALSE  OBVIOUS
<1>2. PICK d \in Bad : \A e \in Bad : d <= e
  <2>1. Bad \subseteq Nat /\ depth[x] \in Bad  BY <1>1
  <2> HIDE DEF Bad
  <2> QED  BY <2>1, LeastNat
<1>3. PICK y \in D : depth[y] = d /\ d < m /\ d < n /\ f[y] # g[y]  BY <1>2
<1>4. \A z \in D : depth[z] < depth[y] => f[z] = g[z]
  <2> SUFFICES ASSUME NEW z \in D, depth[z] < depth[y], f[z] # g[z] PROVE FALSE  OBVIOUS
  <2>1. depth[z] \in Nat /\ depth[y] \in Nat  OBVIOUS
  <2>2. depth[z] \in Bad  BY <1>3, <2>1
  <2>3. ~(d <= depth[z])  BY <1>3, <2>1
  <2> HIDE DEF Bad
  <2> QED  BY <1>2, <2>2, <2>3
<1>5. f \in [D -> S] /\ g \in [D -> S]  BY DEF Following
<1>6. rule[<<y, f>>] = rule[<<y, g>>]  BY <1>4, <1>5 DEF Local
<1>7. f[y] = rule[<<y, f>>] /\ g[y] = rule[<<y, g>>]  BY <1>3 DEF Following
<1> QED  BY <1>3, <1>6, <1>7

\* The functions that follow it everywhere.
Followers(D, S, rule) == {f \in [D -> S] : \A x \in D : f[x] = rule[<<x, f>>]}

LEMMA RecursionExists ==
  ASSUME NEW D, NEW S, NEW base \in S, NEW depth \in [D -> Nat],
         NEW rule \in [D \X [D -> S] -> S], Local(D, S, depth, rule)
  PROVE  Followers(D, S, rule) # {}
<1> DEFINE F(n) == Following(D, S, depth, rule, n)
           some(n) == CHOOSE f : f \in F(n)
           g == [x \in D |-> some(depth[x] + 1)[x]]
<1>1. ASSUME NEW n \in Nat
      PROVE  some(n) \in F(n)
  <2>1. F(n) # {}  BY FollowingExists
  <2> HIDE DEF F
  <2> QED  BY <2>1
<1>2. \A x \in D : depth[x] \in Nat /\ depth[x] + 1 \in Nat /\ depth[x] < depth[x] + 1  OBVIOUS
<1>3. \A x \in D : some(depth[x] + 1) \in F(depth[x] + 1)  BY <1>1, <1>2
<1>4. \A x \in D : g[x] = some(depth[x] + 1)[x]  OBVIOUS
<1>5. g \in [D -> S]
  <2>1. \A x \in D : some(depth[x] + 1) \in [D -> S]
    <3> HIDE DEF some
    <3> QED  BY <1>3 DEF Following
  <2> HIDE DEF some
  <2> QED  BY <2>1
<1> HIDE DEF g, some
<1>6. ASSUME NEW x \in D
      PROVE  g[x] = rule[<<x, g>>]
  <2>1. PICK f : f = some(depth[x] + 1)  OBVIOUS
  <2>2. f \in F(depth[x] + 1) /\ g[x] = f[x]  BY <1>3, <1>4, <2>1
  <2>3. f \in [D -> S] /\ f[x] = rule[<<x, f>>]  BY <1>2, <2>2 DEF Following
  <2>4. ASSUME NEW y \in D, depth[y] < depth[x]
        PROVE  f[y] = g[y]
    <3>1. PICK h : h = some(depth[y] + 1)  OBVIOUS
    <3>2. h \in F(depth[y] + 1) /\ g[y] = h[y]  BY <1>3, <1>4, <3>1
    <3>3. depth[y] < depth[x] + 1  BY <1>2, <2>4
    <3>4. f[y] = h[y]  BY <1>2, <2>2, <3>2, <3>3, FollowingAgrees
    <3> QED  BY <3>2, <3>4
  <2>5. rule[<<x, f>>] = rule[<<x, g>>]  BY <1>5, <2>3, <2>4 DEF Local
  <2> QED  BY <2>2, <2>3, <2>5
<1> QED  BY <1>5, <1>6 DEF Followers

\* What every expression has whose parts all have it, every expression has.
LEMMA ExpressionInduction ==
  ASSUME NEW Good, \A e \in Expressions : (\A part \in Parts(e) : part \in Good) => e \in Good
  PROVE  Expressions \subseteq Good
<1> DEFINE Bad == {n \in Nat : \E e \in Expressions : e \notin Good /\ Depth(e) = n}
<1>1. SUFFICES ASSUME NEW e \in Expressions, e \notin Good PROVE FALSE  OBVIOUS
<1>2. PICK n \in Bad : \A m \in Bad : n <= m
  <2>1. Bad \subseteq Nat /\ Depth(e) \in Bad  BY <1>1, ExpressionsAssumption
  <2> HIDE DEF Bad
  <2> QED  BY <2>1, LeastNat
<1>3. PICK f \in Expressions : f \notin Good /\ Depth(f) = n  BY <1>2
<1>4. PICK part \in Parts(f) : part \notin Good  BY <1>3
<1>5. /\ part \in Expressions /\ Depth(part) < Depth(f)
      /\ Depth(part) \in Nat /\ Depth(f) \in Nat
  BY ExpressionsAssumption
<1>6. Depth(part) \in Bad /\ ~(n <= Depth(part))  BY <1>3, <1>4, <1>5
<1> HIDE DEF Bad
<1> QED  BY <1>2, <1>6

\* -------------------------------------------------------- graph.evaluate

States == {"satisfied", "unsatisfied", "unknown"}

\* The answer for x, given those for its parts.
AnswerFrom(f, x, student) ==
  LET items == {f[part] : part \in Parts(x)}
  IN  CASE x.op \in Predicates ->
             IF x.value \in student.verified THEN "satisfied" ELSE "unknown"
        [] x.op \in {"and", "corequisite"} -> AllState(items)
        [] x.op = "or" -> AnyState(items)
        [] OTHER -> YesNo(LeafHolds(x, student))

\* The recursion of graph.evaluate has a function that follows it.
LEMMA EligibleFollows ==
  ASSUME NEW student
  PROVE  \E f \in [Expressions -> States] :
           /\ \A x \in Expressions : f[x] = AnswerFrom(f, x, student)
           /\ \A x \in Expressions : Eligible(x, student) = f[x]
<1> DEFINE depth == [x \in Expressions |-> Depth(x)]
           rule == [p \in Expressions \X [Expressions -> States] |-> AnswerFrom(p[2], p[1], student)]
<1>1. depth \in [Expressions -> Nat]  BY ExpressionsAssumption
<1>2. \A x \in Expressions : \A f \in [Expressions -> States] :
        rule[<<x, f>>] = AnswerFrom(f, x, student)
  <2> SUFFICES ASSUME NEW x \in Expressions, NEW f \in [Expressions -> States]
               PROVE  rule[<<x, f>>] = AnswerFrom(f, x, student)
    OBVIOUS
  <2>1. PICK p : p = <<x, f>>  OBVIOUS
  <2>2. p \in Expressions \X [Expressions -> States] /\ p[1] = x /\ p[2] = f  BY <2>1
  <2>3. rule[p] = AnswerFrom(p[2], p[1], student)  BY <2>2
  <2> HIDE DEF rule
  <2> QED  BY <2>1, <2>2, <2>3
<1>3. ASSUME NEW x \in Expressions, NEW f \in [Expressions -> States]
      PROVE  AnswerFrom(f, x, student) \in States
  <2>1. x.op \in {"course", "grade", "credits"} \cup Predicates \cup Compounds
    BY ExpressionsAssumption
  <2> QED  BY <2>1 DEF AnswerFrom, AllState, AnyState, YesNo, States, Compounds
<1>4. rule \in [Expressions \X [Expressions -> States] -> States]
  <2>1. \A p \in Expressions \X [Expressions -> States] : AnswerFrom(p[2], p[1], student) \in States
    BY <1>3
  <2> QED  BY <2>1
<1>5. ASSUME NEW x \in Expressions, NEW f \in [Expressions -> States], NEW g \in [Expressions -> States],
             \A y \in Expressions : depth[y] < depth[x] => f[y] = g[y]
      PROVE  AnswerFrom(f, x, student) = AnswerFrom(g, x, student)
  <2>1. \A part \in Parts(x) : f[part] = g[part]
    <3> SUFFICES ASSUME NEW part \in Parts(x) PROVE f[part] = g[part]  OBVIOUS
    <3>1. part \in Expressions /\ Depth(part) < Depth(x)  BY ExpressionsAssumption
    <3> QED  BY <1>5, <3>1
  <2>2. {f[part] : part \in Parts(x)} = {g[part] : part \in Parts(x)}  BY <2>1
  <2> QED  BY <2>2 DEF AnswerFrom
<1> HIDE DEF rule, depth
<1>6. Local(Expressions, States, depth, rule)  BY <1>2, <1>5 DEF Local
<1>7. "unknown" \in States  BY DEF States
<1>8. PICK f \in [Expressions -> States] : \A x \in Expressions : f[x] = rule[<<x, f>>]
  <2>1. Followers(Expressions, States, rule) # {}  BY <1>1, <1>4, <1>6, <1>7, RecursionExists
  <2> QED  BY <2>1 DEF Followers
<1>9. f = [x \in Expressions |-> AnswerFrom(f, x, student)]  BY <1>2, <1>8
<1> DEFINE answer == CHOOSE h : h = [x \in Expressions |-> AnswerFrom(h, x, student)]
<1>10. answer = [x \in Expressions |-> AnswerFrom(answer, x, student)]  BY <1>9
<1>11. \A x \in Expressions : Eligible(x, student) = answer[x]  BY DEF Eligible, AnswerFrom
<1> HIDE DEF answer
<1>12. \A x \in Expressions : answer[x] = AnswerFrom(answer, x, student)  BY <1>10
<1>13. \A x \in Expressions : answer[x] \in States
  <2> SUFFICES ASSUME NEW x \in Expressions PROVE answer[x] \in States  OBVIOUS
  <2>1. x.op \in {"course", "grade", "credits"} \cup Predicates \cup Compounds
    BY ExpressionsAssumption
  <2>2. AnswerFrom(answer, x, student) \in States
    BY <2>1 DEF AnswerFrom, AllState, AnyState, YesNo, States, Compounds
  <2> QED  BY <1>12, <2>2
<1>14. answer \in [Expressions -> States]  BY <1>10, <1>13
<1> QED  BY <1>11, <1>12, <1>14
=============================================================================
