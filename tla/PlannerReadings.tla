--------------------------- MODULE PlannerReadings ---------------------------
(***************************************************************************)
(* A planning request and the two readings of the prerequisites of a       *)
(* course that is taken in a term: _evaluate of the validator, and the     *)
(* literal _expr_bool builds for the solver.  A request lists courses,     *)
(* terms and requirement groups; an assignment maps every course to the    *)
(* index of a term, 0 when it is not taken.  The client chooses the        *)
(* indices: they need not be 1, 2, 3.                                      *)
(***************************************************************************)
EXTENDS PrerequisiteAst, FiniteSets, FiniteSetsExt, Functions

CONSTANT None     \* a course without prerequisites

Unit == 1000      \* one credit, as a fixed-point number

Codes(r) == {r.courses[i].code : i \in DOMAIN r.courses}
Terms(r) == {r.terms[i].index : i \in DOMAIN r.terms}
Course(r, c) == r.courses[CHOOSE i \in DOMAIN r.courses : r.courses[i].code = c]
Offered(r, c) == IF Course(r, c).terms = {} THEN Terms(r) ELSE Course(r, c).terms

Units(r, S) == SumFunctionOnSet([c \in Codes(r) |-> Course(r, c).units], S)
Taken(r, a) == {c \in Codes(r) : a[c] # 0}
InTerm(r, a, t) == {c \in Codes(r) : a[c] = t}
Before(r, a, t) == {c \in Taken(r, a) : a[c] < t}

\* The variables that exist when the constraints of the i-th course are built.
Built(r, i) == {r.courses[j].code : j \in 1..i}

\* What one reference comes to in _evaluate, for a course taken in term t; below
\* a co-requisite it is to a course of the same term.
Met(node, coreq, t, a, r) ==
  \/ node.op = "course" /\ node.code \in r.completed
  \/ /\ node.op = "course" /\ node.code \in Taken(r, a)
     /\ IF coreq THEN a[node.code] = t ELSE a[node.code] < t
  \/ /\ node.op = "grade" /\ node.code \in r.completed
     /\ Points(r.grade) >= Points(node.grade)
  \/ /\ node.op = "credits"
     /\ r.earned + Units(r, Before(r, a, t)) \div Unit >= node.credits
  \/ node.op \in Predicates /\ node.value \in r.verified

\* The value of _evaluate.
Satisfied(e, t, a, r) ==
  LET holds[x \in Expressions \X BOOLEAN] ==
        LET node == x[1]
            coreq == x[2] \/ node.op = "corequisite"
            values == {holds[<<part, coreq>>] : part \in Parts(node)}
        IN  \/ Met(node, coreq, t, a, r)
            \/ node.op \in {"and", "corequisite"} /\ FALSE \notin values
            \/ node.op = "or" /\ TRUE \in values
  IN  holds[<<e, FALSE>>]

\* The reasons of _evaluate are those of all references that fail, the ones in a
\* branch that is not needed included; here, that there are none.
Unobjected(e, t, a, r) ==
  LET silent[x \in Expressions \X BOOLEAN] ==
        LET node == x[1]
            coreq == x[2] \/ node.op = "corequisite"
        IN  IF node.op \in Compounds
            THEN FALSE \notin {silent[<<part, coreq>>] : part \in Parts(node)}
            ELSE Met(node, coreq, t, a, r)
  IN  silent[<<e, FALSE>>]

Prepared(needs, t, a, r) == needs # None => Satisfied(needs, t, a, r)

\* The validator reports the reasons of a prerequisite that is not satisfied: an
\* OR without items is not, and has none.
Evaluate(needs, t, a, r) ==
  needs # None => Satisfied(needs, t, a, r) \/ Unobjected(needs, t, a, r)

\* A plausible bug: a prerequisite in the same term will do.
RelationLoose(a, c, t, coreq) == IF coreq THEN a[c] = t ELSE a[c] <= t

Relation(a, c, t, coreq) == IF coreq THEN a[c] = t ELSE a[c] < t

\* The literal _expr_bool builds for a prerequisite, under an assignment.
\* A course that is completed already earns nothing again.
LiteralOf(e, t, a, r) ==
  LET literal[x \in Expressions \X BOOLEAN] ==
        LET node == x[1]
            coreq == x[2] \/ node.op = "corequisite"
            values == {literal[<<part, coreq>>] : part \in Parts(node)}
        IN  \/ node.op = "course" /\ node.code \in r.completed
            \/ /\ node.op = "course" /\ node.code \in Codes(r) /\ a[node.code] > 0
               /\ Relation(a, node.code, t, coreq)
            \/ /\ node.op = "grade" /\ node.code \in r.completed
               /\ Points(r.grade) >= Points(node.grade)
            \/ /\ node.op = "credits"
               /\ r.earned * Unit + Units(r, Before(r, a, t) \ r.completed)
                    >= node.credits * Unit
            \/ node.op \in Predicates /\ node.value \in r.verified
            \/ node.op \in {"and", "corequisite"} /\ FALSE \notin values
            \/ node.op = "or" /\ TRUE \in values
  IN  literal[<<e, FALSE>>]

Literal(needs, t, a, r) == needs # None => LiteralOf(needs, t, a, r)

\* An expression and all its parts.
Within(e) ==
  LET within[x \in Expressions] == {x} \cup UNION {within[part] : part \in Parts(x)}
  IN  within[e]

Leaves(e) == {x \in Within(e) : x.op \notin Compounds}

\* An OR without items, which the AST allows.
HasEmptyChoice(e) == \E x \in Within(e) : x.op = "or" /\ Parts(x) = {}

NeedLeaves(r, i) == IF r.courses[i].needs = None THEN {} ELSE Leaves(r.courses[i].needs)

\* A reference to a course that has no variable yet, a grade or a predicate that
\* is not given.
Unresolved(r, i) ==
  \E e \in NeedLeaves(r, i) :
    CASE e.op = "course" -> e.code \notin r.completed \cup Built(r, i)
      [] e.op = "grade" -> e.code \notin r.completed
      [] e.op \in Predicates -> e.value \notin r.verified
      [] OTHER -> FALSE

\* CREDITS>=n looks up the variable of every course, those of later courses
\* included.
RaisesKeyError(r, i) ==
  /\ \E e \in NeedLeaves(r, i) : e.op = "credits"
  /\ Codes(r) \ (r.completed \cup Built(r, i)) # {}
=============================================================================
