--------------------------- MODULE PrerequisiteAst ---------------------------
(***************************************************************************)
(* The prerequisite expressions of a catalog, the graph edges they give    *)
(* and graph.evaluate, the answer a student gets.  Courses are numbers,    *)
(* which also stand for their alphabetical order.                          *)
(***************************************************************************)
EXTENDS Integers, Sequences

CONSTANTS
  Expressions,    \* the expressions that occur, and all their parts
  Depth(_)        \* how deep one is nested

Ref(code)       == [op |-> "course", code |-> code]
Grade(code, g)  == [op |-> "grade", code |-> code, grade |-> g]
Credits(n)      == [op |-> "credits", credits |-> n]
Predicate(kind, value) == [op |-> kind, value |-> value]
AllOf(items)    == [op |-> "and", items |-> items]
AnyOf(items)    == [op |-> "or", items |-> items]
CoRequisite(items) == [op |-> "corequisite", items |-> items]

Predicates == {"PERMISSION", "PLACEMENT"}
Compounds == {"and", "or", "corequisite"}

Parts(e) == IF e.op \in Compounds THEN {e.items[i] : i \in DOMAIN e.items} ELSE {}

\* An expression is a finite tree.
ASSUME ExpressionsAssumption ==
  \A e \in Expressions :
    /\ e.op \in {"course", "grade", "credits"} \cup Predicates \cup Compounds
    /\ e.op = "credits" => e.credits \in Int
    /\ Depth(e) \in Nat
    /\ \A part \in Parts(e) : part \in Expressions /\ Depth(part) < Depth(e)

\* Grades from the best to the worst; a grade the table misses counts as F.
Points(g) == CASE g = "A" -> 40 [] g = "B" -> 30 [] g = "C" -> 20
               [] OTHER -> 0

\* The edges prerequisite -> dependent of an expression.  Below a COREQ every
\* reference is a co-requisite, a nested strict one included.
EdgesOf(e, dependent) ==
  LET referred[x \in Expressions] ==
        LET below == UNION {referred[part] : part \in Parts(x)}
        IN  CASE x.op \in {"course", "grade"} -> {<<x.code, "strict">>}
              [] x.op = "corequisite" -> {<<ref[1], "corequisite">> : ref \in below}
              [] OTHER -> below
  IN  {<<ref[1], dependent, ref[2]>> : ref \in referred[e]}

AllState(items) ==
  IF "unsatisfied" \in items THEN "unsatisfied"
  ELSE IF "unknown" \in items THEN "unknown" ELSE "satisfied"

\* A plausible bug: an open question hides that another branch is satisfied.
AnyStateCautious(items) ==
  IF "unknown" \in items THEN "unknown"
  ELSE IF "satisfied" \in items THEN "satisfied" ELSE "unsatisfied"

AnyState(items) ==
  IF "satisfied" \in items THEN "satisfied"
  ELSE IF items \subseteq {"unsatisfied"} THEN "unsatisfied" ELSE "unknown"

YesNo(test) == IF test THEN "satisfied" ELSE "unsatisfied"

\* What a reference to a course, a grade or credits comes to.
LeafHolds(e, student) ==
  \/ e.op = "course" /\ e.code \in student.completed \cup student.in_term
  \/ /\ e.op = "grade" /\ e.code \in student.completed
     /\ Points(student.grades[e.code]) >= Points(e.grade)
  \/ e.op = "credits" /\ student.earned >= e.credits

\* graph.evaluate, the answer shown to a student: satisfied, unsatisfied, or
\* unknown as long as a permission or a placement is not verified.
Eligible(e, student) ==
  LET answer[x \in Expressions] ==
        LET items == {answer[part] : part \in Parts(x)}
        IN  CASE x.op \in Predicates ->
                   IF x.value \in student.verified THEN "satisfied" ELSE "unknown"
              [] x.op \in {"and", "corequisite"} -> AllState(items)
              [] x.op = "or" -> AnyState(items)
              [] OTHER -> YesNo(LeafHolds(x, student))
  IN  answer[e]
=============================================================================
