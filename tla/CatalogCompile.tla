--------------------------- MODULE CatalogCompile ---------------------------
(***************************************************************************)
(* The compilation of a catalog document: the prerequisite texts of its    *)
(* courses are parsed, and the graph of what they refer to is validated.   *)
(***************************************************************************)
EXTENDS Prerequisites, CatalogGraph

CONSTANT
  Students        \* what is known of a student that asks for eligibility

ASSUME ParserAssumption ==
  \A d \in Documents : \A c \in DOMAIN d :
    Parse(d[c]).status = "parsed" => Parse(d[c]).ast \in Expressions

VARIABLE expressions \* the expressions of the courses whose text was parsed

compileVars == <<graphVars, expressions>>

CompileInit == GraphInit /\ expressions = <<>>

\* A text that is not supported only warns, and its course has no edges.
ParseCourses ==
  /\ expressions' = [c \in {d \in DOMAIN document : Parse(document[d]).status = "parsed"}
                       |-> Parse(document[c]).ast]
  /\ edges' = UNION {EdgesOf(expressions'[c], c) : c \in DOMAIN expressions'}
  /\ BuildGraph

CompileNext == ParseCourses \/ (Validate /\ UNCHANGED expressions)

CompileSpec == CompileInit /\ [][CompileNext]_compileVars

\* ------------------------------------------------------------ properties

\* Two-valued truth, with the given permissions and placements granted.
Holds(e, student, granted) ==
  LET holds[x \in Expressions] ==
        LET truths == {holds[part] : part \in Parts(x)}
        IN  \/ x.op \in Predicates /\ x.value \in granted
            \/ x.op \in {"and", "corequisite"} /\ FALSE \notin truths
            \/ x.op = "or" /\ TRUE \in truths
            \/ LeafHolds(x, student)
  IN  holds[e]

\* Every permission and placement that any text asks for.
AllPredicates == {e.value : e \in {x \in Expressions : x.op \in Predicates}}

\* graph.evaluate says satisfied only if the student is eligible whatever the
\* unverified predicates turn out to be, unsatisfied only if none of them
\* could help, and unknown exactly when the answer depends on them.
EligibilityExact ==
  phase = "cycles" => \A c \in DOMAIN expressions, s \in Students :
    LET e == expressions[c]
        everything == s.verified \cup AllPredicates
    IN  Eligible(e, s) =
          (IF Holds(e, s, s.verified) THEN "satisfied"
           ELSE IF Holds(e, s, everything) THEN "unknown" ELSE "unsatisfied")
=============================================================================
