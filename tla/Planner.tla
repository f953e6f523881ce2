------------------------------- MODULE Planner -------------------------------
(***************************************************************************)
(* The degree planner.  solve() states the rules of a request as           *)
(* constraints for CP-SAT, checks each answer with an independent          *)
(* validator and blocks it before it asks for an alternative; where the    *)
(* solver library is missing it falls back to a bounded enumeration.       *)
(* CP-SAT itself is external.                                              *)
(***************************************************************************)
EXTENDS PlannerReadings

CONSTANTS
  Requests,       \* the requests that are sent
  Alternatives,   \* how many plans a request asks for
  MaxAssignments  \* how many assignments the fallback looks at

ASSUME PlannerAssumption ==
  /\ Alternatives \in Nat \ {0} /\ MaxAssignments \in Nat \ {0}
  /\ \A r \in Requests :
       /\ Len(r.courses) \in Nat /\ DOMAIN r.courses = 1..Len(r.courses)
       /\ Len(r.terms) \in Nat /\ DOMAIN r.terms = 1..Len(r.terms)
       /\ Len(r.groups) \in Nat /\ DOMAIN r.groups = 1..Len(r.groups)
       /\ \A i \in DOMAIN r.groups : r.groups[i].courses \in Nat /\ r.groups[i].credits \in Nat
       /\ \A i \in DOMAIN r.courses :
            /\ r.courses[i].code \in Nat /\ r.courses[i].units \in Int
            /\ r.courses[i].needs \in Expressions \cup {None}
       /\ \A i \in DOMAIN r.courses : r.courses[i].terms \subseteq Int \ {0} /\ IsFiniteSet(r.courses[i].terms)
       /\ \A i \in DOMAIN r.terms : r.terms[i].index \in Nat \ {0} /\ r.terms[i].max \in Int
       /\ r.earned \in Int
       /\ r.completed \subseteq Nat /\ IsFiniteSet(r.completed)

VARIABLES
  request,        \* the PlanRequest
  native,         \* whether the CP-SAT library can be imported
  phase,          \* "new", "solving", "done" or "failed" (an exception)
  blocked,        \* the assignments excluded by AddBoolOr, if the library takes them
  results         \* the PlanResults so far: status, plan, explained

vars == <<request, native, phase, blocked, results>>

SumOver(S, F(_)) == MapThenSumSet(F, S)

\* validate_input; a requirement group is known by its place.
InputValid(r) ==
  /\ Cardinality(Codes(r)) = Len(r.courses)
  /\ Cardinality(Terms(r)) = Len(r.terms)
  /\ \A c \in DOMAIN r.pinned : c \in Codes(r) /\ r.pinned[c] \in Terms(r)
  /\ \A c \in Codes(r) : /\ Course(r, c).units > 0
                         /\ Course(r, c).groups \subseteq DOMAIN r.groups
                         /\ Course(r, c).coreqs \subseteq Codes(r) \cup r.completed

\* ------------------------------------------------------------- validator

Selected(r, a, g) == Taken(r, a) \cap g.codes

CourseValid(r, a, c) ==
  /\ a[c] \in Terms(r) \cup {0}
  /\ c \in DOMAIN r.pinned => a[c] = r.pinned[c]
  /\ a[c] # 0 =>
       /\ a[c] \in Offered(r, c) /\ c \notin r.excluded
       /\ Evaluate(Course(r, c).needs, a[c], a, r)
       /\ \A d \in Course(r, c).coreqs \cap Codes(r) : a[d] = a[c]

\* Credits are compared in whole credits.
TermValid(r, a, term) ==
  LET credits == Units(r, InTerm(r, a, term.index)) \div Unit
  IN  term.min <= credits /\ credits <= term.max

GroupValid(r, a, g) ==
  /\ Cardinality(Selected(r, a, g)) >= g.courses
  /\ Units(r, Selected(r, a, g)) \div Unit >= g.credits

\* A course counts for every group it is eligible for, and for more than one
\* only if all but one of them allow it.
AllocatedOnce(r, a) ==
  \A i, j \in DOMAIN r.groups :
    i # j /\ ~r.groups[i].double /\ ~r.groups[j].double =>
      Selected(r, a, r.groups[i]) \cap Selected(r, a, r.groups[j]) = {}

\* validate_plan finds no violation.
Valid(r, a) ==
  /\ InputValid(r)
  /\ \A c \in Codes(r) : CourseValid(r, a, c)
  /\ \A i \in DOMAIN r.terms : TermValid(r, a, r.terms[i])
  /\ \A i \in DOMAIN r.groups : GroupValid(r, a, r.groups[i])
  /\ AllocatedOnce(r, a)

\* ---------------------------------------------------------------- solver

\* What build.invalid records.
Unrepresentable(r) ==
  ~InputValid(r) \/ \E i \in DOMAIN r.courses : Unresolved(r, i)

\* A co-requisite constrains only a course that was built before.
CourseConstraints(r, a, i) ==
  LET course == r.courses[i]
      term == a[course.code]
  IN  /\ course.code \in r.excluded => term = 0
      /\ course.code \in DOMAIN r.pinned => term = r.pinned[course.code]
      /\ term # 0 => term \in Offered(r, course.code)
      /\ term # 0 => Literal(course.needs, term, a, r)
      /\ \A d \in course.coreqs \cap Built(r, i) : term # 0 /\ a[d] # 0 => term = a[d]

\* A plausible bug: whole credits here as well.
TermConstraintsFloored(r, a, term) ==
  LET units == (Units(r, InTerm(r, a, term.index)) \div Unit) * Unit
  IN  term.min * Unit <= units /\ units <= term.max * Unit

TermConstraints(r, a, term) ==
  LET units == Units(r, InTerm(r, a, term.index))
  IN  term.min * Unit <= units /\ units <= term.max * Unit

\* Groups without an eligible course in the request have no constraint.
Allocates(r, a, flags) ==
  /\ \A i \in DOMAIN r.groups : r.groups[i].codes \cap Codes(r) # {} =>
       LET codes == {c \in Codes(r) : <<i, c>> \in flags}
       IN  /\ Cardinality(codes) >= r.groups[i].courses
           /\ Units(r, codes) >= r.groups[i].credits * Unit
  /\ \A f, g \in flags :
       f # g /\ f[2] = g[2] => r.groups[f[1]].double \/ r.groups[g[1]].double

Feasible(r, a) ==
  /\ \A i \in DOMAIN r.courses : CourseConstraints(r, a, i)
  /\ \A i \in DOMAIN r.terms : TermConstraints(r, a, r.terms[i])
  /\ \E flags \in SUBSET {f \in (DOMAIN r.groups) \X Taken(r, a) : f[2] \in r.groups[f[1]].codes} :
       Allocates(r, a, flags)

\* The variables of the constraint model end at the number of terms, whatever
\* the indices of the terms are.
Solutions(r) == [Codes(r) -> 0..Len(r.terms)]

Load(r, a, t) == SumOver(InTerm(r, a, t), LAMBDA c : Course(r, c).hours)
PeakLoad(r, a) == Max({0} \cup {Load(r, a, t) : t \in Terms(r)})
Preference(r, a) == SumOver(Taken(r, a), LAMBDA c : Course(r, c).score)

\* The objective of the constraint model, to be maximised.
Objective(r, a) ==
  CASE r.objective = "balanced_workload" -> -PeakLoad(r, a)
    [] r.objective = "preference_satisfaction" -> Preference(r, a)
    [] OTHER -> SumOver(Taken(r, a), LAMBDA c : (Len(r.terms) + 1 - a[c]) * Course(r, c).units)

Open == {a \in Solutions(request) : Feasible(request, a)} \ blocked

Init ==
  /\ request \in Requests
  /\ native \in BOOLEAN
  /\ phase = "new" /\ blocked = {} /\ results = <<>>

NoPlan == <<>>

Result(status, plan) == [status |-> status, plan |-> plan]

\* Building the constraints; what cannot be stated is answered invalid_model.
Build ==
  /\ phase = "new" /\ native
  /\ IF \E i \in DOMAIN request.courses : RaisesKeyError(request, i) THEN phase' = "failed" /\ UNCHANGED results
     ELSE IF Unrepresentable(request)
     THEN phase' = "done" /\ results' = <<Result("invalid_model", NoPlan)>>
     ELSE phase' = "solving" /\ UNCHANGED results
  /\ UNCHANGED <<request, native, blocked>>

Last == Len(results) + 1 = Alternatives

\* A solution, with or without a proof that none is better.  The validator has
\* the last word, and ends the search when it disagrees; the empty assignment,
\* that of a request without courses, is not shown to it.
Solution(status, a) ==
  /\ IF Codes(request) = {} \/ Valid(request, a)
     THEN /\ results' = Append(results, Result(status, a))
          /\ blocked' = IF Last THEN blocked ELSE blocked \cup {a}
          /\ phase' = IF Last THEN "done" ELSE "solving"
     ELSE /\ results' = Append(results, Result("invalid_model", a))
          /\ phase' = "done" /\ UNCHANGED blocked
  /\ UNCHANGED <<request, native>>

SolveOptimal ==
  /\ phase = "solving"
  /\ \E a \in Open : /\ \A b \in Open : Objective(request, b) <= Objective(request, a)
                     /\ Solution("optimal", a)

\* A plausible bug: a time limit with a solution in hand is called a proof.
SolveFeasibleAsOptimal ==
  phase = "solving" /\ \E a \in Open : Solution("optimal", a)

SolveFeasible == phase = "solving" /\ \E a \in Open : Solution("feasible", a)

\* The plan is blocked by comparisons handed over where the library documents
\* literals; should it refuse them, the answer is lost with the exception.
BlockRefused ==
  /\ phase = "solving" /\ ~Last
  /\ \E a \in Open : Codes(request) = {} \/ Valid(request, a)
  /\ phase' = "failed" /\ results' = <<>>
  /\ UNCHANGED <<request, native, blocked>>

\* No solution; the loop asks for the remaining alternatives all the same.
NoSolution(status) ==
  /\ phase = "solving"
  /\ results' = Append(results, Result(status, NoPlan))
  /\ phase' = IF Last THEN "done" ELSE "solving"
  /\ UNCHANGED <<request, native, blocked>>

SolveInfeasible == phase = "solving" /\ Open = {} /\ NoSolution("infeasible")

SolveUnknown == NoSolution("unknown")

\* ------------------------------------------------ fallback and enumeration

\* Every choice of terms a course is offered in, terms outside the request too.
Product(r) ==
  {a \in [Codes(r) -> {0} \cup UNION {Offered(r, c) : c \in Codes(r)}] :
     \A c \in Codes(r) : a[c] \in {0} \cup Offered(r, c)}

\* The order of itertools.product.
Earlier(r, a, b) ==
  \E i \in DOMAIN r.courses :
    /\ a[r.courses[i].code] < b[r.courses[i].code]
    /\ \A j \in 1..(i - 1) : a[r.courses[j].code] = b[r.courses[j].code]

Checked(r) == {a \in Product(r) :
                 Cardinality({b \in Product(r) : Earlier(r, b, a)}) < MaxAssignments}

\* A plausible bug: the cut is reported only when nothing was found.
TruncatedInVain(r) ==
  Cardinality(Product(r)) >= MaxAssignments /\ ~\E a \in Checked(r) : Valid(r, a)

\* The flag is set as soon as the bound is reached, even when it is the end.
Truncated(r) == Cardinality(Product(r)) >= MaxAssignments

\* objective_value of the enumeration, which counts no credits, and looks for the
\* load in the terms 1, 2, 3...
OracleScore(r, a) ==
  IF Taken(r, a) = {} THEN 0
  ELSE CASE r.objective = "balanced_workload" -> -Max({Load(r, a, t) : t \in 1..Len(r.terms)})
         [] r.objective = "preference_satisfaction" -> Preference(r, a)
         [] OTHER -> SumOver(Taken(r, a), LAMBDA c : Len(r.terms) + 1 - a[c])

\* What the enumeration accepts of what it looks at.
Accepted(r) == {a \in Checked(r) : Valid(r, a)}

\* The first of the best.
IsBest(r, a) ==
  \A b \in Accepted(r) : /\ OracleScore(r, b) <= OracleScore(r, a)
                         /\ OracleScore(r, b) = OracleScore(r, a) => ~Earlier(r, b, a)

Fallback ==
  LET answer(status, plan) ==
        results' = <<Result(IF Truncated(request) THEN "unknown" ELSE status, plan)>>
  IN  /\ phase = "new" /\ ~native
      /\ \/ \E a \in Accepted(request) : IsBest(request, a) /\ answer("optimal", a)
         \/ Accepted(request) = {} /\ answer("infeasible", NoPlan)
      /\ phase' = "done"
      /\ UNCHANGED <<request, native, blocked>>

Next == Build \/ SolveOptimal \/ SolveFeasible \/ BlockRefused \/ SolveInfeasible \/ SolveUnknown
          \/ Fallback

Spec == Init /\ [][Next]_vars

\* ------------------------------------- what the response holds beside plans

Required(r) == SumFunction([i \in DOMAIN r.groups |-> r.groups[i].credits])
Capacity(r) == SumFunction([i \in DOMAIN r.terms |-> r.terms[i].max])

\* A plausible bug: a plan that fills every term is refused.
CapacityReached(r) == Required(r) >= Capacity(r)

CapacityExceeded(r) == Required(r) > Capacity(r)

\* precheck: refusals that need no search.
PrecheckFails(r) ==
  \/ ~InputValid(r)
  \/ \E c \in DOMAIN r.pinned \cap Codes(r) : r.pinned[c] \notin Offered(r, c)
  \/ CapacityExceeded(r)
  \/ \E i \in DOMAIN r.groups :
       LET eligible == r.groups[i].codes \cap Codes(r)
       IN  \/ Units(r, eligible) \div Unit < r.groups[i].credits
           \/ Cardinality(eligible) < r.groups[i].courses

Answered(i) == results[i].status \in {"optimal", "feasible"}

\* ------------------------------------------------------------ properties

\* The contract of docs/planner-model.md, in exact credits and with one
\* allocation of courses to groups.
Legal(r, a) ==
  /\ InputValid(r)
  /\ \A c \in Codes(r) :
       CourseValid(r, a, c) /\ (a[c] # 0 => Prepared(Course(r, c).needs, a[c], a, r))
  /\ \A i \in DOMAIN r.terms :
       LET units == Units(r, InTerm(r, a, r.terms[i].index))
       IN  r.terms[i].min * Unit <= units /\ units <= r.terms[i].max * Unit
  /\ \E counted \in [DOMAIN r.groups -> SUBSET Taken(r, a)] :
       /\ \A i \in DOMAIN r.groups :
            /\ counted[i] \subseteq r.groups[i].codes
            /\ Cardinality(counted[i]) >= r.groups[i].courses
            /\ Units(r, counted[i]) >= r.groups[i].credits * Unit
       /\ \A i, j \in DOMAIN r.groups :
            i # j /\ counted[i] \cap counted[j] # {} => r.groups[i].double \/ r.groups[j].double

Assignments(r) == [Codes(r) -> {0} \cup Terms(r)]

Plans(r) == {a \in Assignments(r) : Legal(r, a)}

\* The plans given before the i-th answer.
Given(i) == {results[j].plan : j \in {k \in 1..(i - 1) : Answered(k)}}

\* Nothing is taken that is completed already.
Fresh(r, a) == Taken(r, a) \cap r.completed = {}

\* planning/solver.py: every plan CP-SAT is said to have found keeps the whole
\* contract, although the constraints miss a co-requisite that is listed later
\* and the validator rounds credits down: each makes up for the other.  No plan
\* is offered twice.  (The plan of a request without courses is not validated.)
AnswersAreLegal ==
  native => \A i \in DOMAIN results : Answered(i) =>
    /\ Codes(request) # {} => Legal(request, results[i].plan)
    /\ results[i].plan \notin Given(i)

\* docs/planner-model.md: "infeasible" means that there is no plan but those
\* given before, "optimal" that none of the others scores higher.  Neither is
\* said for a time limit, and neither is spoilt by a plan the validator refused.
\* Two kinds of plans are outside of the claim: those that take a completed
\* course again, whose credits only the validator counts, and those in a term
\* whose index is above the number of terms, which the variables do not reach
\* (GapsAreSeen).
ClaimsAreTrue ==
  native => \A i \in DOMAIN results :
    LET others == {a \in Plans(request) \ Given(i) : a \in Solutions(request) /\ Fresh(request, a)}
        score(a) == Objective(request, a)
    IN  /\ results[i].status = "infeasible" => others = {}
        /\ results[i].status = "optimal" =>
             \A a \in others : score(a) <= score(results[i].plan)

\* docs/planner-model.md:7 says that infeasible means the model proved no
\* solution.  It is not so when the indices of the terms have gaps: solve() lets
\* a course be in the terms 0 to len(terms) (planning/solver.py:129), validate_plan
\* in the terms of the request, and model.py asks only for indices above 0.
GapsAreSeen ==
  native => \A i \in DOMAIN results : results[i].status = "infeasible" =>
    {a \in Plans(request) \ Given(i) : Fresh(request, a)} = {}

\* planning/oracle.py: an enumeration that was cut off claims no proof; one
\* that claims it has seen every assignment the validator accepts.
FallbackClaims ==
  ~native /\ phase = "done" /\ results[1].status # "unknown" =>
    LET valid == {a \in Assignments(request) : Valid(request, a)}
    IN  IF results[1].status = "infeasible" THEN valid = {}
        ELSE /\ results[1].plan \in valid
             /\ \A a \in valid : OracleScore(request, a) <= OracleScore(request, results[1].plan)

\* planning/prechecks.py: a refusal that is shown beside the plans is never
\* wrong, unless groups may share courses (then their credits are added up
\* although one course earns them all).
PrecheckNeverWrong ==
  phase = "new" /\ PrecheckFails(request) =>
    Plans(request) = {} \/ \E i \in DOMAIN request.groups : request.groups[i].double

\* The two independent readings of the prerequisites agree on every assignment
\* that takes no completed course again.  Only an OR without items is read
\* differently: what has one may be let through by the validator, which has no
\* reason to give, and is never chosen by the solver.
ReadingsAgree(r) ==
  \A i \in DOMAIN r.courses, a \in Assignments(r) :
    LET needs == r.courses[i].needs
        t == a[r.courses[i].code]
    IN  Fresh(r, a) /\ t # 0 =>
          /\ Literal(needs, t, a, r) => Evaluate(needs, t, a, r)
          /\ Evaluate(needs, t, a, r) =>
               Literal(needs, t, a, r) \/ (needs # None /\ HasEmptyChoice(needs))

\* catalog/ast.py has two interpreters: _expr_bool in planning/solver.py and
\* _evaluate in planning/validator.py, which were written apart from each other,
\* read every prerequisite of a request alike, but for an OR without items.
SameReading == phase = "new" => ReadingsAgree(request)
=============================================================================
