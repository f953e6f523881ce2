---------------------------- MODULE AuditedPlans ----------------------------
(***************************************************************************)
(* A plan is solved, and the client hands it on to the degree audit.       *)
(***************************************************************************)
EXTENDS Planner, DegreeAudit

CONSTANT NotAsked   \* no answer yet

VARIABLE audit      \* the rows of the degree audit

auditVars == <<vars, audit>>

AuditInit == Init /\ audit = NotAsked

\* The last plan that was answered.
Plan == results[Len(results)].plan

HasPlan == phase = "done" /\ results # <<>> /\ Answered(Len(results))

CreditOf(r) ==
  [c \in Codes(r) \cup r.completed |-> IF c \in Codes(r) THEN Course(r, c).units \div Unit ELSE 3]

AuditPlan ==
  /\ HasPlan /\ audit = NotAsked
  /\ audit' = Audit(request.groups, request.completed, Taken(request, Plan), CreditOf(request))
  /\ UNCHANGED vars

AuditNext == AuditPlan \/ (Next /\ UNCHANGED audit)

AuditSpec == AuditInit /\ [][AuditNext]_auditVars

\* ------------------------------------------------------------ properties

\* planning/audit.py: no two groups count one course unless one of them allows
\* double counting, and the greedy allocation still finds all the courses of a
\* plan that the validator let through: solver, validator and audit allocate
\* independently of each other.  (Credits may be missing, and a group that
\* shares courses is served only by what earlier groups left.)
AuditIsSound ==
  audit # NotAsked =>
    /\ \A i, j \in DOMAIN audit :
         LET used(k) == audit[k].done \cup audit[k].planned
         IN  i # j /\ ~request.groups[i].double /\ ~request.groups[j].double =>
               used(i) \cap used(j) = {}
    /\ (/\ Codes(request) # {}
        /\ \A i \in DOMAIN audit : ~request.groups[i].double /\ ~request.groups[i].unknown) =>
         \A i \in DOMAIN audit : audit[i].missing_courses = 0
=============================================================================
