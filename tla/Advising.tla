------------------------------ MODULE Advising ------------------------------
(***************************************************************************)
(* The academic queries of a student one after the other: a plan is        *)
(* solved, audited against the degree, and given sections.  None of them   *)
(* keeps state in the server; the client hands the plan on.                *)
(***************************************************************************)
EXTENDS AuditedPlans, SectionSearch

CONSTANT SectionQueries   \* functions from some requests to sets of queries

\* Section ids are keys, and a meeting ends after it starts: constraints of the
\* tables the sections come from, which the endpoint does not repeat.
ASSUME SectionsAssumption ==
  \A r \in DOMAIN SectionQueries : \A q \in SectionQueries[r] :
    /\ IsFiniteSet(q.options)
    /\ \A o, p \in q.options :
         o.course = p.course /\ o.term = p.term /\ o.id = p.id => o = p
    /\ \A o \in q.options :
         /\ o.id \in Int
         /\ \A m \in o.meetings :
              m.start \in Int /\ m.end \in Int /\ (Timed(m) => m.start < m.end)

VARIABLES
  query,          \* the sections that were offered, or NotAsked
  schedule        \* the answer of the section search, or NotAsked

allVars == <<auditVars, query, schedule>>

AdvisingInit == AuditInit /\ query = NotAsked /\ schedule = NotAsked

Planned == [c \in Taken(request, Plan) |-> Plan[c]]

ChooseSchedule ==
  /\ HasPlan /\ audit = NotAsked /\ query = NotAsked /\ request \in DOMAIN SectionQueries
  /\ \E q \in SectionQueries[request] : query' = q /\ schedule' = Response(Planned, q)
  /\ UNCHANGED auditVars

AdvisingNext == ChooseSchedule \/ (AuditNext /\ UNCHANGED <<query, schedule>>)

AdvisingSpec == AdvisingInit /\ [][AdvisingNext]_allVars

\* ------------------------------------------------------------ properties

\* Two meetings share a minute.
Clash(m, n) ==
  /\ Timed(m) /\ Timed(n) /\ m.day = n.day
  /\ (m.start..(m.end - 1)) \cap (n.start..(n.end - 1)) # {}

\* The selections a student could attend.
FreeSelections ==
  {s \in [DOMAIN Planned -> query.options] :
     /\ \A c \in DOMAIN s : s[c].course = c /\ s[c].term = Planned[c]
     /\ \A c, d \in DOMAIN s : c # d =>
          \A m \in s[c].meetings, n \in s[d].meetings : ~Clash(m, n)}

\* sections/scheduler.py: the backtracking search finds a section for every
\* planned course, in its term and without a clash, whenever there is such a
\* selection, and says infeasible only if there is none.  A course gets a
\* section with an unknown time only if no selection gives it another one
\* together with the sections of the courses decided before it.
SearchIsExact ==
  schedule # NotAsked /\ schedule.status # "raised" =>
    LET earlier(c) == {d \in DOMAIN Planned : Fewer(Planned, query.options, d, c)}
    IN  /\ IF DOMAIN schedule.selected = DOMAIN Planned
           THEN schedule.selected \in FreeSelections
           ELSE FreeSelections = {}
        /\ schedule.status = "feasible" => \A c \in schedule.unknown, s \in FreeSelections :
             (\A d \in earlier(c) : s[d] = schedule.selected[d]) => HasUnknownMeetings(s[c])
=============================================================================
