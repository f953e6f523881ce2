------------------------------ MODULE MCAdvising ------------------------------
(* Three courses and two terms, in families of requests that vary one or two *)
(* rules each.                                                               *)
EXTENDS Advising

NoPins == <<>>
A == 1
B == 2
C == 3

Spec3(code, units, offered, needs, coreqs, hours, score) ==
  [code |-> code, units |-> units, terms |-> offered, needs |-> needs,
   coreqs |-> coreqs, groups |-> {}, hours |-> hours, score |-> score]

Group(codes, n, credits, double) ==
  [codes |-> codes, courses |-> n, credits |-> credits, double |-> double, unknown |-> FALSE]

Term(index, min, max) == [index |-> index, min |-> min, max |-> max]

Base ==
  [courses |-> <<Spec3(A, 3000, {}, None, {}, 2, 1), Spec3(B, 3000, {}, None, {}, 3, 2),
                 Spec3(C, 3000, {2}, None, {}, 1, 0)>>,
   terms |-> <<Term(1, 0, 6), Term(2, 0, 6)>>,
   groups |-> <<>>, completed |-> {}, earned |-> 0, grade |-> "C", verified |-> {},
   pinned |-> NoPins, excluded |-> {}, objective |-> "earliest_completion"]

Needs == {Ref(A), Ref(C), Credits(3), CoRequisite(<<Ref(A)>>), AnyOf(<<Ref(A), Ref(C)>>),
          AllOf(<<Ref(A), Predicate("PERMISSION", "x")>>), Grade(4, "B"), Grade(4, "C"),
          CoRequisite(<<AnyOf(<<Ref(A), Ref(4)>>)>>), AnyOf(<<>>), AllOf(<<Ref(A), AnyOf(<<>>)>>),
          AnyOf(<<Credits(3), AnyOf(<<>>)>>)}

RECURSIVE Closure(_), Height(_)
Closure(e) == {e} \cup UNION {Closure(part) : part \in Parts(e)}
Height(e) == 1 + Max({0} \cup {Height(part) : part \in Parts(e)})

AllNeeds == {x : x \in UNION {Closure(e) : e \in Needs \cup {Credits(6)}}}

\* (TLC computes AllNeeds once, and the value of a CONSTANT at each use.)
MCExpressions == AllNeeds

\* What course B or C needs, and what the student brings.
NeedRequests ==
  {[Base EXCEPT !.courses[i].needs = e, !.completed = done, !.verified = v] :
     i \in {2, 3}, e \in Needs, done \in {{}, {4}, {A}}, v \in {{}, {"x"}}}

\* Co-requisite lists in both orders, beside a course that must be taken.
CoreqRequests ==
  {[Base EXCEPT !.courses[i].coreqs = {d}, !.groups = g, !.objective = o] :
     i \in 1..3, d \in {A, B, 4}, g \in {<<>>, <<Group({A, B}, 1, 0, FALSE)>>},
     o \in {"earliest_completion", "preference_satisfaction"}}

\* Half credits against term bounds.
CreditRequests ==
  {[Base EXCEPT !.courses[1].units = u, !.courses[2].units = v, !.courses[3].terms = {},
                !.terms[1] = t, !.objective = o] :
     u \in {500, 3000, 3500}, v \in {2500, 3000},
     t \in {Term(1, 0, 3), Term(1, 3, 6), Term(1, 6, 6)},
     o \in {"earliest_completion", "balanced_workload"}}

\* Groups that share courses, pins and exclusions.
GroupRequests ==
  {[Base EXCEPT !.groups = <<Group(S, n, k, d), Group(T, 1, 3, FALSE)>>, !.terms[1].max = m,
                !.pinned = p] :
     S \in {{A}, {A, B}}, T \in {{A}, {4}}, n \in {1, 2}, k \in {0, 3}, d \in BOOLEAN,
     m \in {0, 3}, p \in {NoPins, [c \in {B} |-> 1]}}
    \cup {[Base EXCEPT !.groups = <<Group({A}, 1, 3, TRUE), Group({A, C}, 1, 3, d)>>,
                       !.terms[1].max = 0, !.terms[2].max = 3] : d \in BOOLEAN}

PinRequests ==
  {[Base EXCEPT !.pinned = p, !.courses[1].terms = S, !.courses[2].needs = e, !.terms[2].max = m,
                !.excluded = x] :
     p \in {[c \in {A} |-> 2], [c \in {A, B} |-> 1], [c \in {4} |-> 1]}, S \in {{}, {1}},
     e \in {None, Ref(A)}, m \in {0, 3}, x \in {{}, {A}}}

\* What is completed already, against two groups and an unknown rule.
AuditRequests ==
  {[Base EXCEPT !.groups = <<Group(S, n, 0, d), [Group(T, 1, 3, e) EXCEPT !.unknown = u]>>,
                !.completed = done, !.pinned = [c \in {A, B} |-> 1]] :
     S \in {{A, B}, {A, 4}}, T \in {{C}, {B, C}, {4}, {B, 4}}, n \in {1, 2}, d, e, u \in BOOLEAN,
     done \in {{}, {4}, {A}}}

\* Terms whose indices have a gap, are out of order or do not start at 1, with
\* courses that are offered between them and after them.
GapRequests ==
  {[Base EXCEPT !.terms = ts, !.courses[1].terms = S, !.courses[3].terms = T, !.groups = g,
                !.pinned = p, !.objective = o] :
     ts \in {<<Term(1, 0, 3), Term(3, 0, 6)>>, <<Term(3, 3, 6), Term(1, 0, 6)>>, <<Term(2, 0, 6)>>},
     S \in {{}, {2, 3}}, T \in {{1, 4}, {3}}, g \in {<<>>, <<Group({C}, 1, 0, FALSE)>>},
     p \in {NoPins, [c \in {A} |-> 3]}, o \in {"earliest_completion", "balanced_workload"}}

\* An index twice, and a group that is not in the request.
RefusedRequests ==
  {[Base EXCEPT !.terms[1].index = 2], [Base EXCEPT !.courses[1].groups = {1}],
   [Base EXCEPT !.courses[1].groups = {1}, !.groups = <<Group({A}, 1, 3, FALSE)>>]}

\* No courses at all, and a completed course that may be taken again.
OddRequests ==
  {[Base EXCEPT !.courses = <<>>, !.terms[1].min = n, !.groups = g] :
     n \in {0, 3}, g \in {<<>>, <<Group({A}, 1, 3, FALSE)>>}}
  \cup {[Base EXCEPT !.courses[i].needs = Credits(n), !.completed = {A}, !.earned = 3, !.excluded = x,
                     !.objective = o] :
          i \in {2, 3}, n \in {3, 6}, x \in {{}, {B}},
          o \in {"earliest_completion", "preference_satisfaction"}}

\* Two requests with one plan each: all courses in one term, or in both.
AllPinned(t) == [Base EXCEPT !.pinned = [c \in 1..3 |-> IF c = 3 THEN t ELSE 1], !.courses[3].terms = {},
                             !.terms[1].max = 9]

Meet(day, start, end, known) == [day |-> day, start |-> start, end |-> end, known |-> known]

Meetings == {{}, {Meet(1, 10, 11, TRUE)}, {Meet(1, 11, 12, TRUE)},
             {Meet(1, 10, 12, TRUE), Meet(2, 10, 11, TRUE)}, {Meet(2, 10, 11, TRUE)},
             {Meet(1, Missing, Missing, FALSE)}, {Meet(1, Missing, Missing, TRUE)}}

Offer(course, term, id, meetings) ==
  [course |-> course, term |-> term, id |-> id, meetings |-> meetings,
   asynchronous |-> meetings = {}, linked |-> IF id = 11 THEN "lab" ELSE None]

\* Two sections of the first two courses and one of the third.
Queries(t) ==
  {[options |-> {Offer(1, 1, 11, a), Offer(1, 1, 12, {Meet(1, 10, 11, TRUE)}), Offer(2, 1, 21, b),
                 Offer(2, u, 22, {Meet(1, 11, 12, TRUE)}), Offer(3, t, 31, c)},
    blocked |-> {}, groups |-> {}] :
      a, b \in Meetings, u \in {1, 2}, c \in {{Meet(1, 11, 12, TRUE)}, {Meet(2, 10, 11, TRUE)}}}
  \cup
  {[options |-> {Offer(1, 1, 11, a), Offer(2, 1, 21, b), Offer(3, t, 31, {})},
    blocked |-> x, groups |-> g] :
      a \in Meetings, b \in {{}, {Meet(1, 10, 11, TRUE)}}, x \in {{}, {Meet(1, 8, 9, TRUE)}},
      g \in {{}, {[id |-> "lab", kinds |-> 1]}, {[id |-> "lab", kinds |-> 2]}}}

MCSectionQueries == [r \in {AllPinned(1), AllPinned(2)} |-> Queries(r.pinned[3])]

NoSections == [r \in {} |-> {}]

MCRequests == NeedRequests \cup CoreqRequests \cup CreditRequests \cup GroupRequests \cup PinRequests
                \cup AuditRequests \cup GapRequests \cup RefusedRequests \cup OddRequests \cup DOMAIN MCSectionQueries
=============================================================================
