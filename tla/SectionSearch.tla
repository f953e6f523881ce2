---------------------------- MODULE SectionSearch ----------------------------
(***************************************************************************)
(* Choosing one section for every planned course.  A meeting has a day, a  *)
(* half-open interval of minutes, either end of which may be missing, and  *)
(* a flag that says whether it is known.                                   *)
(***************************************************************************)
EXTENDS Integers, Sequences, FiniteSets, FiniteSetsExt

Missing == -1     \* a start or an end that is None

Timed(m) == m.known /\ Missing \notin {m.start, m.end}

Overlaps(m, n) ==
  /\ Timed(m) /\ Timed(n) /\ m.day = n.day /\ m.start < n.end /\ n.start < m.end

\* _conflicts, which looks at no term.
Conflicts(left, right) == \E m \in left.meetings, n \in right.meetings : Overlaps(m, n)

HasUnknownMeetings(option) == ~option.asynchronous /\ \E m \in option.meetings : ~m.known

Candidates(planned, options, code) ==
  {o \in options : o.course = code /\ o.term = planned[code]}

\* Sections with unknown meetings come last, then the smaller id first.
Sooner(o, p) ==
  \/ ~HasUnknownMeetings(o) /\ HasUnknownMeetings(p)
  \/ (HasUnknownMeetings(o) <=> HasUnknownMeetings(p)) /\ o.id < p.id

\* The elements of S in an order, which is given as the set of its pairs.
Sorted(S, less) ==
  [k \in 1..Cardinality(S) |->
     CHOOSE x \in S : Cardinality({y \in S : <<y, x>> \in less}) = k - 1]

Found(selected) == [outcome |-> "found", selected |-> selected]
Nothing == [outcome |-> "nothing", selected |-> <<>>]
Raised == [outcome |-> "raised", selected |-> <<>>]

\* Selections for the first courses of the order.
Prefixes(order, options) == UNION {[1..n -> options] : n \in 0..Len(order)}

\* A plausible bug: when an option fails deeper down the others are not tried.
SearchFirst(order, tries, times, options) ==
  LET search[selected \in Prefixes(order, options)] ==
        IF Len(selected) = Len(order) THEN Found(selected)
        ELSE LET tried == tries[order[Len(selected) + 1]]
                 free(o) == \A i \in DOMAIN selected : ~Conflicts(o, selected[i])
                 frees == {k \in DOMAIN tried : free(tried[k])}
             IN  IF frees = {} THEN Nothing
                 ELSE IF times # {} /\ tried[Min(frees)].meetings # {} THEN Raised
                 ELSE search[Append(selected, tried[Min(frees)])]
  IN  search[<<>>]

\* search(index), with the sections selected for the courses before: the first
\* option that conflicts with none of them and leads to a full selection.  A
\* blocked time is a Meeting, which has no attribute meetings: comparing a
\* section that meets with it raises AttributeError.
Search(order, tries, times, options) ==
  LET search[selected \in Prefixes(order, options)] ==
        IF Len(selected) = Len(order) THEN Found(selected)
        ELSE LET tried == tries[order[Len(selected) + 1]]
                 result == [k \in DOMAIN tried |->
                   IF \E i \in DOMAIN selected : Conflicts(tried[k], selected[i]) THEN Nothing
                   ELSE IF times # {} /\ tried[k].meetings # {} THEN Raised
                   ELSE search[Append(selected, tried[k])]]
                 ends == {k \in DOMAIN result : result[k] # Nothing}
             IN  IF ends = {} THEN Nothing ELSE result[Min(ends)]
  IN  search[<<>>]

Schedule(status, selected) ==
  [status |-> status, selected |-> selected,
   unknown |-> {c \in DOMAIN selected : HasUnknownMeetings(selected[c])}]

\* Courses with few candidates come first, equal ones in the order of the
\* request, here that of their codes.
Fewer(planned, options, c, d) ==
  LET size(code) == Cardinality(Candidates(planned, options, code))
  IN  size(c) < size(d) \/ (size(c) = size(d) /\ c < d)

CourseOrder(planned, options) ==
  LET codes == DOMAIN planned
  IN  Sorted(codes, {p \in codes \X codes : Fewer(planned, options, p[1], p[2])})

OptionList(planned, options, code) ==
  LET candidates == Candidates(planned, options, code)
  IN  Sorted(candidates, {p \in candidates \X candidates : Sooner(p[1], p[2])})

\* choose_sections
ChooseSections(planned, options, times) ==
  LET order == CourseOrder(planned, options)
      tries == [code \in DOMAIN planned |-> OptionList(planned, options, code)]
      found == Search(order, tries, times, options)
      place(code) == CHOOSE i \in DOMAIN order : order[i] = code
  IN  IF \E code \in DOMAIN planned : Candidates(planned, options, code) = {}
      THEN Schedule("infeasible", <<>>)
      ELSE IF found.outcome = "raised" THEN Schedule("raised", <<>>)
      ELSE IF found.outcome = "nothing" THEN Schedule("infeasible", <<>>)
      ELSE Schedule("feasible", [code \in DOMAIN planned |-> found.selected[place(code)]])

\* validate_linked_sections counts the selected sections of each group.
LinkedValid(selected, groups) ==
  \A g \in groups :
    Cardinality({c \in DOMAIN selected : selected[c].linked = g.id}) = g.kinds

\* The answer of the endpoint.
Response(planned, query) ==
  LET schedule == ChooseSections(planned, query.options, query.blocked)
  IN  IF schedule.status # "raised" /\ ~LinkedValid(schedule.selected, query.groups)
      THEN [schedule EXCEPT !.status = "invalid"] ELSE schedule
=============================================================================
