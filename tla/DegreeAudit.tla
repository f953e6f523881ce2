----------------------------- MODULE DegreeAudit -----------------------------
(***************************************************************************)
(* The degree audit: completed and proposed courses are allocated to the   *)
(* requirement groups in their order, completed ones first, in the order   *)
(* of their codes.                                                         *)
(***************************************************************************)
EXTENDS Integers, Sequences, FiniteSets, FiniteSetsExt

\* sorted(S)[:n]
Least(S, n) == {c \in S : Cardinality({d \in S : d < c}) < n}

\* A plausible bug: a course that is allocated already is eligible again.
EligibleAgain(S, group, allocated) == S \cap group.codes

EligibleFor(S, group, allocated) == (S \cap group.codes) \ allocated

\* What a group takes of what earlier groups left, and what it still misses.  A
\* course that is both completed and proposed may fill two places of a group.
Row(group, before, completed, proposed, credit) ==
  LET done == Least(EligibleFor(completed, group, before), group.courses)
      planned == Least(EligibleFor(proposed, group, before),
                       Max({0, group.courses - Cardinality(done)}))
      courses == Max({0, group.courses - Cardinality(done) - Cardinality(planned)})
      earned(S) == MapThenSumSet(LAMBDA c : credit[c], S)
      credits == Max({0, group.credits - earned(done) - earned(planned)})
  IN  IF group.unknown
      THEN [allocated |-> before, done |-> {}, planned |-> {}, state |-> "unknown",
            missing_courses |-> group.courses, missing_credits |-> group.credits]
      ELSE [allocated |-> IF group.double THEN before ELSE before \cup done \cup planned,
            done |-> done, planned |-> planned,
            state |-> IF courses # 0 \/ credits # 0
                      THEN IF planned # {} THEN "pending" ELSE "unsatisfied"
                      ELSE IF planned # {} /\ done = {} THEN "pending"
                      ELSE "satisfied",
            missing_courses |-> courses, missing_credits |-> credits]

\* audit_degree: the rows of the groups, one after the other.
Audit(groups, completed, proposed, credit) ==
  LET row[n \in 0..Len(groups)] ==
        IF n = 0 THEN [allocated |-> {}]
        ELSE Row(groups[n], row[n - 1].allocated, completed, proposed, credit)
  IN  [n \in DOMAIN groups |-> row[n]]
=============================================================================
