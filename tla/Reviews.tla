------------------------------- MODULE Reviews -------------------------------
(***************************************************************************)
(* The review workflow of reviews/service.py, one request at a time: every *)
(* action is one committed transaction.  ReviewTransactions opens the      *)
(* transactions up.                                                        *)
(***************************************************************************)
EXTENDS Aggregates

VARIABLES review,      \* the reviews table
          decisions,   \* the moderation_decisions table
          aggregate    \* the course_aggregates table

vars == <<review, decisions, aggregate>>

Decision == {"published", "hidden", "rejected"}

Init ==
  /\ review = [r \in Reviews |-> NoReview]
  /\ decisions = {}
  /\ aggregate = [g \in Groups |-> NoAggregate]

\* create_review: a draft with revision 1; the policy and the unique
\* constraint refuse a second one for the account, course and term.
Create(r) ==
  /\ review[r].status = "absent"
  /\ review' = [review EXCEPT ![r].status = "draft"]
  /\ UNCHANGED <<decisions, aggregate>>

\* edit_review: the owner's revision token must be the current revision.
Edit(r, expected) ==
  /\ review[r].status \notin {"absent", "withdrawn"}
  /\ review[r].current = expected
  /\ expected < MaxRevision
  /\ review' = [review EXCEPT
       ![r].current = @ + 1,
       ![r].status = IF @ = "published" THEN "submitted" ELSE @]
  /\ UNCHANGED <<decisions, aggregate>>

\* submit_review
Submit(r) ==
  /\ "submitted" \in Transitions(review[r].status)
  /\ review' = [review EXCEPT ![r].status = "submitted"]
  /\ UNCHANGED <<decisions, aggregate>>

\* A faulty Withdrawn that forgets the approved revision a new one replaces.
WithdrawnWhenHidden(row, r, target, agg) ==
  IF row.published # 0 /\ target = "hidden" /\ row.status \in PublicStatus
    THEN RemoveEmpty(Adjust(agg, r, row.published, -1))
    ELSE agg

\* The aggregate row that _transition leaves for a review row and a target.
Withdrawn(row, r, target, agg) ==
  IF /\ row.published # 0
     /\ \/ target = "hidden" /\ row.status \in PublicStatus
        \/ target = "published" /\ row.status \in {"submitted", "rejected"}
    THEN RemoveEmpty(Adjust(agg, r, row.published, -1))
    ELSE agg

AfterDecision(row, r, target, agg) ==
  IF target = "published"
    THEN Adjust(Withdrawn(row, r, target, agg), r, row.current, 1)
    ELSE Withdrawn(row, r, target, agg)

\* moderate_review: the transition, its aggregate delta, and the decision,
\* recorded for the revision that is current.  A delta that would make the
\* count negative raises and the transaction rolls back.
Moderate(r, target) ==
  /\ target \in Transitions(review[r].status)
  /\ LET g == GroupOf[r]
         row == review[r]
     IN /\ Withdrawn(row, r, target, aggregate[g]).count >= 0
        /\ aggregate' = [aggregate EXCEPT ![g] = AfterDecision(row, r, target, @)]
        /\ review' = [review EXCEPT
             ![r].status = target,
             ![r].published = IF target = "published" THEN row.current ELSE @]
        /\ decisions' = decisions \cup
             {[review |-> r, revision |-> row.current, decision |-> target]}

Next ==
  \E r \in Reviews :
    \/ Create(r)
    \/ \E expected \in Revisions : Edit(r, expected)
    \/ Submit(r)
    \/ \E target \in Decision : Moderate(r, target)

Spec == Init /\ [][Next]_vars

(***************************************************************************)
(* Properties                                                              *)
(***************************************************************************)

TypeOK ==
  /\ review \in [Reviews -> ReviewRow]
  /\ decisions \subseteq [review : Reviews, revision : Revisions, decision : Decision]
  /\ aggregate \in [Groups -> AggregateRow]

\* The stored aggregates, kept by deltas, are what a full scan of the approved
\* revision pointers computes, row by row: nothing is counted twice, left
\* behind or lost over any history of edits and decisions.
AggregateConsistent == \A g \in Groups : aggregate[g] = Recompute(review, g)

\* Nothing is public that a moderator has not approved: the revision readers
\* see is one for which a "published" decision is on record.
PublicContentApproved ==
  \A r \in Reviews : IsPublic(review[r]) =>
    [review |-> r, revision |-> review[r].published, decision |-> "published"] \in decisions

\* The revision readers of a review see, 0 if they see none.
Shown(row) == IF IsPublic(row) THEN row.published ELSE 0
=============================================================================
