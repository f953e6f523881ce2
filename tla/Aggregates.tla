----------------------------- MODULE Aggregates ------------------------------
(***************************************************************************)
(* The course_aggregates table and the arithmetic of reviews/stats.py.     *)
(*                                                                         *)
(* A row holds a count and four sums over the ratings of revisions.  What  *)
(* the ratings are does not matter to whether the sums are right, only     *)
(* which revisions were added to them and how often, so the sums of a row  *)
(* are modelled by the net number of times each revision went in.  Two     *)
(* rows agree for every choice of ratings exactly when these agree.        *)
(***************************************************************************)
EXTENDS Integers, FiniteSets

CONSTANTS Reviews,      \* review ids; a review is one account, course and term
          Groups,       \* course and term pairs
          GroupOf,      \* the course and term of each review
          MaxRevision   \* bound on the revisions of a review

ASSUME AggregatesAssumption ==
  /\ IsFiniteSet(Reviews)
  /\ GroupOf \in [Reviews -> Groups]
  /\ MaxRevision \in Nat \ {0}

Revisions == 1 .. MaxRevision

AggregateRow == [exists : BOOLEAN, count : Int, sums : [Reviews -> [Revisions -> Int]]]

NoSums == [r \in Reviews |-> [n \in Revisions |-> 0]]
NoAggregate == [exists |-> FALSE, count |-> 0, sums |-> NoSums]

\* adjust_aggregate: the row, created when missing, with one revision's delta.
Adjust(aggregate, r, n, direction) ==
  [exists |-> TRUE,
   count  |-> aggregate.count + direction,
   sums   |-> [aggregate.sums EXCEPT ![r][n] = @ + direction]]

\* remove_empty_aggregate
RemoveEmpty(aggregate) == IF aggregate.count = 0 THEN NoAggregate ELSE aggregate

(***************************************************************************)
(* The rows of the reviews table, as the aggregates depend on them.        *)
(***************************************************************************)

Status == {"absent", "draft", "submitted", "published", "hidden", "rejected", "withdrawn"}

\* "published" is published_revision, 0 for NULL.
ReviewRow == [status : Status, current : Revisions, published : Revisions \cup {0}]
NoReview == [status |-> "absent", current |-> 1, published |-> 0]

\* The states whose approved revision full_recompute, review_page and
\* ReviewRepository.published read.
PublicStatus == {"published", "submitted", "rejected"}

IsPublic(row) == row.status \in PublicStatus /\ row.published # 0

\* full_recompute, for one group of a reviews table.
PublicIn(table, g) == {r \in Reviews : GroupOf[r] = g /\ IsPublic(table[r])}

Recompute(table, g) ==
  LET public == PublicIn(table, g)
  IN [exists |-> public # {},
      count  |-> Cardinality(public),
      sums   |-> [r \in Reviews |-> [n \in Revisions |->
                    IF r \in public /\ n = table[r].published THEN 1 ELSE 0]]]

\* TRANSITIONS
Transitions(status) ==
  CASE status = "draft"     -> {"submitted", "withdrawn"}
    [] status = "submitted" -> {"draft", "published", "rejected", "withdrawn"}
    [] status = "published" -> {"hidden", "withdrawn", "submitted"}
    [] status = "hidden"    -> {"published", "withdrawn"}
    [] status = "rejected"  -> {"draft", "submitted", "withdrawn"}
    [] OTHER                -> {}
=============================================================================
