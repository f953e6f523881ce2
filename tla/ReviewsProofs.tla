---------------------------- MODULE ReviewsProofs ----------------------------
(***************************************************************************)
(* Proofs about Reviews, ReviewTransactions and AggregateRepair for every  *)
(* finite set of reviews, every grouping of them by course and term, every *)
(* set of requests and every bound on revisions.                           *)
(***************************************************************************)
EXTENDS AggregateRepair, FiniteSetTheorems, TLAPS

Tables == [Reviews -> ReviewRow]

(***************************************************************************)
(* The aggregate arithmetic                                                *)
(***************************************************************************)

LEMMA PublicFinite ==
  ASSUME NEW table, NEW g
  PROVE  /\ PublicIn(table, g) \subseteq Reviews
         /\ IsFiniteSet(PublicIn(table, g))
         /\ Cardinality(PublicIn(table, g)) \in Nat
         /\ Cardinality(PublicIn(table, g)) = 0 <=> PublicIn(table, g) = {}
  <1>1. PublicIn(table, g) \subseteq Reviews
    BY DEF PublicIn
  <1> QED BY <1>1, AggregatesAssumption, FS_Subset, FS_CardinalityType, FS_EmptySet

\* Two tables that agree on the review r alone may differ: everything about
\* the other reviews.
SameBut(table, other, r) == \A q \in Reviews \ {r} : other[q] = table[q]

LEMMA OtherGroups ==
  ASSUME NEW table \in Tables, NEW other \in Tables, NEW r \in Reviews,
         SameBut(table, other, r), NEW g \in Groups, g # GroupOf[r]
  PROVE  Recompute(other, g) = Recompute(table, g)
  <1>1. PublicIn(other, g) = PublicIn(table, g)
    BY DEF PublicIn, SameBut
  <1>2. \A q \in PublicIn(table, g) : other[q] = table[q]
    BY DEF PublicIn, SameBut
  <1> QED BY <1>1, <1>2 DEF Recompute

\* Tables that show the same revisions have the same aggregates.
LEMMA SameShown ==
  ASSUME NEW table \in Tables, NEW other \in Tables, NEW g \in Groups,
         \A r \in Reviews : Shown(other[r]) = Shown(table[r])
  PROVE  Recompute(other, g) = Recompute(table, g)
  <1>1. \A r \in Reviews : /\ IsPublic(other[r]) <=> IsPublic(table[r])
                           /\ IsPublic(table[r]) => other[r].published = table[r].published
    BY DEF Shown, IsPublic
  <1>2. PublicIn(other, g) = PublicIn(table, g)
    BY <1>1 DEF PublicIn
  <1>3. \A r \in PublicIn(table, g) : other[r].published = table[r].published
    BY <1>1 DEF PublicIn
  <1> QED BY <1>2, <1>3 DEF Recompute

\* Subtracting the revision of a review that leaves public view.
LEMMA SubtractDelta ==
  ASSUME NEW table \in Tables, NEW other \in Tables, NEW r \in Reviews,
         SameBut(table, other, r), IsPublic(table[r]), ~IsPublic(other[r])
  PROVE  RemoveEmpty(Adjust(Recompute(table, GroupOf[r]), r, table[r].published, -1))
           = Recompute(other, GroupOf[r])
  <1> DEFINE g == GroupOf[r]
             S == PublicIn(table, g)
             T == PublicIn(other, g)
             n == table[r].published
             old == Recompute(table, g)
  <1>1. r \in S /\ T = S \ {r} /\ \A q \in T : other[q] = table[q]
    BY DEF PublicIn, SameBut
  <1>2. n \in Revisions
    BY DEF Tables, ReviewRow, IsPublic
  <1>3. Cardinality(T) = Cardinality(S) - 1 /\ Cardinality(S) \in Nat
    BY <1>1, PublicFinite, FS_RemoveElement
  <1>4. old.count - 1 = Cardinality(T)
    BY <1>3 DEF Recompute
  <1>5. [old.sums EXCEPT ![r][n] = @ + -1] = Recompute(other, g).sums
    <2> DEFINE f == [m \in Revisions |-> IF m = n THEN 1 ELSE 0]
               zero == [m \in Revisions |-> 0]
               row(q) == [m \in Revisions |-> IF q \in T /\ m = other[q].published THEN 1 ELSE 0]
    <2>1. old.sums = [q \in Reviews |-> [m \in Revisions |->
                       IF q \in S /\ m = table[q].published THEN 1 ELSE 0]]
      BY DEF Recompute
    <2>2. old.sums[r] = f
      BY <1>1, <2>1
    <2>3. [f EXCEPT ![n] = @ + -1] = zero
      BY <1>2
    <2>4. \A q \in Reviews \ {r} : old.sums[q] = row(q)
      BY <1>1, <2>1
    <2>5. row(r) = zero
      BY <1>1
    <2>6. Recompute(other, g).sums = [q \in Reviews |-> row(q)]
      BY DEF Recompute
    <2> HIDE DEF f, zero, row, S, T, n
    <2>7. [old.sums EXCEPT ![r][n] = @ + -1] = [old.sums EXCEPT ![r] = zero]
      BY <2>2, <2>3
    <2>8. old.sums = [q \in Reviews |-> old.sums[q]]
      BY <2>1
    <2>9. [old.sums EXCEPT ![r] = zero] = [q \in Reviews |-> row(q)]
      <3> HIDE DEF old
      <3>1. [old.sums EXCEPT ![r] = zero] = [q \in Reviews |-> IF q = r THEN zero ELSE old.sums[q]]
        BY <2>8
      <3> QED BY <2>4, <2>5, <3>1
    <2> QED BY <2>6, <2>7, <2>9
  <1>6. CASE T = {}
    <2>1. Recompute(other, g) = NoAggregate
      BY <1>3, <1>6, PublicFinite DEF Recompute, NoAggregate, NoSums
    <2>2. old.count - 1 = 0
      BY <1>4, <1>6, PublicFinite
    <2> QED BY <2>1, <2>2 DEF Adjust, RemoveEmpty
  <1>7. CASE T # {}
    <2>1. old.count + -1 # 0 /\ old.count + -1 = Cardinality(T)
      BY <1>3, <1>4, <1>7, PublicFinite DEF Recompute
    <2>2. RemoveEmpty(Adjust(old, r, n, -1)) = Adjust(old, r, n, -1)
      BY <2>1 DEF Adjust, RemoveEmpty
    <2>3. Adjust(old, r, n, -1)
            = [exists |-> TRUE, count |-> Cardinality(T), sums |-> Recompute(other, g).sums]
      BY <1>5, <2>1 DEF Adjust
    <2> QED BY <1>7, <2>2, <2>3 DEF Recompute
  <1> QED BY <1>6, <1>7

\* Adding the revision of a review that comes into public view.
LEMMA AddDelta ==
  ASSUME NEW table \in Tables, NEW other \in Tables, NEW r \in Reviews,
         SameBut(table, other, r), ~IsPublic(table[r]), IsPublic(other[r])
  PROVE  Adjust(Recompute(table, GroupOf[r]), r, other[r].published, 1)
           = Recompute(other, GroupOf[r])
  <1> DEFINE g == GroupOf[r]
             S == PublicIn(table, g)
             T == PublicIn(other, g)
             n == other[r].published
             old == Recompute(table, g)
  <1>1. r \notin S /\ T = S \cup {r} /\ \A q \in S : other[q] = table[q]
    BY DEF PublicIn, SameBut
  <1>2. n \in Revisions
    BY DEF Tables, ReviewRow, IsPublic
  <1>3. Cardinality(T) = Cardinality(S) + 1
    BY <1>1, PublicFinite, FS_AddElement
  <1>4. old.count + 1 = Cardinality(T)
    BY <1>3 DEF Recompute
  <1>5. [old.sums EXCEPT ![r][n] = @ + 1] = Recompute(other, g).sums
    <2> DEFINE one == [m \in Revisions |-> IF m = n THEN 1 ELSE 0]
               zero == [m \in Revisions |-> 0]
               row(q) == [m \in Revisions |-> IF q \in T /\ m = other[q].published THEN 1 ELSE 0]
    <2>1. old.sums = [q \in Reviews |-> [m \in Revisions |->
                       IF q \in S /\ m = table[q].published THEN 1 ELSE 0]]
      BY DEF Recompute
    <2>2. old.sums[r] = zero
      BY <1>1, <2>1
    <2>3. [zero EXCEPT ![n] = @ + 1] = one
      BY <1>2
    <2>4. \A q \in Reviews \ {r} : old.sums[q] = row(q)
      BY <1>1, <2>1
    <2>5. row(r) = one
      BY <1>1
    <2>6. Recompute(other, g).sums = [q \in Reviews |-> row(q)]
      BY DEF Recompute
    <2> HIDE DEF one, zero, row, S, T, n
    <2>7. [old.sums EXCEPT ![r][n] = @ + 1] = [old.sums EXCEPT ![r] = one]
      BY <2>2, <2>3
    <2>8. old.sums = [q \in Reviews |-> old.sums[q]]
      BY <2>1
    <2>9. [old.sums EXCEPT ![r] = one] = [q \in Reviews |-> row(q)]
      <3> HIDE DEF old
      <3>1. [old.sums EXCEPT ![r] = one] = [q \in Reviews |-> IF q = r THEN one ELSE old.sums[q]]
        BY <2>8
      <3> QED BY <2>4, <2>5, <3>1
    <2> QED BY <2>6, <2>7, <2>9
  <1>6. Adjust(old, r, n, 1) = [exists |-> TRUE, count |-> Cardinality(T), sums |-> Recompute(other, g).sums]
    BY <1>4, <1>5 DEF Adjust
  <1> QED BY <1>1, <1>6 DEF Recompute

(***************************************************************************)
(* Types                                                                   *)
(***************************************************************************)

LEMMA RecomputeType ==
  ASSUME NEW table \in Tables, NEW g PROVE Recompute(table, g) \in AggregateRow
  <1> DEFINE sums == Recompute(table, g).sums
  <1>1. sums \in [Reviews -> [Revisions -> Int]]
    BY DEF Recompute
  <1>2. Cardinality(PublicIn(table, g)) \in Int
    BY PublicFinite
  <1>3. Recompute(table, g) = [exists |-> PublicIn(table, g) # {},
                               count |-> Cardinality(PublicIn(table, g)), sums |-> sums]
    BY DEF Recompute
  <1> HIDE DEF sums
  <1> QED BY <1>1, <1>2, <1>3 DEF AggregateRow

\* What of TypeOK does not follow from AggregateConsistent.
TablesOK ==
  /\ review \in Tables
  /\ aggregate = [g \in Groups |-> aggregate[g]]
  /\ decisions \subseteq [review : Reviews, revision : Revisions, decision : Decision]

\* A draft has no approved revision: no code path leads back to "draft".  The
\* transition matrix would allow one, and then submitting the draft would put
\* its old revision back in public view behind the aggregates' back.
DraftUnpublished == \A r \in Reviews : review[r].status \in {"absent", "draft"} => review[r].published = 0

LEMMA DraftNext == TablesOK /\ DraftUnpublished /\ [Next]_vars => DraftUnpublished'
  <1> SUFFICES ASSUME TablesOK, DraftUnpublished, [Next]_vars PROVE DraftUnpublished'
    OBVIOUS
  <1> USE DEF TablesOK, Tables, ReviewRow, DraftUnpublished
  <1>1. ASSUME NEW r \in Reviews, Create(r) \/ Submit(r) PROVE DraftUnpublished'
    <2>1. CASE Create(r)
      BY <2>1 DEF Create
    <2>2. CASE Submit(r)
      BY <2>2 DEF Submit
    <2> QED BY <1>1, <2>1, <2>2
  <1>2. ASSUME NEW r \in Reviews, NEW expected \in Revisions, Edit(r, expected) PROVE DraftUnpublished'
    BY <1>2 DEF Edit
  <1>3. ASSUME NEW r \in Reviews, NEW target \in Decision, Moderate(r, target)
        PROVE  DraftUnpublished'
    BY <1>3 DEF Moderate, Decision
  <1>4. CASE UNCHANGED vars
    BY <1>4 DEF vars
  <1> QED BY <1>1, <1>2, <1>3, <1>4 DEF Next

LEMMA TablesNext == TablesOK /\ [Next]_vars => TablesOK'
  <1> SUFFICES ASSUME TablesOK, [Next]_vars PROVE TablesOK'
    OBVIOUS
  <1> USE AggregatesAssumption DEF TablesOK, Tables, ReviewRow
  <1>1. ASSUME NEW r \in Reviews, Create(r) PROVE TablesOK'
    BY <1>1 DEF Create, Status
  <1>2. ASSUME NEW r \in Reviews, NEW expected \in Revisions, Edit(r, expected) PROVE TablesOK'
    <2>1. review[r].current + 1 \in Revisions
      BY <1>2 DEF Edit, Revisions
    <2> DEFINE s == IF review[r].status = "published" THEN "submitted" ELSE review[r].status
               c == review[r].current + 1
    <2>2. s \in Status
      BY DEF Status
    <2>3. review' = [review EXCEPT ![r] = [review[r] EXCEPT !.current = c, !.status = s]]
      BY <1>2 DEF Edit
    <2> HIDE DEF s, c
    <2>4. review' \in Tables
      BY <2>1, <2>2, <2>3 DEF c
    <2> QED BY <1>2, <2>4 DEF Edit
  <1>3. ASSUME NEW r \in Reviews, Submit(r) PROVE TablesOK'
    BY <1>3 DEF Submit, Status
  <1>4. ASSUME NEW r \in Reviews, NEW target \in Decision, Moderate(r, target) PROVE TablesOK'
    <2>1. review[r] \in ReviewRow /\ GroupOf[r] \in Groups
      OBVIOUS
    <2>2. target \in Status
      BY DEF Status, Decision
    <2>3. review' \in Tables
      BY <1>4, <2>1, <2>2 DEF Moderate
    <2>4. decisions' \subseteq [review : Reviews, revision : Revisions, decision : Decision]
      BY <1>4, <2>1 DEF Moderate
    <2>5. aggregate' = [g \in Groups |-> aggregate'[g]]
      BY <1>4, <2>1 DEF Moderate
    <2> QED BY <2>3, <2>4, <2>5
  <1>5. CASE UNCHANGED vars
    BY <1>5 DEF vars
  <1> QED BY <1>1, <1>2, <1>3, <1>4, <1>5 DEF Next

(***************************************************************************)
(* Consistency of the aggregates                                           *)
(***************************************************************************)

\* A review that no moderator has published yet has no pointer, and the
\* pointer of a published review is its current revision; a review in a state
\* without public content is a draft, hidden or withdrawn one.
LEMMA ConsistentDecision ==
  ASSUME TablesOK, TablesOK', AggregateConsistent,
         NEW r \in Reviews, NEW target \in Decision, Moderate(r, target)
  PROVE  AggregateConsistent'
  <1> DEFINE row == review[r]
             g == GroupOf[r]
  <1>1. /\ SameBut(review, review', r)
        /\ review'[r] = [row EXCEPT !.status = target,
                            !.published = IF target = "published" THEN row.current ELSE @]
        /\ aggregate' = [aggregate EXCEPT ![g] = AfterDecision(row, r, target, @)]
        /\ target \in Transitions(row.status)
    BY DEF Moderate, SameBut, TablesOK, Tables
  <1>2. g \in Groups /\ row \in ReviewRow
    BY AggregatesAssumption DEF TablesOK, Tables
  <1>3. aggregate[g] = Recompute(review, g)
    BY <1>2 DEF AggregateConsistent
  <1>4. AfterDecision(row, r, target, aggregate[g]) = Recompute(review', g)
    <2>1. CASE target = "hidden"
      <3>1. row.status = "published" /\ ~IsPublic(review'[r])
        BY <1>1, <1>2, <2>1 DEF Transitions, IsPublic, PublicStatus, ReviewRow, Status
      <3>2. CASE row.published # 0
        <4>1. AfterDecision(row, r, target, aggregate[g])
                = RemoveEmpty(Adjust(aggregate[g], r, row.published, -1))
          BY <2>1, <3>1, <3>2 DEF AfterDecision, Withdrawn, PublicStatus
        <4>2. IsPublic(row)
          BY <3>1, <3>2 DEF IsPublic, PublicStatus
        <4> QED BY <1>1, <1>3, <3>1, <4>1, <4>2, SubtractDelta DEF TablesOK
      <3>3. CASE row.published = 0
        <4>1. AfterDecision(row, r, target, aggregate[g]) = aggregate[g]
          BY <2>1, <3>3 DEF AfterDecision, Withdrawn
        <4>2. \A q \in Reviews : Shown(review'[q]) = Shown(review[q])
          BY <1>1, <3>1, <3>3 DEF Shown, IsPublic, SameBut
        <4> QED BY <1>2, <1>3, <4>1, <4>2, SameShown DEF TablesOK
      <3> QED BY <3>2, <3>3
    <2>2. CASE target = "rejected"
      <3>1. row.status = "submitted"
        BY <1>1, <1>2, <2>2 DEF Transitions, ReviewRow, Status
      <3>2. AfterDecision(row, r, target, aggregate[g]) = aggregate[g]
        BY <2>2 DEF AfterDecision, Withdrawn
      <3>3. review'[r].published = row.published /\ review'[r].status = "rejected"
        BY <1>1, <1>2, <2>2 DEF ReviewRow
      <3>4. \A q \in Reviews : Shown(review'[q]) = Shown(review[q])
        BY <1>1, <3>1, <3>3 DEF Shown, IsPublic, PublicStatus, SameBut
      <3> QED BY <1>2, <1>3, <3>2, <3>4, SameShown DEF TablesOK
    <2>3. CASE target = "published"
      <3>1. /\ row.status \in {"submitted", "hidden"} /\ row.current \in Revisions
            /\ review'[r].status = "published" /\ review'[r].published = row.current
        BY <1>1, <1>2, <2>3 DEF Transitions, ReviewRow, Status
      <3>2. IsPublic(review'[r])
        BY <3>1 DEF IsPublic, PublicStatus, Revisions
      <3>3. CASE row.status = "submitted" /\ row.published # 0
        <4> DEFINE mid == [review EXCEPT ![r] = [row EXCEPT !.published = 0]]
        <4>1. mid \in Tables /\ SameBut(review, mid, r) /\ SameBut(mid, review', r)
              /\ ~IsPublic(mid[r]) /\ IsPublic(row)
          BY <1>1, <1>2, <3>3 DEF TablesOK, Tables, ReviewRow, SameBut, IsPublic, PublicStatus
        <4>2. AfterDecision(row, r, target, aggregate[g])
                = Adjust(RemoveEmpty(Adjust(aggregate[g], r, row.published, -1)), r, row.current, 1)
          BY <2>3, <3>3 DEF AfterDecision, Withdrawn
        <4> HIDE DEF mid
        <4>3. RemoveEmpty(Adjust(Recompute(review, g), r, row.published, -1)) = Recompute(mid, g)
          BY <4>1, SubtractDelta DEF TablesOK
        <4>4. Adjust(Recompute(mid, g), r, review'[r].published, 1) = Recompute(review', g)
          BY <3>2, <4>1, AddDelta DEF TablesOK
        <4> QED BY <1>3, <3>1, <4>2, <4>3, <4>4
      <3>4. CASE ~(row.status = "submitted" /\ row.published # 0)
        <4>1. ~IsPublic(row)
          BY <3>1, <3>4 DEF IsPublic, PublicStatus
        <4>2. AfterDecision(row, r, target, aggregate[g]) = Adjust(aggregate[g], r, row.current, 1)
          BY <2>3, <3>1, <3>4 DEF AfterDecision, Withdrawn
        <4>3. review \in Tables /\ review' \in Tables /\ SameBut(review, review', r)
          BY <1>1 DEF TablesOK
        <4>4. Adjust(Recompute(review, g), r, review'[r].published, 1) = Recompute(review', g)
          BY <3>2, <4>1, <4>3, AddDelta
        <4> QED BY <1>3, <3>1, <4>2, <4>4
      <3> QED BY <3>3, <3>4
    <2> QED BY <2>1, <2>2, <2>3 DEF Decision
  <1>5. ASSUME NEW h \in Groups PROVE aggregate'[h] = Recompute(review', h)
    <2>1. CASE h = g
      <3>1. aggregate'[g] = AfterDecision(row, r, target, aggregate[g])
        BY <1>1, <1>2 DEF TablesOK
      <3> QED BY <1>4, <2>1, <3>1
    <2>2. CASE h # g
      BY <1>1, <2>2, OtherGroups DEF TablesOK, AggregateConsistent
    <2> QED BY <2>1, <2>2
  <1> QED BY <1>5 DEF AggregateConsistent

LEMMA ConsistentInit == Init => TablesOK /\ DraftUnpublished /\ AggregateConsistent
  <1> SUFFICES ASSUME Init PROVE TablesOK /\ DraftUnpublished /\ AggregateConsistent
    OBVIOUS
  <1>1. TablesOK /\ DraftUnpublished
    BY AggregatesAssumption DEF Init, TablesOK, DraftUnpublished, Tables, ReviewRow, NoReview, Status, Revisions
  <1>2. ASSUME NEW g \in Groups PROVE Recompute(review, g) = NoAggregate
    <2>1. PublicIn(review, g) = {}
      BY DEF Init, PublicIn, IsPublic, NoReview
    <2> QED BY <2>1, PublicFinite DEF Recompute, NoAggregate, NoSums
  <1> QED BY <1>1, <1>2 DEF Init, AggregateConsistent

LEMMA ConsistentNext ==
  TablesOK /\ DraftUnpublished /\ AggregateConsistent /\ [Next]_vars => AggregateConsistent'
  <1> SUFFICES ASSUME TablesOK, DraftUnpublished, AggregateConsistent, [Next]_vars PROVE AggregateConsistent'
    OBVIOUS
  <1>1. TablesOK'
    BY TablesNext
  <1>2. ASSUME aggregate' = aggregate, \A r \in Reviews : Shown(review'[r]) = Shown(review[r])
        PROVE  AggregateConsistent'
    BY <1>1, <1>2, SameShown DEF AggregateConsistent, TablesOK
  <1>3. ASSUME NEW r \in Reviews, Create(r) PROVE AggregateConsistent'
    <2>1. \A q \in Reviews : Shown(review'[q]) = Shown(review[q])
      BY <1>3 DEF Create, Shown, IsPublic, PublicStatus, TablesOK, Tables, ReviewRow
    <2> QED BY <1>2, <1>3, <2>1 DEF Create
  <1>4. ASSUME NEW r \in Reviews, NEW expected \in Revisions, Edit(r, expected)
        PROVE  AggregateConsistent'
    <2>1. /\ review'[r].published = review[r].published
          /\ review'[r].status = IF review[r].status = "published" THEN "submitted" ELSE review[r].status
          /\ \A q \in Reviews \ {r} : review'[q] = review[q]
      BY <1>4 DEF Edit, TablesOK, Tables, ReviewRow
    <2>2. \A q \in Reviews : Shown(review'[q]) = Shown(review[q])
      BY <2>1 DEF Shown, IsPublic, PublicStatus
    <2> QED BY <1>2, <1>4, <2>2 DEF Edit
  <1>5. ASSUME NEW r \in Reviews, Submit(r) PROVE AggregateConsistent'
    <2>0. review[r].status \in {"draft", "published", "rejected"}
      BY <1>5 DEF Submit, Transitions, TablesOK, Tables, ReviewRow, Status
    <2>1. /\ review'[r].published = review[r].published
          /\ review'[r].status = "submitted"
          /\ \A q \in Reviews \ {r} : review'[q] = review[q]
      BY <1>5 DEF Submit, TablesOK, Tables, ReviewRow
    <2>2. \A q \in Reviews : Shown(review'[q]) = Shown(review[q])
      BY <2>0, <2>1 DEF Shown, IsPublic, PublicStatus, DraftUnpublished
    <2> QED BY <1>2, <1>5, <2>2 DEF Submit
  <1>6. ASSUME NEW r \in Reviews, NEW target \in Decision, Moderate(r, target)
        PROVE  AggregateConsistent'
    BY <1>1, <1>6, ConsistentDecision
  <1>7. CASE UNCHANGED vars
    BY <1>2, <1>7 DEF vars
  <1> QED BY <1>3, <1>4, <1>5, <1>6, <1>7 DEF Next

\* The deltas that decisions apply keep every stored aggregate equal to the
\* scan of the approved revision pointers.
THEOREM AggregatesConsistent == Spec => []AggregateConsistent
  BY ConsistentInit, TablesNext, DraftNext, ConsistentNext, PTL DEF Spec

\* Every table stays in its declared set; in particular no published count is
\* ever negative, so adjust_aggregate's assertion never fires.
THEOREM TypesAndCounts == Spec => [](TypeOK /\ \A g \in Groups : aggregate[g].count >= 0)
  <1>1. TablesOK /\ AggregateConsistent => TypeOK /\ \A g \in Groups : aggregate[g].count >= 0
    <2> SUFFICES ASSUME TablesOK, AggregateConsistent
                 PROVE  TypeOK /\ \A g \in Groups : aggregate[g].count >= 0
      OBVIOUS
    <2>1. \A g \in Groups : aggregate[g] \in AggregateRow
      BY RecomputeType DEF TablesOK, AggregateConsistent
    <2>2. \A g \in Groups : aggregate[g].count >= 0
      <3> TAKE g \in Groups
      <3>1. aggregate[g] = Recompute(review, g)
        BY DEF AggregateConsistent
      <3>2. Recompute(review, g).count = Cardinality(PublicIn(review, g))
        BY DEF Recompute
      <3> QED BY <3>1, <3>2, PublicFinite
    <2> QED BY <2>1, <2>2 DEF TablesOK, Tables, TypeOK
  <1> QED BY <1>1, ConsistentInit, TablesNext, DraftNext, ConsistentNext, PTL DEF Spec

(***************************************************************************)
(* Approval                                                                *)
(***************************************************************************)

Approved(r, n) == [review |-> r, revision |-> n, decision |-> "published"] \in decisions

\* Not only public content: every approved revision pointer was approved.
PointersApproved ==
  \A r \in Reviews : review[r].published # 0 => Approved(r, review[r].published)

\* Nothing is public that a moderator has not approved.
THEOREM PublicApproved == Spec => []PublicContentApproved
  <1>1. Init => PointersApproved
    BY DEF Init, PointersApproved, NoReview
  <1>2. TablesOK /\ PointersApproved /\ [Next]_vars => PointersApproved'
    <2> SUFFICES ASSUME TablesOK, PointersApproved, [Next]_vars PROVE PointersApproved'
      OBVIOUS
    <2> USE DEF TablesOK, Tables, ReviewRow, PointersApproved, Approved
    <2>1. ASSUME decisions' = decisions,
                 \A r \in Reviews : review'[r].published = review[r].published
          PROVE  PointersApproved'
      BY <2>1
    <2>2. ASSUME NEW r \in Reviews, Create(r) \/ Submit(r) PROVE PointersApproved'
      BY <2>1, <2>2 DEF Create, Submit
    <2>3. ASSUME NEW r \in Reviews, NEW expected \in Revisions, Edit(r, expected)
          PROVE  PointersApproved'
      BY <2>1, <2>3 DEF Edit
    <2>4. ASSUME NEW r \in Reviews, NEW target \in Decision, Moderate(r, target)
          PROVE  PointersApproved'
      <3>1. /\ decisions' = decisions \cup
                 {[review |-> r, revision |-> review[r].current, decision |-> target]}
            /\ \A q \in Reviews \ {r} : review'[q].published = review[q].published
            /\ review'[r].published = IF target = "published" THEN review[r].current
                                                              ELSE review[r].published
        BY <2>4 DEF Moderate
      <3> QED BY <3>1
    <2>5. CASE UNCHANGED vars
      BY <2>1, <2>5 DEF vars
    <2> QED BY <2>2, <2>3, <2>4, <2>5 DEF Next
  <1>3. PointersApproved => PublicContentApproved
    BY DEF PointersApproved, Approved, PublicContentApproved, IsPublic
  <1> QED BY <1>1, <1>2, <1>3, ConsistentInit, TablesNext, PTL DEF Spec

(***************************************************************************)
(* Types, sessions and locks                                               *)
(***************************************************************************)

LEMMA AdjustRow ==
  ASSUME NEW agg \in AggregateRow, NEW r \in Reviews, NEW n \in Revisions, NEW d \in Int
  PROVE  Adjust(agg, r, n, d) \in AggregateRow
  <1> DEFINE c == agg.count + d
             f == [agg.sums EXCEPT ![r][n] = @ + d]
  <1>1. c \in Int /\ agg.sums \in [Reviews -> [Revisions -> Int]]
    BY DEF AggregateRow
  <1>2. agg.sums[r] \in [Revisions -> Int]
    BY <1>1
  <1>3. [agg.sums[r] EXCEPT ![n] = @ + d] \in [Revisions -> Int]
    BY <1>2
  <1>4. f = [agg.sums EXCEPT ![r] = [agg.sums[r] EXCEPT ![n] = @ + d]]
    BY <1>1
  <1>5. f \in [Reviews -> [Revisions -> Int]]
    BY <1>1, <1>3, <1>4
  <1>6. Adjust(agg, r, n, d) = [exists |-> TRUE, count |-> c, sums |-> f]
    BY DEF Adjust
  <1> HIDE DEF c, f
  <1> QED BY <1>1, <1>5, <1>6 DEF AggregateRow

LEMMA EmptyRow == NoAggregate \in AggregateRow
  BY DEF NoAggregate, NoSums, AggregateRow

\* What a decision makes of an aggregate row is one, and is NoAggregate if it
\* does not exist.
Clean(agg) == agg \in AggregateRow /\ (~agg.exists => agg = NoAggregate)

LEMMA DecisionRow ==
  ASSUME NEW row \in ReviewRow, NEW r \in Reviews, NEW target, NEW agg, Clean(agg)
  PROVE  Clean(Withdrawn(row, r, target, agg)) /\ Clean(AfterDecision(row, r, target, agg))
  <1>1. row.published # 0 => row.published \in Revisions
    BY DEF ReviewRow
  <1>2. row.current \in Revisions
    BY DEF ReviewRow
  <1>3. ASSUME NEW n \in Revisions, NEW d \in {-1, 1}, NEW a, Clean(a)
        PROVE  Clean(Adjust(a, r, n, d))
    <2>1. Adjust(a, r, n, d) \in AggregateRow
      BY <1>3, AdjustRow DEF Clean
    <2> QED BY <2>1 DEF Adjust, Clean
  <1>4. ASSUME NEW n \in Revisions PROVE Clean(RemoveEmpty(Adjust(agg, r, n, -1)))
    BY <1>3, EmptyRow DEF RemoveEmpty, Clean
  <1>5. Clean(Withdrawn(row, r, target, agg))
    BY <1>1, <1>4 DEF Withdrawn
  <1> QED BY <1>2, <1>3, <1>5 DEF AfterDecision

Typed ==
  /\ review \in Tables
  /\ decisions \subseteq [review : Reviews, revision : Revisions, decision : Decision]
  /\ aggregate \in [Groups -> AggregateRow]
  /\ session \in [Requests -> Session]
  /\ lock \in [Groups -> Requests \cup {None}]
  /\ edits \in [Reviews -> Nat]

\* A stored row exists or is the row of nothing.
RowsClean == \A g \in Groups : Clean(aggregate[g])

\* What a request has read: a row it may act on, of which the revision and
\* the approval only move forward.
SessionsSound ==
  \A s \in Requests : session[s].pc # "idle" =>
    /\ session[s].on \in Reviews
    /\ Allowed(session[s].op, session[s].copy)
    /\ session[s].copy.current <= review[session[s].on].current
    /\ session[s].copy.published # 0 => review[session[s].on].published # 0

\* A request holds the lock of the aggregate it has changed and no other, and
\* its draft is still what its decision makes of the stored row.
LocksSound ==
  \A s \in Requests :
    /\ \A g \in Groups : lock[g] = s <=>
         session[s].pc \in {"locked", "raised"} /\ g = GroupOf[session[s].on]
    /\ session[s].pc \in {"locked", "raised"} =>
         LET me == session[s]
             old == aggregate[GroupOf[me.on]]
         IN  /\ Counts(me.op, me.copy)
             /\ me.draft = AfterDecision(me.copy, me.on, me.op, old)
             /\ me.pc = "locked" <=> Withdrawn(me.copy, me.on, me.op, old).count >= 0

TxInv == Typed /\ RowsClean /\ SessionsSound /\ LocksSound /\ NoLostEdit

\* Another writer of the aggregates respects the locks.
OtherWriter ==
  /\ UNCHANGED <<review, decisions, session, lock, edits>>
  /\ aggregate' \in [Groups -> AggregateRow]
  /\ \A g \in Groups : Clean(aggregate'[g]) /\ (lock[g] # None => aggregate'[g] = aggregate[g])

LEMMA SessionFields ==
  ASSUME Typed, NEW s \in Requests
  PROVE  /\ session[s].pc \in {"idle", "read", "locked", "raised"} /\ session[s].op \in Operation
         /\ session[s].on \in Reviews \cup {None} /\ session[s].copy \in ReviewRow
         /\ session[s].copy.status \in Status /\ session[s].copy.current \in Revisions
         /\ session[s].copy.published \in Revisions \cup {0}
         /\ session[s].draft \in AggregateRow
  BY DEF Typed, Session, ReviewRow

LEMMA IdleSession == Idle \in Session
  BY AggregatesAssumption, EmptyRow DEF Idle, Session, Operation, NoReview, ReviewRow, Status, Revisions

\* The tables of reviews a step leaves: reviews stay rows, and numbers of
\* revisions and approvals only move forward.
LEMMA ReviewForward ==
  ASSUME Typed, SessionsSound, TxNext \/ OtherWriter
  PROVE  /\ review' \in Tables
         /\ \A r \in Reviews : /\ review[r].current <= review'[r].current
                               /\ review[r].published # 0 => review'[r].published # 0
  <1> DEFINE Forward == /\ review' \in Tables
                        /\ \A q \in Reviews : /\ review[q].current <= review'[q].current
                                              /\ review[q].published # 0 => review'[q].published # 0
  <1> SUFFICES Forward
    OBVIOUS
  <1> USE DEF Tables
  <1>0. /\ \A r \in Reviews : /\ review[r] \in ReviewRow /\ review[r].current \in Revisions
                              /\ review[r].published \in Revisions \cup {0}
        /\ review = [r \in Reviews |-> review[r]]
    BY DEF Typed, ReviewRow
  <1>1. ASSUME UNCHANGED review PROVE Forward
    BY <1>0, <1>1 DEF Typed, Revisions
  <1>2. ASSUME NEW r \in Reviews, NEW row \in ReviewRow, review' = [review EXCEPT ![r] = row],
               review[r].current <= row.current, review[r].published # 0 => row.published # 0
        PROVE  Forward
    BY <1>0, <1>2 DEF Revisions, Typed
  <1> HIDE DEF Forward
  <1>3. ASSUME NEW r \in Reviews, TxCreate(r) PROVE Forward
    <2> DEFINE row == [review[r] EXCEPT !.status = "draft"]
    <2>1. row \in ReviewRow /\ row.current = review[r].current /\ row.published = review[r].published
      BY <1>0 DEF ReviewRow, Status
    <2>2. review' = [review EXCEPT ![r] = row]
      BY <1>3 DEF TxCreate, Create
    <2> HIDE DEF row
    <2>3. review[r].current <= row.current /\ (review[r].published # 0 => row.published # 0)
      BY <1>0, <2>1 DEF Revisions
    <2> QED BY <1>2, <2>1, <2>2, <2>3
  <1>4. ASSUME NEW s \in Requests, CommitEdit(s) \/ CommitSubmit(s) \/ CommitDecision(s)
        PROVE  Forward
    <2> DEFINE me == session[s]
               r == me.on
    <2>1. r \in Reviews /\ Allowed(me.op, me.copy)
      BY <1>4 DEF CommitEdit, CommitSubmit, CommitDecision, SessionsSound
    <2>2. me.copy.current \in Revisions /\ me.copy.status \in Status /\ me.op \in Operation
      BY SessionFields
    <2>3. CASE CommitEdit(s)
      <3> DEFINE st == IF me.copy.status = "published" THEN "submitted" ELSE review[r].status
                 c == me.copy.current + 1
                 row == [review[r] EXCEPT !.current = c, !.status = st]
      <3>0. me.copy.current < MaxRevision
        BY <2>1, <2>3 DEF CommitEdit, Allowed
      <3>4. review[r].status \in Status
        BY <1>0, <2>1 DEF ReviewRow
      <3>5. st \in Status
        BY <3>4 DEF Status
      <3>1. st \in Status /\ c \in Revisions
        BY <2>2, <3>0, <3>5, AggregatesAssumption DEF Revisions
      <3>2. review' = [review EXCEPT ![r] = row] /\ review[r].current < c
        BY <2>3 DEF CommitEdit
      <3> HIDE DEF st, c
      <3>3. row \in ReviewRow /\ row.current = c /\ row.published = review[r].published
        BY <1>0, <2>1, <3>1 DEF ReviewRow
      <3> HIDE DEF row, r
      <3>9. review[r].current <= row.current /\ (review[r].published # 0 => row.published # 0)
        BY <1>0, <2>1, <3>1, <3>2, <3>3 DEF Revisions
      <3> QED BY <1>2, <2>1, <3>2, <3>3, <3>9
    <2>4. CASE CommitSubmit(s)
      <3> DEFINE row == [review[r] EXCEPT !.status = "submitted"]
      <3>1. row \in ReviewRow /\ row.current = review[r].current /\ row.published = review[r].published
        BY <1>0, <2>1 DEF ReviewRow, Status
      <3>2. review' = [review EXCEPT ![r] = row]
        BY <2>4 DEF CommitSubmit
      <3> HIDE DEF row, r
      <3>9. review[r].current <= row.current /\ (review[r].published # 0 => row.published # 0)
        BY <1>0, <2>1, <3>1, <3>2 DEF Revisions
      <3> QED BY <1>2, <2>1, <3>1, <3>2, <3>9
    <2>5. CASE CommitDecision(s)
      <3> DEFINE p == IF me.op = "published" /\ me.copy.published # me.copy.current
                      THEN me.copy.current ELSE review[r].published
                 o == me.op
                 row == [review[r] EXCEPT !.status = o, !.published = p]
      <3>1. o \in Status /\ p \in Revisions \cup {0} /\ (review[r].published # 0 => p # 0)
        BY <1>0, <2>1, <2>2, <2>5 DEF CommitDecision, Decision, Status, Revisions
      <3>2. review' = [review EXCEPT ![r] = row]
        BY <2>5 DEF CommitDecision
      <3> HIDE DEF o, p
      <3>3. row \in ReviewRow /\ row.current = review[r].current /\ row.published = p
        BY <1>0, <2>1, <3>1 DEF ReviewRow
      <3> HIDE DEF row, r
      <3>9. review[r].current <= row.current /\ (review[r].published # 0 => row.published # 0)
        BY <1>0, <2>1, <3>1, <3>2, <3>3 DEF Revisions
      <3> QED BY <1>2, <2>1, <3>2, <3>3, <3>9
    <2> QED BY <1>4, <2>3, <2>4, <2>5
  <1> QED
    BY <1>1, <1>2, <1>3, <1>4 DEF TxNext, OtherWriter, Read, LockAggregate, Rollback

\* Where a request holds a lock it has a draft.
LEMMA Drafted ==
  ASSUME Typed, RowsClean, SessionsSound, LocksSound, NEW s \in Requests, NEW g \in Groups, lock[g] = s
  PROVE  Clean(session[s].draft)
  <1>1. /\ session[s].pc \in {"locked", "raised"} /\ g = GroupOf[session[s].on]
        /\ session[s].draft = AfterDecision(session[s].copy, session[s].on, session[s].op, aggregate[g])
    BY DEF LocksSound
  <1>2. session[s].on \in Reviews /\ session[s].copy \in ReviewRow
    BY <1>1, SessionFields DEF SessionsSound
  <1> QED BY <1>1, <1>2, DecisionRow DEF RowsClean

LEMMA TypedNext ==
  TxInv /\ (TxNext \/ OtherWriter) => Typed' /\ RowsClean'
  <1> SUFFICES ASSUME TxInv, TxNext \/ OtherWriter PROVE Typed' /\ RowsClean'
    OBVIOUS
  <1> USE DEF TxInv
  <1>0. review' \in Tables
    BY ReviewForward
  <1>1. ASSUME NEW r \in Reviews, TxCreate(r) PROVE Typed' /\ RowsClean'
    BY <1>0, <1>1 DEF TxCreate, Create, Typed, RowsClean
  <1>2. ASSUME NEW s \in Requests, NEW r \in Reviews, NEW op \in Operation, Read(s, r, op)
        PROVE  Typed' /\ RowsClean'
    <2>1. [pc |-> "read", op |-> op, on |-> r, copy |-> review[r], draft |-> NoAggregate] \in Session
      BY EmptyRow DEF Session, Typed, Tables
    <2>2. session' \in [Requests -> Session]
      BY <1>2, <2>1 DEF Read, Typed
    <2> QED BY <1>2, <2>2 DEF Read, Typed, RowsClean
  <1>3. ASSUME NEW s \in Requests, LockAggregate(s) PROVE Typed' /\ RowsClean'
    <2> DEFINE me == session[s]
               g == GroupOf[me.on]
               taken == Withdrawn(me.copy, me.on, me.op, aggregate[g])
               d == AfterDecision(me.copy, me.on, me.op, aggregate[g])
               p == IF taken.count < 0 THEN "raised" ELSE "locked"
    <2>1. me.on \in Reviews /\ me.copy \in ReviewRow
      BY <1>3, SessionFields DEF LockAggregate, SessionsSound
    <2>2. g \in Groups
      BY <2>1, AggregatesAssumption
    <2>3. d \in AggregateRow
      BY <2>1, <2>2, DecisionRow DEF RowsClean, Clean
    <2>4. session' = [session EXCEPT ![s] = [session[s] EXCEPT !.pc = p, !.draft = d]]
      BY <1>3 DEF LockAggregate
    <2>5. session[s] \in Session /\ p \in {"idle", "read", "locked", "raised"}
      BY DEF Typed
    <2>6. lock' \in [Groups -> Requests \cup {None}] /\ UNCHANGED <<review, decisions, aggregate, edits>>
      BY <1>3, <2>2 DEF LockAggregate, Typed
    <2> HIDE DEF d, p
    <2>7. [session[s] EXCEPT !.pc = p, !.draft = d] \in Session
      BY <2>3, <2>5 DEF Session
    <2>8. session' \in [Requests -> Session]
      BY <2>4, <2>7 DEF Typed
    <2> QED BY <2>6, <2>8 DEF Typed, RowsClean
  <1>4. ASSUME NEW s \in Requests, Close(s)
        PROVE  session' \in [Requests -> Session] /\ lock' \in [Groups -> Requests \cup {None}]
    BY <1>4, IdleSession DEF Close, Released, Typed
  <1>5. ASSUME NEW s \in Requests, CommitEdit(s) PROVE Typed' /\ RowsClean'
    <2>1. /\ edits' = [edits EXCEPT ![session[s].on] = @ + 1]
          /\ Close(s) /\ UNCHANGED <<decisions, aggregate>>
      BY <1>5 DEF CommitEdit
    <2>2. session[s].on \in Reviews /\ edits \in [Reviews -> Nat]
      BY <1>5 DEF CommitEdit, SessionsSound, Typed
    <2>3. edits' \in [Reviews -> Nat]
      BY <2>1, <2>2
    <2> QED BY <1>0, <1>4, <2>1, <2>3 DEF Typed, RowsClean
  <1>6. ASSUME NEW s \in Requests, CommitSubmit(s) \/ Rollback(s) PROVE Typed' /\ RowsClean'
    BY <1>0, <1>4, <1>6 DEF CommitSubmit, Rollback, Typed, RowsClean
  <1>7. ASSUME NEW s \in Requests, CommitDecision(s) PROVE Typed' /\ RowsClean'
    <2>1. aggregate' = [g \in Groups |-> IF lock[g] = s THEN session[s].draft ELSE aggregate[g]]
      BY <1>7 DEF CommitDecision, Saved
    <2>2. \A g \in Groups : Clean(aggregate'[g])
      BY <2>1, Drafted DEF RowsClean
    <2>3. aggregate' \in [Groups -> AggregateRow]
      BY <2>1, <2>2 DEF Clean
    <2>4. [review |-> session[s].on, revision |-> session[s].copy.current, decision |-> session[s].op]
            \in [review : Reviews, revision : Revisions, decision : Decision]
      BY <1>7, SessionFields DEF CommitDecision, SessionsSound
    <2>5. /\ decisions' \subseteq [review : Reviews, revision : Revisions, decision : Decision]
          /\ edits' = edits
      BY <1>7, <2>4 DEF CommitDecision, Typed
    <2>6. session' \in [Requests -> Session] /\ lock' \in [Groups -> Requests \cup {None}]
      BY <1>4, <1>7 DEF CommitDecision
    <2> QED BY <1>0, <2>2, <2>3, <2>5, <2>6 DEF Typed, RowsClean
  <1>8. CASE OtherWriter
    BY <1>0, <1>8 DEF OtherWriter, Typed, RowsClean
  <1> QED BY <1>1, <1>2, <1>3, <1>5, <1>6, <1>7, <1>8 DEF TxNext

LEMMA SessionsNext ==
  TxInv /\ (TxNext \/ OtherWriter) => SessionsSound'
  <1> SUFFICES ASSUME TxInv, TxNext \/ OtherWriter, NEW s \in Requests, session'[s].pc # "idle"
               PROVE  /\ session'[s].on \in Reviews
                      /\ Allowed(session'[s].op, session'[s].copy)
                      /\ session'[s].copy.current <= review'[session'[s].on].current
                      /\ session'[s].copy.published # 0 => review'[session'[s].on].published # 0
    BY DEF SessionsSound
  <1>1. \A r \in Reviews : /\ review[r].current \in Int /\ review'[r].current \in Int
                           /\ review[r].current <= review'[r].current
                           /\ review[r].published # 0 => review'[r].published # 0
    BY ReviewForward DEF TxInv, Typed, Tables, ReviewRow, Revisions
  <1>2. session[s].copy.current \in Int
    BY SessionFields DEF TxInv, Revisions
  <1>3. CASE /\ session'[s].op = session[s].op /\ session'[s].on = session[s].on
             /\ session'[s].copy = session[s].copy /\ session[s].pc # "idle"
    BY <1>1, <1>2, <1>3 DEF TxInv, SessionsSound
  <1>4. CASE \E r \in Reviews, op \in Operation : Read(s, r, op)
    <2>1. PICK r \in Reviews, op \in Operation : Read(s, r, op)
      BY <1>4
    <2>2. /\ session'[s].on = r /\ session'[s].op = op /\ session'[s].copy = review[r]
          /\ review' = review /\ Allowed(op, review[r])
      BY <2>1 DEF Read, TxInv, Typed
    <2> QED BY <1>1, <2>2
  <1>5. ASSUME NEW t \in Requests, NEW r \in Reviews, NEW op \in Operation, Read(t, r, op), t # s
        PROVE  session'[s] = session[s]
    BY <1>5 DEF Read, TxInv, Typed
  <1>6. ASSUME NEW t \in Requests, LockAggregate(t)
        PROVE  /\ session'[s].op = session[s].op /\ session'[s].on = session[s].on
               /\ session'[s].copy = session[s].copy /\ session[s].pc # "idle"
    <2>1. t # s => session'[s] = session[s]
      BY <1>6 DEF LockAggregate, TxInv, Typed
    <2>2. t = s => session[s].pc = "read" /\ session[s] \in Session
      BY <1>6 DEF LockAggregate, TxInv, Typed
    <2>3. t = s => /\ session'[s].op = session[s].op /\ session'[s].on = session[s].on
                   /\ session'[s].copy = session[s].copy
      BY <1>6, <2>2 DEF LockAggregate, TxInv, Typed, Session
    <2> QED BY <2>1, <2>2, <2>3
  <1>7. ASSUME NEW t \in Requests, Close(t) PROVE session'[s] = session[s]
    BY <1>7 DEF Close, TxInv, Typed, Idle
  <1>8. ASSUME UNCHANGED session PROVE session'[s] = session[s]
    BY <1>8
  <1> QED
    BY <1>3, <1>4, <1>5, <1>6, <1>7, <1>8
    DEF TxNext, OtherWriter, TxCreate, CommitEdit, CommitSubmit, CommitDecision, Rollback

\* A session that keeps its step, review, operation, copy and draft keeps its
\* locks in order when it keeps them and the aggregate it has locked.
LEMMA LocksKept ==
  ASSUME Typed, LocksSound, NEW s \in Requests, session'[s] = session[s],
         \A g \in Groups : /\ lock'[g] = s <=> lock[g] = s
                           /\ lock[g] = s => aggregate'[g] = aggregate[g],
         session[s].pc \in {"locked", "raised"} => session[s].on \in Reviews
  PROVE  /\ \A g \in Groups : lock'[g] = s <=>
              session'[s].pc \in {"locked", "raised"} /\ g = GroupOf[session'[s].on]
         /\ session'[s].pc \in {"locked", "raised"} =>
              LET me == session'[s]
                  old == aggregate'[GroupOf[me.on]]
              IN  /\ Counts(me.op, me.copy)
                  /\ me.draft = AfterDecision(me.copy, me.on, me.op, old)
                  /\ me.pc = "locked" <=> Withdrawn(me.copy, me.on, me.op, old).count >= 0
  <1>1. session[s].pc \in {"locked", "raised"} => GroupOf[session[s].on] \in Groups
    BY AggregatesAssumption
  <1>2. session[s].pc \in {"locked", "raised"} =>
          aggregate'[GroupOf[session[s].on]] = aggregate[GroupOf[session[s].on]]
    BY <1>1 DEF LocksSound
  <1> QED BY <1>2 DEF LocksSound

LEMMA LocksNext ==
  TxInv /\ (TxNext \/ OtherWriter) => LocksSound'
  <1> SUFFICES ASSUME TxInv, TxNext \/ OtherWriter, NEW s \in Requests
               PROVE  /\ \A g \in Groups : lock'[g] = s <=>
                           session'[s].pc \in {"locked", "raised"} /\ g = GroupOf[session'[s].on]
                      /\ session'[s].pc \in {"locked", "raised"} =>
                           LET me == session'[s]
                               old == aggregate'[GroupOf[me.on]]
                           IN  /\ Counts(me.op, me.copy)
                               /\ me.draft = AfterDecision(me.copy, me.on, me.op, old)
                               /\ me.pc = "locked" <=> Withdrawn(me.copy, me.on, me.op, old).count >= 0
    BY DEF LocksSound
  <1> DEFINE Goal == /\ \A g \in Groups : lock'[g] = s <=>
                          session'[s].pc \in {"locked", "raised"} /\ g = GroupOf[session'[s].on]
                     /\ session'[s].pc \in {"locked", "raised"} =>
                          LET me == session'[s]
                              old == aggregate'[GroupOf[me.on]]
                          IN  /\ Counts(me.op, me.copy)
                              /\ me.draft = AfterDecision(me.copy, me.on, me.op, old)
                              /\ me.pc = "locked" <=> Withdrawn(me.copy, me.on, me.op, old).count >= 0
  <1>0. Typed /\ LocksSound /\ (session[s].pc # "idle" => session[s].on \in Reviews) /\ s # None
    BY RequestsAssumption DEF TxInv, SessionsSound
  <1>1. ASSUME session'[s] = session[s],
               \A g \in Groups : /\ lock'[g] = s <=> lock[g] = s
                                 /\ lock[g] = s => aggregate'[g] = aggregate[g]
        PROVE  Goal
    BY <1>0, <1>1, LocksKept
  <1>2. ASSUME session'[s].pc \in {"idle", "read"}, \A g \in Groups : lock'[g] # s PROVE Goal
    BY <1>2
  <1>3. ASSUME NEW r \in Reviews, TxCreate(r) PROVE Goal
    BY <1>1, <1>3 DEF TxCreate, Create
  <1>4. ASSUME NEW t \in Requests, NEW r \in Reviews, NEW op \in Operation, Read(t, r, op)
        PROVE  Goal
    <2>1. CASE t # s
      BY <1>0, <1>1, <1>4, <2>1 DEF Read, Typed
    <2>2. CASE t = s
      <3>1. session'[s].pc = "read" /\ session[s].pc = "idle" /\ lock' = lock
        BY <1>0, <1>4, <2>2 DEF Read, Typed
      <3> QED BY <1>0, <1>2, <3>1 DEF LocksSound
    <2> QED BY <2>1, <2>2
  <1>5. ASSUME NEW t \in Requests, LockAggregate(t) PROVE Goal
    <2> DEFINE g == GroupOf[session[t].on]
    <2>1. /\ lock[g] = None /\ lock' = [lock EXCEPT ![g] = t] /\ aggregate' = aggregate
          /\ session[t].pc = "read"
      BY <1>5 DEF LockAggregate
    <2>2. session[t].on \in Reviews /\ g \in Groups
      BY <2>1, AggregatesAssumption DEF TxInv, SessionsSound
    <2>3. \A h \in Groups : lock'[h] = IF h = g THEN t ELSE lock[h]
      BY <1>0, <2>1, <2>2 DEF Typed
    <2>4. CASE t # s
      <3>1. session'[s] = session[s]
        BY <1>0, <1>5, <2>4 DEF LockAggregate, Typed
      <3> QED BY <1>0, <1>1, <2>1, <2>3, <2>4, <3>1
    <2>5. CASE t = s
      <3> DEFINE old == aggregate[g]
                 me == session[s]
                 d == AfterDecision(me.copy, me.on, me.op, old)
                 taken == Withdrawn(me.copy, me.on, me.op, old)
                 p == IF taken.count < 0 THEN "raised" ELSE "locked"
      <3>1. session' = [session EXCEPT ![s] = [session[s] EXCEPT !.pc = p, !.draft = d]]
            /\ Counts(me.op, me.copy)
        BY <1>5, <2>5 DEF LockAggregate
      <3>2. session[s] \in Session
        BY <1>0 DEF Typed
      <3>3. \A h \in Groups : lock'[h] = s <=> h = g
        BY <1>0, <2>1, <2>3, <2>5 DEF LocksSound
      <3>4. p \in {"locked", "raised"} /\ (p = "locked" <=> ~(taken.count < 0))
        OBVIOUS
      <3>5. taken.count \in Int
        <4>1. Clean(taken)
          BY <2>2, <2>5, SessionFields, DecisionRow DEF TxInv, RowsClean
        <4> HIDE DEF taken
        <4> QED BY <4>1 DEF Clean, AggregateRow
      <3> HIDE DEF p, d, taken
      <3>6. /\ session'[s].pc = p /\ session'[s].draft = d /\ session'[s].op = me.op
            /\ session'[s].on = me.on /\ session'[s].copy = me.copy
        BY <1>0, <3>1, <3>2 DEF Session, Typed
      <3>7. p = "locked" <=> taken.count >= 0
        BY <3>4, <3>5
      <3> QED BY <2>1, <2>5, <3>1, <3>3, <3>4, <3>6, <3>7 DEF d, taken
    <2> QED BY <2>4, <2>5
  <1>6. ASSUME NEW t \in Requests, Close(t),
               \A g \in Groups : lock[g] # t => aggregate'[g] = aggregate[g]
        PROVE  Goal
    <2>1. lock' = [g \in Groups |-> IF lock[g] = t THEN None ELSE lock[g]]
          /\ session' = [session EXCEPT ![t] = Idle]
      BY <1>6 DEF Close, Released
    <2>2. CASE t # s
      BY <1>0, <1>1, <1>6, <2>1, <2>2 DEF Typed
    <2>3. CASE t = s
      <3>1. session'[s].pc = "idle"
        BY <1>0, <2>1, <2>3 DEF Typed, Idle
      <3> QED BY <1>0, <1>2, <2>1, <2>3, <3>1
    <2> QED BY <2>2, <2>3
  <1>7. ASSUME NEW t \in Requests, CommitEdit(t) \/ CommitSubmit(t) \/ Rollback(t) PROVE Goal
    BY <1>6, <1>7 DEF CommitEdit, CommitSubmit, Rollback
  <1>8. ASSUME NEW t \in Requests, CommitDecision(t) PROVE Goal
    BY <1>6, <1>8 DEF CommitDecision, Saved
  <1>9. CASE OtherWriter
    BY <1>0, <1>1, <1>9 DEF OtherWriter
  <1> QED BY <1>3, <1>4, <1>5, <1>7, <1>8, <1>9 DEF TxNext

LEMMA EditsNext ==
  TxInv /\ (TxNext \/ OtherWriter) => NoLostEdit'
  <1> SUFFICES ASSUME TxInv, TxNext \/ OtherWriter PROVE NoLostEdit'
    OBVIOUS
  <1>0. /\ NoLostEdit /\ edits \in [Reviews -> Nat] /\ review \in Tables
        /\ \A r \in Reviews : review[r].current \in Int
    BY DEF TxInv, Typed, Tables, ReviewRow, Revisions
  <1>1. ASSUME edits' = edits, \A r \in Reviews : review'[r].current = review[r].current
        PROVE  NoLostEdit'
    BY <1>0, <1>1 DEF NoLostEdit
  <1>2. ASSUME NEW r \in Reviews, TxCreate(r) PROVE NoLostEdit'
    <2>1. \A q \in Reviews : review'[q].current = review[q].current
      BY <1>0, <1>2 DEF TxCreate, Create, Tables, ReviewRow
    <2> QED BY <1>1, <1>2, <2>1 DEF TxCreate
  <1>3. ASSUME NEW s \in Requests, CommitEdit(s) PROVE NoLostEdit'
    <2> DEFINE r == session[s].on
               c == session[s].copy.current
    <2>1. r \in Reviews /\ c <= review[r].current /\ c \in Int
      BY <1>3, SessionFields DEF CommitEdit, TxInv, SessionsSound, Revisions
    <2>2. review[r].current < c + 1
      BY <1>3 DEF CommitEdit
    <2>3. review[r].current = c
      BY <1>0, <2>1, <2>2
    <2>4. /\ review'[r].current = c + 1
          /\ \A q \in Reviews \ {r} : review'[q] = review[q]
      BY <1>0, <1>3, <2>1 DEF CommitEdit, Tables, ReviewRow
    <2>5. edits' = [edits EXCEPT ![r] = @ + 1]
      BY <1>3 DEF CommitEdit
    <2> HIDE DEF r, c
    <2>6. edits'[r] = edits[r] + 1 /\ \A q \in Reviews \ {r} : edits'[q] = edits[q]
      BY <1>0, <2>1, <2>5
    <2>7. review[r].current = 1 + edits[r]
      BY <1>0, <2>1 DEF NoLostEdit
    <2>8. review'[r].current = 1 + edits'[r]
      BY <1>0, <2>1, <2>3, <2>4, <2>6, <2>7
    <2>9. \A q \in Reviews \ {r} : review'[q].current = 1 + edits'[q]
      BY <1>0, <2>4, <2>6 DEF NoLostEdit
    <2> QED BY <2>8, <2>9 DEF NoLostEdit
  <1>4. ASSUME NEW s \in Requests, CommitSubmit(s) \/ CommitDecision(s) PROVE NoLostEdit'
    <2>1. \A q \in Reviews : review'[q].current = review[q].current
      <3>1. CASE CommitSubmit(s)
        BY <1>0, <3>1 DEF CommitSubmit, Tables, ReviewRow
      <3>2. CASE CommitDecision(s)
        BY <1>0, <3>2 DEF CommitDecision, Tables, ReviewRow
      <3> QED BY <1>4, <3>1, <3>2
    <2>2. edits' = edits
      BY <1>4 DEF CommitSubmit, CommitDecision
    <2> QED BY <1>1, <2>1, <2>2
  <1>5. CASE UNCHANGED <<review, edits>>
    BY <1>1, <1>5
  <1> QED
    BY <1>2, <1>3, <1>4, <1>5 DEF TxNext, OtherWriter, Read, LockAggregate, Rollback

LEMMA TxInvInit == TxInit => TxInv
  <1> SUFFICES ASSUME TxInit PROVE TxInv
    OBVIOUS
  <1> USE AggregatesAssumption, RequestsAssumption, EmptyRow, IdleSession DEF TxInit, Init
  <1>1. Typed
    BY DEF Typed, Tables, ReviewRow, NoReview, Status, Revisions
  <1>2. RowsClean
    BY DEF RowsClean, Clean
  <1>3. SessionsSound /\ LocksSound
    BY DEF SessionsSound, LocksSound, Idle
  <1>4. NoLostEdit
    BY DEF NoLostEdit, NoReview
  <1> QED BY <1>1, <1>2, <1>3, <1>4 DEF TxInv

LEMMA StutterOther == ASSUME TxInv, UNCHANGED txvars PROVE OtherWriter
  BY DEF TxInv, Typed, RowsClean, OtherWriter, txvars

LEMMA TxInvNext == TxInv /\ (TxNext \/ OtherWriter) => TxInv'
  BY TypedNext, SessionsNext, LocksNext, EditsNext DEF TxInv

\* Every table, session and lock stays in its declared set, at any interleaving
\* of requests, and at most MaxRevision - 1 edits of a review commit.
THEOREM TransactionsTyped == TxSpec => []TxTypeOK
  <1>1. TxInv => TxTypeOK
    <2> SUFFICES ASSUME TxInv PROVE TxTypeOK
      OBVIOUS
    <2>1. ASSUME NEW r \in Reviews PROVE edits[r] \in 0 .. MaxRevision - 1
      <3>1. review[r].current = 1 + edits[r] /\ edits[r] \in Nat
        BY DEF TxInv, Typed, NoLostEdit
      <3>2. review[r].current \in 1 .. MaxRevision
        BY DEF TxInv, Typed, Tables, ReviewRow, Revisions
      <3> QED BY <3>1, <3>2, AggregatesAssumption
    <2> QED BY <2>1 DEF TxInv, Typed, TxTypeOK, TypeOK, Tables
  <1>2. TxInv /\ [TxNext]_txvars => TxInv'
    BY TxInvNext, StutterOther
  <1> QED BY <1>1, <1>2, TxInvInit, PTL DEF TxSpec

(***************************************************************************)
(* Requests that race                                                      *)
(*                                                                         *)
(* Of the steps of AggregateRepair, those of the requests are the steps of *)
(* ReviewTransactions, and the others write at most aggregates that nobody *)
(* has locked.                                                             *)
(***************************************************************************)

LEMMA RecomputeClean == ASSUME NEW table \in Tables, NEW g PROVE Clean(Recompute(table, g))
  <1>1. CASE PublicIn(table, g) = {}
    BY <1>1, RecomputeType, PublicFinite DEF Recompute, NoAggregate, NoSums, Clean
  <1>2. CASE PublicIn(table, g) # {}
    BY <1>2, RecomputeType DEF Recompute, Clean
  <1> QED BY <1>1, <1>2

LEMMA WrittenClean ==
  ASSUME NEW e \in AggregateRow, NEW a \in AggregateRow, NEW now \in AggregateRow
  PROVE  Clean(Written(e, a, now))
  <1>1. e.count \in Int /\ now.count \in Int
    BY DEF AggregateRow
  <1>2. e.sums \in [Reviews -> [Revisions -> Int]] /\ now.sums \in [Reviews -> [Revisions -> Int]]
    BY DEF AggregateRow
  <1> DEFINE c == IF e.count # a.count THEN e.count ELSE now.count
             f == IF e.sums # a.sums THEN e.sums ELSE now.sums
  <1>3. c \in Int /\ f \in [Reviews -> [Revisions -> Int]]
    BY <1>1, <1>2
  <1>4. Written(e, a, now) = IF ~e.exists THEN NoAggregate
                             ELSE [exists |-> TRUE, count |-> c, sums |-> f]
    BY DEF Written
  <1> HIDE DEF c, f
  <1> QED BY <1>3, <1>4, EmptyRow DEF Clean, AggregateRow

\* What a repair knows of the groups that requests have left alone since it
\* began: its scan is still true, its copy is still the stored row, and a row
\* that was deleted under it was replaced by one that the scan expects.
RepairInv ==
  /\ repair \in [pc : {"idle", "scanned", "loaded"}, expected : [Groups -> AggregateRow],
                actual : [Groups -> AggregateRow]]
  /\ repair.pc # "idle" => \A g \in Groups \ touched : repair.expected[g] = Recompute(review, g)
  /\ repair.pc = "loaded" => \A g \in Groups \ touched : repair.actual[g] = aggregate[g]
  /\ repair.pc = "loaded" => \A g \in replaced \ touched : repair.expected[g].exists
  /\ repair.pc \in {"idle", "scanned"} => replaced = {}
  /\ replaced \subseteq Groups

LEMMA CommitWrites == ASSUME TxInv, RepairInv, Commit PROVE OtherWriter
  <1>1. ASSUME NEW g \in Groups PROVE Clean(Written(repair.expected[g], repair.actual[g], aggregate[g]))
    BY WrittenClean DEF TxInv, Typed, RepairInv
  <1>2. ASSUME NEW g \in Groups
        PROVE  Clean(aggregate'[g]) /\ (lock[g] # None => aggregate'[g] = aggregate[g])
    BY <1>1 DEF Commit, TxInv, RowsClean
  <1>3. aggregate' = [g \in Groups |-> aggregate'[g]]
    BY DEF Commit
  <1> QED BY <1>2, <1>3 DEF OtherWriter, Commit, Clean

LEMMA RequestsOrOther ==
  ASSUME TxInv, RepairInv, [RepairNext]_allvars PROVE TxNext \/ OtherWriter
  <1>1. Request \/ (\E s \in Requests : Decide(s)) => TxNext
    BY DEF Request, Decide, TxNext
  <1>2. Scan \/ LoadRows \/ Abandon \/ UNCHANGED allvars => UNCHANGED txvars
    BY DEF Scan, LoadRows, Abandon, txvars, allvars
  <1> QED BY <1>1, <1>2, CommitWrites, StutterOther DEF RepairNext

\* A decision that puts another row in the place of the one it deletes has
\* published, so a scan finds the group.
LEMMA ReplacedPublic ==
  ASSUME TxInv, NEW s \in Requests, CommitDecision(s), NEW g \in Groups, Replaces(s, g),
         aggregate'[g] = aggregate[g]
  PROVE  Recompute(review', g).exists
  <1> DEFINE me == session[s]
             r == me.on
  <1>1. /\ me.pc \in {"locked", "raised"} /\ g = GroupOf[r] /\ Counts(me.op, me.copy)
        /\ me.draft = AfterDecision(me.copy, r, me.op, aggregate[g])
    BY DEF Replaces, TxInv, LocksSound
  <1>2. /\ r \in Reviews /\ me.copy.current \in Revisions /\ me.copy.published \in Revisions \cup {0}
        /\ me.copy.published # 0 => review[r].published # 0
    BY <1>1, SessionFields DEF TxInv, SessionsSound
  <1>3. aggregate'[g] = me.draft
    BY DEF CommitDecision, Saved, Replaces
  <1>4. ~Withdrawn(me.copy, r, me.op, aggregate[g]).exists /\ aggregate[g].exists
    BY DEF Replaces
  <1>5. me.op = "published"
    BY <1>1, <1>3, <1>4 DEF AfterDecision
  <1>6. review'[r].status = "published" /\ review'[r].published # 0
    BY <1>2, <1>5 DEF CommitDecision, TxInv, Typed, Tables, ReviewRow, Revisions
  <1>7. r \in PublicIn(review', g)
    BY <1>1, <1>2, <1>6 DEF PublicIn, IsPublic, PublicStatus
  <1> QED BY <1>7 DEF Recompute

LEMMA RepairInvNext == TxInv /\ RepairInv /\ [RepairNext]_allvars => RepairInv'
  <1> SUFFICES ASSUME TxInv, RepairInv, [RepairNext]_allvars PROVE RepairInv'
    OBVIOUS
  <1> USE DEF RepairInv
  <1>1. ASSUME Touched, UNCHANGED repair
        PROVE  repair.pc # "idle" => \A g \in Groups \ touched' :
                 /\ g \notin touched
                 /\ Recompute(review', g) = Recompute(review, g) /\ aggregate'[g] = aggregate[g]
    BY <1>1 DEF Touched, Touches
  <1>2. CASE Request
    <2>1. Touched /\ UNCHANGED <<repair, replaced>>
      BY <1>2 DEF Request
    <2> QED BY <1>1, <2>1
  <1>3. ASSUME NEW s \in Requests, Decide(s) PROVE RepairInv'
    <2>1. /\ Touched /\ UNCHANGED repair /\ CommitDecision(s)
          /\ replaced' = IF repair.pc = "loaded"
                         THEN replaced \cup {g \in Groups : Replaces(s, g)} ELSE {}
      BY <1>3 DEF Decide
    <2>2. repair.pc # "idle" => \A g \in Groups \ touched' :
            /\ g \notin touched
            /\ Recompute(review', g) = Recompute(review, g) /\ aggregate'[g] = aggregate[g]
      BY <1>1, <2>1
    <2>3. repair.pc = "loaded" => \A g \in replaced' \ touched' : repair.expected[g].exists
      <3> SUFFICES ASSUME repair.pc = "loaded", NEW g \in replaced', g \notin touched'
                   PROVE  repair.expected[g].exists
        OBVIOUS
      <3>1. CASE g \in replaced
        BY <2>2, <3>1
      <3>2. CASE g \in Groups /\ Replaces(s, g)
        BY <2>1, <2>2, <3>2, ReplacedPublic
      <3> QED BY <2>1, <3>1, <3>2
    <2> QED BY <2>1, <2>2, <2>3
  <1>4. CASE Scan
    <2>1. \A g \in Groups : Recompute(review, g) \in AggregateRow
      BY RecomputeType DEF TxInv, Typed
    <2>2. [g \in Groups |-> NoAggregate] \in [Groups -> AggregateRow]
      BY EmptyRow
    <2> DEFINE scan == [g \in Groups |-> Recompute(review, g)]
    <2>3. /\ repair' = [pc |-> "scanned", expected |-> scan, actual |-> NoRows]
          /\ UNCHANGED <<review, replaced>> /\ replaced = {}
      BY <1>4 DEF Scan, NoRepair, txvars
    <2>4. scan \in [Groups -> AggregateRow] /\ \A g \in Groups : scan[g] = Recompute(review, g)
      BY <2>1
    <2> HIDE DEF scan
    <2>5. repair'.pc = "scanned" /\ repair'.expected = scan
      BY <2>3
    <2>6. repair' \in [pc : {"idle", "scanned", "loaded"}, expected : [Groups -> AggregateRow],
                       actual : [Groups -> AggregateRow]]
      BY <2>2, <2>3, <2>4 DEF NoRows
    <2> QED BY <2>3, <2>4, <2>5, <2>6
  <1>5. CASE LoadRows
    <2>1. /\ repair.pc = "scanned" /\ replaced = {} /\ aggregate \in [Groups -> AggregateRow]
          /\ UNCHANGED <<review, aggregate, replaced, touched>>
      BY <1>5 DEF LoadRows, txvars, TxInv, Typed
    <2>2. repair'.pc = "loaded" /\ repair'.expected = repair.expected /\ repair'.actual = aggregate
      BY <1>5, <2>1 DEF LoadRows
    <2>3. repair' \in [pc : {"idle", "scanned", "loaded"}, expected : [Groups -> AggregateRow],
                       actual : [Groups -> AggregateRow]]
      BY <1>5, <2>1 DEF LoadRows
    <2>4. \A g \in Groups \ touched' :
            /\ repair'.expected[g] = Recompute(review', g) /\ repair'.actual[g] = aggregate'[g]
      BY <2>1, <2>2
    <2>5. replaced' = {}
      BY <2>1
    <2> HIDE DEF RepairInv
    <2> QED BY <2>2, <2>3, <2>4, <2>5 DEF RepairInv
  <1>6. CASE Commit \/ Abandon
    <2>1. repair' = NoRepair /\ replaced' = {}
      BY <1>6 DEF Commit, Abandon, Finished
    <2> QED BY <2>1, EmptyRow DEF NoRepair, NoRows
  <1>7. CASE UNCHANGED allvars
    BY <1>7 DEF allvars
  <1> QED BY <1>2, <1>3, <1>4, <1>5, <1>6, <1>7 DEF RepairNext

LEMMA RepairInvInit == RepairInit => RepairInv
  BY EmptyRow DEF RepairInit, NoRepair, NoRows, RepairInv

\* Sessions, locks and repairs keep to the invariant of both parts, whatever
\* requests a repair meets between its scan and its commit.
THEOREM RepairInvariant == RepairSpec => [](TxInv /\ RepairInv)
  <1>1. RepairInit => TxInv
    BY TxInvInit DEF RepairInit
  <1>2. TxInv /\ RepairInv /\ [RepairNext]_allvars => TxInv'
    BY RequestsOrOther, TxInvNext
  <1> QED BY <1>1, <1>2, RepairInvInit, RepairInvNext, PTL DEF RepairSpec

\* "Revision numbers are unique": however requests on one review race, no
\* committed edit is overwritten.
THEOREM EditsSurvive == RepairSpec => []NoLostEdit
  <1>1. TxInv => NoLostEdit
    BY DEF TxInv
  <1> QED BY <1>1, RepairInvariant, PTL

\* However the requests race, a pointer is written with the decision that
\* approves it.
LEMMA PointersNext == TxInv /\ PointersApproved /\ (TxNext \/ OtherWriter) => PointersApproved'
  <1> SUFFICES ASSUME TxInv, PointersApproved, TxNext \/ OtherWriter PROVE PointersApproved'
    OBVIOUS
  <1>0. review \in Tables
    BY DEF TxInv, Typed
  <1> USE DEF Tables, ReviewRow, PointersApproved, Approved
  <1>1. ASSUME decisions' = decisions,
               \A r \in Reviews : review'[r].published = review[r].published
        PROVE  PointersApproved'
    BY <1>1
  <1>2. ASSUME NEW r \in Reviews, TxCreate(r) PROVE PointersApproved'
    BY <1>0, <1>1, <1>2 DEF TxCreate, Create
  <1>3. ASSUME NEW s \in Requests, CommitEdit(s) \/ CommitSubmit(s) PROVE PointersApproved'
    <2>1. CASE CommitEdit(s)
      BY <1>0, <1>1, <2>1 DEF CommitEdit
    <2>2. CASE CommitSubmit(s)
      BY <1>0, <1>1, <2>2 DEF CommitSubmit
    <2> QED BY <1>3, <2>1, <2>2
  <1>4. ASSUME NEW s \in Requests, CommitDecision(s) PROVE PointersApproved'
    <2> DEFINE me == session[s]
    <2>1. /\ decisions' = decisions \cup
               {[review |-> me.on, revision |-> me.copy.current, decision |-> me.op]}
          /\ review' = [review EXCEPT
               ![me.on].status = me.op,
               ![me.on].published = IF me.op = "published" /\ me.copy.published # me.copy.current
                                    THEN me.copy.current ELSE @]
      BY <1>4 DEF CommitDecision
    <2>2. me.on \in Reviews
      BY <1>4 DEF CommitDecision, TxInv, SessionsSound
    <2>3. /\ \A q \in Reviews \ {me.on} : review'[q].published = review[q].published
          /\ review'[me.on].published = IF me.op = "published" /\ me.copy.published # me.copy.current
                                        THEN me.copy.current ELSE review[me.on].published
      BY <1>0, <2>1, <2>2
    <2>4. PICK r \in Reviews : r = me.on
      BY <2>2
    <2>5. \A q \in Reviews : Approved(q, review[q].published) =>
            [review |-> q, revision |-> review[q].published, decision |-> "published"] \in decisions'
      BY <2>1
    <2>6. ASSUME NEW q \in Reviews, q # r, review'[q].published # 0
          PROVE  [review |-> q, revision |-> review'[q].published, decision |-> "published"] \in decisions'
      BY <2>3, <2>4, <2>5, <2>6
    <2>7. CASE me.op = "published" /\ me.copy.published # me.copy.current
      <3>1. [review |-> me.on, revision |-> me.copy.current, decision |-> me.op] \in decisions'
        BY <2>1
      <3>2. me.op = "published" /\ review'[r].published = me.copy.current
        BY <2>3, <2>4, <2>7
      <3>3. [review |-> r, revision |-> review'[r].published, decision |-> "published"] \in decisions'
        BY <2>4, <3>1, <3>2
      <3> QED BY <2>6, <3>3
    <2>8. CASE ~(me.op = "published" /\ me.copy.published # me.copy.current)
      <3>1. review'[r].published = review[r].published
        BY <2>3, <2>4, <2>8
      <3> QED BY <2>5, <2>6, <3>1
    <2> QED BY <2>7, <2>8
  <1>5. CASE UNCHANGED <<review, decisions>>
    BY <1>1, <1>5
  <1> QED BY <1>2, <1>3, <1>4, <1>5 DEF TxNext, OtherWriter, Read, LockAggregate, Rollback

\* The race leaves the guard of the pointer in place: what is public has been
\* approved, by whatever interleaving of edits and decisions.
THEOREM PublicApprovedInRaces == TxSpec => []PublicContentApproved
  <1>1. TxInit => PointersApproved
    BY DEF TxInit, Init, PointersApproved, NoReview
  <1>2. TxInv /\ PointersApproved /\ [TxNext]_txvars => PointersApproved'
    BY PointersNext, StutterOther
  <1>3. TxInv /\ [TxNext]_txvars => TxInv'
    BY TxInvNext, StutterOther
  <1>4. PointersApproved => PublicContentApproved
    BY DEF PointersApproved, Approved, PublicContentApproved, IsPublic
  <1> QED BY <1>1, <1>2, <1>3, <1>4, TxInvInit, PTL DEF TxSpec

\* So it does beside a repair, which writes aggregates only.
THEOREM PublicApprovedInRepairs == RepairSpec => []PublicContentApproved
  <1>1. RepairInit => PointersApproved
    BY DEF RepairInit, TxInit, Init, PointersApproved, NoReview
  <1>2. TxInv /\ RepairInv /\ PointersApproved /\ [RepairNext]_allvars => PointersApproved'
    BY PointersNext, RequestsOrOther
  <1>3. PointersApproved => PublicContentApproved
    BY DEF PointersApproved, Approved, PublicContentApproved, IsPublic
  <1> QED BY <1>1, <1>2, <1>3, RepairInvariant, PTL DEF RepairSpec

\* A repair that commits leaves every aggregate that no request has changed
\* since it began equal to a full scan of that moment.
THEOREM RepairsRestore == RepairSpec => RepairRestores
  <1> DEFINE Step == Commit => \A g \in Groups \ touched : aggregate'[g] = Recompute(review', g)
  <1>1. TxInv /\ RepairInv => [Step]_allvars
    <2> SUFFICES ASSUME TxInv, RepairInv, Commit, NEW g \in Groups, g \notin touched
                 PROVE  aggregate'[g] = Recompute(review', g)
      OBVIOUS
    <2> DEFINE e == repair.expected[g]
               a == repair.actual[g]
    <2>1. /\ e = Recompute(review, g) /\ a = aggregate[g] /\ review' = review
          /\ (g \in replaced => e.exists)
      BY DEF Commit, RepairInv
    <2>2. Clean(e) /\ Clean(a)
      BY <2>1, RecomputeClean DEF TxInv, Typed, RowsClean
    <2>3. aggregate'[g] = IF e # a /\ (e.exists \/ (a.exists /\ g \notin replaced))
                          THEN Written(e, a, a) ELSE a
      BY <2>1 DEF Commit, Mismatches, Deletable
    <2>4. CASE e = a
      BY <2>1, <2>3, <2>4
    <2>5. CASE e # a /\ e.exists
      <3>1. Written(e, a, a) = [exists |-> TRUE, count |-> e.count, sums |-> e.sums]
        BY <2>5 DEF Written
      <3>2. e = [exists |-> TRUE, count |-> e.count, sums |-> e.sums]
        <4> HIDE DEF e
        <4> QED BY <2>2, <2>5 DEF Clean, AggregateRow
      <3> QED BY <2>1, <2>3, <2>5, <3>1, <3>2
    <2>6. CASE e # a /\ ~e.exists
      <3>1. e = NoAggregate /\ a.exists /\ g \notin replaced
        BY <2>1, <2>2, <2>6 DEF Clean
      <3> QED BY <2>1, <2>3, <2>6, <3>1 DEF Written
    <2> QED BY <2>4, <2>5, <2>6
  <1> QED BY <1>1, RepairInvariant, PTL DEF RepairRestores

(***************************************************************************)
(* Commits on fresh copies                                                 *)
(*                                                                         *)
(* A commit whose request has seen every earlier change of its review is   *)
(* the action of Reviews, taken at that moment, and all steps that do not  *)
(* commit stutter: nobody else has written the aggregate since it was      *)
(* locked.  What Reviews preserves, these steps preserve; what a review    *)
(* row and a count never are, they are not after a stale commit either.    *)
(***************************************************************************)

\* A draft shows nothing, and no count is negative, whatever has raced.
RowsSane == DraftUnpublished /\ \A g \in Groups : aggregate[g].count >= 0

SaneInv == TxInv /\ RowsSane

LEMMA CountsNext ==
  ASSUME SaneInv, TxNext, NEW g \in Groups PROVE aggregate'[g].count >= 0
  <1>1. aggregate[g].count \in Int /\ aggregate[g].count >= 0
    BY DEF SaneInv, TxInv, Typed, RowsSane, AggregateRow
  <1>2. ASSUME NEW s \in Requests, CommitDecision(s) PROVE aggregate'[g].count >= 0
    <2>1. aggregate'[g] = IF lock[g] = s THEN session[s].draft ELSE aggregate[g]
      BY <1>2 DEF CommitDecision, Saved
    <2>2. CASE lock[g] = s
      <3> DEFINE me == session[s]
                 taken == Withdrawn(me.copy, me.on, me.op, aggregate[g])
      <3>1. me.pc \in {"locked", "raised"} /\ g = GroupOf[me.on]
        BY <2>2 DEF SaneInv, TxInv, LocksSound
      <3>2. me.pc = "locked"
        BY <1>2, <3>1 DEF CommitDecision
      <3>3. me.draft = AfterDecision(me.copy, me.on, me.op, aggregate[g]) /\ taken.count >= 0
        BY <3>1, <3>2 DEF SaneInv, TxInv, LocksSound
      <3>4. me.on \in Reviews /\ me.copy \in ReviewRow
        BY <3>2, SessionFields DEF SaneInv, TxInv, SessionsSound
      <3>5. taken.count \in Int
        BY <3>4, DecisionRow DEF SaneInv, TxInv, RowsClean, Clean, AggregateRow
      <3> HIDE DEF taken
      <3>6. Adjust(taken, me.on, me.copy.current, 1).count >= 0
        BY <3>3, <3>5 DEF Adjust
      <3>7. me.draft = IF me.op = "published" THEN Adjust(taken, me.on, me.copy.current, 1) ELSE taken
        BY <3>3 DEF AfterDecision, taken
      <3>8. me.draft.count >= 0
        BY <3>3, <3>6, <3>7
      <3> QED BY <2>1, <2>2, <3>8
    <2> QED BY <1>1, <2>1, <2>2
  <1>3. CASE UNCHANGED aggregate
    BY <1>1, <1>3
  <1> QED
    BY <1>2, <1>3 DEF TxNext, TxCreate, Create, Read, LockAggregate, CommitEdit, CommitSubmit, Rollback

LEMMA DraftsNext ==
  ASSUME SaneInv, TxNext PROVE DraftUnpublished'
  <1>0. review \in Tables /\ DraftUnpublished
    BY DEF SaneInv, TxInv, Typed, RowsSane
  <1> USE DEF Tables, ReviewRow, DraftUnpublished
  <1>1. ASSUME NEW r \in Reviews, TxCreate(r) PROVE DraftUnpublished'
    BY <1>0, <1>1 DEF TxCreate, Create
  <1>2. ASSUME NEW s \in Requests, CommitEdit(s) PROVE DraftUnpublished'
    BY <1>0, <1>2 DEF CommitEdit
  <1>3. ASSUME NEW s \in Requests, CommitSubmit(s) PROVE DraftUnpublished'
    BY <1>0, <1>3 DEF CommitSubmit
  <1>4. ASSUME NEW s \in Requests, CommitDecision(s) PROVE DraftUnpublished'
    BY <1>0, <1>4 DEF CommitDecision, Decision
  <1>5. CASE UNCHANGED review
    BY <1>0, <1>5
  <1> QED BY <1>1, <1>2, <1>3, <1>4, <1>5 DEF TxNext, Read, LockAggregate, Rollback

LEMMA SaneNext == SaneInv /\ [TxNext]_txvars => SaneInv'
  <1>1. ASSUME SaneInv, TxNext PROVE SaneInv'
    BY <1>1, CountsNext, DraftsNext, TxInvNext DEF SaneInv, RowsSane
  <1>2. ASSUME SaneInv, UNCHANGED txvars PROVE SaneInv'
    <2>1. TxInv'
      BY <1>2, StutterOther, TxInvNext DEF SaneInv
    <2> QED BY <1>2, <2>1 DEF SaneInv, RowsSane, DraftUnpublished, txvars
  <1> QED BY <1>1, <1>2

LEMMA SaneInit == TxInit => SaneInv
  <1> SUFFICES ASSUME TxInit PROVE SaneInv
    OBVIOUS
  <1>1. RowsSane
    BY DEF TxInit, Init, RowsSane, DraftUnpublished, NoReview, NoAggregate
  <1> QED BY <1>1, TxInvInit DEF SaneInv

\* What a request whose copy is still the stored row knows of it.
LEMMA FreshCopy ==
  ASSUME SaneInv, NEW s \in Requests, session[s].pc # "idle",
         review[session[s].on] = session[s].copy
  PROVE  /\ session[s].on \in Reviews
         /\ session[s].copy = review[session[s].on]
         /\ Allowed(session[s].op, review[session[s].on])
  BY DEF SaneInv, TxInv, SessionsSound

\* The commit of a decision is the atomic decision.
LEMMA DecisionRefines ==
  ASSUME SaneInv, NEW s \in Requests, CommitDecision(s), review[session[s].on] = session[s].copy
  PROVE  Moderate(session[s].on, session[s].op)
  <1> DEFINE me == session[s]
             r == me.on
             g == GroupOf[r]
             row == review[r]
  <1>1. r \in Reviews /\ g \in Groups /\ me.copy = row /\ Allowed(me.op, row) /\ me.op \in Decision
    <2>1. me.pc # "idle" /\ me.op \in Decision
      BY DEF CommitDecision
    <2> QED BY <2>1, FreshCopy, AggregatesAssumption
  <1>2. me.op \in Transitions(row.status)
    BY <1>1 DEF Allowed, Decision
  <1>3. Withdrawn(row, r, me.op, aggregate[g]).count >= 0
        /\ aggregate' = [aggregate EXCEPT ![g] = AfterDecision(row, r, me.op, @)]
    <2>1. CASE Counts(me.op, row)
      <3>1. me.pc = "locked"
        BY <1>1, <2>1 DEF CommitDecision
      <3>2. /\ me.draft = AfterDecision(row, r, me.op, aggregate[g])
            /\ Withdrawn(row, r, me.op, aggregate[g]).count >= 0
            /\ \A h \in Groups : lock[h] = s <=> h = g
        BY <1>1, <3>1 DEF SaneInv, TxInv, LocksSound
      <3>3. aggregate' = [h \in Groups |-> IF h = g THEN me.draft ELSE aggregate[h]]
        BY <3>2 DEF CommitDecision, Saved
      <3> QED BY <1>1, <3>2, <3>3 DEF SaneInv, TxInv, Typed
    <2>2. CASE ~Counts(me.op, row)
      <3>1. me.pc = "read"
        BY <1>1, <2>2 DEF CommitDecision
      <3>2. \A h \in Groups : lock[h] # s
        BY <3>1 DEF SaneInv, TxInv, LocksSound
      <3>3. aggregate' = aggregate
        BY <3>2 DEF CommitDecision, Saved, SaneInv, TxInv, Typed
      <3>4. me.op \in {"hidden", "rejected"} /\ (me.op = "hidden" => ~IsPublic(row))
        BY <1>1, <2>2 DEF Counts, Decision
      <3>5. /\ Withdrawn(row, r, me.op, aggregate[g]) = aggregate[g]
            /\ AfterDecision(row, r, me.op, aggregate[g]) = aggregate[g]
        BY <3>4 DEF Withdrawn, AfterDecision, IsPublic
      <3>6. aggregate[g].count >= 0
        BY <1>1 DEF SaneInv, RowsSane
      <3> QED BY <1>1, <3>3, <3>5, <3>6 DEF SaneInv, TxInv, Typed
    <2> QED BY <2>1, <2>2
  <1>4. review' = [review EXCEPT
          ![r].status = me.op, ![r].published = IF me.op = "published" THEN row.current ELSE @]
    <2>1. review \in Tables /\ row \in ReviewRow
      BY <1>1 DEF SaneInv, TxInv, Typed, Tables
    <2> DEFINE p == IF me.op = "published" /\ row.published # row.current
                    THEN row.current ELSE row.published
               q == IF me.op = "published" THEN row.current ELSE row.published
    <2>2. review' = [review EXCEPT ![r] = [row EXCEPT !.status = me.op, !.published = p]]
      BY <1>1, <2>1 DEF CommitDecision, Tables
    <2>3. p = q
      OBVIOUS
    <2>4. review' = [review EXCEPT ![r] = [row EXCEPT !.status = me.op, !.published = q]]
      BY <2>2, <2>3
    <2> QED BY <1>1, <2>1, <2>4 DEF Tables
  <1>5. decisions' = decisions \cup {[review |-> r, revision |-> row.current, decision |-> me.op]}
    BY <1>1 DEF CommitDecision
  <1> QED BY <1>2, <1>3, <1>4, <1>5 DEF Moderate

\* Every step but a stale commit is a step of the atomic workflow.
LEMMA SerialStep ==
  ASSUME SaneInv, TxNext, ~StaleCommit PROVE [Next]_vars
  <1>0. \A s \in Requests : CommitEdit(s) \/ CommitSubmit(s) \/ CommitDecision(s) =>
          review[session[s].on] = session[s].copy
    BY DEF StaleCommit
  <1>1. ASSUME NEW r \in Reviews, TxCreate(r) PROVE Next
    BY <1>1 DEF TxCreate, Next
  <1>2. ASSUME NEW s \in Requests, CommitEdit(s) PROVE Next
    <2> DEFINE r == session[s].on
    <2>0. session[s].pc # "idle" /\ session[s].op = "edit"
      BY <1>2 DEF CommitEdit
    <2>1. /\ r \in Reviews /\ session[s].copy = review[r] /\ Allowed("edit", review[r])
          /\ review[r].current \in Revisions
      BY <1>0, <1>2, <2>0, FreshCopy DEF SaneInv, TxInv, Typed, Tables, ReviewRow
    <2>2. review[r].status \notin {"absent", "withdrawn"} /\ review[r].current < MaxRevision
      BY <2>1 DEF Allowed
    <2>3. /\ review' = [review EXCEPT
               ![r].current = @ + 1, ![r].status = IF @ = "published" THEN "submitted" ELSE @]
          /\ UNCHANGED <<decisions, aggregate>>
      BY <1>2, <2>1 DEF CommitEdit, SaneInv, TxInv, Typed, Tables, ReviewRow
    <2>4. Edit(r, review[r].current)
      BY <2>2, <2>3 DEF Edit
    <2> QED BY <2>1, <2>4 DEF Next
  <1>3. ASSUME NEW s \in Requests, CommitSubmit(s) PROVE Next
    <2> DEFINE r == session[s].on
    <2>1. r \in Reviews /\ session[s].copy = review[r] /\ Allowed("submit", review[r])
      <3>1. session[s].pc # "idle" /\ session[s].op = "submit"
        BY <1>3 DEF CommitSubmit
      <3> QED BY <1>0, <1>3, <3>1, FreshCopy
    <2>2. Submit(r)
      BY <1>3, <2>1 DEF CommitSubmit, Submit, Allowed
    <2> QED BY <2>1, <2>2 DEF Next
  <1>4. ASSUME NEW s \in Requests, CommitDecision(s) PROVE Next
    <2>1. session[s].on \in Reviews /\ session[s].op \in Decision
      BY <1>4 DEF CommitDecision, SaneInv, TxInv, SessionsSound
    <2> QED BY <1>0, <1>4, <2>1, DecisionRefines DEF Next
  <1>5. CASE UNCHANGED vars
    BY <1>5
  <1> QED
    BY <1>1, <1>2, <1>3, <1>4, <1>5 DEF TxNext, Read, LockAggregate, Rollback, vars

\* Except where a commit acts on a copy that is out of date, the transactions
\* implement the atomic workflow: the locks on the shared aggregates are all
\* it takes.
THEOREM TransactionsSerialise == TxSpec => SerialisableUnlessStale
  <1>1. SaneInv /\ [TxNext]_txvars => [Next \/ StaleCommit]_vars
    BY SerialStep DEF txvars, vars
  <1>2. TxInit => Init
    BY DEF TxInit
  <1> QED BY <1>1, <1>2, SaneInit, SaneNext, PTL DEF TxSpec, SerialisableUnlessStale

\* Aggregates drift from the reviews they count only by a stale commit.
THEOREM DriftHasCause == TxSpec => DriftNeedsStaleCommit
  <1>1. SaneInv /\ [TxNext]_txvars => [AggregateConsistent => AggregateConsistent' \/ StaleCommit]_txvars
    <2> SUFFICES ASSUME SaneInv, TxNext, AggregateConsistent, ~StaleCommit
                 PROVE  AggregateConsistent'
      OBVIOUS
    <2>1. TablesOK /\ DraftUnpublished
      BY DEF SaneInv, TxInv, Typed, RowsSane, TablesOK
    <2>2. [Next]_vars
      BY SerialStep
    <2> QED BY <2>1, <2>2, ConsistentNext
  <1> QED BY <1>1, SaneInit, SaneNext, PTL DEF TxSpec, DriftNeedsStaleCommit

\* A step of the atomic workflow leaves no review published beside a newer
\* revision.
LEMMA OverlookedNext == TablesOK /\ [Next]_vars => Overlooked' \subseteq Overlooked
  <1> SUFFICES ASSUME TablesOK, [Next]_vars PROVE Overlooked' \subseteq Overlooked
    OBVIOUS
  <1> USE DEF TablesOK, Tables, ReviewRow, Overlooked
  <1>1. ASSUME NEW r \in Reviews, Create(r) \/ Submit(r) PROVE Overlooked' \subseteq Overlooked
    <2>1. CASE Create(r)
      BY <2>1 DEF Create
    <2>2. CASE Submit(r)
      BY <2>2 DEF Submit
    <2> QED BY <1>1, <2>1, <2>2
  <1>2. ASSUME NEW r \in Reviews, NEW expected \in Revisions, Edit(r, expected)
        PROVE  Overlooked' \subseteq Overlooked
    <2>1. /\ review'[r].status # "published"
          /\ \A q \in Reviews \ {r} : review'[q] = review[q]
      BY <1>2 DEF Edit
    <2> QED BY <2>1
  <1>3. ASSUME NEW r \in Reviews, NEW target \in Decision, Moderate(r, target)
        PROVE  Overlooked' \subseteq Overlooked
    <2>1. /\ \A q \in Reviews \ {r} : review'[q] = review[q]
          /\ review'[r].status = target
          /\ target = "published" => review'[r].published = review'[r].current
      BY <1>3 DEF Moderate
    <2> QED BY <2>1
  <1>4. CASE UNCHANGED vars
    BY <1>4 DEF vars
  <1> QED BY <1>1, <1>2, <1>3, <1>4 DEF Next

\* A review stays published beside a revision nobody has approved only by a
\* stale commit.
THEOREM OverlookedHasCause == TxSpec => OverlookedNeedsStaleCommit
  <1>1. SaneInv /\ [TxNext]_txvars => [Overlooked' \subseteq Overlooked \/ StaleCommit]_txvars
    <2> SUFFICES ASSUME SaneInv, TxNext, ~StaleCommit PROVE Overlooked' \subseteq Overlooked
      OBVIOUS
    <2>1. TablesOK
      BY DEF SaneInv, TxInv, Typed, TablesOK
    <2>2. [Next]_vars
      BY SerialStep
    <2> QED BY <2>1, <2>2, OverlookedNext
  <1> QED BY <1>1, SaneInit, SaneNext, PTL DEF TxSpec, OverlookedNeedsStaleCommit
=============================================================================
