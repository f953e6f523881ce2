-------------------------- MODULE ReviewTransactions --------------------------
(***************************************************************************)
(* The same workflow with its transactions opened up, as PostgreSQL runs   *)
(* them at READ COMMITTED and the ORM session drives them.                 *)
(*                                                                         *)
(* A request copies the review row with a plain SELECT and decides on the  *)
(* copy.  The aggregate row is the only one read FOR UPDATE: its lock (or, *)
(* for a row that does not exist yet, its unique key) excludes the others  *)
(* until the request commits.  The commit writes the columns of the review *)
(* row the request has changed, by primary key, over whatever is there.    *)
(* (A decision that replaces an approved revision writes the new status a  *)
(* little before it commits.  The lock this puts on the review row, after  *)
(* the aggregate's, only delays other writers of the row: they could as    *)
(* well have committed before or after.)                                   *)
(***************************************************************************)
EXTENDS Reviews

CONSTANTS Requests,   \* requests in flight at a time
          None,       \* nobody
          MaxDrift    \* bound on wrong sums, see Bounded

ASSUME RequestsAssumption ==
  /\ None \notin Requests
  /\ MaxDrift \in Nat \ {0}

VARIABLES session,   \* each request's session
          lock,      \* the request that locks each aggregate row
          edits      \* how many edits of each review have committed

txvars == <<review, decisions, aggregate, session, lock, edits>>

Operation == {"edit", "submit"} \cup Decision

\* "on" is the review a request works on, "copy" the row it read, "draft" the
\* aggregate row it has locked and changed.
Session == [pc : {"idle", "read", "locked", "raised"}, op : Operation,
            on : Reviews \cup {None}, copy : ReviewRow, draft : AggregateRow]

Idle == [pc |-> "idle", op |-> "edit", on |-> None, copy |-> NoReview, draft |-> NoAggregate]

TxInit ==
  /\ Init
  /\ session = [s \in Requests |-> Idle]
  /\ lock = [g \in Groups |-> None]
  /\ edits = [r \in Reviews |-> 0]

\* The checks edit_review and _transition make before they change anything.
Allowed(op, row) ==
  CASE op = "edit"   -> row.status \notin {"absent", "withdrawn"} /\ row.current < MaxRevision
    [] op = "submit" -> "submitted" \in Transitions(row.status)
    [] OTHER         -> op \in Transitions(row.status)

\* Whether _transition touches the aggregate.
Counts(op, row) == op = "published" \/ (op = "hidden" /\ IsPublic(row))

TxCreate(r) == Create(r) /\ UNCHANGED <<session, lock, edits>>

\* The request reads the review; one that is refused changes nothing.
Read(s, r, op) ==
  /\ session[s].pc = "idle"
  /\ Allowed(op, review[r])
  /\ session' = [session EXCEPT ![s] =
       [pc |-> "read", op |-> op, on |-> r, copy |-> review[r], draft |-> NoAggregate]]
  /\ UNCHANGED <<review, decisions, aggregate, lock, edits>>

\* Correct sums lie in 0 .. 1.  A row that has drifted further than MaxDrift
\* takes no more deltas, which keeps the instances finite.
Bounded(agg) == \A r \in Reviews : \A n \in Revisions : agg.sums[r][n] \in -MaxDrift .. MaxDrift

\* A faulty LockAggregate: a plain SELECT.
ReadAggregate(s) ==
  LET me == session[s]
      g == GroupOf[me.on]
  IN /\ me.pc = "read"
     /\ Counts(me.op, me.copy)
     /\ Bounded(aggregate[g])
     /\ LET taken == Withdrawn(me.copy, me.on, me.op, aggregate[g])
        IN session' = [session EXCEPT
             ![s].pc = IF taken.count < 0 THEN "raised" ELSE "locked",
             ![s].draft = AfterDecision(me.copy, me.on, me.op, aggregate[g])]
     /\ lock' = [lock EXCEPT ![g] = s]
     /\ UNCHANGED <<review, decisions, aggregate, edits>>

\* adjust_aggregate reads the committed aggregate row FOR UPDATE and applies
\* the delta of the review's copy; a negative count raises.
LockAggregate(s) ==
  LET me == session[s]
      g == GroupOf[me.on]
  IN /\ me.pc = "read"
     /\ Counts(me.op, me.copy)
     /\ lock[g] = None
     /\ Bounded(aggregate[g])
     /\ LET taken == Withdrawn(me.copy, me.on, me.op, aggregate[g])
        IN session' = [session EXCEPT
             ![s].pc = IF taken.count < 0 THEN "raised" ELSE "locked",
             ![s].draft = AfterDecision(me.copy, me.on, me.op, aggregate[g])]
     /\ lock' = [lock EXCEPT ![g] = s]
     /\ UNCHANGED <<review, decisions, aggregate, edits>>

Released(s) == [g \in Groups |-> IF lock[g] = s THEN None ELSE lock[g]]

Close(s) ==
  /\ session' = [session EXCEPT ![s] = Idle]
  /\ lock' = Released(s)

\* Faulty variants of CommitEdit: one that shows readers what it writes, one
\* that does not send it back to moderation, one without unique numbers.
CommitEditPublishes(s) ==
  LET me == session[s] IN
  /\ me.pc = "read" /\ me.op = "edit"
  /\ review[me.on].current < me.copy.current + 1
  /\ review' = [review EXCEPT
       ![me.on].current = me.copy.current + 1,
       ![me.on].published = IF me.copy.status = "published" THEN me.copy.current + 1 ELSE @]
  /\ edits' = [edits EXCEPT ![me.on] = @ + 1]
  /\ Close(s)
  /\ UNCHANGED <<decisions, aggregate>>
CommitEditUnmoderated(s) ==
  LET me == session[s] IN
  /\ me.pc = "read" /\ me.op = "edit"
  /\ review[me.on].current < me.copy.current + 1
  /\ review' = [review EXCEPT ![me.on].current = me.copy.current + 1]
  /\ edits' = [edits EXCEPT ![me.on] = @ + 1]
  /\ Close(s)
  /\ UNCHANGED <<decisions, aggregate>>
CommitEditTwice(s) ==
  LET me == session[s] IN
  /\ me.pc = "read" /\ me.op = "edit"
  /\ review' = [review EXCEPT
       ![me.on].current = me.copy.current + 1,
       ![me.on].status = IF me.copy.status = "published" THEN "submitted" ELSE @]
  /\ edits' = [edits EXCEPT ![me.on] = @ + 1]
  /\ Close(s)
  /\ UNCHANGED <<decisions, aggregate>>

\* edit_review commits: the unique key on (review, revision) refuses a number
\* that is already stored, and the stored ones are 1 .. current_revision.
CommitEdit(s) ==
  LET me == session[s] IN
  /\ me.pc = "read" /\ me.op = "edit"
  /\ review[me.on].current < me.copy.current + 1
  /\ review' = [review EXCEPT
       ![me.on].current = me.copy.current + 1,
       ![me.on].status = IF me.copy.status = "published" THEN "submitted" ELSE @]
  /\ edits' = [edits EXCEPT ![me.on] = @ + 1]
  /\ Close(s)
  /\ UNCHANGED <<decisions, aggregate>>

CommitSubmit(s) ==
  LET me == session[s] IN
  /\ me.pc = "read" /\ me.op = "submit"
  /\ review' = [review EXCEPT ![me.on].status = "submitted"]
  /\ Close(s)
  /\ UNCHANGED <<decisions, aggregate, edits>>

\* The aggregates when a request commits: its draft replaces the locked row.
Saved(s) == [g \in Groups |-> IF lock[g] = s THEN session[s].draft ELSE aggregate[g]]

\* moderate_review commits status, pointer, delta and decision together; the
\* pointer is written only if it differs from the copy's.
CommitDecision(s) ==
  LET me == session[s] IN
  /\ me.op \in Decision
  /\ me.pc = IF Counts(me.op, me.copy) THEN "locked" ELSE "read"
  /\ review' = [review EXCEPT
       ![me.on].status = me.op,
       ![me.on].published = IF me.op = "published" /\ me.copy.published # me.copy.current
                            THEN me.copy.current ELSE @]
  /\ aggregate' = Saved(s)
  /\ decisions' = decisions \cup
       {[review |-> me.on, revision |-> me.copy.current, decision |-> me.op]}
  /\ Close(s)
  /\ UNCHANGED edits

\* Any error, a killed process or a serialisation failure: all rolls back.
Rollback(s) ==
  /\ session[s].pc # "idle"
  /\ Close(s)
  /\ UNCHANGED <<review, decisions, aggregate, edits>>

TxNext ==
  \/ \E r \in Reviews : TxCreate(r)
  \/ \E s \in Requests :
       \/ \E r \in Reviews, op \in Operation : Read(s, r, op)
       \/ LockAggregate(s)
       \/ CommitEdit(s) \/ CommitSubmit(s) \/ CommitDecision(s)
       \/ Rollback(s)

TxSpec == TxInit /\ [][TxNext]_txvars

(***************************************************************************)
(* Properties                                                              *)
(***************************************************************************)

TxTypeOK ==
  /\ TypeOK
  /\ session \in [Requests -> Session]
  /\ lock \in [Groups -> Requests \cup {None}]
  /\ edits \in [Reviews -> 0 .. MaxRevision - 1]

\* A commit that acts on a copy which another request has made out of date.
StaleCommit ==
  \E s \in Requests : /\ CommitEdit(s) \/ CommitSubmit(s) \/ CommitDecision(s)
                      /\ review[session[s].on] # session[s].copy

\* Every other commit, interleaved and rolled back as the requests may be, is a
\* step of the atomic workflow: the copy was read without a lock, but the row
\* locks keep the shared aggregates in step with it.
SerialisableUnlessStale == Init /\ [][Next \/ StaleCommit]_vars

\* The stored aggregates, kept by deltas, are what a full scan of the approved
\* revisions computes, over any history of edits and decisions, until a stale
\* commit: no interleaving of requests that see each other's commits counts a
\* revision twice, leaves one behind or loses one.
DriftNeedsStaleCommit == [][AggregateConsistent => AggregateConsistent' \/ StaleCommit]_txvars

\* A published review shows its current revision: an edit sends it back to the
\* moderators, and a decision is about the revision that is current.  Only a
\* stale commit leaves a review published beside a newer revision, which the
\* moderation queue does not list.  (The queue lists submitted reviews only, so
\* the edits of a rejected or a hidden one are not in it, races or not.)
Overlooked == {r \in Reviews : review[r].status = "published"
                               /\ review[r].published # review[r].current}
OverlookedNeedsStaleCommit == [][Overlooked' \subseteq Overlooked \/ StaleCommit]_txvars

\* No committed edit is overwritten: two edits that read the same revision
\* cannot both commit, stale as they may be.
NoLostEdit == \A r \in Reviews : review[r].current = 1 + edits[r]
=============================================================================
