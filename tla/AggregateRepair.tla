--------------------------- MODULE AggregateRepair ---------------------------
(***************************************************************************)
(* Reconciliation of the aggregates (reconcile in reviews/stats.py) beside *)
(* the review transactions.                                                *)
(*                                                                         *)
(* A repair is one transaction at READ COMMITTED, but its two SELECTs see  *)
(* different moments: the scan of the reviews, then the stored rows.  Its  *)
(* commit writes the columns that differ from the rows it loaded.          *)
(***************************************************************************)
EXTENDS ReviewTransactions

CONSTANT MaxRepairs   \* bound on the number of repairs

ASSUME RepairAssumption == MaxRepairs \in Nat

VARIABLES repair,     \* the repairing session
          replaced,   \* groups whose row was deleted since the repair loaded it
          touched,    \* groups that requests have changed since the repair began
          repairs     \* repairs so far

allvars == <<review, decisions, aggregate, session, lock, edits, repair, replaced, touched, repairs>>

NoRows == [g \in Groups |-> NoAggregate]
NoRepair == [pc |-> "idle", expected |-> NoRows, actual |-> NoRows]

RepairInit ==
  /\ TxInit
  /\ repair = NoRepair
  /\ replaced = {}
  /\ touched = {}
  /\ repairs = 0

\* reconcile(repair=True) scans the approved revisions ...
Scan ==
  /\ repair.pc = "idle"
  /\ repairs < MaxRepairs
  /\ repair' = [NoRepair EXCEPT !.pc = "scanned",
                                !.expected = [g \in Groups |-> Recompute(review, g)]]
  /\ repairs' = repairs + 1
  /\ UNCHANGED <<txvars, replaced, touched>>

\* ... loads the stored rows ...
LoadRows ==
  /\ repair.pc = "scanned"
  /\ repair' = [repair EXCEPT !.pc = "loaded", !.actual = aggregate]
  /\ UNCHANGED <<txvars, replaced, touched, repairs>>

Mismatches == {g \in Groups : repair.expected[g] # repair.actual[g]}

\* A faulty Written that leaves a row nobody expects any more.
WrittenKept(expected, actual, now) ==
  [exists |-> expected.exists \/ now.exists,
   count  |-> IF expected.count # actual.count THEN expected.count ELSE now.count,
   sums   |-> IF expected.sums # actual.sums THEN expected.sums ELSE now.sums]

\* The stored row after the repair of a mismatch: deleted, or with each column
\* that differed from the loaded row overwritten.
Written(expected, actual, now) ==
  IF ~expected.exists THEN NoAggregate
  ELSE [exists |-> TRUE,
        count  |-> IF expected.count # actual.count THEN expected.count ELSE now.count,
        sums   |-> IF expected.sums # actual.sums THEN expected.sums ELSE now.sums]

\* An UPDATE of a row that is gone raises, and so does an INSERT beside a row
\* that has appeared; a DELETE of a row that is gone deletes nothing.
Raises(g) ==
  /\ repair.expected[g].exists
  /\ IF repair.actual[g].exists THEN g \in replaced ELSE aggregate[g].exists

Deletable(g) == repair.actual[g].exists /\ g \notin replaced

Finished ==
  /\ repair' = NoRepair
  /\ replaced' = {}
  /\ touched' = {}
  /\ UNCHANGED repairs

\* ... and commits.
Commit ==
  /\ repair.pc = "loaded"
  /\ \A g \in Mismatches : lock[g] = None /\ ~Raises(g)
  /\ aggregate' = [g \in Groups |->
       IF g \in Mismatches /\ (repair.expected[g].exists \/ Deletable(g))
       THEN Written(repair.expected[g], repair.actual[g], aggregate[g])
       ELSE aggregate[g]]
  /\ Finished
  /\ UNCHANGED <<review, decisions, session, lock, edits>>

\* An error or a killed process: nothing is written.
Abandon ==
  /\ repair.pc # "idle"
  /\ Finished
  /\ UNCHANGED txvars

\* A decision that empties a row deletes it, even if it then inserts another.
Replaces(s, g) ==
  /\ lock[g] = s
  /\ aggregate[g].exists
  /\ ~Withdrawn(session[s].copy, session[s].on, session[s].op, aggregate[g]).exists

\* A request that changes what a repair in progress has read.
Touches(g) ==
  /\ repair.pc # "idle"
  /\ Recompute(review', g) # Recompute(review, g) \/ aggregate'[g] # aggregate[g]

Touched == touched' = touched \cup {g \in Groups : Touches(g)}

Decide(s) ==
  /\ CommitDecision(s)
  /\ replaced' = IF repair.pc = "loaded"
                 THEN replaced \cup {g \in Groups : Replaces(s, g)} ELSE {}
  /\ Touched
  /\ UNCHANGED <<repair, repairs>>

\* The other steps of the requests.
Request ==
  /\ \/ \E r \in Reviews : TxCreate(r)
     \/ \E s \in Requests :
          \/ \E r \in Reviews, op \in Operation : Read(s, r, op)
          \/ LockAggregate(s) \/ CommitEdit(s) \/ CommitSubmit(s) \/ Rollback(s)
  /\ Touched
  /\ UNCHANGED <<repair, replaced, repairs>>

RepairNext ==
  \/ Request
  \/ \E s \in Requests : Decide(s)
  \/ Scan \/ LoadRows \/ Commit \/ Abandon

RepairSpec == RepairInit /\ [][RepairNext]_allvars

(***************************************************************************)
(* Properties                                                              *)
(***************************************************************************)

\* Whatever drift racing requests have left, and whatever requests are in
\* flight, a repair that commits leaves every aggregate that they have not
\* changed since it began equal to a full scan of that moment.
RepairRestores ==
  [][Commit => \A g \in Groups \ touched : aggregate'[g] = Recompute(review', g)]_allvars
=============================================================================
