------------------------------ MODULE TaskQueue ------------------------------
(***************************************************************************)
(* The durable task queue: tasks/queue.py, ops/recovery.py and worker.py.  *)
(*                                                                         *)
(* One database row per task, any number of worker processes that run      *)
(* worker.run_once in a loop, and clients that enqueue and cancel.  Every  *)
(* action is one database round trip of one process: a SELECT copies the   *)
(* row into the session (the identity map of the ORM), a later UPDATE      *)
(* writes, by primary key, only the columns the code assigned.  The        *)
(* database is PostgreSQL at READ COMMITTED, the production contract.      *)
(*                                                                         *)
(* Time is abstracted to what the code asks of it: whether lease_until is  *)
(* NULL ("none"), in the future ("live") or in the past ("expired").       *)
(***************************************************************************)
EXTENDS Integers, FiniteSets

CONSTANTS Tasks,      \* task ids, numbered in the order of created_at
          Workers,    \* worker processes (their hostname:pid owner strings)
          None,       \* SQL NULL in lease_owner
          MaxFaults   \* bound on crashes plus handlers that outlive their lease

ASSUME ConstantsAssumption ==
  /\ Tasks \subseteq Nat \ {0}
  /\ None \notin Workers
  /\ MaxFaults \in Nat

VARIABLES row,         \* the durable_tasks table
          pc,          \* where each worker is in run_once
          held,        \* the TaskLease each worker holds
          view,        \* the worker session's copy of its task's row
          seen,        \* the rows each worker's recovery transaction read
          locks,       \* rows locked FOR UPDATE by each worker's claim
          cancelling,  \* tasks whose cancellation is between read and write
          faults       \* crashes and overrun leases so far

vars == <<row, pc, held, view, seen, locks, cancelling, faults>>

Terminal == {"succeeded", "failed", "cancelled"}
Status == {"absent", "queued", "running"} \cup Terminal
Lease == {"none", "live", "expired"}

\* "result" is the fencing token of the lease under which result_json or
\* error_json was written, 0 while there is none.
Row == [status : Status, owner : Workers \cup {None}, lease : Lease,
        token : Nat, cancel : BOOLEAN, result : Nat]

AbsentRow == [status |-> "absent", owner |-> None, lease |-> "none",
              token |-> 0, cancel |-> FALSE, result |-> 0]

\* The TaskLease a worker holds, and the one of a worker that holds none.
TaskLease == [task : Tasks \cup {0}, token : Nat]
NoLease == [task |-> 0, token |-> 0]

\* What recovery read: the expired running rows, and which of them had
\* cancel_requested set.
Scan == [expired : SUBSET Tasks, cancelled : SUBSET Tasks]
NothingSeen == [expired |-> {}, cancelled |-> {}]

Holding == {"claimed", "running", "beating", "failing", "aborting"}
Location == {"idle", "recovering", "claiming", "locked"} \cup Holding

Init ==
  /\ row = [t \in Tasks |-> AbsentRow]
  /\ pc = [w \in Workers |-> "idle"]
  /\ held = [w \in Workers |-> NoLease]
  /\ view = [w \in Workers |-> AbsentRow]
  /\ seen = [w \in Workers |-> NothingSeen]
  /\ locks = [w \in Workers |-> {}]
  /\ cancelling = {}
  /\ faults = 0

\* An UPDATE of a row that a claim has locked waits for that claim.
Unlocked(t) == \A w \in Workers : t \notin locks[w]

\* The worker returns to the start of its loop.
Restart(w) ==
  /\ pc' = [pc EXCEPT ![w] = "idle"]
  /\ held' = [held EXCEPT ![w] = NoLease]
  /\ view' = [view EXCEPT ![w] = AbsentRow]

(***************************************************************************)
(* Clients                                                                 *)
(***************************************************************************)

\* enqueue: a task is named by its idempotency key, so a second call finds
\* the row and changes nothing.
Enqueue(t) ==
  /\ row[t].status = "absent"
  /\ row' = [row EXCEPT ![t].status = "queued"]
  /\ UNCHANGED <<pc, held, view, seen, locks, cancelling, faults>>

\* request_cancel reads the row and returns early on a terminal status ...
CancelRead(t) ==
  /\ row[t].status \notin Terminal \cup {"absent"}
  /\ t \notin cancelling
  /\ cancelling' = cancelling \cup {t}
  /\ UNCHANGED <<row, pc, held, view, seen, locks, faults>>

\* ... and writes the flag alone when its transaction flushes.
CancelWrite(t) ==
  /\ t \in cancelling
  /\ Unlocked(t)
  /\ row' = [row EXCEPT ![t].cancel = TRUE]
  /\ cancelling' = cancelling \ {t}
  /\ UNCHANGED <<pc, held, view, seen, locks, faults>>

(***************************************************************************)
(* Recovery, the first transaction of run_once                             *)
(***************************************************************************)

\* A faulty ReconcileRead that takes every running row for an expired one.
ReconcileReadAll(w) ==
  /\ pc[w] = "idle"
  /\ LET running == {t \in Tasks : row[t].status = "running"}
     IN seen' = [seen EXCEPT ![w] =
                   [expired |-> running, cancelled |-> {t \in running : row[t].cancel}]]
  /\ pc' = [pc EXCEPT ![w] = "recovering"]
  /\ UNCHANGED <<row, held, view, locks, cancelling, faults>>

\* A plain SELECT of the running rows whose lease has passed.
ReconcileRead(w) ==
  /\ pc[w] = "idle"
  /\ LET expired == {t \in Tasks : row[t].status = "running" /\ row[t].lease = "expired"}
     IN seen' = [seen EXCEPT ![w] =
                   [expired |-> expired, cancelled |-> {t \in expired : row[t].cancel}]]
  /\ pc' = [pc EXCEPT ![w] = "recovering"]
  /\ UNCHANGED <<row, held, view, locks, cancelling, faults>>

\* Faulty variants of Recovered: a misspelt status, a status left as it was, a
\* token that starts over.
RecoveredMisspelt(r, cancelled) ==
  [r EXCEPT !.owner = None, !.lease = "none",
            !.status = IF cancelled THEN "canceled" ELSE "queued"]
RecoveredStatusKept(r, cancelled) ==
  [r EXCEPT !.owner = None, !.lease = "none"]
RecoveredFromScratch(r, cancelled) ==
  [r EXCEPT !.owner = None, !.lease = "none", !.token = 0,
            !.status = IF cancelled THEN "cancelled" ELSE "queued"]

\* The row recovery leaves behind: owner and lease cleared, the status
\* decided by the cancellation flag it read.
Recovered(r, cancelled) ==
  [r EXCEPT !.owner = None, !.lease = "none",
            !.status = IF cancelled THEN "cancelled" ELSE "queued"]

\* The commit writes every row of the SELECT by its primary key, whatever
\* has become of it since.
ReconcileWrite(w) ==
  /\ pc[w] = "recovering"
  /\ \A t \in seen[w].expired : Unlocked(t)
  /\ row' = [t \in Tasks |-> IF t \in seen[w].expired
                             THEN Recovered(row[t], t \in seen[w].cancelled)
                             ELSE row[t]]
  /\ seen' = [seen EXCEPT ![w] = NothingSeen]
  /\ pc' = [pc EXCEPT ![w] = "claiming"]
  /\ UNCHANGED <<held, view, locks, cancelling, faults>>

(***************************************************************************)
(* claim, the second transaction of run_once                               *)
(***************************************************************************)

\* Faulty variants of Claimable: without the cancellation filter, without the
\* status filter, without a second attempt.
ClaimableDespiteCancel(t) ==
  /\ row[t].status \in {"queued", "running"}
  /\ row[t].lease # "live"
ClaimableAnyStatus(t) ==
  /\ row[t].status # "absent"
  /\ row[t].lease # "live"
  /\ ~row[t].cancel
ClaimableOnce(t) ==
  /\ row[t].status \in {"queued", "running"}
  /\ row[t].token = 0
  /\ ~row[t].cancel

Claimable(t) ==
  /\ row[t].status \in {"queued", "running"}
  /\ row[t].lease # "live"
  /\ ~row[t].cancel

\* FOR UPDATE SKIP LOCKED without a LIMIT locks every claimable row no other
\* claim has locked; with none left, run_once reports that it did nothing.
ClaimLock(w) ==
  /\ pc[w] = "claiming"
  /\ LET found == {t \in Tasks : Claimable(t) /\ Unlocked(t)}
     IN /\ locks' = [locks EXCEPT ![w] = found]
        /\ pc' = [pc EXCEPT ![w] = IF found = {} THEN "idle" ELSE "locked"]
  /\ UNCHANGED <<row, held, view, seen, cancelling, faults>>

Leased(r, w) ==
  [r EXCEPT !.status = "running", !.owner = w, !.lease = "live", !.token = @ + 1]

\* The earliest of the locked rows is leased and the transaction commits.
ClaimCommit(w) ==
  /\ pc[w] = "locked"
  /\ \E t \in locks[w] :
       /\ \A u \in locks[w] : t <= u
       /\ row' = [row EXCEPT ![t] = Leased(@, w)]
       /\ held' = [held EXCEPT ![w] = [task |-> t, token |-> row[t].token + 1]]
  /\ locks' = [locks EXCEPT ![w] = {}]
  /\ pc' = [pc EXCEPT ![w] = "claimed"]
  /\ UNCHANGED <<view, seen, cancelling, faults>>

(***************************************************************************)
(* Running the handler                                                     *)
(***************************************************************************)

\* _owned, applied to whichever copy of the row the session has.
Owned(r, w) ==
  /\ r.owner = w
  /\ r.token = held[w].token
  /\ r.status = "running"

\* A new session loads the row and the handler starts.
Begin(w) ==
  /\ pc[w] = "claimed"
  /\ view' = [view EXCEPT ![w] = row[held[w].task]]
  /\ pc' = [pc EXCEPT ![w] = "running"]
  /\ UNCHANGED <<row, held, seen, locks, cancelling, faults>>

\* heartbeat called by the handler in a transaction of its own: check ...
HeartbeatRead(w) ==
  /\ pc[w] = "running"
  /\ Owned(row[held[w].task], w)
  /\ ~row[held[w].task].cancel
  /\ pc' = [pc EXCEPT ![w] = "beating"]
  /\ UNCHANGED <<row, held, view, seen, locks, cancelling, faults>>

\* ... then extend the lease.
HeartbeatWrite(w) ==
  /\ pc[w] = "beating"
  /\ Unlocked(held[w].task)
  /\ row' = [row EXCEPT ![held[w].task].lease = "live"]
  /\ pc' = [pc EXCEPT ![w] = "running"]
  /\ UNCHANGED <<held, view, seen, locks, cancelling, faults>>

\* The columns finish and fail assign: the outcome (or the cancellation that
\* the session's copy shows), the lease, and the result or error.
Completed(r, copy, w, outcome) ==
  [r EXCEPT !.status = IF copy.cancel THEN "cancelled" ELSE outcome,
            !.lease = "none",
            !.result = IF copy.cancel /\ outcome = "succeeded" THEN @ ELSE held[w].token]

\* finish in the handler's session: session.get returns the copy loaded by
\* Begin, so the fence is checked against that copy, and the commit writes.
Finish(w) ==
  /\ pc[w] = "running"
  /\ Owned(view[w], w)
  /\ Unlocked(held[w].task)
  /\ row' = [row EXCEPT ![held[w].task] = Completed(@, view[w], w, "succeeded")]
  /\ Restart(w)
  /\ UNCHANGED <<seen, locks, cancelling, faults>>

\* The handler, a heartbeat or finish raises; also the direct fail of a task
\* whose type has no handler.
HandlerRaises(w) ==
  /\ pc[w] \in {"claimed", "running"}
  /\ pc' = [pc EXCEPT ![w] = "failing"]
  /\ view' = [view EXCEPT ![w] = AbsentRow]
  /\ UNCHANGED <<row, held, seen, locks, cancelling, faults>>

\* fail in a fresh session: check the row; a stale lease gives up ...
FailRead(w) ==
  /\ pc[w] = "failing"
  /\ IF Owned(row[held[w].task], w)
       THEN /\ view' = [view EXCEPT ![w] = row[held[w].task]]
            /\ pc' = [pc EXCEPT ![w] = "aborting"]
            /\ UNCHANGED held
       ELSE Restart(w)
  /\ UNCHANGED <<row, seen, locks, cancelling, faults>>

\* ... otherwise record the error.
FailWrite(w) ==
  /\ pc[w] = "aborting"
  /\ Unlocked(held[w].task)
  /\ row' = [row EXCEPT ![held[w].task] = Completed(@, view[w], w, "failed")]
  /\ Restart(w)
  /\ UNCHANGED <<seen, locks, cancelling, faults>>

(***************************************************************************)
(* The environment                                                         *)
(***************************************************************************)

\* Some process still works under the task's current lease.
InHand(t) == \E w \in Workers :
  pc[w] \in Holding /\ held[w] = [task |-> t, token |-> row[t].token]

Lapse(t) == row' = [row EXCEPT ![t].lease = "expired"]

\* The clock passes lease_until although the handler is still at work.
LeaseOutlived(t) ==
  /\ row[t].lease = "live"
  /\ InHand(t)
  /\ faults < MaxFaults
  /\ Lapse(t)
  /\ faults' = faults + 1
  /\ UNCHANGED <<pc, held, view, seen, locks, cancelling>>

\* The clock passes lease_until and nobody is left who holds the lease.
LeaseLapses(t) ==
  /\ row[t].lease = "live"
  /\ ~InHand(t)
  /\ Lapse(t)
  /\ UNCHANGED <<pc, held, view, seen, locks, cancelling, faults>>

\* A process dies: its open transaction rolls back, its memory is gone.
Crash(w) ==
  /\ pc[w] # "idle"
  /\ faults < MaxFaults
  /\ faults' = faults + 1
  /\ Restart(w)
  /\ seen' = [seen EXCEPT ![w] = NothingSeen]
  /\ locks' = [locks EXCEPT ![w] = {}]
  /\ UNCHANGED <<row, cancelling>>

(***************************************************************************)
(* The specification                                                       *)
(***************************************************************************)

\* The steps of worker.run_once.
Recover(w) == ReconcileRead(w) \/ ReconcileWrite(w)
Claim(w) == ClaimLock(w) \/ ClaimCommit(w)
Fail(w) == FailRead(w) \/ FailWrite(w)

Next ==
  \/ \E t \in Tasks : Enqueue(t) \/ CancelRead(t) \/ CancelWrite(t)
                        \/ LeaseOutlived(t) \/ LeaseLapses(t)
  \/ \E w \in Workers : \/ Recover(w) \/ Claim(w) \/ Begin(w)
                        \/ HeartbeatRead(w) \/ HeartbeatWrite(w)
                        \/ Finish(w) \/ HandlerRaises(w) \/ Fail(w)
                        \/ Crash(w)

Spec == Init /\ [][Next]_vars

\* The worker command is started again and again and handlers return: each
\* database step that stays possible is taken, and a handler that is
\* repeatedly able to return, between heartbeats, does.  A lease nobody renews
\* passes.
Fairness ==
  /\ \A w \in Workers :
       /\ WF_vars(Recover(w)) /\ WF_vars(Claim(w)) /\ WF_vars(Fail(w))
       /\ WF_vars(Begin(w) \/ HeartbeatWrite(w))
       /\ SF_vars(Finish(w) \/ (pc[w] = "running" /\ HandlerRaises(w)))
  /\ \A t \in Tasks : WF_vars(LeaseLapses(t))

FairSpec == Spec /\ Fairness

(***************************************************************************)
(* Properties                                                              *)
(***************************************************************************)

TypeOK ==
  /\ row \in [Tasks -> Row]
  /\ pc \in [Workers -> Location]
  /\ held \in [Workers -> TaskLease]
  /\ view \in [Workers -> Row]
  /\ seen \in [Workers -> Scan]
  /\ locks \in [Workers -> SUBSET Tasks]
  /\ cancelling \in SUBSET Tasks
  /\ faults \in 0 .. MaxFaults

\* A fencing token names one lease: no two workers in flight, stale ones
\* included, hold the same token of a task, and none holds a token the row
\* has not reached.
LeaseExclusive ==
  \A w \in Workers : pc[w] \in Holding =>
    /\ held[w].task \in Tasks
    /\ held[w].token <= row[held[w].task].token
    /\ \A v \in Workers \ {w} : pc[v] \in Holding => held[v] # held[w]

\* Recovery looks only at running rows with a lease in the past, so a running
\* row must never be left without a lease or without an owner, whatever stale
\* heartbeats, failures and recoveries wrote over it.
RunningIsRecoverable ==
  \A t \in Tasks : row[t].status = "running" =>
    row[t].lease # "none" /\ row[t].owner \in Workers

\* "A cancelled task is not restarted": once cancel_requested is committed no
\* claim takes the task again, not even one that had read the row before.
CancelledNotRestarted ==
  [][\A t \in Tasks : row[t].cancel => row'[t].token = row[t].token]_vars

\* "A stale worker cannot finish a task because writes require its owner and
\* fencing token": whoever records the outcome of a task holds, at that moment,
\* the lease and the newest token of a running row.
StaleWriteFenced ==
  [][\A w \in Workers : Finish(w) \/ FailWrite(w) =>
       Owned(row[held[w].task], w)]_vars

\* The two steps that write over work they do not know of: an outcome recorded
\* under a lease that is no longer the row's, and a recovery of a row that
\* another process has ended or requeued since recovery read it.
StaleOutcome(w) ==
  /\ Finish(w) \/ FailWrite(w)
  /\ ~Owned(row[held[w].task], w)
StaleRecovery(w) ==
  /\ ReconcileWrite(w)
  /\ \E t \in seen[w].expired : row[t].status # "running"
StaleStep == \E w \in Workers : StaleOutcome(w) \/ StaleRecovery(w)

\* The queue follows the documented life cycle of a task but for those two
\* races: every other step of every process, stale heartbeats, late
\* cancellations and claims by several workers included, is a step of the
\* diagram or changes nothing it shows.
Lifecycle == INSTANCE TaskLifecycle WITH
  status  <- [t \in Tasks |-> row[t].status],
  claims  <- [t \in Tasks |-> row[t].token],
  cancel  <- [t \in Tasks |-> row[t].cancel],
  outcome <- [t \in Tasks |-> row[t].result]

LifecycleUnlessStale ==
  Lifecycle!Init /\ [][StaleStep \/ Lifecycle!Next]_(Lifecycle!lifecycle)

\* The races come with faults only: as long as no process has died and no
\* handler has outlived its lease, no number of workers, claims and clients
\* makes one, so the queue then implements the life cycle.
StaleNeedsFault == [][StaleStep => faults > 0]_vars

\* Crashes, overrun leases and failing recoveries lose no task: one that
\* nobody cancels ends with an outcome.
EveryTaskEnds ==
  \A t \in Tasks : row[t].status = "queued" ~>
    (row[t].status \in Terminal \/ row[t].cancel)
=============================================================================
