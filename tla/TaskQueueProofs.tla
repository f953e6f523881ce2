--------------------------- MODULE TaskQueueProofs ---------------------------
(***************************************************************************)
(* Proofs about TaskQueue for every set of tasks, every set of workers and *)
(* every bound on faults.                                                  *)
(***************************************************************************)
EXTENDS TaskQueue, TLAPS

(***************************************************************************)
(* Types                                                                   *)
(***************************************************************************)

\* The functions on rows keep them rows.
LEMMA RecoveredRow == ASSUME NEW r \in Row, NEW c \in BOOLEAN PROVE Recovered(r, c) \in Row
  BY DEF Row, Recovered, Status, Terminal, Lease

LEMMA LeasedRow == ASSUME NEW r \in Row, NEW w \in Workers PROVE Leased(r, w) \in Row
  <1> DEFINE n == r.token + 1
  <1>1. "running" \in Status /\ "live" \in Lease /\ w \in Workers \cup {None} /\ n \in Nat
    BY DEF Row, Status, Lease
  <1>2. Leased(r, w) = [r EXCEPT !.status = "running", !.owner = w, !.lease = "live", !.token = n]
    BY DEF Leased
  <1> HIDE DEF n
  <1> QED BY <1>1, <1>2 DEF Row

LEMMA CompletedRow ==
  ASSUME NEW r \in Row, NEW copy \in Row, NEW w, held[w].token \in Nat,
         NEW outcome \in {"succeeded", "failed"}
  PROVE  Completed(r, copy, w, outcome) \in Row
  <1>1. outcome \in Status /\ "cancelled" \in Status /\ "none" \in Lease
    BY DEF Status, Terminal, Lease
  <1>2. copy.cancel \in BOOLEAN
    BY DEF Row
  <1> DEFINE s == IF copy.cancel THEN "cancelled" ELSE outcome
             n == IF copy.cancel /\ outcome = "succeeded" THEN r.result ELSE held[w].token
  <1>3. s \in Status /\ n \in Nat
    BY <1>1, <1>2 DEF Row
  <1>4. Completed(r, copy, w, outcome)
          = [r EXCEPT !.status = s, !.lease = "none", !.result = n]
    BY DEF Completed
  <1> HIDE DEF s, n
  <1> QED BY <1>1, <1>3, <1>4 DEF Row

\* The columns recovery and completion leave alone, and what they make of the
\* others.
LEMMA RecoveredColumns ==
  ASSUME NEW r \in Row, NEW c \in BOOLEAN
  PROVE  /\ Recovered(r, c).token = r.token /\ Recovered(r, c).cancel = r.cancel
         /\ Recovered(r, c).result = r.result
         /\ Recovered(r, c).status = IF c THEN "cancelled" ELSE "queued"
  BY DEF Row, Recovered

LEMMA CompletedColumns ==
  ASSUME NEW r \in Row, NEW copy \in Row, NEW w, NEW outcome \in {"succeeded", "failed"}
  PROVE  /\ Completed(r, copy, w, outcome).token = r.token
         /\ Completed(r, copy, w, outcome).cancel = r.cancel
         /\ Completed(r, copy, w, outcome).status = IF copy.cancel THEN "cancelled" ELSE outcome
         /\ Completed(r, copy, w, outcome).result \in {r.result, held[w].token}
         /\ ~copy.cancel => Completed(r, copy, w, outcome).result = held[w].token
  BY DEF Row, Completed

\* What a commit of recovery or of an outcome makes of the table.
LEMMA ReconciledTable ==
  ASSUME TypeOK, NEW w \in Workers, ReconcileWrite(w), NEW t \in Tasks
  PROVE  /\ row'[t].token = row[t].token /\ row'[t].cancel = row[t].cancel
         /\ row'[t].result = row[t].result
         /\ t \notin seen[w].expired => row'[t] = row[t]
         /\ t \in seen[w].expired =>
              row'[t].status = IF t \in seen[w].cancelled THEN "cancelled" ELSE "queued"
  <1>1. row[t] \in Row /\ (t \in seen[w].cancelled) \in BOOLEAN
    BY DEF TypeOK
  <1>2. row'[t] = IF t \in seen[w].expired THEN Recovered(row[t], t \in seen[w].cancelled)
                                           ELSE row[t]
    BY DEF ReconcileWrite
  <1> DEFINE c == t \in seen[w].cancelled
  <1>3. CASE t \in seen[w].expired
    <2>1. row'[t] = Recovered(row[t], c)
      BY <1>2, <1>3
    <2>2. c \in BOOLEAN
      OBVIOUS
    <2> HIDE DEF c
    <2>3. /\ row'[t].token = row[t].token /\ row'[t].cancel = row[t].cancel
          /\ row'[t].result = row[t].result
          /\ row'[t].status = IF c THEN "cancelled" ELSE "queued"
      BY <1>1, <2>1, <2>2, RecoveredColumns
    <2> QED BY <1>3, <2>3 DEF c
  <1>4. CASE t \notin seen[w].expired
    BY <1>2, <1>4
  <1> QED BY <1>3, <1>4

\* The commit of finish or of fail by worker w, whose session has the copy.
Completes(w, outcome) ==
  /\ outcome \in {"succeeded", "failed"}
  /\ Unlocked(held[w].task)
  /\ row' = [row EXCEPT ![held[w].task] = Completed(@, view[w], w, outcome)]

LEMMA CompletedTable ==
  ASSUME TypeOK, NEW w \in Workers, NEW o, Completes(w, o), held[w].task \in Tasks, NEW t \in Tasks
  PROVE  /\ row'[t].token = row[t].token /\ row'[t].cancel = row[t].cancel
         /\ t # held[w].task => row'[t] = row[t]
         /\ t = held[w].task =>
              /\ row'[t].status = IF view[w].cancel THEN "cancelled" ELSE o
              /\ row'[t].result \in {row[t].result, held[w].token}
              /\ ~view[w].cancel => row'[t].result = held[w].token
  <1>1. row[t] \in Row /\ view[w] \in Row
    BY DEF TypeOK
  <1>2. row'[t] = IF t = held[w].task THEN Completed(row[t], view[w], w, o) ELSE row[t]
    BY DEF Completes, TypeOK
  <1> QED BY <1>1, <1>2, CompletedColumns DEF Completes

LEMMA Constants == AbsentRow \in Row /\ NoLease \in TaskLease /\ NothingSeen \in Scan
  BY DEF AbsentRow, Row, Status, Lease, NoLease, TaskLease, NothingSeen, Scan

\* Where a worker holds a lease, the lease is on a task.
HoldsTask == \A w \in Workers : pc[w] \in Holding => held[w].task \in Tasks

LEMMA TypingInit == Init => TypeOK /\ HoldsTask
  BY Constants, ConstantsAssumption DEF Init, TypeOK, HoldsTask, Location, Holding

LEMMA TypingNext == TypeOK /\ HoldsTask /\ [Next]_vars => (TypeOK /\ HoldsTask)'
  <1> SUFFICES ASSUME TypeOK, HoldsTask, [Next]_vars PROVE (TypeOK /\ HoldsTask)'
    OBVIOUS
  <1> USE Constants, ConstantsAssumption DEF TypeOK, HoldsTask, Holding, Location
  <1>1. ASSUME NEW t \in Tasks, Enqueue(t) PROVE (TypeOK /\ HoldsTask)'
    BY <1>1 DEF Enqueue, Row, Status
  <1>2. ASSUME NEW t \in Tasks, CancelRead(t) PROVE (TypeOK /\ HoldsTask)'
    BY <1>2 DEF CancelRead
  <1>3. ASSUME NEW t \in Tasks, CancelWrite(t) PROVE (TypeOK /\ HoldsTask)'
    BY <1>3 DEF CancelWrite, Row
  <1>4. ASSUME NEW t \in Tasks, LeaseOutlived(t) PROVE (TypeOK /\ HoldsTask)'
    BY <1>4 DEF LeaseOutlived, Lapse, Row, Lease
  <1>5. ASSUME NEW t \in Tasks, LeaseLapses(t) PROVE (TypeOK /\ HoldsTask)'
    BY <1>5 DEF LeaseLapses, Lapse, Row, Lease
  <1>6. ASSUME NEW w \in Workers, ReconcileRead(w) PROVE (TypeOK /\ HoldsTask)'
    BY <1>6 DEF ReconcileRead, Scan
  <1>7. ASSUME NEW w \in Workers, ReconcileWrite(w) PROVE (TypeOK /\ HoldsTask)'
    <2>1. \A t \in Tasks : Recovered(row[t], t \in seen[w].cancelled) \in Row
      <3> TAKE t \in Tasks
      <3>1. (t \in seen[w].cancelled) \in BOOLEAN
        OBVIOUS
      <3> QED BY <3>1, RecoveredRow
    <2>2. row' \in [Tasks -> Row]
      BY <1>7, <2>1 DEF ReconcileWrite
    <2> QED BY <1>7, <2>2 DEF ReconcileWrite
  <1>8. ASSUME NEW w \in Workers, ClaimLock(w) PROVE (TypeOK /\ HoldsTask)'
    BY <1>8 DEF ClaimLock
  <1>9. ASSUME NEW w \in Workers, ClaimCommit(w) PROVE (TypeOK /\ HoldsTask)'
    <2>1. PICK t \in locks[w] :
            /\ row' = [row EXCEPT ![t] = Leased(@, w)]
            /\ held' = [held EXCEPT ![w] = [task |-> t, token |-> row[t].token + 1]]
      BY <1>9 DEF ClaimCommit
    <2>2. t \in Tasks /\ row[t].token + 1 \in Nat
      BY DEF Row
    <2>3. row' \in [Tasks -> Row]
      BY <2>1, <2>2, LeasedRow
    <2>4. held' \in [Workers -> TaskLease] /\ held'[w].task = t
      BY <2>1, <2>2 DEF TaskLease
    <2> QED BY <1>9, <2>1, <2>2, <2>3, <2>4 DEF ClaimCommit
  <1>10. ASSUME NEW w \in Workers, Begin(w) PROVE (TypeOK /\ HoldsTask)'
    BY <1>10 DEF Begin
  <1>11. ASSUME NEW w \in Workers, HeartbeatRead(w) PROVE (TypeOK /\ HoldsTask)'
    BY <1>11 DEF HeartbeatRead
  <1>12. ASSUME NEW w \in Workers, HeartbeatWrite(w) PROVE (TypeOK /\ HoldsTask)'
    <2>1. row' \in [Tasks -> Row]
      BY <1>12 DEF HeartbeatWrite, Row, Lease
    <2> QED BY <1>12, <2>1 DEF HeartbeatWrite
  <1>13. ASSUME NEW w \in Workers, Restart(w), locks' \in [Workers -> SUBSET Tasks]
         PROVE  (HoldsTask)' /\ pc' \in [Workers -> Location]
                /\ held' \in [Workers -> TaskLease] /\ view' \in [Workers -> Row]
    BY <1>13 DEF Restart
  <1>14. ASSUME NEW w \in Workers, Finish(w) PROVE (TypeOK /\ HoldsTask)'
    <2>1. held[w].task \in Tasks /\ held[w].token \in Nat
      BY <1>14 DEF Finish, TaskLease
    <2>2. row' \in [Tasks -> Row]
      BY <1>14, <2>1, CompletedRow DEF Finish
    <2> QED BY <1>13, <1>14, <2>2 DEF Finish
  <1>15. ASSUME NEW w \in Workers, HandlerRaises(w) PROVE (TypeOK /\ HoldsTask)'
    BY <1>15 DEF HandlerRaises
  <1>16. ASSUME NEW w \in Workers, FailRead(w) PROVE (TypeOK /\ HoldsTask)'
    <2>1. CASE Owned(row[held[w].task], w)
      BY <1>16, <2>1 DEF FailRead
    <2>2. CASE ~Owned(row[held[w].task], w)
      BY <1>13, <1>16, <2>2 DEF FailRead
    <2> QED BY <2>1, <2>2
  <1>17. ASSUME NEW w \in Workers, FailWrite(w) PROVE (TypeOK /\ HoldsTask)'
    <2>1. held[w].task \in Tasks /\ held[w].token \in Nat
      BY <1>17 DEF FailWrite, TaskLease
    <2>2. row' \in [Tasks -> Row]
      BY <1>17, <2>1, CompletedRow DEF FailWrite
    <2> QED BY <1>13, <1>17, <2>2 DEF FailWrite
  <1>18. ASSUME NEW w \in Workers, Crash(w) PROVE (TypeOK /\ HoldsTask)'
    BY <1>13, <1>18 DEF Crash
  <1>19. CASE UNCHANGED vars
    BY <1>19 DEF vars
  <1> QED
    BY <1>1, <1>2, <1>3, <1>4, <1>5, <1>6, <1>7, <1>8, <1>9, <1>10, <1>11, <1>12,
       <1>14, <1>15, <1>16, <1>17, <1>18, <1>19 DEF Next, Recover, Claim, Fail

\* Every variable stays in its declared set, and a worker that holds a lease
\* holds it on a task: queue.py never dereferences a lease it has not claimed.
THEOREM Typing == Spec => [](TypeOK /\ HoldsTask)
  BY TypingInit, TypingNext, PTL DEF Spec

(***************************************************************************)
(* Leases                                                                  *)
(***************************************************************************)

\* What a step that commits no claim leaves alone: every token, and the lease
\* of every worker that still holds one.
NoNewLease ==
  /\ \A t \in Tasks : row'[t].token = row[t].token
  /\ \A w \in Workers : pc'[w] \in Holding => pc[w] \in Holding /\ held'[w] = held[w]

LEMMA OnlyClaimsLease ==
  ASSUME TypeOK, HoldsTask, [Next]_vars
  PROVE  NoNewLease \/ \E w \in Workers : ClaimCommit(w)
  <1> USE DEF TypeOK, Row, NoNewLease, Holding
  <1>1. ASSUME NEW t \in Tasks,
               Enqueue(t) \/ CancelRead(t) \/ CancelWrite(t) \/ LeaseOutlived(t) \/ LeaseLapses(t)
        PROVE  NoNewLease
    BY <1>1 DEF Enqueue, CancelRead, CancelWrite, LeaseOutlived, LeaseLapses, Lapse
  <1>2. ASSUME NEW w \in Workers, Recover(w) \/ ClaimLock(w) PROVE NoNewLease
    <2>1. CASE ReconcileRead(w) \/ ClaimLock(w)
      BY <2>1 DEF ReconcileRead, ClaimLock
    <2>2. CASE ReconcileWrite(w)
      BY <2>2, ReconciledTable DEF ReconcileWrite
    <2> QED BY <1>2, <2>1, <2>2 DEF Recover
  <1>3. ASSUME NEW w \in Workers,
               Begin(w) \/ HeartbeatRead(w) \/ HeartbeatWrite(w) \/ HandlerRaises(w)
        PROVE  NoNewLease
    BY <1>3 DEF Begin, HeartbeatRead, HeartbeatWrite, HandlerRaises
  <1>4. ASSUME NEW w \in Workers, Finish(w) PROVE NoNewLease
    BY <1>4 DEF Finish, Restart, Completed
  <1>5. ASSUME NEW w \in Workers, FailRead(w) PROVE NoNewLease
    BY <1>5 DEF FailRead, Restart
  <1>6. ASSUME NEW w \in Workers, FailWrite(w) PROVE NoNewLease
    BY <1>6 DEF FailWrite, Restart, Completed
  <1>7. ASSUME NEW w \in Workers, Crash(w) PROVE NoNewLease
    BY <1>7 DEF Crash, Restart
  <1>8. CASE UNCHANGED vars
    BY <1>8 DEF vars
  <1> QED BY <1>1, <1>2, <1>3, <1>4, <1>5, <1>6, <1>7, <1>8 DEF Next, Claim, Fail

LEMMA LeaseExclusiveNext ==
  TypeOK /\ HoldsTask /\ LeaseExclusive /\ [Next]_vars => LeaseExclusive'
  <1> SUFFICES ASSUME TypeOK, HoldsTask, LeaseExclusive, [Next]_vars PROVE LeaseExclusive'
    OBVIOUS
  <1>1. CASE NoNewLease
    BY <1>1 DEF NoNewLease, LeaseExclusive
  <1>2. ASSUME NEW w \in Workers, ClaimCommit(w) PROVE LeaseExclusive'
    <2>1. PICK t \in locks[w] :
            /\ row' = [row EXCEPT ![t] = Leased(@, w)]
            /\ held' = [held EXCEPT ![w] = [task |-> t, token |-> row[t].token + 1]]
      BY <1>2 DEF ClaimCommit
    <2>2. t \in Tasks /\ row[t].token \in Nat
      BY DEF TypeOK, Row
    <2>3. row'[t].token = row[t].token + 1 /\ \A u \in Tasks \ {t} : row'[u] = row[u]
      BY <2>1, <2>2 DEF TypeOK, Row, Leased
    <2>4. /\ held'[w].task = t /\ held'[w].token = row[t].token + 1
          /\ \A v \in Workers \ {w} : held'[v] = held[v]
          /\ \A v \in Workers \ {w} : pc'[v] = pc[v]
      BY <1>2, <2>1 DEF TypeOK, ClaimCommit
    <2>5. ASSUME NEW v \in Workers \ {w}, pc[v] \in Holding
          PROVE  /\ held[v].task \in Tasks
                 /\ held[v].token <= row'[held[v].task].token
                 /\ held[v] # held'[w]
      <3>1. held[v].task \in Tasks /\ held[v].token <= row[held[v].task].token
        BY <2>5 DEF LeaseExclusive
      <3>2. held[v].token \in Nat
        BY DEF TypeOK, TaskLease
      <3>3. CASE held[v].task = t
        BY <2>2, <2>3, <2>4, <3>1, <3>2, <3>3
      <3>4. CASE held[v].task # t
        BY <2>3, <2>4, <3>1, <3>4
      <3> QED BY <3>3, <3>4
    <2>6. held'[w].task \in Tasks /\ held'[w].token <= row'[held'[w].task].token
      BY <2>2, <2>3, <2>4
    <2>7. ASSUME NEW v \in Workers \ {w}, NEW u \in Workers \ {w}, u # v,
                 pc[v] \in Holding, pc[u] \in Holding
          PROVE  held[u] # held[v]
      BY <2>7 DEF LeaseExclusive
    <2> QED BY <2>4, <2>5, <2>6, <2>7 DEF LeaseExclusive
  <1> QED BY <1>1, <1>2, OnlyClaimsLease

\* Fencing tokens are unique: however many workers there are, and however
\* stale their leases, no two in flight carry the same token of a task.
THEOREM LeasesAreExclusive == Spec => []LeaseExclusive
  <1>1. Init => LeaseExclusive
    BY DEF Init, LeaseExclusive, Holding
  <1> QED BY <1>1, LeaseExclusiveNext, Typing, PTL DEF Spec

(***************************************************************************)
(* Recovery                                                                *)
(***************************************************************************)

\* No write, however stale, leaves a running row that recovery cannot find.
THEOREM RunningRowsRecoverable == Spec => []RunningIsRecoverable
  <1>1. Init => RunningIsRecoverable
    BY DEF Init, RunningIsRecoverable, AbsentRow
  <1>2. TypeOK /\ HoldsTask /\ RunningIsRecoverable /\ [Next]_vars => RunningIsRecoverable'
    <2> SUFFICES ASSUME TypeOK, HoldsTask, RunningIsRecoverable, [Next]_vars
                 PROVE  RunningIsRecoverable'
      OBVIOUS
    <2> USE DEF TypeOK, Row, RunningIsRecoverable
    <2>1. ASSUME NEW t \in Tasks, Enqueue(t) \/ CancelWrite(t)
          PROVE  RunningIsRecoverable'
      <3>1. CASE Enqueue(t)
        BY <3>1 DEF Enqueue
      <3>2. CASE CancelWrite(t)
        BY <3>2 DEF CancelWrite
      <3> QED BY <2>1, <3>1, <3>2
    <2>2. ASSUME NEW t \in Tasks, Lapse(t) PROVE RunningIsRecoverable'
      BY <2>2 DEF Lapse
    <2>3. ASSUME NEW w \in Workers, ReconcileWrite(w) PROVE RunningIsRecoverable'
      BY <2>3, ReconciledTable
    <2>4. ASSUME NEW w \in Workers, ClaimCommit(w) PROVE RunningIsRecoverable'
      BY <2>4 DEF ClaimCommit, Leased
    <2>5. ASSUME NEW w \in Workers, HeartbeatWrite(w) PROVE RunningIsRecoverable'
      BY <2>5 DEF HeartbeatWrite
    <2>7. ASSUME NEW w \in Workers, Finish(w) \/ FailWrite(w) PROVE RunningIsRecoverable'
      <3>1. held[w].task \in Tasks
        BY <2>7 DEF Finish, FailWrite, HoldsTask, Holding
      <3>2. PICK o \in {"succeeded", "failed"} : Completes(w, o)
        BY <2>7 DEF Finish, FailWrite, Completes
      <3> QED BY <3>1, <3>2, CompletedTable
    <2>8. CASE UNCHANGED row
      BY <2>8
    <2> QED
      BY <2>1, <2>2, <2>3, <2>4, <2>5, <2>7, <2>8
      DEF Next, vars, Recover, Claim, Fail, CancelRead, LeaseOutlived, LeaseLapses,
          ReconcileRead, ClaimLock, Begin, HeartbeatRead, HandlerRaises, FailRead, Crash
  <1> QED BY <1>1, <1>2, Typing, PTL DEF Spec

(***************************************************************************)
(* Cancellation                                                            *)
(***************************************************************************)

\* A claim's row locks keep the cancellation flag out until it commits.
LockedNotCancelled == \A w \in Workers : \A t \in locks[w] : ~row[t].cancel

LEMMA LockedNotCancelledNext ==
  TypeOK /\ HoldsTask /\ LockedNotCancelled /\ [Next]_vars => LockedNotCancelled'
  <1> SUFFICES ASSUME TypeOK, HoldsTask, LockedNotCancelled, [Next]_vars
               PROVE  LockedNotCancelled'
    OBVIOUS
  <1> USE DEF TypeOK, Row, LockedNotCancelled
  <1>1. ASSUME NEW t \in Tasks, Enqueue(t) \/ CancelRead(t) \/ LeaseOutlived(t) \/ LeaseLapses(t)
        PROVE  LockedNotCancelled'
    BY <1>1 DEF Enqueue, CancelRead, LeaseOutlived, LeaseLapses, Lapse
  <1>2. ASSUME NEW t \in Tasks, CancelWrite(t) PROVE LockedNotCancelled'
    BY <1>2 DEF CancelWrite, Unlocked
  <1>3. ASSUME NEW w \in Workers, Recover(w) PROVE LockedNotCancelled'
    <2>1. CASE ReconcileRead(w)
      BY <2>1 DEF ReconcileRead
    <2>2. CASE ReconcileWrite(w)
      BY <2>2, ReconciledTable DEF ReconcileWrite
    <2> QED BY <1>3, <2>1, <2>2 DEF Recover
  <1>4. ASSUME NEW w \in Workers, ClaimLock(w) PROVE LockedNotCancelled'
    BY <1>4 DEF ClaimLock, Claimable
  <1>5. ASSUME NEW w \in Workers, ClaimCommit(w) PROVE LockedNotCancelled'
    BY <1>5 DEF ClaimCommit, Leased
  <1>6. ASSUME NEW w \in Workers,
               Begin(w) \/ HeartbeatRead(w) \/ HeartbeatWrite(w) \/ HandlerRaises(w) \/ FailRead(w)
        PROVE  LockedNotCancelled'
    BY <1>6 DEF Begin, HeartbeatRead, HeartbeatWrite, HandlerRaises, FailRead
  <1>7. ASSUME NEW w \in Workers, Finish(w) \/ FailWrite(w) PROVE LockedNotCancelled'
    <2>1. held[w].task \in Tasks /\ locks' = locks
      BY <1>7 DEF Finish, FailWrite, HoldsTask, Holding
    <2>2. \E o \in {"succeeded", "failed"} : Completes(w, o)
      BY <1>7 DEF Finish, FailWrite, Completes
    <2> QED BY <2>1, <2>2, CompletedTable
  <1>8. ASSUME NEW w \in Workers, Crash(w) PROVE LockedNotCancelled'
    BY <1>8 DEF Crash
  <1>9. CASE UNCHANGED vars
    BY <1>9 DEF vars
  <1> QED BY <1>1, <1>2, <1>3, <1>4, <1>5, <1>6, <1>7, <1>8, <1>9 DEF Next, Claim, Fail

\* "A cancelled task is not restarted", for any number of workers: the only
\* step that starts a task is a claim's commit, and the rows it locked are not
\* cancelled.
THEOREM CancelledStays == Spec => CancelledNotRestarted
  <1> DEFINE Step == \A t \in Tasks : row[t].cancel => row'[t].token = row[t].token
  <1>1. Init => LockedNotCancelled
    BY DEF Init, LockedNotCancelled
  <1>2. TypeOK /\ HoldsTask /\ LockedNotCancelled /\ [Next]_vars => [Step]_vars
    <2> SUFFICES ASSUME TypeOK, HoldsTask, LockedNotCancelled, [Next]_vars PROVE Step
      OBVIOUS
    <2>1. CASE NoNewLease
      BY <2>1 DEF NoNewLease
    <2>2. ASSUME NEW w \in Workers, ClaimCommit(w) PROVE Step
      BY <2>2 DEF ClaimCommit, LockedNotCancelled, TypeOK, Row
    <2> QED BY <2>1, <2>2, OnlyClaimsLease
  <1> QED BY <1>1, <1>2, LockedNotCancelledNext, Typing, PTL DEF Spec, CancelledNotRestarted

(***************************************************************************)
(* What the copies and the locks still say                                 *)
(*                                                                         *)
(* A session's copy of a row may be out of date in every column but one:   *)
(* a cancellation flag, once set, stays, so a copy that shows it is right. *)
(* A row a claim has locked is written by that claim alone.                *)
(***************************************************************************)

FlagsStay == \A t \in Tasks : row[t].cancel => row'[t].cancel

LEMMA CancelMonotone == ASSUME TypeOK, HoldsTask, [Next]_vars PROVE FlagsStay
  <1> USE DEF TypeOK, Row, FlagsStay
  <1>1. ASSUME NEW t \in Tasks, Enqueue(t) PROVE FlagsStay
    BY <1>1 DEF Enqueue
  <1>2. ASSUME NEW t \in Tasks, CancelWrite(t) PROVE FlagsStay
    BY <1>2 DEF CancelWrite
  <1>3. ASSUME NEW t \in Tasks, Lapse(t) PROVE FlagsStay
    BY <1>3 DEF Lapse
  <1>4. ASSUME NEW w \in Workers, ReconcileWrite(w) PROVE FlagsStay
    BY <1>4, ReconciledTable
  <1>5. ASSUME NEW w \in Workers, ClaimCommit(w) PROVE FlagsStay
    BY <1>5 DEF ClaimCommit, Leased
  <1>6. ASSUME NEW w \in Workers, HeartbeatWrite(w) PROVE FlagsStay
    BY <1>6 DEF HeartbeatWrite
  <1>7. ASSUME NEW w \in Workers, Finish(w) \/ FailWrite(w) PROVE FlagsStay
    <2>1. held[w].task \in Tasks
      BY <1>7 DEF Finish, FailWrite, HoldsTask, Holding
    <2>2. PICK o \in {"succeeded", "failed"} : Completes(w, o)
      BY <1>7 DEF Finish, FailWrite, Completes
    <2> QED BY <2>1, <2>2, CompletedTable
  <1>8. CASE UNCHANGED row
    BY <1>8
  <1> QED
    BY <1>1, <1>2, <1>3, <1>4, <1>5, <1>6, <1>7, <1>8
    DEF Next, vars, Recover, Claim, Fail, CancelRead, LeaseOutlived, LeaseLapses,
        ReconcileRead, ClaimLock, Begin, HeartbeatRead, HandlerRaises, FailRead, Crash

\* The workers whose session has a copy of their task's row.
Reading == {"running", "beating", "aborting"}

CopiesTrue(w) ==
  /\ pc[w] \in Reading /\ view[w].cancel => row[held[w].task].cancel
  /\ \A t \in seen[w].cancelled : row[t].cancel

LEMMA CopiesTrueNext ==
  (TypeOK /\ HoldsTask /\ \A w \in Workers : CopiesTrue(w)) /\ [Next]_vars
     => (\A w \in Workers : CopiesTrue(w))'
  <1> SUFFICES ASSUME TypeOK, HoldsTask, \A w \in Workers : CopiesTrue(w), [Next]_vars,
                      NEW v \in Workers
               PROVE  CopiesTrue(v)'
    OBVIOUS
  <1> USE DEF TypeOK, HoldsTask, Row, Scan, CopiesTrue, Reading, Holding
  <1>1. FlagsStay
    BY CancelMonotone
  <1>2. ASSUME UNCHANGED <<view, held, seen>>, pc'[v] \in Reading => pc[v] \in Reading
        PROVE  CopiesTrue(v)'
    BY <1>1, <1>2 DEF FlagsStay
  <1>3. ASSUME NEW t \in Tasks,
               Enqueue(t) \/ CancelRead(t) \/ CancelWrite(t) \/ LeaseOutlived(t) \/ LeaseLapses(t)
        PROVE  CopiesTrue(v)'
    BY <1>2, <1>3 DEF Enqueue, CancelRead, CancelWrite, LeaseOutlived, LeaseLapses
  <1>4. ASSUME NEW w \in Workers, ClaimLock(w) \/ HeartbeatRead(w) \/ HeartbeatWrite(w)
        PROVE  CopiesTrue(v)'
    BY <1>2, <1>4 DEF ClaimLock, HeartbeatRead, HeartbeatWrite
  <1>5. ASSUME NEW w \in Workers, ReconcileRead(w) PROVE CopiesTrue(v)'
    BY <1>5 DEF ReconcileRead
  <1>6. ASSUME NEW w \in Workers, ReconcileWrite(w) PROVE CopiesTrue(v)'
    <2>1. seen'[v].cancelled \subseteq seen[v].cancelled
      BY <1>6 DEF ReconcileWrite, NothingSeen
    <2> QED BY <1>1, <1>6, <2>1 DEF FlagsStay, ReconcileWrite
  <1>7. ASSUME NEW w \in Workers, ClaimCommit(w) PROVE CopiesTrue(v)'
    BY <1>1, <1>7 DEF FlagsStay, ClaimCommit
  <1>8. ASSUME NEW w \in Workers, Begin(w) PROVE CopiesTrue(v)'
    BY <1>1, <1>8 DEF FlagsStay, Begin
  <1>9. ASSUME NEW w \in Workers, HandlerRaises(w) PROVE CopiesTrue(v)'
    BY <1>1, <1>9 DEF FlagsStay, HandlerRaises
  <1>10. ASSUME NEW w \in Workers, FailRead(w) PROVE CopiesTrue(v)'
    <2>1. CASE Owned(row[held[w].task], w)
      BY <1>1, <1>10, <2>1 DEF FlagsStay, FailRead
    <2>2. CASE ~Owned(row[held[w].task], w)
      BY <1>1, <1>10, <2>2 DEF FlagsStay, FailRead, Restart
    <2> QED BY <2>1, <2>2
  <1>11. ASSUME NEW w \in Workers, Finish(w) \/ FailWrite(w) PROVE CopiesTrue(v)'
    BY <1>1, <1>11 DEF FlagsStay, Finish, FailWrite, Restart
  <1>12. ASSUME NEW w \in Workers, Crash(w) PROVE CopiesTrue(v)'
    BY <1>1, <1>12 DEF FlagsStay, Crash, Restart, NothingSeen
  <1>13. CASE UNCHANGED vars
    BY <1>2, <1>13 DEF vars
  <1> QED
    BY <1>3, <1>4, <1>5, <1>6, <1>7, <1>8, <1>9, <1>10, <1>11, <1>12, <1>13
    DEF Next, Recover, Claim, Fail

\* Two claims lock different rows, and what is locked can still be claimed.
LocksDisjoint == \A v, w \in Workers : v # w => locks[v] \cap locks[w] = {}
LockedWaiting == \A w \in Workers : \A t \in locks[w] : row[t].status \in {"queued", "running"}

\* A step keeps the locks it does not take, and writes the status of no
\* locked row but the one its own claim commits.
LocksShrink ==
  /\ \A w \in Workers : locks'[w] \subseteq locks[w]
  /\ \A w \in Workers : \A t \in locks'[w] : row'[t].status = row[t].status

LEMMA OnlyClaimLockLocks ==
  ASSUME TypeOK, HoldsTask, LocksDisjoint, LockedWaiting, [Next]_vars
  PROVE  LocksShrink \/ \E w \in Workers : ClaimLock(w)
  <1> USE DEF TypeOK, Row, LocksShrink
  <1>1. ASSUME NEW t \in Tasks, Enqueue(t) PROVE LocksShrink
    <2>1. \A w \in Workers : \A u \in locks[w] : u \in Tasks /\ u # t
      BY <1>1 DEF Enqueue, LockedWaiting
    <2> QED BY <1>1, <2>1 DEF Enqueue
  <1>2. ASSUME NEW t \in Tasks, CancelWrite(t) PROVE LocksShrink
    BY <1>2 DEF CancelWrite
  <1>3. ASSUME NEW t \in Tasks, Lapse(t), UNCHANGED locks PROVE LocksShrink
    BY <1>3 DEF Lapse
  <1>4. ASSUME NEW w \in Workers, ReconcileWrite(w) PROVE LocksShrink
    <2>1. \A v \in Workers : \A t \in locks[v] : row'[t] = row[t]
      BY <1>4, ReconciledTable DEF ReconcileWrite, Unlocked
    <2> QED BY <1>4, <2>1 DEF ReconcileWrite
  <1>5. ASSUME NEW w \in Workers, ClaimCommit(w) PROVE LocksShrink
    <2>1. PICK t \in locks[w] : row' = [row EXCEPT ![t] = Leased(@, w)]
      BY <1>5 DEF ClaimCommit
    <2>2. locks' = [locks EXCEPT ![w] = {}]
      BY <1>5 DEF ClaimCommit
    <2>3. \A v \in Workers : \A u \in locks'[v] : u \in locks[v] /\ v # w /\ u # t
      BY <2>2 DEF LocksDisjoint
    <2> QED BY <2>1, <2>2, <2>3
  <1>6. ASSUME NEW w \in Workers, HeartbeatWrite(w) PROVE LocksShrink
    BY <1>6 DEF HeartbeatWrite
  <1>7. ASSUME NEW w \in Workers, Finish(w) \/ FailWrite(w) PROVE LocksShrink
    <2>1. held[w].task \in Tasks /\ locks' = locks
      BY <1>7 DEF Finish, FailWrite, HoldsTask, Holding
    <2>2. PICK o \in {"succeeded", "failed"} : Completes(w, o)
      BY <1>7 DEF Finish, FailWrite, Completes
    <2>3. \A v \in Workers : \A t \in locks[v] : row'[t] = row[t]
      BY <2>1, <2>2, CompletedTable DEF Completes, Unlocked
    <2> QED BY <2>1, <2>3
  <1>8. ASSUME NEW w \in Workers, Crash(w) PROVE LocksShrink
    BY <1>8 DEF Crash
  <1>9. CASE UNCHANGED <<row, locks>>
    BY <1>9
  <1> QED
    BY <1>1, <1>2, <1>3, <1>4, <1>5, <1>6, <1>7, <1>8, <1>9
    DEF Next, vars, Recover, Claim, Fail, CancelRead, LeaseOutlived, LeaseLapses,
        ReconcileRead, Begin, HeartbeatRead, HandlerRaises, FailRead

LEMMA LocksNext ==
  TypeOK /\ HoldsTask /\ LocksDisjoint /\ LockedWaiting /\ [Next]_vars
     => (LocksDisjoint /\ LockedWaiting)'
  <1> SUFFICES ASSUME TypeOK, HoldsTask, LocksDisjoint, LockedWaiting, [Next]_vars
               PROVE  (LocksDisjoint /\ LockedWaiting)'
    OBVIOUS
  <1>1. CASE LocksShrink
    BY <1>1 DEF LocksShrink, LocksDisjoint, LockedWaiting
  <1>2. ASSUME NEW w \in Workers, ClaimLock(w) PROVE (LocksDisjoint /\ LockedWaiting)'
    <2>1. row' = row /\ \A t \in locks'[w] : Claimable(t) /\ Unlocked(t)
      BY <1>2 DEF ClaimLock, TypeOK
    <2>2. \A v \in Workers \ {w} : locks'[v] = locks[v]
      BY <1>2 DEF ClaimLock, TypeOK
    <2> QED BY <2>1, <2>2 DEF LocksDisjoint, LockedWaiting, Claimable, Unlocked
  <1> QED BY <1>1, <1>2, OnlyClaimLockLocks

(***************************************************************************)
(* The life cycle                                                          *)
(*                                                                         *)
(* The mapping shows of a row its status, token, cancellation flag and     *)
(* result.  A step that keeps these stutters; each other step is the step  *)
(* of the diagram its comment in TaskQueue names.                          *)
(***************************************************************************)

\* What the diagram shows of the table is unchanged.
Unshown ==
  \A t \in Tasks : /\ row'[t].status = row[t].status /\ row'[t].token = row[t].token
                   /\ row'[t].cancel = row[t].cancel /\ row'[t].result = row[t].result

\* A cancellation that is under way is of a task that exists.
CancellingKnown == \A t \in cancelling : row[t].status # "absent"

LEMMA UnshownStutters == ASSUME Unshown PROVE UNCHANGED Lifecycle!lifecycle
  BY DEF Unshown, Lifecycle!lifecycle

\* The disjuncts of the diagram's next-state relation.
LEMMA TaskStep ==
  ASSUME NEW t \in Tasks,
         \/ Lifecycle!Create(t) \/ Lifecycle!RequestCancel(t) \/ Lifecycle!ClaimTask(t)
         \/ Lifecycle!Complete(t) \/ Lifecycle!ObserveCancel(t)
  PROVE  Lifecycle!Next
  BY Zenon DEF Lifecycle!Next

LEMMA RecoveryStep ==
  ASSUME NEW S \in SUBSET Tasks, Lifecycle!RecoverTasks(S) PROVE Lifecycle!Next
  BY Zenon DEF Lifecycle!Next

\* A commit of recovery, unless a row it read is no longer running, is a step of
\* the diagram: the rows it cancels are to be cancelled.
LEMMA ReconcileRefines ==
  ASSUME TypeOK, NEW w \in Workers, CopiesTrue(w), ReconcileWrite(w), ~StaleRecovery(w)
  PROVE  Lifecycle!Next
  <1>1. PICK S \in SUBSET Tasks : S = seen[w].expired
    BY DEF TypeOK, Scan
  <1> DEFINE C == {t \in S : t \in seen[w].cancelled}
  <1>2. (\A t \in S : row[t].status = "running") /\ (\A t \in C : row[t].cancel)
    BY <1>1 DEF StaleRecovery, CopiesTrue
  <1>3. \A t \in Tasks : /\ row'[t].token = row[t].token /\ row'[t].cancel = row[t].cancel
                         /\ row'[t].result = row[t].result
                         /\ row'[t].status = IF t \in C THEN "cancelled"
                                             ELSE IF t \in S THEN "queued" ELSE row[t].status
    BY <1>1, ReconciledTable
  <1>4. C \subseteq S
    OBVIOUS
  <1> HIDE DEF C
  <1>5. C \in SUBSET {t \in S : [u \in Tasks |-> row[u].cancel][t]}
    BY <1>2, <1>4
  <1>6. Lifecycle!RecoverTasks(S)
    BY <1>2, <1>3, <1>5 DEF Lifecycle!RecoverTasks
  <1> QED BY <1>6, RecoveryStep

\* A commit of a claim claims the task: the rows it locked are still waiting
\* or running, and not cancelled.
LEMMA ClaimRefines ==
  ASSUME TypeOK, LockedWaiting, LockedNotCancelled, NEW w \in Workers, ClaimCommit(w)
  PROVE  Lifecycle!Next
  <1>1. PICK t \in locks[w] : row' = [row EXCEPT ![t] = Leased(@, w)]
    BY DEF ClaimCommit
  <1>2. t \in Tasks /\ row[t].status \in {"queued", "running"} /\ ~row[t].cancel
    BY DEF TypeOK, LockedWaiting, LockedNotCancelled
  <1>3. \A u \in Tasks :
          /\ row'[u].status = IF u = t THEN "running" ELSE row[u].status
          /\ row'[u].token = IF u = t THEN row[u].token + 1 ELSE row[u].token
          /\ row'[u].cancel = row[u].cancel /\ row'[u].result = row[u].result
    BY <1>1 DEF TypeOK, Row, Leased
  <1>4. Lifecycle!ClaimTask(t)
    BY <1>2, <1>3 DEF Lifecycle!ClaimTask
  <1> QED BY <1>2, <1>4, TaskStep

\* A commit of finish or of fail, unless its lease is stale, completes the task,
\* or ends it for its cancellation: a cancellation its copy shows is on the row.
LEMMA CompletionRefines ==
  ASSUME TypeOK, HoldsTask, NEW w \in Workers, CopiesTrue(w),
         Finish(w) \/ FailWrite(w), ~StaleOutcome(w)
  PROVE  Lifecycle!Next
  <1>0. PICK t \in Tasks : t = held[w].task
    BY DEF Finish, FailWrite, HoldsTask, Holding
  <1>1. row[t].status = "running" /\ row[t].token = held[w].token
    BY <1>0 DEF StaleOutcome, Owned
  <1>2. view[w].cancel \in BOOLEAN /\ (view[w].cancel => row[t].cancel)
    BY <1>0 DEF Finish, FailWrite, CopiesTrue, Reading, TypeOK, Row
  <1>3. PICK o \in {"succeeded", "failed"} : Completes(w, o)
    BY DEF Finish, FailWrite, Completes
  <1>4. \A u \in Tasks : /\ row'[u].token = row[u].token /\ row'[u].cancel = row[u].cancel
                         /\ u # t => row'[u].status = row[u].status /\ row'[u].result = row[u].result
    BY <1>0, <1>1, <1>3, CompletedTable
  <1>5. /\ row'[t].status = IF view[w].cancel THEN "cancelled" ELSE o
        /\ row'[t].result \in {row[t].result, row[t].token}
        /\ ~view[w].cancel => row'[t].result = row[t].token
    BY <1>0, <1>1, <1>3, CompletedTable
  <1>6. CASE view[w].cancel
    <2>1. Lifecycle!ObserveCancel(t)
      BY <1>1, <1>2, <1>4, <1>5, <1>6 DEF Lifecycle!ObserveCancel
    <2> QED BY <2>1, TaskStep
  <1>7. CASE ~view[w].cancel
    <2>1. Lifecycle!Complete(t)
      BY <1>1, <1>4, <1>5, <1>7 DEF Lifecycle!Complete, Lifecycle!Outcomes
    <2> QED BY <2>1, TaskStep
  <1> QED BY <1>2, <1>6, <1>7

\* A client's step is the diagram's.
LEMMA ClientRefines ==
  ASSUME TypeOK, NEW t \in Tasks, Enqueue(t) \/ (CancelWrite(t) /\ row[t].status # "absent")
  PROVE  Lifecycle!Next
  <1>1. CASE Enqueue(t)
    <2>1. \A u \in Tasks :
            /\ row'[u].status = IF u = t THEN "queued" ELSE row[u].status
            /\ row'[u].token = row[u].token
            /\ row'[u].cancel = row[u].cancel /\ row'[u].result = row[u].result
      BY <1>1 DEF Enqueue, TypeOK, Row
    <2>2. Lifecycle!Create(t)
      BY <1>1, <2>1 DEF Enqueue, Lifecycle!Create
    <2> QED BY <2>2, TaskStep
  <1>2. CASE CancelWrite(t) /\ row[t].status # "absent"
    <2>1. \A u \in Tasks :
            /\ row'[u].status = row[u].status /\ row'[u].token = row[u].token
            /\ row'[u].cancel = IF u = t THEN TRUE ELSE row[u].cancel
            /\ row'[u].result = row[u].result
      BY <1>2 DEF CancelWrite, TypeOK, Row
    <2>2. Lifecycle!RequestCancel(t)
      BY <1>2, <2>1 DEF Lifecycle!RequestCancel
    <2> QED BY <2>2, TaskStep
  <1> QED BY <1>1, <1>2

LEMMA LifecycleStep ==
  ASSUME TypeOK, HoldsTask, \A w \in Workers : CopiesTrue(w), LockedWaiting,
         LockedNotCancelled, CancellingKnown, Next, ~StaleStep
  PROVE  Lifecycle!Next \/ UNCHANGED Lifecycle!lifecycle
  <1>0. \A w \in Workers : ~StaleOutcome(w) /\ ~StaleRecovery(w)
    BY DEF StaleStep
  <1>1. ASSUME NEW t \in Tasks, Enqueue(t) \/ CancelWrite(t) PROVE Lifecycle!Next
    BY <1>1, ClientRefines DEF CancelWrite, CancellingKnown
  <1>2. ASSUME NEW w \in Workers, ReconcileWrite(w) PROVE Lifecycle!Next
    BY <1>0, <1>2, ReconcileRefines
  <1>3. ASSUME NEW w \in Workers, ClaimCommit(w) PROVE Lifecycle!Next
    BY <1>3, ClaimRefines
  <1>4. ASSUME NEW w \in Workers, Finish(w) \/ FailWrite(w) PROVE Lifecycle!Next
    BY <1>0, <1>4, CompletionRefines
  <1>5. ASSUME NEW t \in Tasks, Lapse(t) PROVE Unshown
    BY <1>5 DEF Lapse, Unshown, TypeOK, Row
  <1>6. ASSUME NEW w \in Workers, HeartbeatWrite(w) PROVE Unshown
    BY <1>6 DEF HeartbeatWrite, Unshown, TypeOK, Row
  <1>7. CASE UNCHANGED row
    BY <1>7, UnshownStutters DEF Unshown
  <1> QED
    BY <1>1, <1>2, <1>3, <1>4, <1>5, <1>6, <1>7, UnshownStutters
    DEF Next, Recover, Claim, Fail, CancelRead, LeaseOutlived, LeaseLapses,
        ReconcileRead, ClaimLock, Begin, HeartbeatRead, HandlerRaises, FailRead, Crash

LEMMA LifecycleInit == Init => Lifecycle!Init
  BY DEF Init, Lifecycle!Init, AbsentRow

\* Tasks whose cancellation is under way exist.
LEMMA CancellingKnownNext ==
  TypeOK /\ HoldsTask /\ CancellingKnown /\ [Next]_vars => CancellingKnown'
  <1> SUFFICES ASSUME TypeOK, HoldsTask, CancellingKnown, [Next]_vars PROVE CancellingKnown'
    OBVIOUS
  <1> USE DEF TypeOK, Row, CancellingKnown
  <1>1. ASSUME NEW t \in Tasks, Enqueue(t) \/ CancelRead(t) \/ CancelWrite(t) \/ Lapse(t),
               cancelling' \subseteq cancelling \cup {t}, CancelRead(t) \/ cancelling' \subseteq cancelling
        PROVE  CancellingKnown'
    BY <1>1 DEF Enqueue, CancelRead, CancelWrite, Lapse
  <1>2. ASSUME NEW w \in Workers, ReconcileWrite(w), cancelling' = cancelling PROVE CancellingKnown'
    BY <1>2, ReconciledTable
  <1>3. ASSUME NEW w \in Workers, ClaimCommit(w) PROVE CancellingKnown'
    BY <1>3 DEF ClaimCommit, Leased
  <1>4. ASSUME NEW w \in Workers, HeartbeatWrite(w) PROVE CancellingKnown'
    BY <1>4 DEF HeartbeatWrite
  <1>5. ASSUME NEW w \in Workers, Finish(w) \/ FailWrite(w) PROVE CancellingKnown'
    <2>1. held[w].task \in Tasks /\ cancelling' = cancelling
      BY <1>5 DEF Finish, FailWrite, HoldsTask, Holding
    <2>2. PICK o \in {"succeeded", "failed"} : Completes(w, o)
      BY <1>5 DEF Finish, FailWrite, Completes
    <2>3. \A t \in Tasks : row'[t].status # row[t].status => row'[t].status # "absent"
      BY <2>1, <2>2, CompletedTable
    <2> QED BY <2>1, <2>3
  <1>6. CASE UNCHANGED <<row, cancelling>>
    BY <1>6
  <1> QED
    BY <1>1, <1>2, <1>3, <1>4, <1>5, <1>6
    DEF Next, vars, Recover, Claim, Fail, Enqueue, CancelRead, CancelWrite, LeaseOutlived, LeaseLapses,
        Lapse, ReconcileRead, ReconcileWrite, ClaimLock, Begin, HeartbeatRead, HandlerRaises, FailRead, Crash

\* For any number of workers, crashes, overrun leases and cancellations at any
\* moment: but for an outcome under a stale lease and a recovery of rows that
\* moved on, the queue follows the state diagram of a task in the architecture
\* document.
THEOREM LifecycleButForRaces == Spec => LifecycleUnlessStale
  <1> DEFINE Copies == \A w \in Workers : CopiesTrue(w)
             Locks == LocksDisjoint /\ LockedWaiting
  <1>1. Init => CancellingKnown /\ LockedNotCancelled /\ Copies /\ Locks
    BY DEF Init, CancellingKnown, LockedNotCancelled, CopiesTrue, Reading, NothingSeen,
           LocksDisjoint, LockedWaiting
  <1>2. TypeOK /\ HoldsTask /\ Copies /\ Locks /\ LockedNotCancelled /\ CancellingKnown /\ [Next]_vars
          => [StaleStep \/ Lifecycle!Next]_(Lifecycle!lifecycle)
    <2>1. ASSUME UNCHANGED vars PROVE UNCHANGED Lifecycle!lifecycle
      BY <2>1, UnshownStutters DEF vars, Unshown
    <2> QED BY <2>1, LifecycleStep
  <1>3. TypeOK /\ HoldsTask /\ Copies /\ [Next]_vars => Copies'
    BY CopiesTrueNext
  <1>4. TypeOK /\ HoldsTask /\ Locks /\ [Next]_vars => Locks'
    BY LocksNext
  <1> HIDE DEF Copies, Locks
  <1> QED
    BY <1>1, <1>2, <1>3, <1>4, LifecycleInit, CancellingKnownNext, LockedNotCancelledNext,
       Typing, PTL
    DEF Spec, LifecycleUnlessStale

(***************************************************************************)
(* Without faults                                                          *)
(*                                                                         *)
(* A lease passes under nobody's hands only, so as long as nothing has     *)
(* failed every lease is live and its holder at work, recovery finds       *)
(* nothing, and a claim finds waiting tasks only.                          *)
(***************************************************************************)

LeasesLive == \A t \in Tasks : row[t].lease # "expired" /\ (row[t].lease = "live" => InHand(t))
HoldersOwn == \A w \in Workers : pc[w] \in Holding =>
                Owned(row[held[w].task], w) /\ row[held[w].task].lease = "live"
NothingToRecover == \A w \in Workers : seen[w].expired = {}
LockedQueued == \A w \in Workers : \A t \in locks[w] : row[t].status = "queued"

Undisturbed == LeasesLive /\ HoldersOwn /\ NothingToRecover /\ LockedQueued

\* A step that moves no worker in or out of a lease and keeps every row's
\* owner, token, lease and status keeps all of it.
LEMMA QuietStep ==
  ASSUME TypeOK, HoldsTask, Undisturbed,
         \A t \in Tasks : /\ row'[t].owner = row[t].owner /\ row'[t].token = row[t].token
                          /\ row'[t].lease = row[t].lease /\ row'[t].status = row[t].status,
         held' = held, \A w \in Workers : pc'[w] \in Holding <=> pc[w] \in Holding,
         \A w \in Workers : seen'[w].expired = {} /\ locks'[w] \subseteq locks[w]
  PROVE  Undisturbed'
  <1> USE DEF TypeOK, HoldsTask, Undisturbed
  <1>1. LeasesLive'
    BY DEF LeasesLive, InHand
  <1>2. HoldersOwn'
    BY DEF HoldersOwn, Owned
  <1>3. NothingToRecover'
    BY DEF NothingToRecover
  <1>4. LockedQueued'
    BY DEF LockedQueued
  <1> QED BY <1>1, <1>2, <1>3, <1>4

\* A step by which worker w gives its lease back, and the row with it.
LEMMA ReturnStep ==
  ASSUME TypeOK, HoldsTask, LeaseExclusive, Undisturbed, NEW w \in Workers, pc[w] \in Holding,
         NEW o, Completes(w, o), Restart(w), UNCHANGED <<seen, locks>>
  PROVE  Undisturbed'
  <1> USE DEF TypeOK, HoldsTask, Undisturbed
  <1>1. PICK t \in Tasks : t = held[w].task
    OBVIOUS
  <1>2. /\ row'[t].lease = "none"
        /\ \A u \in Tasks : u # t => row'[u] = row[u]
    <2>1. row[t] \in Row /\ row' = [row EXCEPT ![t] = Completed(row[t], view[w], w, o)]
      BY <1>1 DEF Completes
    <2>2. Completed(row[t], view[w], w, o).lease = "none"
      BY <2>1 DEF Completed, Row
    <2> QED BY <2>1, <2>2
  <1>3. /\ pc'[w] = "idle" /\ \A v \in Workers \ {w} : pc'[v] = pc[v] /\ held'[v] = held[v]
    BY DEF Restart
  <1>4. \A v \in Workers \ {w} : pc[v] \in Holding => held[v].task # t
    <2> SUFFICES ASSUME NEW v \in Workers \ {w}, pc[v] \in Holding, held[v].task = t PROVE FALSE
      OBVIOUS
    <2>1. row[t].owner = w /\ row[t].owner = v
      BY <1>1 DEF HoldersOwn, Owned
    <2> QED BY <2>1
  <1>5. LeasesLive'
    <2> SUFFICES ASSUME NEW u \in Tasks PROVE row'[u].lease # "expired" /\ (row'[u].lease = "live" => InHand(u)')
      BY DEF LeasesLive
    <2>1. CASE u = t
      BY <1>2, <2>1
    <2>2. CASE u # t
      <3>1. row'[u] = row[u]
        BY <1>2, <2>2
      <3>2. ASSUME row[u].lease = "live" PROVE InHand(u)'
        <4>1. PICK v \in Workers : pc[v] \in Holding /\ held[v] = [task |-> u, token |-> row[u].token]
          BY <3>2 DEF LeasesLive, InHand
        <4>2. v # w
          BY <1>1, <2>2, <4>1
        <4> QED BY <1>3, <3>1, <4>1, <4>2 DEF InHand
      <3> QED BY <3>1, <3>2 DEF LeasesLive
    <2> QED BY <2>1, <2>2
  <1>6. HoldersOwn'
    <2> SUFFICES ASSUME NEW v \in Workers, pc'[v] \in Holding
                 PROVE  Owned(row[held[v].task], v)' /\ row'[held'[v].task].lease = "live"
      BY DEF HoldersOwn
    <2>1. v # w
      BY <1>3 DEF Holding
    <2>2. pc[v] \in Holding /\ held'[v] = held[v] /\ held[v].task # t
      BY <1>3, <1>4, <2>1
    <2>3. row'[held[v].task] = row[held[v].task]
      BY <1>2, <2>2
    <2> QED BY <2>2, <2>3 DEF HoldersOwn, Owned
  <1>7. NothingToRecover'
    BY DEF NothingToRecover
  <1>8. LockedQueued'
    <2>1. \A v \in Workers : \A u \in locks[v] : u \in Tasks /\ u # t
      BY <1>1 DEF Completes, Unlocked
    <2> QED BY <1>2, <2>1 DEF LockedQueued
  <1> QED BY <1>5, <1>6, <1>7, <1>8

\* A claim's commit leases a waiting task, which no worker holds.
LEMMA ClaimStep ==
  ASSUME TypeOK, HoldsTask, LocksDisjoint, Undisturbed, NEW w \in Workers, ClaimCommit(w)
  PROVE  Undisturbed'
  <1> USE DEF TypeOK, HoldsTask, Undisturbed
  <1>1. PICK t \in locks[w] :
          /\ row' = [row EXCEPT ![t] = Leased(@, w)]
          /\ held' = [held EXCEPT ![w] = [task |-> t, token |-> row[t].token + 1]]
    BY DEF ClaimCommit
  <1>2. t \in Tasks /\ row[t].status = "queued" /\ row[t].token + 1 \in Nat
    BY DEF LockedQueued, Row
  <1>3. /\ row'[t].status = "running" /\ row'[t].owner = w /\ row'[t].lease = "live"
        /\ row'[t].token = row[t].token + 1
        /\ \A u \in Tasks : u # t => row'[u] = row[u]
    BY <1>1, <1>2 DEF Leased, Row
  <1>4. /\ pc[w] = "locked" /\ pc'[w] = "claimed"
        /\ held'[w] = [task |-> t, token |-> row[t].token + 1]
        /\ \A v \in Workers \ {w} : pc'[v] = pc[v] /\ held'[v] = held[v]
    BY <1>1 DEF ClaimCommit
  <1>5. \A v \in Workers \ {w} : pc[v] \in Holding => held[v].task # t
    BY <1>2 DEF HoldersOwn, Owned
  <1>6. LeasesLive'
    <2> SUFFICES ASSUME NEW u \in Tasks PROVE row'[u].lease # "expired" /\ (row'[u].lease = "live" => InHand(u)')
      BY DEF LeasesLive
    <2>1. CASE u = t
      BY <1>3, <1>4, <2>1 DEF InHand, Holding
    <2>2. CASE u # t
      <3>1. row'[u] = row[u]
        BY <1>3, <2>2
      <3>2. ASSUME row[u].lease = "live" PROVE InHand(u)'
        <4>1. PICK v \in Workers : pc[v] \in Holding /\ held[v] = [task |-> u, token |-> row[u].token]
          BY <3>2 DEF LeasesLive, InHand
        <4>2. v # w
          BY <1>4, <4>1 DEF Holding
        <4> QED BY <1>4, <3>1, <4>1, <4>2 DEF InHand
      <3> QED BY <3>1, <3>2 DEF LeasesLive
    <2> QED BY <2>1, <2>2
  <1>7. HoldersOwn'
    <2> SUFFICES ASSUME NEW v \in Workers, pc'[v] \in Holding
                 PROVE  Owned(row[held[v].task], v)' /\ row'[held'[v].task].lease = "live"
      BY DEF HoldersOwn
    <2>1. CASE v = w
      BY <1>3, <1>4, <2>1 DEF Owned
    <2>2. CASE v # w
      <3>1. pc[v] \in Holding /\ held'[v] = held[v] /\ held[v].task # t
        BY <1>4, <1>5, <2>2
      <3>2. row'[held[v].task] = row[held[v].task]
        BY <1>3, <3>1
      <3> QED BY <3>1, <3>2 DEF HoldersOwn, Owned
    <2> QED BY <2>1, <2>2
  <1>8. NothingToRecover'
    BY DEF NothingToRecover, ClaimCommit
  <1>9. LockedQueued'
    <2>1. \A v \in Workers : \A u \in locks'[v] : u \in Tasks /\ u \in locks[v] /\ u # t
      BY DEF ClaimCommit, LocksDisjoint
    <2> QED BY <1>3, <2>1 DEF LockedQueued
  <1> QED BY <1>6, <1>7, <1>8, <1>9

LEMMA UndisturbedNext ==
  ASSUME TypeOK, HoldsTask, LeaseExclusive, RunningIsRecoverable, LocksDisjoint, LockedWaiting,
         faults = 0 => Undisturbed, [Next]_vars
  PROVE  (faults = 0 => Undisturbed)'
  <1> SUFFICES ASSUME faults' = 0, [Next]_vars PROVE Undisturbed'
    OBVIOUS
  <1>0. faults = 0 /\ faults' = faults /\ Undisturbed
    <2> DEFINE Counts == faults' = faults \/ faults' = faults + 1
    <2>1. ASSUME NEW t \in Tasks,
                 Enqueue(t) \/ CancelRead(t) \/ CancelWrite(t) \/ LeaseOutlived(t) \/ LeaseLapses(t)
          PROVE  Counts
      BY <2>1, Zenon DEF Enqueue, CancelRead, CancelWrite, LeaseOutlived, LeaseLapses
    <2>2. ASSUME NEW w \in Workers, Recover(w) \/ Claim(w) \/ Begin(w) \/ HeartbeatRead(w) \/ HeartbeatWrite(w)
          PROVE  Counts
      BY <2>2, Zenon DEF Recover, Claim, ReconcileRead, ReconcileWrite, ClaimLock, ClaimCommit, Begin,
                         HeartbeatRead, HeartbeatWrite
    <2>3. ASSUME NEW w \in Workers, Finish(w) \/ HandlerRaises(w) \/ Fail(w) \/ Crash(w)
          PROVE  Counts
      BY <2>3, Zenon DEF Fail, Finish, HandlerRaises, FailRead, FailWrite, Crash
    <2>4. CASE UNCHANGED vars
      BY <2>4 DEF vars
    <2>5. Counts
      BY <2>1, <2>2, <2>3, <2>4, Zenon DEF Next
    <2>6. faults \in Nat
      BY DEF TypeOK
    <2> QED BY <2>5, <2>6
  <1> USE <1>0 DEF TypeOK, HoldsTask, Row, Undisturbed
  <1>1. ASSUME NEW t \in Tasks, Enqueue(t) PROVE Undisturbed'
    <2>1. \A w \in Workers : pc[w] \in Holding => held[w].task # t
      BY <1>1 DEF Enqueue, HoldersOwn, Owned
    <2>2. LeasesLive'
      BY <1>1 DEF Enqueue, LeasesLive, InHand
    <2>3. HoldersOwn'
      BY <1>1, <2>1 DEF Enqueue, HoldersOwn, Owned
    <2>4. NothingToRecover' /\ LockedQueued'
      BY <1>1 DEF Enqueue, NothingToRecover, LockedQueued
    <2> QED BY <2>2, <2>3, <2>4
  <1>2. ASSUME NEW t \in Tasks, CancelRead(t) PROVE Undisturbed'
    BY <1>2, QuietStep DEF CancelRead, NothingToRecover
  <1>3. ASSUME NEW t \in Tasks, CancelWrite(t) PROVE Undisturbed'
    BY <1>3, QuietStep DEF CancelWrite, NothingToRecover
  <1>4. ASSUME NEW t \in Tasks, LeaseOutlived(t) \/ LeaseLapses(t) PROVE Undisturbed'
    BY <1>4 DEF LeaseOutlived, LeaseLapses, LeasesLive
  <1>5. ASSUME NEW w \in Workers, ReconcileRead(w) PROVE Undisturbed'
    <2>1. \A v \in Workers : seen'[v].expired = {}
      BY <1>5 DEF ReconcileRead, NothingToRecover, LeasesLive
    <2>2. \A v \in Workers : pc'[v] \in Holding <=> pc[v] \in Holding
      BY <1>5 DEF ReconcileRead, Holding
    <2> QED BY <1>5, <2>1, <2>2, QuietStep DEF ReconcileRead
  <1>6. ASSUME NEW w \in Workers, ReconcileWrite(w) PROVE Undisturbed'
    <2>1. \A v \in Workers : seen'[v].expired = {}
      BY <1>6 DEF ReconcileWrite, NothingToRecover, NothingSeen
    <2>2. \A v \in Workers : pc'[v] \in Holding <=> pc[v] \in Holding
      BY <1>6 DEF ReconcileWrite, Holding
    <2>3. \A t \in Tasks : row'[t] = row[t]
      BY <1>6 DEF ReconcileWrite, NothingToRecover
    <2> QED BY <1>6, <2>1, <2>2, <2>3, QuietStep DEF ReconcileWrite
  <1>7. ASSUME NEW w \in Workers, ClaimLock(w) PROVE Undisturbed'
    <2>1. row' = row /\ held' = held /\ seen' = seen
      BY <1>7 DEF ClaimLock
    <2>2. \A v \in Workers : pc'[v] \in Holding <=> pc[v] \in Holding
      BY <1>7 DEF ClaimLock, Holding
    <2>3. LockedQueued'
      <3>1. \A t \in locks'[w] : t \in Tasks /\ Claimable(t)
        BY <1>7 DEF ClaimLock
      <3>2. \A t \in Tasks : Claimable(t) => row[t].status = "queued"
        BY DEF Claimable, RunningIsRecoverable, LeasesLive, Lease
      <3>3. \A v \in Workers \ {w} : locks'[v] = locks[v]
        BY <1>7 DEF ClaimLock
      <3> QED BY <2>1, <3>1, <3>2, <3>3 DEF LockedQueued
    <2>4. LeasesLive'
      BY <2>1, <2>2 DEF LeasesLive, InHand
    <2>5. HoldersOwn'
      BY <2>1, <2>2 DEF HoldersOwn, Owned
    <2> QED BY <2>1, <2>3, <2>4, <2>5 DEF NothingToRecover
  <1>8. ASSUME NEW w \in Workers, ClaimCommit(w) PROVE Undisturbed'
    BY <1>8, ClaimStep
  <1>9. ASSUME NEW w \in Workers, Begin(w) \/ HeartbeatRead(w) \/ HandlerRaises(w) PROVE Undisturbed'
    <2>1. \A v \in Workers : pc'[v] \in Holding <=> pc[v] \in Holding
      BY <1>9 DEF Begin, HeartbeatRead, HandlerRaises, Holding
    <2>2. row' = row /\ held' = held /\ seen' = seen /\ locks' = locks
      BY <1>9 DEF Begin, HeartbeatRead, HandlerRaises
    <2> QED BY <2>1, <2>2, QuietStep DEF NothingToRecover
  <1>10. ASSUME NEW w \in Workers, HeartbeatWrite(w) PROVE Undisturbed'
    <2>1. pc[w] \in Holding /\ row[held[w].task].lease = "live"
      BY <1>10 DEF HeartbeatWrite, HoldersOwn, Holding
    <2>2. \A t \in Tasks : /\ row'[t].owner = row[t].owner /\ row'[t].token = row[t].token
                           /\ row'[t].lease = row[t].lease /\ row'[t].status = row[t].status
      BY <1>10, <2>1 DEF HeartbeatWrite
    <2>3. \A v \in Workers : pc'[v] \in Holding <=> pc[v] \in Holding
      BY <1>10 DEF HeartbeatWrite, Holding
    <2> QED BY <1>10, <2>2, <2>3, QuietStep DEF HeartbeatWrite, NothingToRecover
  <1>11. ASSUME NEW w \in Workers, FailRead(w) PROVE Undisturbed'
    <2>1. pc[w] \in Holding /\ Owned(row[held[w].task], w)
      BY <1>11 DEF FailRead, HoldersOwn, Holding
    <2>2. \A v \in Workers : pc'[v] \in Holding <=> pc[v] \in Holding
      BY <1>11, <2>1 DEF FailRead, Holding
    <2>3. row' = row /\ held' = held /\ seen' = seen /\ locks' = locks
      BY <1>11, <2>1 DEF FailRead
    <2> QED BY <2>2, <2>3, QuietStep DEF NothingToRecover
  <1>12. ASSUME NEW w \in Workers, Finish(w) \/ FailWrite(w) PROVE Undisturbed'
    <2>1. PICK o \in {"succeeded", "failed"} : Completes(w, o)
      BY <1>12 DEF Finish, FailWrite, Completes
    <2>2. pc[w] \in Holding /\ Restart(w) /\ UNCHANGED <<seen, locks>>
      BY <1>12 DEF Finish, FailWrite, Holding
    <2> QED BY <2>1, <2>2, ReturnStep
  <1>13. ASSUME NEW w \in Workers, Crash(w) PROVE Undisturbed'
    BY <1>13 DEF Crash
  <1>14. CASE UNCHANGED vars
    BY <1>14, QuietStep DEF vars, NothingToRecover
  <1> QED
    BY <1>1, <1>2, <1>3, <1>4, <1>5, <1>6, <1>7, <1>8, <1>9, <1>10, <1>11, <1>12, <1>13, <1>14
    DEF Next, Recover, Claim, Fail

\* No number of workers, claims and cancellations makes a stale step before the
\* first crash or overrun lease: the read of recovery and the one of finish are
\* then never out of date.
THEOREM NoRaceWithoutFault == Spec => StaleNeedsFault
  <1> DEFINE Locks == LocksDisjoint /\ LockedWaiting
             Inv == faults = 0 => Undisturbed
  <1>1. Init => Inv /\ Locks
    BY DEF Init, Undisturbed, LeasesLive, HoldersOwn, NothingToRecover, LockedQueued, Holding,
           AbsentRow, NothingSeen, LocksDisjoint, LockedWaiting
  <1>2. TypeOK /\ HoldsTask /\ LeaseExclusive /\ RunningIsRecoverable /\ Locks /\ Inv /\ [Next]_vars
          => Inv'
    BY UndisturbedNext
  <1>3. TypeOK /\ HoldsTask /\ Locks /\ [Next]_vars => Locks'
    BY LocksNext
  <1>4. TypeOK /\ Inv => [StaleStep => faults > 0]_vars
    <2> SUFFICES ASSUME TypeOK, Inv, NEW w \in Workers, StaleOutcome(w) \/ StaleRecovery(w)
                 PROVE  faults > 0
      BY DEF StaleStep
    <2> SUFFICES ASSUME faults = 0 PROVE FALSE
      BY DEF TypeOK
    <2>1. CASE StaleOutcome(w)
      BY <2>1 DEF StaleOutcome, Finish, FailWrite, Undisturbed, HoldersOwn, Holding
    <2>2. CASE StaleRecovery(w)
      BY <2>2 DEF StaleRecovery, Undisturbed, NothingToRecover
    <2> QED BY <2>1, <2>2
  <1> HIDE DEF Inv, Locks
  <1> QED
    BY <1>1, <1>2, <1>3, <1>4, Typing, LeasesAreExclusive, RunningRowsRecoverable, PTL
    DEF Spec, StaleNeedsFault
=============================================================================
