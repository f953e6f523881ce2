---------------------------- MODULE TaskLifecycle ----------------------------
(***************************************************************************)
(* What the task queue promises, without workers, sessions or leases: the  *)
(* state diagram of a durable task in the architecture document.  A task   *)
(* is claimed any number of times; its outcome is written by the process   *)
(* that made the latest claim, once, and then it stays; a cancellation     *)
(* that has been requested stops all further claims.                       *)
(***************************************************************************)
EXTENDS Integers

CONSTANT Tasks

VARIABLES status,     \* the diagram's state of each task
          claims,     \* how often it was claimed
          cancel,     \* whether its cancellation was requested
          outcome     \* the claim that wrote its result or error, 0 if none

lifecycle == <<status, claims, cancel, outcome>>

Outcomes == {"succeeded", "failed"}

Init ==
  /\ status = [t \in Tasks |-> "absent"]
  /\ claims = [t \in Tasks |-> 0]
  /\ cancel = [t \in Tasks |-> FALSE]
  /\ outcome = [t \in Tasks |-> 0]

Create(t) ==
  /\ status[t] = "absent"
  /\ status' = [status EXCEPT ![t] = "queued"]
  /\ UNCHANGED <<claims, cancel, outcome>>

RequestCancel(t) ==
  /\ status[t] # "absent"
  /\ cancel' = [cancel EXCEPT ![t] = TRUE]
  /\ UNCHANGED <<status, claims, outcome>>

\* A worker claims the lease; of a running task, after its lease expired.
ClaimTask(t) ==
  /\ status[t] \in {"queued", "running"}
  /\ ~cancel[t]
  /\ status' = [status EXCEPT ![t] = "running"]
  /\ claims' = [claims EXCEPT ![t] = @ + 1]
  /\ UNCHANGED <<cancel, outcome>>

\* The fenced commit of a result or an error.
Complete(t) ==
  /\ status[t] = "running"
  /\ \E s \in Outcomes : status' = [status EXCEPT ![t] = s]
  /\ outcome' = [outcome EXCEPT ![t] = claims[t]]
  /\ UNCHANGED <<claims, cancel>>

\* The worker stops because of the cancellation; an error it met on the way
\* may be on record.
ObserveCancel(t) ==
  /\ status[t] = "running"
  /\ cancel[t]
  /\ status' = [status EXCEPT ![t] = "cancelled"]
  /\ outcome' \in {outcome, [outcome EXCEPT ![t] = claims[t]]}
  /\ UNCHANGED <<claims, cancel>>

\* Recovery requeues interrupted tasks, or ends those to be cancelled.
RecoverTasks(S) ==
  /\ \A t \in S : status[t] = "running"
  /\ \E C \in SUBSET {t \in S : cancel[t]} :
       status' = [t \in Tasks |-> IF t \in C THEN "cancelled"
                                  ELSE IF t \in S THEN "queued" ELSE status[t]]
  /\ UNCHANGED <<claims, cancel, outcome>>

Next ==
  \/ \E t \in Tasks : \/ Create(t) \/ RequestCancel(t) \/ ClaimTask(t)
                      \/ Complete(t) \/ ObserveCancel(t)
  \/ \E S \in SUBSET Tasks : RecoverTasks(S)

Spec == Init /\ [][Next]_lifecycle
=============================================================================
