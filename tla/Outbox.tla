------------------------------- MODULE Outbox --------------------------------
(***************************************************************************)
(* The transactional outbox: tasks/outbox.py and tasks/projections.py.     *)
(*                                                                         *)
(* Events are stored by the review transactions.  Workers call             *)
(* process_events: one transaction leases a batch, then each event of the  *)
(* batch gets a session of its own that loads it, runs the handler and     *)
(* marks it processed.  Projectors call claim_projection and               *)
(* apply_projection, in one transaction that keeps the row locked.         *)
(*                                                                         *)
(* Handlers are external: what is kept of one is that it took effect.      *)
(***************************************************************************)
EXTENDS Integers, FiniteSets

CONSTANTS Events,      \* event ids, numbered in the order of created_at
          Workers,     \* owners that call process_events
          Projectors,  \* owners that call claim_projection
          None,        \* SQL NULL in claimed_by
          Limit,       \* the limit of process_events
          MaxFaults    \* bound on crashes, failing handlers and overrun leases

ASSUME OutboxAssumption ==
  /\ Events \subseteq Nat /\ IsFiniteSet(Events)
  /\ Workers \cap Projectors = {}
  /\ None \notin Workers \cup Projectors
  /\ Limit \in Nat \ {0} /\ MaxFaults \in Nat

Owners == Workers \cup Projectors

VARIABLES event,    \* the outbox_events table
          pc,       \* where each owner is
          batch,    \* the ids each worker has left, a projector's one event
          locked,   \* events a projector has locked FOR UPDATE
          effects,  \* how often the handler took effect for each event
          audit,    \* the "outbox.applied" audit events
          faults    \* crashes, failing handlers and overrun leases so far

vars == <<event, pc, batch, locked, effects, audit, faults>>

Lease == {"none", "live", "expired"}

Row == [stored : BOOLEAN, by : Owners \cup {None}, lease : Lease, processed : BOOLEAN]

Init ==
  /\ event = [e \in Events |->
       [stored |-> FALSE, by |-> None, lease |-> "none", processed |-> FALSE]]
  /\ pc = [o \in Owners |-> "idle"]
  /\ batch = [o \in Owners |-> {}]
  /\ locked = {}
  /\ effects = [e \in Events |-> 0]
  /\ audit = {}
  /\ faults = 0

\* The first of a set of events, in the order in which they were created.
IsFirst(e, S) == e \in S /\ \A f \in S : e <= f

\* _transition adds the event to its transaction.
Store(e) ==
  /\ ~event[e].stored
  /\ event' = [event EXCEPT ![e].stored = TRUE]
  /\ UNCHANGED <<pc, batch, locked, effects, audit, faults>>

(***************************************************************************)
(* process_events                                                          *)
(***************************************************************************)

Pending(e) == event[e].stored /\ ~event[e].processed /\ e \notin locked

\* Faulty variants of Claimable: without the lease filter, without the clause
\* for leases that have passed.
ClaimableLeased(e) == Pending(e)
ClaimableUnclaimed(e) == Pending(e) /\ event[e].lease = "none"

Claimable(e) == Pending(e) /\ event[e].lease # "live"

\* claim_events leases the first Limit claimable rows and commits.  The rows
\* are locked FOR UPDATE SKIP LOCKED from the SELECT to the commit, so no
\* other claim comes between: one step.
ClaimEvents(w) ==
  /\ pc[w] = "idle"
  /\ LET claimable == {e \in Events : Claimable(e)}
     IN \E S \in SUBSET claimable :
          /\ S # {}
          /\ Cardinality(S) = Limit \/ (S = claimable /\ Cardinality(S) < Limit)
          /\ \A e \in S, f \in claimable \ S : e < f
          /\ batch' = [batch EXCEPT ![w] = S]
          /\ event' = [e \in Events |->
               IF e \in S THEN [event[e] EXCEPT !.by = w, !.lease = "live"] ELSE event[e]]
  /\ pc' = [pc EXCEPT ![w] = "draining"]
  /\ UNCHANGED <<locked, effects, audit, faults>>

\* The rest of the batch, or none of it after an exception.
Continue(o, rest) ==
  /\ batch' = [batch EXCEPT ![o] = rest]
  /\ pc' = [pc EXCEPT ![o] = IF rest = {} THEN "idle" ELSE "draining"]

\* A session loads the next event.  One that is already processed is skipped;
\* one that another owner has claimed raises, which abandons the batch.
Load(w) ==
  /\ pc[w] = "draining"
  /\ \E e \in batch[w] :
       /\ IsFirst(e, batch[w])
       /\ \/ event[e].processed /\ Continue(w, batch[w] \ {e})
          \/ ~event[e].processed /\ event[e].by # w /\ Continue(w, {})
          \/ /\ ~event[e].processed /\ event[e].by = w
             /\ pc' = [pc EXCEPT ![w] = "applying"]
             /\ UNCHANGED batch
  /\ UNCHANGED <<event, locked, effects, audit, faults>>

\* A faulty Apply that marks the event before its handler has run.
ApplyAfterMark(w) ==
  /\ pc[w] = "applying"
  /\ \E e \in batch[w] :
       /\ IsFirst(e, batch[w])
       /\ event' = [event EXCEPT ![e].processed = TRUE]
  /\ pc' = [pc EXCEPT ![w] = "applied"]
  /\ UNCHANGED <<batch, locked, effects, audit, faults>>

\* The handler takes effect, outside the database.
Apply(w) ==
  /\ pc[w] = "applying"
  /\ \E e \in batch[w] :
       /\ IsFirst(e, batch[w])
       /\ effects' = [effects EXCEPT ![e] = @ + 1]
  /\ pc' = [pc EXCEPT ![w] = "applied"]
  /\ UNCHANGED <<event, batch, locked, audit, faults>>

\* The commit marks the row processed and clears its lease by primary key; the
\* owner was checked on the copy that Load made.
Complete(w) ==
  /\ pc[w] = "applied"
  /\ \E e \in batch[w] :
       /\ IsFirst(e, batch[w])
       /\ e \notin locked
       /\ event' = [event EXCEPT ![e].processed = TRUE, ![e].lease = "none"]
       /\ Continue(w, batch[w] \ {e})
  /\ UNCHANGED <<locked, effects, audit, faults>>

(***************************************************************************)
(* claim_projection and apply_projection                                   *)
(***************************************************************************)

\* claim_projection: the row is locked FOR UPDATE until the transaction ends.
ClaimProjection(p, e) ==
  /\ pc[p] = "idle"
  /\ Pending(e)
  /\ event[e].by \in {None, p}
  /\ locked' = locked \cup {e}
  /\ batch' = [batch EXCEPT ![p] = {e}]
  /\ pc' = [pc EXCEPT ![p] = "applying"]
  /\ UNCHANGED <<event, effects, audit, faults>>

\* apply_projection runs the handler, if the caller supplied one ...
ApplyProjection(p) ==
  /\ pc[p] = "applying"
  /\ \E e \in batch[p], handled \in BOOLEAN :
       /\ effects' = [effects EXCEPT ![e] = IF handled THEN @ + 1 ELSE @]
       /\ pc' = [pc EXCEPT ![p] = IF handled THEN "applied" ELSE "unhandled"]
  /\ UNCHANGED <<event, batch, locked, audit, faults>>

\* ... and its transaction commits claim, completion and audit event together.
CommitProjection(p) ==
  /\ pc[p] \in {"applied", "unhandled"}
  /\ \E e \in batch[p] :
       /\ event' = [event EXCEPT ![e].by = p, ![e].processed = TRUE, ![e].lease = "none"]
       /\ audit' = audit \cup {[event |-> e, handler |-> pc[p] = "applied"]}
       /\ locked' = locked \ {e}
  /\ Continue(p, {})
  /\ UNCHANGED <<effects, faults>>

(***************************************************************************)
(* The environment                                                         *)
(***************************************************************************)

\* A handler raises or the process dies, before or after the handler took
\* effect: an open transaction rolls back, the batch is abandoned, and the
\* leases of its events stay.
Fault(o) ==
  /\ pc[o] # "idle"
  /\ faults < MaxFaults
  /\ faults' = faults + 1
  /\ Continue(o, {})
  /\ locked' = IF o \in Projectors THEN locked \ batch[o] ELSE locked
  /\ UNCHANGED <<event, effects, audit>>

InHand(e) == \E w \in Workers : e \in batch[w] /\ event[e].by = w

Lapse(e) == event' = [event EXCEPT ![e].lease = "expired"]

\* The clock passes claimed_until while the claimer still works on its batch.
LeaseOutlived(e) ==
  /\ event[e].lease = "live" /\ InHand(e)
  /\ faults < MaxFaults
  /\ faults' = faults + 1
  /\ Lapse(e)
  /\ UNCHANGED <<pc, batch, locked, effects, audit>>

\* The clock passes claimed_until of an abandoned claim.
LeaseLapses(e) ==
  /\ event[e].lease = "live" /\ ~InHand(e)
  /\ Lapse(e)
  /\ UNCHANGED <<pc, batch, locked, effects, audit, faults>>

Next ==
  \/ \E e \in Events : Store(e) \/ LeaseOutlived(e) \/ LeaseLapses(e)
  \/ \E w \in Workers : ClaimEvents(w) \/ Load(w) \/ Apply(w) \/ Complete(w)
  \/ \E p \in Projectors : \/ \E e \in Events : ClaimProjection(p, e)
                           \/ ApplyProjection(p) \/ CommitProjection(p)
  \/ \E o \in Owners : Fault(o)

Spec == Init /\ [][Next]_vars

\* process_events is called again and again, its steps and those of a
\* projection in progress go on, and a lease that nobody renews passes.
Fairness ==
  /\ \A w \in Workers :
       WF_vars(ClaimEvents(w)) /\ WF_vars(Load(w) \/ Apply(w) \/ Complete(w))
  /\ \A p \in Projectors : WF_vars(ApplyProjection(p) \/ CommitProjection(p))
  /\ \A e \in Events : WF_vars(LeaseLapses(e))

FairSpec == Spec /\ Fairness

(***************************************************************************)
(* Properties                                                              *)
(***************************************************************************)

TypeOK ==
  /\ event \in [Events -> Row]
  /\ pc \in [Owners -> {"idle", "draining", "applying", "applied", "unhandled"}]
  /\ batch \in [Owners -> SUBSET Events]
  /\ locked \subseteq Events
  /\ effects \in [Events -> Nat]
  /\ audit \subseteq [event : Events, handler : BOOLEAN]
  /\ faults \in 0 .. MaxFaults

\* Duplicates are the price of faults only: each effect of an event beyond the
\* first goes back to a crash, a failing handler or a lease that ran out under
\* a handler; a batch and a projection never both apply an event otherwise.
DuplicatesNeedFaults == \A e \in Events : effects[e] <= 1 + faults

\* No event is marked processed without its handler having taken effect, or an
\* audit event that says there was no handler.
ProcessedIsAccounted ==
  \A e \in Events : event[e].processed =>
    effects[e] > 0 \/ [event |-> e, handler |-> FALSE] \in audit

\* A crash, a failure or a lost lease delays an event but loses none: with
\* finitely many faults every stored event is processed.
EveryEventProcessed == \A e \in Events : event[e].stored ~> event[e].processed
=============================================================================
