---------------------------- MODULE OutboxProofs -----------------------------
(***************************************************************************)
(* The outbox for any number of events, workers, projectors and faults.    *)
(***************************************************************************)
EXTENDS Outbox, FiniteSetTheorems, TLAPS

\* An owner that is past its handler works on an event that the handler took
\* effect for, and a projector works on one event at a time.
Ready ==
  /\ \A o \in Owners : \A e \in batch[o] :
       pc[o] = "applied" /\ IsFirst(e, batch[o]) => effects[e] > 0
  /\ \A p \in Projectors : \A e, f \in batch[p] : e = f

OutboxInv == TypeOK /\ Ready /\ ProcessedIsAccounted

\* The empty tables have their types.
LEMMA InitTyped == Init => TypeOK
BY OutboxAssumption DEF Init, TypeOK, Row, Lease, Owners

\* Every step of the outbox keeps the types of its variables.
LEMMA NextTyped == TypeOK /\ [Next]_vars => TypeOK'
<1> SUFFICES ASSUME TypeOK, [Next]_vars PROVE TypeOK'
  OBVIOUS
<1> USE OutboxAssumption DEF TypeOK
<1>1. \A e \in Events : event[e] \in Row  OBVIOUS
<1>a. Workers \subseteq Owners /\ Projectors \subseteq Owners  BY DEF Owners
<1>b. \A o \in Owners : batch[o] \in SUBSET Events  OBVIOUS
<1>2. ASSUME NEW e \in Events, Store(e) PROVE TypeOK'
  BY <1>2 DEF Store, Row
<1>3. ASSUME NEW e \in Events, LeaseOutlived(e) PROVE TypeOK'
  BY <1>3 DEF LeaseOutlived, Lapse, Row, Lease
<1>4. ASSUME NEW e \in Events, LeaseLapses(e) PROVE TypeOK'
  BY <1>4 DEF LeaseLapses, Lapse, Row, Lease
<1>5. ASSUME NEW w \in Workers, ClaimEvents(w) PROVE TypeOK'
  <2>1. PICK S \in SUBSET Events :
          /\ batch' = [batch EXCEPT ![w] = S]
          /\ event' = [e \in Events |->
               IF e \in S THEN [event[e] EXCEPT !.by = w, !.lease = "live"] ELSE event[e]]
    BY <1>5 DEF ClaimEvents
  <2>2. event' \in [Events -> Row]  BY <2>1, <1>1 DEF Row, Lease, Owners
  <2>3. batch' \in [Owners -> SUBSET Events]  BY <2>1
  <2> QED  BY <1>5, <2>2, <2>3 DEF ClaimEvents
<1>6. ASSUME NEW w \in Workers, Load(w) PROVE TypeOK'
  <2>1. /\ pc' \in [Owners -> {"idle", "draining", "applying", "applied", "unhandled"}]
        /\ batch' \in [Owners -> SUBSET Events]
    BY <1>6 DEF Load, Continue
  <2> QED  BY <1>6, <2>1 DEF Load
<1>7. ASSUME NEW w \in Workers, Apply(w) PROVE TypeOK'
  <2>1. PICK e \in Events : effects' = [effects EXCEPT ![e] = @ + 1]
    BY <1>7, <1>a, <1>b DEF Apply
  <2>2. effects' \in [Events -> Nat]  BY <2>1
  <2>3. pc' \in [Owners -> {"idle", "draining", "applying", "applied", "unhandled"}]
    BY <1>7 DEF Apply
  <2> QED  BY <1>7, <2>2, <2>3 DEF Apply
<1>8. ASSUME NEW w \in Workers, Complete(w) PROVE TypeOK'
  <2>1. PICK e \in Events :
          /\ event' = [event EXCEPT ![e].processed = TRUE, ![e].lease = "none"]
          /\ Continue(w, batch[w] \ {e})
    BY <1>8 DEF Complete, Owners
  <2>2. event' \in [Events -> Row]
    <3> DEFINE written == [event[e] EXCEPT !.processed = TRUE, !.lease = "none"]
    <3>1. written \in Row  BY <1>1 DEF Row, Lease
    <3>2. event' = [event EXCEPT ![e] = written]  BY <2>1
    <3> HIDE DEF written
    <3> QED  BY <3>1, <3>2
  <2>3. /\ pc' \in [Owners -> {"idle", "draining", "applying", "applied", "unhandled"}]
        /\ batch' \in [Owners -> SUBSET Events]
    BY <2>1 DEF Continue, Owners
  <2> QED  BY <1>8, <2>2, <2>3 DEF Complete
<1>9. ASSUME NEW p \in Projectors, NEW e \in Events, ClaimProjection(p, e) PROVE TypeOK'
  BY <1>9 DEF ClaimProjection
<1>10. ASSUME NEW p \in Projectors, ApplyProjection(p) PROVE TypeOK'
  <2>1. PICK e \in Events, handled \in BOOLEAN :
          /\ effects' = [effects EXCEPT ![e] = IF handled THEN @ + 1 ELSE @]
          /\ pc' = [pc EXCEPT ![p] = IF handled THEN "applied" ELSE "unhandled"]
    BY <1>10, <1>a, <1>b DEF ApplyProjection
  <2>2. effects' \in [Events -> Nat]  BY <2>1
  <2>3. pc' \in [Owners -> {"idle", "draining", "applying", "applied", "unhandled"}]
    BY <2>1
  <2> QED  BY <1>10, <2>2, <2>3 DEF ApplyProjection
<1>11. ASSUME NEW p \in Projectors, CommitProjection(p) PROVE TypeOK'
  <2>1. PICK e \in Events :
          /\ event' = [event EXCEPT ![e].by = p, ![e].processed = TRUE, ![e].lease = "none"]
          /\ audit' = audit \cup {[event |-> e, handler |-> pc[p] = "applied"]}
          /\ locked' = locked \ {e}
    BY <1>11, <1>a, <1>b DEF CommitProjection
  <2>2. event' \in [Events -> Row]
    <3> DEFINE written == [event[e] EXCEPT !.by = p, !.processed = TRUE, !.lease = "none"]
    <3>1. written \in Row  BY <1>1, <1>a DEF Row, Lease
    <3>2. event' = [event EXCEPT ![e] = written]  BY <2>1
    <3> HIDE DEF written
    <3> QED  BY <3>1, <3>2
  <2>3. /\ pc' \in [Owners -> {"idle", "draining", "applying", "applied", "unhandled"}]
        /\ batch' \in [Owners -> SUBSET Events]
    BY <1>11 DEF CommitProjection, Continue
  <2>4. [event |-> e, handler |-> pc[p] = "applied"] \in [event : Events, handler : BOOLEAN]
    <3>1. (pc[p] = "applied") \in BOOLEAN  OBVIOUS
    <3> QED  BY <3>1
  <2>5. audit' \subseteq [event : Events, handler : BOOLEAN] /\ locked' \subseteq Events
    BY <2>1, <2>4
  <2> QED  BY <1>11, <2>2, <2>3, <2>5 DEF CommitProjection
<1>12. ASSUME NEW o \in Owners, Fault(o) PROVE TypeOK'
  <2>1. /\ pc' \in [Owners -> {"idle", "draining", "applying", "applied", "unhandled"}]
        /\ batch' \in [Owners -> SUBSET Events]
    <3>1. Continue(o, {})  BY <1>12 DEF Fault
    <3>2. /\ pc' = [pc EXCEPT ![o] = "idle"]
          /\ batch' = [batch EXCEPT ![o] = {}]
      BY <3>1 DEF Continue
    <3> QED  BY <3>2
  <2>2. locked' \subseteq Events  BY <1>12 DEF Fault
  <2>3. faults' \in 0 .. MaxFaults  BY <1>12 DEF Fault
  <2> QED  BY <1>12, <2>1, <2>2, <2>3 DEF Fault
<1>13. CASE UNCHANGED vars
  BY <1>13 DEF vars
<1> QED
  BY <1>2, <1>3, <1>4, <1>5, <1>6, <1>7, <1>8, <1>9, <1>10, <1>11, <1>12, <1>13 DEF Next

\* A set of events has one first member.
LEMMA FirstIsUnique ==
  ASSUME NEW S \in SUBSET Events, NEW e, NEW f, IsFirst(e, S), IsFirst(f, S)
  PROVE  e = f
BY OutboxAssumption DEF IsFirst

\* Steps that touch neither the effects nor the completed rows, and that move
\* no owner to its commit, keep what the commit relies on.
LEMMA QuietStep ==
  ASSUME OutboxInv, TypeOK', UNCHANGED <<effects, audit>>,
         \A e \in Events : event'[e].processed = event[e].processed,
         \A o \in Owners : pc'[o] = "applied" => pc[o] = "applied" /\ batch'[o] = batch[o],
         \A p \in Projectors : \A e, f \in batch'[p] : e = f
  PROVE  Ready' /\ ProcessedIsAccounted'
<1>1. Ready'  BY DEF OutboxInv, Ready, IsFirst, TypeOK
<1>2. ProcessedIsAccounted'  BY DEF OutboxInv, ProcessedIsAccounted
<1> QED  BY <1>1, <1>2

\* Every step keeps the invariant.
LEMMA NextKeeps == OutboxInv /\ [Next]_vars => OutboxInv'
<1> SUFFICES ASSUME OutboxInv, [Next]_vars PROVE Ready' /\ ProcessedIsAccounted'
  BY NextTyped DEF OutboxInv
<1> USE OutboxAssumption
<1>0. TypeOK /\ TypeOK'  BY NextTyped DEF OutboxInv
<1>a. Workers \cap Projectors = {} /\ Workers \subseteq Owners /\ Projectors \subseteq Owners
  BY DEF Owners
<1>b. \A p \in Projectors : \A e, f \in batch[p] : e = f  BY DEF OutboxInv, Ready
<1>2. ASSUME NEW e \in Events, Store(e) \/ LeaseOutlived(e) \/ LeaseLapses(e)
      PROVE Ready' /\ ProcessedIsAccounted'
  <2>1. \A f \in Events : event'[f].processed = event[f].processed
    BY <1>0, <1>2 DEF Store, LeaseOutlived, LeaseLapses, Lapse, TypeOK, Row
  <2>2. UNCHANGED <<effects, audit, pc, batch>>
    BY <1>2 DEF Store, LeaseOutlived, LeaseLapses
  <2> QED  BY <1>0, <1>b, <2>1, <2>2, QuietStep
<1>3. ASSUME NEW w \in Workers, ClaimEvents(w) PROVE Ready' /\ ProcessedIsAccounted'
  <2>1. PICK S \in SUBSET Events :
          /\ batch' = [batch EXCEPT ![w] = S]
          /\ event' = [e \in Events |->
               IF e \in S THEN [event[e] EXCEPT !.by = w, !.lease = "live"] ELSE event[e]]
    <3>1. PICK S \in SUBSET {e \in Events : Claimable(e)} :
            /\ batch' = [batch EXCEPT ![w] = S]
            /\ event' = [e \in Events |->
                 IF e \in S THEN [event[e] EXCEPT !.by = w, !.lease = "live"] ELSE event[e]]
      BY <1>3, Zenon DEF ClaimEvents
    <3> QED  BY <3>1, Zenon
  <2>2. \A f \in Events : event'[f].processed = event[f].processed
    <3> TAKE f \in Events
    <3>1. event[f] \in Row  BY <1>0 DEF TypeOK
    <3>2. event'[f] = IF f \in S THEN [event[f] EXCEPT !.by = w, !.lease = "live"] ELSE event[f]
      BY <2>1
    <3> QED  BY <3>1, <3>2 DEF Row
  <2>3. \A o \in Owners : pc'[o] = "applied" => pc[o] = "applied" /\ batch'[o] = batch[o]
    BY <1>0, <1>3, <2>1 DEF ClaimEvents, TypeOK
  <2>4. \A p \in Projectors : batch'[p] = batch[p]
    BY <1>0, <1>a, <2>1 DEF TypeOK
  <2>5. UNCHANGED <<effects, audit>>  BY <1>3 DEF ClaimEvents
  <2> QED  BY <1>0, <1>b, <2>2, <2>3, <2>4, <2>5, QuietStep
<1>4. ASSUME NEW w \in Workers, Load(w) PROVE Ready' /\ ProcessedIsAccounted'
  <2>1. UNCHANGED <<effects, audit, event>>  BY <1>4 DEF Load
  <2>2. \A o \in Owners : pc'[o] = "applied" => pc[o] = "applied" /\ batch'[o] = batch[o]
    BY <1>0, <1>4 DEF Load, Continue, TypeOK
  <2>3. \A p \in Projectors : batch'[p] = batch[p]
    BY <1>0, <1>4, <1>a DEF Load, Continue, TypeOK
  <2> QED  BY <1>0, <1>b, <2>1, <2>2, <2>3, QuietStep
<1>5. ASSUME NEW o \in Owners, NEW e \in batch[o], IsFirst(e, batch[o]),
             effects' = [effects EXCEPT ![e] = @ + 1],
             pc' = [pc EXCEPT ![o] = "applied"], UNCHANGED <<event, batch, audit>>
      PROVE Ready' /\ ProcessedIsAccounted'
  <2>1. batch[o] \in SUBSET Events /\ e \in Events  BY <1>0, <1>5 DEF TypeOK
  <2>2. \A f \in Events : effects'[f] >= effects[f]  BY <1>0, <1>5, <2>1 DEF TypeOK
  <2>3. effects'[e] > 0  BY <1>0, <1>5, <2>1 DEF TypeOK
  <2>4. ASSUME NEW q \in Owners, NEW f \in batch[q], pc'[q] = "applied", IsFirst(f, batch[q])
        PROVE effects'[f] > 0
    <3>1. CASE q = o
      BY <2>1, <2>3, <2>4, <3>1, <1>5, FirstIsUnique
    <3>2. CASE q # o
      <4>1. effects[f] > 0 /\ f \in Events
        BY <1>0, <1>5, <2>4, <3>2 DEF TypeOK, OutboxInv, Ready
      <4> QED  BY <4>1, <2>2, <1>0 DEF TypeOK
    <3> QED  BY <3>1, <3>2
  <2>5. Ready'  BY <1>5, <1>b, <2>4 DEF Ready, IsFirst
  <2>6. ProcessedIsAccounted'
    BY <1>0, <1>5, <2>2 DEF OutboxInv, ProcessedIsAccounted, TypeOK
  <2> QED  BY <2>5, <2>6
<1>6. ASSUME NEW w \in Workers, Apply(w) PROVE Ready' /\ ProcessedIsAccounted'
  BY <1>5, <1>6, <1>a DEF Apply
<1>7. ASSUME NEW w \in Workers, Complete(w) PROVE Ready' /\ ProcessedIsAccounted'
  <2>1. PICK e \in batch[w] :
          /\ IsFirst(e, batch[w])
          /\ event' = [event EXCEPT ![e].processed = TRUE, ![e].lease = "none"]
          /\ Continue(w, batch[w] \ {e})
    BY <1>7 DEF Complete
  <2>2. pc[w] = "applied" /\ UNCHANGED <<effects, audit>>  BY <1>7 DEF Complete
  <2>3. e \in Events /\ effects[e] > 0
    BY <1>0, <1>a, <2>1, <2>2 DEF OutboxInv, Ready, TypeOK
  <2>4. \A o \in Owners : pc'[o] = "applied" => pc[o] = "applied" /\ batch'[o] = batch[o]
    BY <1>0, <1>a, <2>1 DEF Continue, TypeOK
  <2>5. \A p \in Projectors : batch'[p] = batch[p]
    BY <1>0, <1>a, <2>1 DEF Continue, TypeOK
  <2>6. Ready'
    BY <1>0, <1>b, <2>2, <2>4, <2>5 DEF OutboxInv, Ready, IsFirst, TypeOK
  <2>7. \A f \in Events : event'[f].processed => f = e \/ event[f].processed
    BY <1>0, <2>1 DEF TypeOK, Row
  <2>8. ProcessedIsAccounted'
    BY <2>2, <2>3, <2>7 DEF OutboxInv, ProcessedIsAccounted
  <2> QED  BY <2>6, <2>8
<1>8. ASSUME NEW p \in Projectors, NEW e \in Events, ClaimProjection(p, e)
      PROVE Ready' /\ ProcessedIsAccounted'
  <2>1. UNCHANGED <<effects, audit, event>>  BY <1>8 DEF ClaimProjection
  <2>2. \A o \in Owners : pc'[o] = "applied" => pc[o] = "applied" /\ batch'[o] = batch[o]
    BY <1>0, <1>8 DEF ClaimProjection, TypeOK
  <2>3. \A q \in Projectors : \A f, g \in batch'[q] : f = g
    BY <1>0, <1>8, <1>b DEF ClaimProjection, TypeOK
  <2> QED  BY <1>0, <2>1, <2>2, <2>3, QuietStep
<1>9. ASSUME NEW p \in Projectors, ApplyProjection(p) PROVE Ready' /\ ProcessedIsAccounted'
  <2>1. PICK e \in batch[p], handled \in BOOLEAN :
          /\ effects' = [effects EXCEPT ![e] = IF handled THEN @ + 1 ELSE @]
          /\ pc' = [pc EXCEPT ![p] = IF handled THEN "applied" ELSE "unhandled"]
    BY <1>9 DEF ApplyProjection
  <2>2. UNCHANGED <<event, batch, audit>>  BY <1>9 DEF ApplyProjection
  <2>3. batch[p] \in SUBSET Events /\ e \in Events  BY <1>0, <1>a, <2>1 DEF TypeOK
  <2>4. IsFirst(e, batch[p])  BY <1>b, <2>1, <2>3 DEF IsFirst
  <2>5. CASE handled
    <3>1. effects' = [effects EXCEPT ![e] = @ + 1] /\ pc' = [pc EXCEPT ![p] = "applied"]
      BY <2>1, <2>5
    <3> QED  BY <1>5, <1>a, <2>2, <2>4, <3>1
  <2>6. CASE ~handled
    <3>1. UNCHANGED effects  BY <1>0, <2>1, <2>6 DEF TypeOK
    <3>2. pc' = [pc EXCEPT ![p] = "unhandled"]  BY <2>1, <2>6
    <3>3. \A o \in Owners : pc'[o] = "applied" => pc[o] = "applied"
      BY <1>0, <3>2 DEF TypeOK
    <3> QED  BY <1>0, <1>b, <2>2, <3>1, <3>3, QuietStep
  <2> QED  BY <2>5, <2>6
<1>10. ASSUME NEW p \in Projectors, CommitProjection(p) PROVE Ready' /\ ProcessedIsAccounted'
  <2>1. PICK e \in batch[p] :
          /\ event' = [event EXCEPT ![e].by = p, ![e].processed = TRUE, ![e].lease = "none"]
          /\ audit' = audit \cup {[event |-> e, handler |-> pc[p] = "applied"]}
    BY <1>10 DEF CommitProjection
  <2>2. /\ pc[p] \in {"applied", "unhandled"} /\ UNCHANGED effects /\ Continue(p, {})
    BY <1>10 DEF CommitProjection
  <2>3. batch[p] \in SUBSET Events /\ e \in Events  BY <1>0, <1>a, <2>1 DEF TypeOK
  <2>4. IsFirst(e, batch[p])  BY <1>b, <2>1, <2>3 DEF IsFirst
  <2>5. pc[p] = "applied" => effects[e] > 0
    BY <1>a, <2>1, <2>4 DEF OutboxInv, Ready
  <2>6. pc[p] = "unhandled" => [event |-> e, handler |-> FALSE] \in audit'
    BY <2>1
  <2>7. /\ \A o \in Owners : pc'[o] = "applied" => pc[o] = "applied" /\ batch'[o] = batch[o]
        /\ \A q \in Projectors : \A f, g \in batch'[q] : f = g
    BY <1>0, <1>a, <1>b, <2>2 DEF Continue, TypeOK
  <2>8. Ready'
    BY <1>0, <2>2, <2>7 DEF OutboxInv, Ready, IsFirst, TypeOK
  <2>9. \A f \in Events : event'[f].processed => f = e \/ event[f].processed
    BY <1>0, <2>1 DEF TypeOK, Row
  <2>10. ProcessedIsAccounted'
    BY <2>1, <2>2, <2>5, <2>6, <2>9 DEF OutboxInv, ProcessedIsAccounted
  <2> QED  BY <2>8, <2>10
<1>11. ASSUME NEW o \in Owners, Fault(o) PROVE Ready' /\ ProcessedIsAccounted'
  <2>1. UNCHANGED <<effects, audit, event>> /\ Continue(o, {})  BY <1>11 DEF Fault
  <2>2. /\ \A q \in Owners : pc'[q] = "applied" => pc[q] = "applied" /\ batch'[q] = batch[q]
        /\ \A p \in Projectors : \A f, g \in batch'[p] : f = g
    BY <1>0, <1>a, <1>b, <2>1 DEF Continue, TypeOK
  <2> QED  BY <1>0, <2>1, <2>2, QuietStep
<1>12. CASE UNCHANGED vars
  <2>1. UNCHANGED <<effects, audit, event, pc, batch>>  BY <1>12 DEF vars
  <2> QED  BY <1>0, <1>b, <2>1, QuietStep
<1> QED
  BY <1>2, <1>3, <1>4, <1>6, <1>7, <1>8, <1>9, <1>10, <1>11, <1>12 DEF Next

\* The invariant holds in every reachable state.
LEMMA OutboxInvariant == Spec => []OutboxInv
<1>1. Init => OutboxInv
  BY InitTyped, OutboxAssumption DEF Init, OutboxInv, Ready, ProcessedIsAccounted, Owners
<1> QED  BY <1>1, NextKeeps, PTL DEF Spec

\* Every variable of the outbox has its type in every reachable state.
THEOREM OutboxTyped == Spec => []TypeOK
<1>1. OutboxInv => TypeOK  BY DEF OutboxInv
<1> QED  BY <1>1, OutboxInvariant, PTL

\* No event is ever marked processed for nothing: its handler took effect, or
\* an audit event says that there was none.
THEOREM NothingProcessedForNothing == Spec => []ProcessedIsAccounted
<1>1. OutboxInv => ProcessedIsAccounted  BY DEF OutboxInv
<1> QED  BY <1>1, OutboxInvariant, PTL

(***************************************************************************)
(* Duplicates need faults                                                  *)
(*                                                                         *)
(* The handler of an event can still take effect in two ways: an owner is  *)
(* on its way to apply the event, or the event is open to the next claim.  *)
(* The account of an event adds both to the effects it has had.  Claiming, *)
(* applying, completing and letting an abandoned lease pass move that      *)
(* account down or leave it; only a fault can raise it, and by one.        *)
(***************************************************************************)

\* Owner o may apply event e without another claim: it is about to, or the
\* event is in the batch it leased, unprocessed, still its own, and ahead.
MayApply(o, e) ==
  \/ pc[o] = "applying" /\ IsFirst(e, batch[o])
  \/ /\ o \in Workers /\ e \in batch[o]
     /\ event[e].by = o /\ ~event[e].processed
     /\ ~(pc[o] = "applied" /\ IsFirst(e, batch[o]))

Appliers(e) == {o \in Owners : MayApply(o, e)}

\* The event can be claimed, or can once its abandoned lease has passed.
Open(e) ==
  /\ ~event[e].processed /\ e \notin locked
  /\ event[e].lease # "live" \/ ~InHand(e)

IdleHoldNothing == \A o \in Owners : pc[o] = "idle" => batch[o] = {}

Paid(e) ==
  /\ IsFiniteSet(Appliers(e))
  /\ effects[e] + Cardinality(Appliers(e)) + (IF Open(e) THEN 1 ELSE 0) <= 1 + faults

\* What a step does to the account of an event: nothing that raises it; a
\* fault; an owner that gives the event up; a claim; or a handler's effect.
Settles(e) ==
  \/ /\ effects'[e] = effects[e] /\ Appliers(e)' \subseteq Appliers(e)
     /\ \/ (Open(e)' => Open(e)) /\ faults' = faults
        \/ faults' = faults + 1
  \/ \E o \in Owners :
       /\ faults' = faults
       /\ \/ /\ effects'[e] = effects[e] /\ o \in Appliers(e)
             /\ Appliers(e)' \subseteq Appliers(e) \ {o}
          \/ /\ effects'[e] = effects[e] /\ Open(e) /\ ~Open(e)'
             /\ Appliers(e)' \subseteq Appliers(e) \cup {o}
          \/ /\ effects'[e] = effects[e] + 1 /\ o \in Appliers(e)
             /\ Appliers(e)' \subseteq Appliers(e) \ {o}
             /\ (Open(e)' => Open(e))

\* A step that settles an event keeps its account paid.
LEMMA SettledStaysPaid ==
  ASSUME TypeOK, TypeOK', NEW e \in Events, Paid(e), Settles(e)
  PROVE  Paid(e)'
<1>a. PICK S \in SUBSET Owners : S = Appliers(e)  BY DEF Appliers
<1>b. PICK T \in SUBSET Owners : T = Appliers(e)'  BY DEF Appliers
<1>c. PICK c \in {0, 1} : c = IF Open(e) THEN 1 ELSE 0  OBVIOUS
<1>d. PICK d \in {0, 1} : d = IF Open(e)' THEN 1 ELSE 0  OBVIOUS
<1>1. /\ effects[e] \in Nat /\ effects'[e] \in Nat /\ faults \in Nat /\ faults' \in Nat
  BY OutboxAssumption DEF TypeOK
<1>2. c \in {0, 1} /\ d \in {0, 1} /\ IsFiniteSet(S)
      /\ effects[e] + Cardinality(S) + c <= 1 + faults
  BY <1>a, <1>c DEF Paid
<1>3. PICK x \in Owners \cup {None} :
        \/ effects'[e] = effects[e] /\ T \subseteq S /\ d <= c /\ 1 + faults' = 1 + faults
        \/ effects'[e] = effects[e] /\ T \subseteq S /\ 1 + faults' = (1 + faults) + 1
        \/ /\ effects'[e] = effects[e] /\ x \in S /\ T \subseteq S \ {x}
           /\ 1 + faults' = 1 + faults
        \/ /\ effects'[e] = effects[e] /\ c = 1 /\ d = 0 /\ T \subseteq S \cup {x}
           /\ 1 + faults' = 1 + faults
        \/ /\ effects'[e] = effects[e] + 1 /\ x \in S /\ T \subseteq S \ {x} /\ d <= c
           /\ 1 + faults' = 1 + faults
  <2>1. CASE /\ effects'[e] = effects[e] /\ T \subseteq S
             /\ (Open(e)' => Open(e)) /\ faults' = faults
    <3>1. d <= c  BY <1>c, <1>d, <2>1
    <3> QED  BY <2>1, <3>1
  <2>2. CASE effects'[e] = effects[e] /\ T \subseteq S /\ faults' = faults + 1
    BY <1>1, <2>2
  <2>3. ASSUME NEW o \in Owners, faults' = faults,
               \/ /\ effects'[e] = effects[e] /\ o \in S /\ T \subseteq S \ {o}
               \/ /\ effects'[e] = effects[e] /\ Open(e) /\ ~Open(e)'
                  /\ T \subseteq S \cup {o}
               \/ /\ effects'[e] = effects[e] + 1 /\ o \in S /\ T \subseteq S \ {o}
                  /\ (Open(e)' => Open(e))
        PROVE  \/ effects'[e] = effects[e] /\ o \in S /\ T \subseteq S \ {o}
               \/ effects'[e] = effects[e] /\ c = 1 /\ d = 0 /\ T \subseteq S \cup {o}
               \/ effects'[e] = effects[e] + 1 /\ o \in S /\ T \subseteq S \ {o} /\ d <= c
    BY <1>c, <1>d, <2>3
  <2> QED  BY <1>a, <1>b, <2>1, <2>2, <2>3 DEF Settles
<1>4. PICK n \in Nat, m \in Nat, k \in Nat, l \in Nat :
        n = effects[e] /\ m = effects'[e] /\ k = 1 + faults /\ l = 1 + faults'
  <2>1. \A i \in Nat : 1 + i \in Nat  OBVIOUS
  <2> QED  BY <1>1, <2>1
<1>5. /\ n + Cardinality(S) + c <= k
      /\ \/ m = n /\ T \subseteq S /\ d <= c /\ l = k
         \/ m = n /\ T \subseteq S /\ l = k + 1
         \/ m = n /\ x \in S /\ T \subseteq S \ {x} /\ l = k
         \/ m = n /\ c = 1 /\ d = 0 /\ T \subseteq S \cup {x} /\ l = k
         \/ m = n + 1 /\ x \in S /\ T \subseteq S \ {x} /\ d <= c /\ l = k
  BY <1>2, <1>3, <1>4
<1>6. IsFiniteSet(T) /\ m + Cardinality(T) + d <= l
  <2>0. Cardinality(S) \in Nat  BY <1>2, FS_CardinalityType
  <2>1. CASE m = n /\ T \subseteq S /\ ((d <= c /\ l = k) \/ l = k + 1)
    <3>1. IsFiniteSet(T) /\ Cardinality(T) <= Cardinality(S)  BY <1>2, <2>1, FS_Subset
    <3>2. Cardinality(T) \in Nat  BY <3>1, FS_CardinalityType
    <3> QED  BY <1>5, <2>0, <2>1, <3>1, <3>2
  <2>2. CASE l = k /\ x \in S /\ T \subseteq S \ {x} /\ (m = n \/ (m = n + 1 /\ d <= c))
    <3>1. IsFiniteSet(S \ {x}) /\ Cardinality(S \ {x}) = Cardinality(S) - 1
      BY <2>2, <1>2, FS_RemoveElement
    <3>2. IsFiniteSet(T) /\ Cardinality(T) <= Cardinality(S \ {x})  BY <2>2, <3>1, FS_Subset
    <3>3. Cardinality(T) \in Nat  BY <3>2, FS_CardinalityType
    <3> QED  BY <1>5, <2>0, <2>2, <3>1, <3>2, <3>3
  <2>3. CASE l = k /\ m = n /\ c = 1 /\ d = 0 /\ T \subseteq S \cup {x}
    <3>1. IsFiniteSet(S \cup {x}) /\ Cardinality(S \cup {x}) <= Cardinality(S) + 1
      <4>1. IsFiniteSet(S)  BY <1>2
      <4>2. /\ IsFiniteSet(S \cup {x})
            /\ Cardinality(S \cup {x}) =
                 IF x \in S THEN Cardinality(S) ELSE Cardinality(S) + 1
        BY <4>1, FS_AddElement
      <4> QED  BY <2>0, <4>2
    <3>2. IsFiniteSet(T) /\ Cardinality(T) <= Cardinality(S \cup {x})  BY <2>3, <3>1, FS_Subset
    <3>3. Cardinality(T) \in Nat /\ Cardinality(S \cup {x}) \in Nat
      BY <3>1, <3>2, FS_CardinalityType
    <3> QED  BY <1>5, <2>0, <2>3, <3>1, <3>2, <3>3
  <2> QED  BY <1>5, <2>1, <2>2, <2>3
<1>7. IsFiniteSet(T) /\ effects'[e] + Cardinality(T) + d <= 1 + faults'
  BY <1>4, <1>6
<1> QED  BY <1>b, <1>d, <1>7 DEF Paid

\* A step that leaves an owner and an event alone leaves what the owner may
\* do with that event.
LEMMA SameMayApply ==
  ASSUME NEW o, NEW e, pc'[o] = pc[o], batch'[o] = batch[o],
         event'[e].by = event[e].by, event'[e].processed = event[e].processed
  PROVE  MayApply(o, e)' <=> MayApply(o, e)
BY DEF MayApply, IsFirst

\* Every step settles every event, and idle owners hold none.
LEMMA NextSettles ==
  ASSUME OutboxInv, TypeOK', IdleHoldNothing, [Next]_vars
  PROVE  IdleHoldNothing' /\ \A e \in Events : Settles(e)
<1> USE OutboxAssumption
<1>0. TypeOK /\ TypeOK' /\ \A f \in Events : event[f] \in Row
  BY DEF OutboxInv, TypeOK
<1>a. Workers \cap Projectors = {} /\ Workers \subseteq Owners /\ Projectors \subseteq Owners
  BY DEF Owners
<1>b. \A p \in Projectors : \A e, f \in batch[p] : e = f  BY DEF OutboxInv, Ready
<1>c. \A f, g \in Events : f <= g /\ g <= f => f = g  OBVIOUS
<1>d. DOMAIN event = Events /\ DOMAIN pc = Owners /\ DOMAIN batch = Owners
  BY <1>0 DEF TypeOK
<1>e. \A o \in Owners : batch[o] \subseteq Events  BY <1>0 DEF TypeOK
<1>1. ASSUME NEW g \in Events, Store(g) PROVE IdleHoldNothing' /\ \A e \in Events : Settles(e)
  <2>1. /\ UNCHANGED <<pc, batch, locked, effects, faults>>
        /\ event' = [event EXCEPT ![g].stored = TRUE]
    BY <1>1 DEF Store
  <2>2. \A f \in Events : /\ event'[f].by = event[f].by
                          /\ event'[f].processed = event[f].processed
                          /\ event'[f].lease = event[f].lease
    BY <1>0, <2>1 DEF TypeOK, Row
  <2>3. \A f \in Events, o \in Owners : MayApply(o, f)' <=> MayApply(o, f)
    BY <2>1, <2>2, SameMayApply
  <2>4. \A f \in Events : Open(f)' <=> Open(f)  BY <2>1, <2>2 DEF Open, InHand
  <2> QED  BY <2>1, <2>3, <2>4 DEF Settles, Appliers, IdleHoldNothing
<1>2. ASSUME NEW g \in Events, LeaseOutlived(g) \/ LeaseLapses(g)
      PROVE IdleHoldNothing' /\ \A e \in Events : Settles(e)
  <2>1. /\ UNCHANGED <<pc, batch, locked, effects>>
        /\ event' = [event EXCEPT ![g].lease = "expired"]
        /\ faults' = faults + 1 \/ (faults' = faults /\ ~InHand(g))
    BY <1>2 DEF LeaseOutlived, LeaseLapses, Lapse
  <2>2. \A f \in Events : /\ event'[f].by = event[f].by
                          /\ event'[f].processed = event[f].processed
                          /\ f # g => event'[f].lease = event[f].lease
    <3> TAKE f \in Events
    <3>1. f # g => event'[f] = event[f]  BY <1>d, <2>1
    <3>2. f = g => event'[f] = [event[f] EXCEPT !.lease = "expired"]  BY <1>d, <2>1
    <3> QED  BY <1>0, <3>1, <3>2 DEF Row
  <2>3. \A f \in Events, o \in Owners : MayApply(o, f)' <=> MayApply(o, f)
    BY <2>1, <2>2, SameMayApply
  <2>4. ASSUME NEW f \in Events, faults' = faults, Open(f)' PROVE Open(f)
    <3>1. ~event[f].processed /\ f \notin locked  BY <2>1, <2>2, <2>4 DEF Open
    <3>2. CASE f = g
      <4>1. faults \in Nat  BY <1>0 DEF TypeOK
      <4>2. ~InHand(f)  BY <2>1, <2>4, <3>2, <4>1
      <4> QED  BY <3>1, <4>2 DEF Open
    <3>3. CASE f # g
      <4>1. InHand(f)' <=> InHand(f)  BY <2>1, <2>2 DEF InHand
      <4>2. event'[f].lease = event[f].lease  BY <2>2, <3>3
      <4> QED  BY <2>4, <3>1, <4>1, <4>2 DEF Open
    <3> QED  BY <3>2, <3>3
  <2>5. faults' = faults \/ faults' = faults + 1  BY <2>1
  <2>6. \A f \in Events : effects'[f] = effects[f] /\ Appliers(f)' \subseteq Appliers(f)
    BY <2>1, <2>3 DEF Appliers
  <2>7. \A f \in Events : Settles(f)  BY <2>4, <2>5, <2>6 DEF Settles
  <2> QED  BY <2>1, <2>7 DEF IdleHoldNothing
<1>3. ASSUME NEW w \in Workers, ClaimEvents(w)
      PROVE IdleHoldNothing' /\ \A e \in Events : Settles(e)
  <2>1. PICK S \in SUBSET {f \in Events : Claimable(f)} :
          /\ batch' = [batch EXCEPT ![w] = S]
          /\ event' = [f \in Events |->
               IF f \in S THEN [event[f] EXCEPT !.by = w, !.lease = "live"] ELSE event[f]]
    BY <1>3, Zenon DEF ClaimEvents
  <2>2. /\ UNCHANGED <<locked, effects, faults>> /\ pc[w] = "idle"
        /\ pc' = [pc EXCEPT ![w] = "draining"]
    BY <1>3 DEF ClaimEvents
  <2>3. w \in Owners /\ batch[w] = {}  BY <1>a, <2>2 DEF IdleHoldNothing
  <2>4. /\ pc'[w] = "draining" /\ batch'[w] = S
        /\ \A o \in Owners : o # w => pc'[o] = pc[o] /\ batch'[o] = batch[o]
    BY <1>0, <2>1, <2>2, <2>3 DEF TypeOK
  <2>5. ASSUME NEW f \in Events PROVE Settles(f)
    <3>1. CASE f \in S
      <4>1. /\ event'[f].by = w /\ event'[f].lease = "live"
            /\ event'[f].processed = event[f].processed
        BY <1>0, <2>1, <3>1 DEF Row
      <4>2. Open(f)  BY <2>1, <3>1 DEF Claimable, Pending, Open
      <4>3. ~Open(f)'  BY <2>4, <3>1, <4>1 DEF Open, InHand
      <4>4. \A o \in Owners : o # w /\ MayApply(o, f)' => MayApply(o, f)
        BY <2>4, <4>1 DEF MayApply, IsFirst
      <4>5. Appliers(f)' \subseteq Appliers(f) \cup {w}  BY <4>4 DEF Appliers
      <4> QED  BY <2>2, <2>3, <4>2, <4>3, <4>5 DEF Settles
    <3>2. CASE f \notin S
      <4>1. event'[f] = event[f]  BY <2>1, <3>2
      <4>2. \A o \in Owners : o # w => (MayApply(o, f)' <=> MayApply(o, f))
        BY <2>4, <4>1, SameMayApply
      <4>3. ~MayApply(w, f)'  BY <2>4, <3>2 DEF MayApply, IsFirst
      <4>4. Open(f)' => Open(f)
        BY <1>a, <2>2, <2>3, <2>4, <3>2, <4>1 DEF Open, InHand
      <4>5. Appliers(f)' \subseteq Appliers(f)  BY <4>2, <4>3 DEF Appliers
      <4> QED  BY <2>2, <4>4, <4>5 DEF Settles
    <3> QED  BY <3>1, <3>2
  <2>6. IdleHoldNothing'  BY <2>4 DEF IdleHoldNothing
  <2> QED  BY <2>5, <2>6
<1>4. ASSUME NEW w \in Workers, Load(w)
      PROVE IdleHoldNothing' /\ \A e \in Events : Settles(e)
  <2>1. PICK g \in batch[w] :
          /\ IsFirst(g, batch[w])
          /\ \/ event[g].processed /\ Continue(w, batch[w] \ {g})
             \/ Continue(w, {})
             \/ /\ ~event[g].processed /\ event[g].by = w
                /\ pc' = [pc EXCEPT ![w] = "applying"] /\ UNCHANGED batch
    BY <1>4 DEF Load
  <2>2. pc[w] = "draining" /\ UNCHANGED <<event, locked, effects, faults>>
    BY <1>4 DEF Load
  <2>3. w \in Owners /\ g \in Events  BY <1>a, <1>e
  <2>4. CASE event[g].processed /\ Continue(w, batch[w] \ {g})
    <3>1. /\ batch'[w] = batch[w] \ {g} /\ pc'[w] \in {"idle", "draining"}
          /\ pc'[w] = "idle" => batch'[w] = {}
          /\ \A o \in Owners : o # w => pc'[o] = pc[o] /\ batch'[o] = batch[o]
      BY <1>d, <2>3, <2>4 DEF Continue
    <3>2. ASSUME NEW f \in Events PROVE Settles(f)
      <4>1. \A o \in Owners : o # w => (MayApply(o, f)' <=> MayApply(o, f))
        BY <2>2, <3>1, SameMayApply
      <4>2. MayApply(w, f)' => MayApply(w, f)
        BY <2>2, <3>1 DEF MayApply, IsFirst
      <4>3. Appliers(f)' \subseteq Appliers(f)  BY <4>1, <4>2 DEF Appliers
      <4>4. Open(f)' => Open(f)
        BY <1>a, <2>2, <2>4, <3>1 DEF Open, InHand
      <4> QED  BY <2>2, <4>3, <4>4 DEF Settles
    <3> QED  BY <3>1, <3>2 DEF IdleHoldNothing
  <2>5. CASE Continue(w, {})
    <3>1. /\ batch'[w] = {} /\ pc'[w] = "idle"
          /\ \A o \in Owners : o # w => pc'[o] = pc[o] /\ batch'[o] = batch[o]
      BY <1>d, <2>3, <2>5 DEF Continue
    <3>2. ASSUME NEW f \in Events PROVE Settles(f)
      <4>1. \A o \in Owners : o # w => (MayApply(o, f)' <=> MayApply(o, f))
        BY <2>2, <3>1, SameMayApply
      <4>2. ~MayApply(w, f)'  BY <3>1 DEF MayApply
      <4>3. Appliers(f)' \subseteq Appliers(f) \ {w}  BY <4>1, <4>2 DEF Appliers
      <4>4. CASE w \in Appliers(f)
        BY <2>2, <2>3, <4>3, <4>4 DEF Settles
      <4>5. CASE w \notin Appliers(f)
        <5>1. ~event[f].processed => ~(f \in batch[w] /\ event[f].by = w)
          BY <2>2, <2>3, <4>5 DEF Appliers, MayApply
        <5>2. Open(f)' => Open(f)
          BY <1>a, <2>2, <3>1, <5>1 DEF Open, InHand
        <5> QED  BY <2>2, <4>3, <5>2 DEF Settles
      <4> QED  BY <4>4, <4>5
    <3> QED  BY <3>1, <3>2 DEF IdleHoldNothing
  <2>6. CASE /\ ~event[g].processed /\ event[g].by = w
             /\ pc' = [pc EXCEPT ![w] = "applying"] /\ UNCHANGED batch
    <3>1. /\ pc'[w] = "applying"
          /\ \A o \in Owners : o # w => pc'[o] = pc[o]
      BY <1>d, <2>3, <2>6
    <3>2. ASSUME NEW f \in Events PROVE Settles(f)
      <4>1. \A o \in Owners : o # w => (MayApply(o, f)' <=> MayApply(o, f))
        BY <2>2, <2>6, <3>1, SameMayApply
      <4>2. MayApply(w, f)' => MayApply(w, f)
        <5>1. IsFirst(f, batch[w]) => f = g  BY <1>c, <1>e, <2>1, <2>3 DEF IsFirst
        <5> QED  BY <2>2, <2>6, <3>1, <5>1 DEF MayApply, IsFirst
      <4>3. Appliers(f)' \subseteq Appliers(f)  BY <4>1, <4>2 DEF Appliers
      <4>4. Open(f)' <=> Open(f)  BY <2>2, <2>6 DEF Open, InHand
      <4> QED  BY <2>2, <4>3, <4>4 DEF Settles
    <3> QED  BY <2>6, <3>1, <3>2 DEF IdleHoldNothing
  <2> QED  BY <2>1, <2>4, <2>5, <2>6
\* An owner that is applying sees the handler take effect.
<1>5. ASSUME NEW o \in Owners, NEW g \in Events, pc[o] = "applying", IsFirst(g, batch[o]),
             effects' = [effects EXCEPT ![g] = @ + 1],
             pc' = [pc EXCEPT ![o] = "applied"], UNCHANGED <<event, batch, locked, faults>>
      PROVE IdleHoldNothing' /\ \A e \in Events : Settles(e)
  <2>1. /\ pc'[o] = "applied" /\ \A q \in Owners : q # o => pc'[q] = pc[q]
        /\ effects'[g] = effects[g] + 1
        /\ \A f \in Events : f # g => effects'[f] = effects[f]
    BY <1>0, <1>5 DEF TypeOK
  <2>2. ASSUME NEW f \in Events PROVE Settles(f)
    <3>1. \A q \in Owners : q # o => (MayApply(q, f)' <=> MayApply(q, f))
      BY <1>5, <2>1, SameMayApply
    <3>2. Open(f)' <=> Open(f)  BY <1>5 DEF Open, InHand
    <3>3. CASE f = g
      <4>1. MayApply(o, f) /\ ~MayApply(o, f)'  BY <1>5, <2>1, <3>3 DEF MayApply, IsFirst
      <4>2. o \in Appliers(f) /\ Appliers(f)' \subseteq Appliers(f) \ {o}
        BY <3>1, <4>1 DEF Appliers
      <4> QED  BY <1>5, <2>1, <3>2, <3>3, <4>2 DEF Settles
    <3>4. CASE f # g
      <4>1. MayApply(o, f)' => MayApply(o, f)  BY <1>5, <2>1 DEF MayApply, IsFirst
      <4>2. Appliers(f)' \subseteq Appliers(f)  BY <3>1, <4>1 DEF Appliers
      <4> QED  BY <1>5, <2>1, <3>2, <3>4, <4>2 DEF Settles
    <3> QED  BY <3>3, <3>4
  <2> QED  BY <1>5, <2>1, <2>2 DEF IdleHoldNothing
<1>6. ASSUME NEW w \in Workers, Apply(w)
      PROVE IdleHoldNothing' /\ \A e \in Events : Settles(e)
  <2>1. PICK g \in batch[w] :
          IsFirst(g, batch[w]) /\ effects' = [effects EXCEPT ![g] = @ + 1]
    BY <1>6 DEF Apply
  <2>2. w \in Owners /\ g \in Events  BY <1>a, <1>e
  <2>3. /\ pc[w] = "applying" /\ pc' = [pc EXCEPT ![w] = "applied"]
        /\ UNCHANGED <<event, batch, locked, faults>>
    BY <1>6 DEF Apply
  <2> QED  BY <1>5, <2>1, <2>2, <2>3
<1>7. ASSUME NEW w \in Workers, Complete(w)
      PROVE IdleHoldNothing' /\ \A e \in Events : Settles(e)
  <2>1. PICK g \in batch[w] :
          /\ IsFirst(g, batch[w])
          /\ event' = [event EXCEPT ![g].processed = TRUE, ![g].lease = "none"]
          /\ Continue(w, batch[w] \ {g})
    BY <1>7 DEF Complete
  <2>2. pc[w] = "applied" /\ UNCHANGED <<locked, effects, faults>>  BY <1>7 DEF Complete
  <2>3. w \in Owners /\ g \in Events  BY <1>a, <1>e
  <2>4. /\ batch'[w] = batch[w] \ {g} /\ pc'[w] \in {"idle", "draining"}
        /\ pc'[w] = "idle" => batch'[w] = {}
        /\ \A o \in Owners : o # w => pc'[o] = pc[o] /\ batch'[o] = batch[o]
    BY <1>d, <2>1, <2>3 DEF Continue
  <2>5. event'[g].processed /\ \A f \in Events : f # g => event'[f] = event[f]
    BY <1>0, <2>1, <2>3 DEF TypeOK, Row
  <2>6. ASSUME NEW f \in Events PROVE Settles(f)
    <3>1. ASSUME NEW o \in Owners, MayApply(o, f)' PROVE MayApply(o, f)
      <4>1. CASE f = g
        <5>1. o # w  BY <2>4, <3>1, <4>1 DEF MayApply, IsFirst
        <5>2. pc[o] = "applying" /\ IsFirst(f, batch[o])
          BY <2>4, <2>5, <3>1, <4>1, <5>1 DEF MayApply, IsFirst
        <5> QED  BY <5>2 DEF MayApply
      <4>2. CASE f # g
        <5>1. CASE o = w
          <6>1. f \in batch[w] /\ w \in Workers /\ event[f].by = w /\ ~event[f].processed
            BY <2>4, <2>5, <3>1, <4>2, <5>1 DEF MayApply
          <6>2. ~IsFirst(f, batch[w])
            BY <1>c, <1>e, <2>1, <2>3, <4>2 DEF IsFirst
          <6> QED  BY <5>1, <6>1, <6>2 DEF MayApply
        <5>2. CASE o # w
          BY <2>4, <2>5, <3>1, <4>2, <5>2, SameMayApply
        <5> QED  BY <5>1, <5>2
      <4> QED  BY <4>1, <4>2
    <3>2. Appliers(f)' \subseteq Appliers(f)  BY <3>1 DEF Appliers
    <3>3. Open(f)' => Open(f)
      BY <1>a, <2>2, <2>4, <2>5 DEF Open, InHand
    <3> QED  BY <2>2, <3>2, <3>3 DEF Settles
  <2>7. IdleHoldNothing'  BY <2>4 DEF IdleHoldNothing
  <2> QED  BY <2>6, <2>7
<1>8. ASSUME NEW p \in Projectors, NEW g \in Events, ClaimProjection(p, g)
      PROVE IdleHoldNothing' /\ \A e \in Events : Settles(e)
  <2>1. /\ pc[p] = "idle" /\ Pending(g) /\ event[g].by \in {None, p}
        /\ locked' = locked \cup {g}
        /\ batch' = [batch EXCEPT ![p] = {g}]
        /\ pc' = [pc EXCEPT ![p] = "applying"]
        /\ UNCHANGED <<event, effects, faults>>
    BY <1>8 DEF ClaimProjection
  <2>2. p \in Owners /\ p \notin Workers /\ None \notin Workers  BY <1>a
  <2>3. /\ pc'[p] = "applying" /\ batch'[p] = {g}
        /\ \A o \in Owners : o # p => pc'[o] = pc[o] /\ batch'[o] = batch[o]
    BY <1>d, <2>1, <2>2
  <2>4. ASSUME NEW f \in Events PROVE Settles(f)
    <3>1. \A o \in Owners : o # p => (MayApply(o, f)' <=> MayApply(o, f))
      BY <2>1, <2>3, SameMayApply
    <3>2. CASE f = g
      <4>1. Open(f)  BY <2>1, <2>2, <3>2 DEF Open, Pending, InHand
      <4>2. ~Open(f)'  BY <2>1, <3>2 DEF Open
      <4>3. Appliers(f)' \subseteq Appliers(f) \cup {p}  BY <3>1 DEF Appliers
      <4> QED  BY <2>1, <2>2, <4>1, <4>2, <4>3 DEF Settles
    <3>3. CASE f # g
      <4>1. ~MayApply(p, f)'  BY <2>3, <3>3 DEF MayApply, IsFirst
      <4>2. Appliers(f)' \subseteq Appliers(f)  BY <3>1, <4>1 DEF Appliers
      <4>3. InHand(f)' <=> InHand(f)
        BY <1>a, <2>1, <2>2, <2>3 DEF InHand
      <4>4. Open(f)' => Open(f)  BY <2>1, <3>3, <4>3 DEF Open
      <4> QED  BY <2>1, <4>2, <4>4 DEF Settles
    <3> QED  BY <3>2, <3>3
  <2>5. IdleHoldNothing'  BY <2>3 DEF IdleHoldNothing
  <2> QED  BY <2>4, <2>5
<1>9. ASSUME NEW p \in Projectors, ApplyProjection(p)
      PROVE IdleHoldNothing' /\ \A e \in Events : Settles(e)
  <2>1. PICK g \in batch[p], handled \in BOOLEAN :
          /\ effects' = [effects EXCEPT ![g] = IF handled THEN @ + 1 ELSE @]
          /\ pc' = [pc EXCEPT ![p] = IF handled THEN "applied" ELSE "unhandled"]
    BY <1>9 DEF ApplyProjection
  <2>2. pc[p] = "applying" /\ UNCHANGED <<event, batch, locked, faults>>
    BY <1>9 DEF ApplyProjection
  <2>3. p \in Owners /\ g \in Events  BY <1>a, <1>e
  <2>4. IsFirst(g, batch[p])  BY <1>b, <2>1, <2>3 DEF IsFirst
  <2>5. CASE handled
    <3>1. effects' = [effects EXCEPT ![g] = @ + 1] /\ pc' = [pc EXCEPT ![p] = "applied"]
      BY <2>1, <2>5
    <3> QED  BY <1>5, <2>2, <2>3, <2>4, <3>1
  <2>6. CASE ~handled
    <3>1. UNCHANGED effects  BY <1>0, <2>1, <2>6 DEF TypeOK
    <3>2. pc'[p] = "unhandled" /\ \A o \in Owners : o # p => pc'[o] = pc[o]
      BY <1>d, <2>1, <2>3, <2>6
    <3>3. ASSUME NEW f \in Events PROVE Settles(f)
      <4>1. \A o \in Owners : o # p => (MayApply(o, f)' <=> MayApply(o, f))
        BY <2>2, <3>2, SameMayApply
      <4>2. ~MayApply(p, f)'  BY <1>a, <3>2 DEF MayApply
      <4>3. Appliers(f)' \subseteq Appliers(f)  BY <4>1, <4>2 DEF Appliers
      <4>4. Open(f)' <=> Open(f)  BY <2>2 DEF Open, InHand
      <4> QED  BY <2>2, <3>1, <4>3, <4>4 DEF Settles
    <3> QED  BY <2>2, <3>2, <3>3 DEF IdleHoldNothing
  <2> QED  BY <2>5, <2>6
<1>10. ASSUME NEW p \in Projectors, CommitProjection(p)
       PROVE IdleHoldNothing' /\ \A e \in Events : Settles(e)
  <2>1. PICK g \in batch[p] :
          /\ event' = [event EXCEPT ![g].by = p, ![g].processed = TRUE, ![g].lease = "none"]
          /\ locked' = locked \ {g}
    BY <1>10 DEF CommitProjection
  <2>2. Continue(p, {}) /\ UNCHANGED <<effects, faults>>  BY <1>10 DEF CommitProjection
  <2>3. p \in Owners /\ p \notin Workers /\ g \in Events  BY <1>a, <1>e
  <2>4. /\ batch'[p] = {} /\ pc'[p] = "idle"
        /\ \A o \in Owners : o # p => pc'[o] = pc[o] /\ batch'[o] = batch[o]
    BY <1>d, <2>2, <2>3 DEF Continue
  <2>5. event'[g].processed /\ \A f \in Events : f # g => event'[f] = event[f]
    BY <1>0, <2>1, <2>3 DEF TypeOK, Row
  <2>6. ASSUME NEW f \in Events PROVE Settles(f)
    <3>1. ASSUME NEW o \in Owners, MayApply(o, f)' PROVE MayApply(o, f)
      <4>1. o # p  BY <2>4, <3>1 DEF MayApply
      <4>2. CASE f = g
        BY <2>4, <2>5, <3>1, <4>1, <4>2 DEF MayApply, IsFirst
      <4>3. CASE f # g
        BY <2>4, <2>5, <3>1, <4>1, <4>3, SameMayApply
      <4> QED  BY <4>2, <4>3
    <3>2. Appliers(f)' \subseteq Appliers(f)  BY <3>1 DEF Appliers
    <3>3. Open(f)' => Open(f)
      <4>1. f # g => (InHand(f)' <=> InHand(f))
        BY <1>a, <2>3, <2>4, <2>5 DEF InHand
      <4> QED  BY <2>1, <2>5, <4>1 DEF Open
    <3> QED  BY <2>2, <3>2, <3>3 DEF Settles
  <2>7. IdleHoldNothing'  BY <2>4 DEF IdleHoldNothing
  <2> QED  BY <2>6, <2>7
<1>11. ASSUME NEW o \in Owners, Fault(o)
       PROVE IdleHoldNothing' /\ \A e \in Events : Settles(e)
  <2>1. /\ Continue(o, {}) /\ faults' = faults + 1 /\ UNCHANGED <<event, effects>>
    BY <1>11 DEF Fault
  <2>2. /\ batch'[o] = {} /\ pc'[o] = "idle"
        /\ \A q \in Owners : q # o => pc'[q] = pc[q] /\ batch'[q] = batch[q]
    BY <1>d, <2>1 DEF Continue
  <2>3. ASSUME NEW f \in Events PROVE Settles(f)
    <3>1. ~MayApply(o, f)'  BY <2>2 DEF MayApply
    <3>2. \A q \in Owners : q # o => (MayApply(q, f)' <=> MayApply(q, f))
      BY <2>1, <2>2, SameMayApply
    <3>3. Appliers(f)' \subseteq Appliers(f)  BY <3>1, <3>2 DEF Appliers
    <3> QED  BY <2>1, <3>3 DEF Settles
  <2> QED  BY <2>2, <2>3 DEF IdleHoldNothing
<1>12. CASE UNCHANGED vars
  <2>1. UNCHANGED <<event, pc, batch, locked, effects, faults>>  BY <1>12 DEF vars
  <2>2. \A f \in Events : Appliers(f)' = Appliers(f) /\ (Open(f)' <=> Open(f))
    BY <2>1 DEF Appliers, MayApply, IsFirst, Open, InHand
  <2> QED  BY <2>1, <2>2 DEF Settles, IdleHoldNothing
<1> QED
  BY <1>1, <1>2, <1>3, <1>4, <1>6, <1>7, <1>8, <1>9, <1>10, <1>11, <1>12 DEF Next

PaidInv == IdleHoldNothing /\ \A e \in Events : Paid(e)

\* In every reachable state the account of every event is paid.
LEMMA PaidInvariant == Spec => []PaidInv
<1>1. Init => PaidInv
  <2> SUFFICES ASSUME Init PROVE PaidInv
    OBVIOUS
  <2>1. /\ \A o \in Owners : pc[o] = "idle" /\ batch[o] = {}
        /\ \A e \in Events : effects[e] = 0
        /\ faults = 0
    BY DEF Init
  <2>2. \A e \in Events : Appliers(e) = {}  BY <2>1 DEF Appliers, MayApply
  <2>3. \A e \in Events : Paid(e)  BY <2>1, <2>2, FS_EmptySet DEF Paid
  <2> QED  BY <2>1, <2>3 DEF PaidInv, IdleHoldNothing
<1>2. OutboxInv /\ TypeOK' /\ PaidInv /\ [Next]_vars => PaidInv'
  <2> SUFFICES ASSUME OutboxInv, TypeOK', PaidInv, [Next]_vars PROVE PaidInv'
    OBVIOUS
  <2>1. IdleHoldNothing' /\ \A e \in Events : Settles(e)
    BY NextSettles DEF PaidInv
  <2>2. ASSUME NEW e \in Events PROVE Paid(e)'
    BY <2>1, SettledStaysPaid DEF PaidInv, OutboxInv
  <2> QED  BY <2>1, <2>2 DEF PaidInv
<1>3. OutboxInv => TypeOK  BY DEF OutboxInv
<1> QED  BY <1>1, <1>2, <1>3, OutboxInvariant, PTL DEF Spec

\* A handler takes effect a second time for one event only after a fault: each
\* effect beyond the first is paid for by a crash, a failing handler or a lease
\* that ran out under its claimer, whatever workers and projectors interleave.
THEOREM EffectsPaidByFaults == Spec => []DuplicatesNeedFaults
<1>1. TypeOK /\ PaidInv => DuplicatesNeedFaults
  <2> SUFFICES ASSUME TypeOK, PaidInv, NEW e \in Events PROVE effects[e] <= 1 + faults
    BY DEF DuplicatesNeedFaults
  <2>1. Cardinality(Appliers(e)) \in Nat  BY FS_CardinalityType DEF PaidInv, Paid
  <2>2. effects[e] \in Nat /\ faults \in Nat  BY OutboxAssumption DEF TypeOK
  <2>3. effects[e] + Cardinality(Appliers(e)) + (IF Open(e) THEN 1 ELSE 0) <= 1 + faults
    BY DEF PaidInv, Paid
  <2>4. PICK n \in Nat : n = Cardinality(Appliers(e))  BY <2>1
  <2> QED  BY <2>2, <2>3, <2>4
<1> QED  BY <1>1, OutboxTyped, PaidInvariant, PTL
=============================================================================
