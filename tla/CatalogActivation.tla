-------------------------- MODULE CatalogActivation --------------------------
(***************************************************************************)
(* Catalog snapshots of one institution: stage_catalog and                 *)
(* activate_catalog in catalog/service.py, as transactions of PostgreSQL   *)
(* at READ COMMITTED.                                                      *)
(*                                                                         *)
(* activate_catalog reads its snapshot without a lock, selects the active  *)
(* ones FOR UPDATE, and writes.  SELECT ... FOR UPDATE finds its rows as   *)
(* of the start of the statement, waits for each lock, and then keeps the  *)
(* rows that still satisfy the WHERE clause; rows that became active in    *)
(* the meantime are not found.                                             *)
(***************************************************************************)
CONSTANTS Snapshots,   \* versions of the catalog, one snapshot each
          Requests,    \* activations in flight at a time
          None         \* no snapshot, no request

ASSUME CatalogAssumption == None \notin Snapshots \cup Requests

VARIABLES status,    \* the catalog_snapshots table
          session,   \* each activation's session
          lock,      \* who has locked each row
          overtaken  \* history: activations in flight during another's commit

vars == <<status, session, lock, overtaken>>

Status == {"absent", "staged", "active", "archived"}

\* "on" is the snapshot to activate, "copy" the status it was read with,
\* "previous" the active snapshots that the SELECT returned.
Session == [pc : {"idle", "read", "waiting", "locked"}, on : Snapshots \cup {None},
            copy : Status, previous : SUBSET Snapshots]

Idle == [pc |-> "idle", on |-> None, copy |-> "absent", previous |-> {}]

Init ==
  /\ status = [s \in Snapshots |-> "absent"]
  /\ session = [q \in Requests |-> Idle]
  /\ lock = [s \in Snapshots |-> None]
  /\ overtaken = {}

\* stage_catalog, one transaction: a valid document becomes a staged snapshot.
\* An invalid one, or a version that is stored already, changes nothing.
Stage(s) ==
  /\ status[s] = "absent"
  /\ status' = [status EXCEPT ![s] = "staged"]
  /\ UNCHANGED <<session, lock, overtaken>>

\* A faulty Activatable that lets an archived snapshot come back.
ActivatableArchived(s) == status[s] # "absent"

\* activate_catalog refuses snapshots that are neither staged nor active.
Activatable(s) == status[s] \in {"staged", "active"}

Read(q, s) ==
  /\ session[q].pc = "idle"
  /\ Activatable(s)
  /\ session' = [session EXCEPT ![q] = [Idle EXCEPT !.pc = "read", !.on = s, !.copy = status[s]]]
  /\ UNCHANGED <<status, lock, overtaken>>

\* A faulty Previous that looks for the wrong status.
PreviousStaged(s) == {t \in Snapshots \ {s} : status[t] = "staged"}

Previous(s) == {t \in Snapshots \ {s} : status[t] = "active"}

\* The SELECT finds the active snapshots ...
Select(q) ==
  /\ session[q].pc = "read"
  /\ session' = [session EXCEPT ![q].pc = "waiting", ![q].previous = Previous(session[q].on)]
  /\ UNCHANGED <<status, lock, overtaken>>

Free(q, S) == \A s \in S : lock[s] \in {None, q}

\* ... and locks those that are still active when their locks are free.
Lock(q) ==
  LET found == session[q].previous
      kept == {s \in found : status[s] = "active"}
  IN /\ session[q].pc = "waiting"
     /\ Free(q, found)
     /\ lock' = [s \in Snapshots |-> IF s \in kept THEN q ELSE lock[s]]
     /\ session' = [session EXCEPT ![q].pc = "locked", ![q].previous = kept]
     /\ UNCHANGED <<status, overtaken>>

Close(q) ==
  /\ session' = [session EXCEPT ![q] = Idle]
  /\ lock' = [s \in Snapshots |-> IF lock[s] = q THEN None ELSE lock[s]]

\* The table after the writes of a session, which are the statuses that differ
\* from the copies it read: a snapshot that was read as active keeps whatever
\* status it has.
Written(me) ==
  [s \in Snapshots |-> IF s \in me.previous THEN "archived"
                       ELSE IF s = me.on /\ me.copy # "active" THEN "active" ELSE status[s]]

Commit(q) ==
  /\ session[q].pc = "locked"
  /\ Free(q, {session[q].on})
  /\ status' = Written(session[q])
  /\ Close(q)
  /\ overtaken' = (overtaken \cup {p \in Requests : session[p].pc # "idle"}) \ {q}

\* Any error, or a killed process: the transaction rolls back.
Rollback(q) ==
  /\ session[q].pc # "idle"
  /\ Close(q)
  /\ overtaken' = overtaken \ {q}
  /\ UNCHANGED status

Next ==
  \/ \E s \in Snapshots : Stage(s)
  \/ \E q \in Requests : \/ \E s \in Snapshots : Read(q, s)
                         \/ Select(q) \/ Lock(q) \/ Commit(q) \/ Rollback(q)

Spec == Init /\ [][Next]_vars

(***************************************************************************)
(* Properties                                                              *)
(***************************************************************************)

TypeOK ==
  /\ status \in [Snapshots -> Status]
  /\ session \in [Requests -> Session]
  /\ lock \in [Snapshots -> Requests \cup {None}]
  /\ overtaken \in SUBSET Requests

Active == {s \in Snapshots : status[s] = "active"}

\* Activation "archives the prior active snapshot": the commit of an activation
\* that no other one overtook between its first read and its commit leaves its
\* snapshot as the only active one, whatever earlier races have left behind and
\* however many other activations are in flight.
ActivationExact ==
  [][\A q \in Requests \ overtaken : Commit(q) => Active' = {session[q].on}]_vars

\* The table is one active pointer that moves, never back and never to nothing:
\* with at most one active snapshot, only the commit of an overtaken activation
\* can do anything else.
OneActive == \A s, t \in Active : s = t

Pointer == INSTANCE ActivePointer WITH
  NoSnapshot <- None,
  active <- IF Active = {} THEN None ELSE CHOOSE s \in Active : TRUE,
  archived <- {s \in Snapshots : status[s] = "archived"}

PointerUnlessOvertaken ==
  Pointer!Init /\
  [][OneActive => Pointer!Next \/ \E q \in overtaken : Commit(q)]_(Pointer!pointer)
=============================================================================
