---------------------------- MODULE CatalogProofs ----------------------------
(***************************************************************************)
(* Catalog activation for any number of snapshots and requests, the search *)
(* for the cycles of a prerequisite graph for any graph, and the parser    *)
(* for any text.                                                           *)
(***************************************************************************)
EXTENDS CatalogActivation, CatalogGrammar, PrerequisiteProofs

\* Two active snapshots are the same snapshot.
SoleActive == \A s, t \in Snapshots : status[s] = "active" /\ status[t] = "active" => s = t

\* What an open session has read and found: its copy, and once it has selected,
\* every active snapshot other than its own.
Fresh(q) ==
  /\ session[q].on \in Snapshots
  /\ session[q].copy = status[session[q].on]
  /\ session[q].copy \in {"staged", "active"}
  /\ session[q].pc \in {"waiting", "locked"} =>
       session[q].previous = Previous(session[q].on)

\* It is still so as long as no other activation has committed.
OthersFresh == \A q \in Requests \ overtaken : session[q].pc # "idle" => Fresh(q)

CatalogInv == TypeOK /\ OthersFresh

\* The empty table has its type, and nothing is in progress.
LEMMA InitCatalog == Init => CatalogInv
BY CatalogAssumption
   DEF Init, CatalogInv, TypeOK, OthersFresh, Session, Idle, Status

\* Closing a session leaves an idle one and releases its locks.
LEMMA CloseTyped ==
  ASSUME TypeOK, NEW q \in Requests, Close(q)
  PROVE  /\ session' \in [Requests -> Session]
         /\ lock' \in [Snapshots -> Requests \cup {None}]
         /\ session'[q].pc = "idle"
         /\ \A p \in Requests : p # q => session'[p] = session[p]
BY DEF TypeOK, Close, Session, Idle, Status

\* What a commit writes is a status, and the statuses that it leaves active.
LEMMA WrittenTyped ==
  ASSUME TypeOK, NEW q \in Requests
  PROVE  /\ Written(session[q]) \in [Snapshots -> Status]
         /\ \A s \in Snapshots : Written(session[q])[s] = "active" =>
              s \notin session[q].previous /\ (s = session[q].on \/ status[s] = "active")
BY DEF TypeOK, Written, Status

\* Every step keeps the types of the variables.
LEMMA NextTyped == TypeOK /\ [Next]_vars => TypeOK'
<1> SUFFICES ASSUME TypeOK, [Next]_vars PROVE TypeOK'
  OBVIOUS
<1>0. \A q \in Requests : session[q] \in Session  BY DEF TypeOK
<1>1. ASSUME NEW s \in Snapshots, Stage(s) PROVE TypeOK'
  BY <1>1 DEF Stage, TypeOK, Status
<1>2. ASSUME NEW q \in Requests, NEW s \in Snapshots, Read(q, s) PROVE TypeOK'
  <2>1. [Idle EXCEPT !.pc = "read", !.on = s, !.copy = status[s]] \in Session
    BY DEF TypeOK, Idle, Session, Status
  <2> QED  BY <1>2, <2>1 DEF Read, TypeOK
<1>3. ASSUME NEW q \in Requests, Select(q) PROVE TypeOK'
  <2>1. Previous(session[q].on) \in SUBSET Snapshots  BY DEF Previous
  <2>2. [session[q] EXCEPT !.pc = "waiting", !.previous = Previous(session[q].on)] \in Session
    BY <1>0, <2>1 DEF Session
  <2>3. session' = [session EXCEPT ![q] =
                      [session[q] EXCEPT !.pc = "waiting", !.previous = Previous(session[q].on)]]
    BY <1>3 DEF Select
  <2> QED  BY <1>3, <2>2, <2>3 DEF Select, TypeOK
<1>4. ASSUME NEW q \in Requests, Lock(q) PROVE TypeOK'
  <2> DEFINE kept == {s \in session[q].previous : status[s] = "active"}
  <2>1. kept \in SUBSET Snapshots  BY <1>0 DEF Session
  <2>2. [session[q] EXCEPT !.pc = "locked", !.previous = kept] \in Session
    BY <1>0, <2>1 DEF Session
  <2>3. session' = [session EXCEPT ![q] = [session[q] EXCEPT !.pc = "locked", !.previous = kept]]
    BY <1>4 DEF Lock
  <2>4. lock' = [s \in Snapshots |-> IF s \in kept THEN q ELSE lock[s]]  BY <1>4 DEF Lock
  <2> HIDE DEF kept
  <2>5. session' \in [Requests -> Session]  BY <2>2, <2>3 DEF TypeOK
  <2>6. lock' \in [Snapshots -> Requests \cup {None}]  BY <2>4 DEF TypeOK
  <2> QED  BY <1>4, <2>5, <2>6 DEF Lock, TypeOK
<1>5. ASSUME NEW q \in Requests, Commit(q) PROVE TypeOK'
  BY <1>5, CloseTyped, WrittenTyped DEF Commit, TypeOK
<1>6. ASSUME NEW q \in Requests, Rollback(q) PROVE TypeOK'
  BY <1>6, CloseTyped DEF Rollback, TypeOK
<1>7. CASE UNCHANGED vars
  BY <1>7 DEF vars, TypeOK
<1> QED  BY <1>1, <1>2, <1>3, <1>4, <1>5, <1>6, <1>7 DEF Next

\* An activation that keeps its session, and finds the snapshots it knows of as
\* it left them, is as fresh as it was.
LEMMA FreshKept ==
  ASSUME NEW q \in Requests, Fresh(q), session'[q] = session[q],
         status'[session[q].on] = status[session[q].on],
         \A t \in Snapshots : status'[t] = "active" <=> status[t] = "active"
  PROVE  Fresh(q)'
<1>1. \A t \in Snapshots : Previous(t)' = Previous(t)  BY DEF Previous
<1> QED  BY <1>1 DEF Fresh

\* Only a commit makes an activation in flight stale, and it counts as
\* overtaking it.
LEMMA FreshNext == CatalogInv /\ [Next]_vars => OthersFresh'
<1> SUFFICES ASSUME CatalogInv, [Next]_vars, NEW q \in Requests,
                    q \notin overtaken', session'[q].pc # "idle"
             PROVE  Fresh(q)'
  BY DEF OthersFresh
<1>0. TypeOK /\ (\A p \in Requests : session[p] \in Session)  BY DEF CatalogInv, TypeOK
<1>a. ASSUME q \notin overtaken, session[q].pc # "idle" PROVE Fresh(q)
  BY <1>a DEF CatalogInv, OthersFresh
<1>1. ASSUME NEW s \in Snapshots, Stage(s) PROVE Fresh(q)'
  <2>1. UNCHANGED session /\ q \notin overtaken /\ Fresh(q)  BY <1>1, <1>a DEF Stage
  <2>2. session[q].on # s  BY <1>1, <2>1 DEF Stage, Fresh
  <2>3. \A t \in Snapshots : /\ t # s => status'[t] = status[t]
                             /\ status'[t] = "active" <=> status[t] = "active"
    BY <1>0, <1>1 DEF Stage, TypeOK
  <2>4. session[q].on \in Snapshots  BY <2>1 DEF Fresh
  <2> QED  BY <2>1, <2>2, <2>3, <2>4, FreshKept
<1>b. ASSUME UNCHANGED status, session'[q] = session[q], overtaken' = overtaken PROVE Fresh(q)'
  <2>1. Fresh(q)  BY <1>a, <1>b
  <2> QED  BY <1>b, <2>1, FreshKept
<1>2. ASSUME NEW p \in Requests, NEW s \in Snapshots, Read(p, s) PROVE Fresh(q)'
  <2>1. UNCHANGED status /\ overtaken' = overtaken  BY <1>2 DEF Read
  <2>2. CASE p = q
    <3>1. /\ status[s] \in {"staged", "active"}
          /\ session'[q].pc = "read" /\ session'[q].on = s /\ session'[q].copy = status[s]
      BY <1>0, <1>2, <2>2 DEF Read, Activatable, Idle, TypeOK
    <3> QED  BY <2>1, <3>1 DEF Fresh
  <2>3. CASE p # q
    <3>1. session'[q] = session[q]  BY <1>0, <1>2, <2>3 DEF Read, TypeOK
    <3> QED  BY <1>b, <2>1, <3>1
  <2> QED  BY <2>2, <2>3
<1>3. ASSUME NEW p \in Requests, Select(p) PROVE Fresh(q)'
  <2>1. session[p].pc = "read" /\ UNCHANGED status /\ overtaken' = overtaken  BY <1>3 DEF Select
  <2>2. CASE p = q
    <3>1. session' = [session EXCEPT ![q] =
                        [session[q] EXCEPT !.pc = "waiting", !.previous = Previous(session[q].on)]]
      BY <1>3, <2>2 DEF Select
    <3>2. /\ session'[q].pc = "waiting" /\ session'[q].on = session[q].on
          /\ session'[q].copy = session[q].copy
          /\ session'[q].previous = Previous(session[q].on)
      BY <1>0, <3>1 DEF TypeOK, Session
    <3>3. \A t \in Snapshots : Previous(t)' = Previous(t)  BY <2>1 DEF Previous
    <3>4. Fresh(q)  BY <1>a, <2>1, <2>2
    <3> QED  BY <2>1, <3>2, <3>3, <3>4 DEF Fresh
  <2>3. CASE p # q
    <3>1. session'[q] = session[q]  BY <1>0, <1>3, <2>3 DEF Select, TypeOK
    <3> QED  BY <1>b, <2>1, <3>1
  <2> QED  BY <2>2, <2>3
<1>4. ASSUME NEW p \in Requests, Lock(p) PROVE Fresh(q)'
  <2>1. session[p].pc = "waiting" /\ UNCHANGED status /\ overtaken' = overtaken  BY <1>4 DEF Lock
  <2>2. CASE p = q
    <3> DEFINE kept == {s \in session[q].previous : status[s] = "active"}
    <3>1. session' = [session EXCEPT ![q] = [session[q] EXCEPT !.pc = "locked", !.previous = kept]]
      BY <1>4, <2>2 DEF Lock
    <3>2. Fresh(q)  BY <1>a, <2>1, <2>2
    <3>3. kept = session[q].previous  BY <2>1, <2>2, <3>2 DEF Fresh, Previous
    <3> HIDE DEF kept
    <3>4. /\ session'[q].pc = "locked" /\ session'[q].on = session[q].on
          /\ session'[q].copy = session[q].copy
          /\ session'[q].previous = session[q].previous
      BY <1>0, <3>1, <3>3 DEF TypeOK, Session
    <3>5. \A t \in Snapshots : Previous(t)' = Previous(t)  BY <2>1 DEF Previous
    <3> QED  BY <2>1, <2>2, <3>2, <3>4, <3>5 DEF Fresh
  <2>3. CASE p # q
    <3>1. session'[q] = session[q]  BY <1>0, <1>4, <2>3 DEF Lock, TypeOK
    <3> QED  BY <1>b, <2>1, <3>1
  <2> QED  BY <2>2, <2>3
<1>5. ASSUME NEW p \in Requests, Commit(p) PROVE Fresh(q)'
  <2>1. Close(p) /\ overtaken' = (overtaken \cup {r \in Requests : session[r].pc # "idle"}) \ {p}
    BY <1>5 DEF Commit
  <2>2. p # q /\ session'[q] = session[q]  BY <1>0, <2>1, CloseTyped
  <2> QED  BY <2>1, <2>2
<1>6. ASSUME NEW p \in Requests, Rollback(p) PROVE Fresh(q)'
  <2>1. Close(p) /\ overtaken' = overtaken \ {p} /\ UNCHANGED status  BY <1>6 DEF Rollback
  <2>2. p # q /\ session'[q] = session[q]  BY <1>0, <2>1, CloseTyped
  <2>3. q \notin overtaken  BY <2>1, <2>2
  <2>4. Fresh(q)  BY <1>a, <2>2, <2>3
  <2> QED  BY <2>1, <2>2, <2>4, FreshKept
<1>7. CASE UNCHANGED vars
  BY <1>b, <1>7 DEF vars
<1> QED  BY <1>1, <1>2, <1>3, <1>4, <1>5, <1>6, <1>7 DEF Next

\* The invariant holds in every reachable state.
LEMMA CatalogInvariant == Spec => []CatalogInv
<1>1. CatalogInv /\ [Next]_vars => CatalogInv'
  BY NextTyped, FreshNext DEF CatalogInv
<1> QED  BY <1>1, InitCatalog, PTL DEF Spec

\* Every variable of catalog activation has its type in every reachable state.
THEOREM CatalogTyped == Spec => []TypeOK
<1>1. CatalogInv => TypeOK  BY DEF CatalogInv
<1> QED  BY <1>1, CatalogInvariant, PTL

\* What the commit of an activation that nobody overtook writes.
LEMMA FreshCommit ==
  ASSUME CatalogInv, NEW q \in Requests \ overtaken, Commit(q)
  PROVE  /\ session[q].on \in Snapshots /\ status[session[q].on] \in {"staged", "active"}
         /\ \A s \in Snapshots : status'[s] = IF s \in Previous(session[q].on) THEN "archived"
                                              ELSE IF s = session[q].on THEN "active" ELSE status[s]
<1> DEFINE on == session[q].on
<1>1. /\ on \in Snapshots /\ session[q].copy = status[on] /\ session[q].copy \in {"staged", "active"}
      /\ session[q].previous = Previous(on)
  BY DEF Commit, CatalogInv, OthersFresh, Fresh
<1>2. status' = [s \in Snapshots |->
                   IF s \in session[q].previous THEN "archived"
                   ELSE IF s = on /\ session[q].copy # "active" THEN "active" ELSE status[s]]
  BY DEF Commit, Written
<1> HIDE DEF on
<1>3. \A s \in Snapshots : status'[s] = IF s \in Previous(on) THEN "archived"
                                        ELSE IF s = on THEN "active" ELSE status[s]
  BY <1>1, <1>2
<1> QED  BY <1>1, <1>3 DEF on

\* For any number of activations in flight and whatever earlier races have left:
\* an activation that no other one overtook leaves its snapshot as the only
\* active one.
THEOREM ActivationsExact == Spec => ActivationExact
<1>1. CatalogInv => [\A q \in Requests \ overtaken : Commit(q) => Active' = {session[q].on}]_vars
  <2> SUFFICES ASSUME CatalogInv, NEW q \in Requests \ overtaken, Commit(q)
               PROVE  Active' = {session[q].on}
    OBVIOUS
  <2> DEFINE on == session[q].on
  <2>1. /\ on \in Snapshots
        /\ \A s \in Snapshots : status'[s] = IF s \in Previous(on) THEN "archived"
                                             ELSE IF s = on THEN "active" ELSE status[s]
    BY FreshCommit
  <2> HIDE DEF on
  <2>2. \A s \in Snapshots : s \in Previous(on) <=> s # on /\ status[s] = "active"
    BY DEF Previous
  <2>3. \A s \in Snapshots : status'[s] = "active" <=> s = on
    BY <2>1, <2>2
  <2>4. Active' = {on}  BY <2>1, <2>3 DEF Active
  <2> QED  BY <2>4 DEF on
<1> QED  BY <1>1, CatalogInvariant, PTL DEF ActivationExact

\* The pointer that the table stands for.
Pointed == IF Active = {} THEN None ELSE CHOOSE s \in Active : TRUE
Archived == {s \in Snapshots : status[s] = "archived"}

\* A table that keeps its active and its archived snapshots keeps its pointer.
LEMMA PointerUnmoved ==
  ASSUME Active' = Active, Archived' = Archived
  PROVE  UNCHANGED <<Pointed, Archived>>
BY DEF Pointed

\* A step of the pointer.
PointerMoves ==
  \E s \in Snapshots : /\ s \notin Archived
                       /\ s # Pointed
                       /\ Pointed' = s
                       /\ Archived' = Archived \cup ({Pointed} \ {None})

\* With at most one active snapshot, every step but an overtaken commit moves
\* the pointer or leaves it.
LEMMA PointerStep ==
  ASSUME CatalogInv, SoleActive, [Next]_vars
  PROVE  PointerMoves \/ UNCHANGED <<Pointed, Archived>> \/ \E q \in overtaken : Commit(q)
<1>1. ASSUME NEW s \in Snapshots, Stage(s) PROVE UNCHANGED <<Pointed, Archived>>
  <2>1. \A t \in Snapshots : /\ status'[t] = "active" <=> status[t] = "active"
                             /\ status'[t] = "archived" <=> status[t] = "archived"
    BY <1>1 DEF Stage, CatalogInv, TypeOK
  <2>2. Active' = Active /\ Archived' = Archived  BY <2>1 DEF Active, Archived
  <2> QED  BY <2>2, PointerUnmoved
<1>2. ASSUME UNCHANGED status PROVE UNCHANGED <<Pointed, Archived>>
  <2>1. Active' = Active /\ Archived' = Archived  BY <1>2 DEF Active, Archived
  <2> QED  BY <2>1, PointerUnmoved
<1>3. ASSUME NEW q \in Requests \ overtaken, Commit(q) PROVE PointerMoves \/ UNCHANGED <<Pointed, Archived>>
  <2> DEFINE on == session[q].on
  <2>1. /\ on \in Snapshots /\ status[on] \in {"staged", "active"}
        /\ \A s \in Snapshots : status'[s] = IF s \in Previous(on) THEN "archived"
                                             ELSE IF s = on THEN "active" ELSE status[s]
    BY <1>3, FreshCommit
  <2> HIDE DEF on
  <2>2. \A s \in Snapshots : s \in Previous(on) <=> s # on /\ status[s] = "active"
    BY DEF Previous
  <2>3. CASE status[on] = "active"
    <3>1. \A s \in Snapshots : status'[s] = status[s]  BY <2>1, <2>2, <2>3 DEF SoleActive
    <3>2. Active' = Active /\ Archived' = Archived  BY <3>1 DEF Active, Archived
    <3> QED  BY <3>2, PointerUnmoved
  <2>4. CASE status[on] = "staged"
    <3>1. \A s \in Snapshots : status'[s] = "active" <=> s = on
      BY <2>1, <2>2, <2>4
    <3>2. Active' = {on}  BY <2>1, <3>1 DEF Active
    <3>3. Pointed' = on  BY <3>2 DEF Pointed
    <3>4. Archived' = Archived \cup Active
      BY <2>1, <2>2, <2>4 DEF Archived, Active
    <3>5. Active = {Pointed} \ {None}
      <4>1. CASE Active = {}  BY <4>1 DEF Pointed
      <4>2. CASE Active # {}
        <5>1. PICK s : s \in Active  BY <4>2
        <5>2. Active = {s}  BY <5>1 DEF Active, SoleActive
        <5>3. s # None  BY <5>1, CatalogAssumption DEF Active
        <5> QED  BY <5>2, <5>3 DEF Pointed
      <4> QED  BY <4>1, <4>2
    <3>6. on \notin Archived  BY <2>4 DEF Archived
    <3>7. on # Pointed
      <4>1. on # None /\ on \notin Active  BY <2>1, <2>4, CatalogAssumption DEF Active
      <4> QED  BY <3>5, <4>1
    <3> QED  BY <2>1, <3>3, <3>4, <3>5, <3>6, <3>7 DEF PointerMoves
  <2> QED  BY <2>1, <2>3, <2>4
<1>4. ASSUME NEW q \in Requests, NEW s \in Snapshots, Read(q, s) PROVE UNCHANGED status
  BY <1>4 DEF Read
<1>5. ASSUME NEW q \in Requests, Select(q) \/ Lock(q) \/ Rollback(q) PROVE UNCHANGED status
  BY <1>5 DEF Select, Lock, Rollback
<1>6. CASE UNCHANGED vars
  BY <1>2, <1>6 DEF vars
<1>7. ASSUME NEW q \in Requests, Commit(q)
      PROVE  PointerMoves \/ UNCHANGED <<Pointed, Archived>> \/ \E p \in overtaken : Commit(p)
  BY <1>3, <1>7
<1> QED  BY <1>1, <1>2, <1>4, <1>5, <1>6, <1>7 DEF Next

\* For any number of activations in flight: every step moves the pointer to a
\* snapshot that was never archived and archives the one it leaves, or leaves
\* it alone, unless an overtaken activation commits or an earlier one has left
\* two active snapshots.
THEOREM PointerButForRaces == Spec => PointerUnlessOvertaken
<1>1. Init => Pointer!Init
  BY DEF Init, Pointer!Init, Active
<1>2. CatalogInv /\ [Next]_vars
        => [OneActive => Pointer!Next \/ \E q \in overtaken : Commit(q)]_(Pointer!pointer)
  <2> SUFFICES ASSUME CatalogInv, [Next]_vars, OneActive, ~UNCHANGED <<Pointed, Archived>>
               PROVE  PointerMoves \/ \E q \in overtaken : Commit(q)
    BY DEF Pointer!Next, Pointer!Activate, Pointer!pointer, Pointed, Archived, PointerMoves
  <2>1. SoleActive  BY DEF OneActive, Active, SoleActive
  <2> QED  BY <2>1, PointerStep
<1> QED  BY <1>1, <1>2, CatalogInvariant, PTL DEF Spec, PointerUnlessOvertaken

(***************************************************************************)
(* The search for the cycles of a prerequisite graph, for any graph.       *)
(***************************************************************************)

\* In no step or more.
Leads(a, b) == a = b \/ Reaches(a, b)

\* The courses whose component is complete.
Finished == DOMAIN indices \ OnStack

\* The course of the k-th call.
At(k) == calls[k].node

GraphTypeOK ==
  /\ phase \in {"parse", "cycles", "accepted", "refused"}
  /\ edges \subseteq Nat \X Nat \X Relations /\ IsFiniteSet(edges)
  /\ DOMAIN indices \subseteq Nodes
  /\ indices \in [DOMAIN indices -> Nat]
  /\ low \in [DOMAIN indices -> Nat]
  /\ stack \in Seq(DOMAIN indices)
  /\ calls \in Seq([node : DOMAIN indices, left : SUBSET Nodes])
  /\ reports \in Seq([nodes : SUBSET Nodes, legitimate : BOOLEAN])

\* Both stacks are in the order of the visits.
Ordered ==
  /\ \A n \in DOMAIN indices : indices[n] < Cardinality(DOMAIN indices)
  /\ \A i, j \in DOMAIN stack : i < j => indices[stack[i]] < indices[stack[j]]
  /\ \A k, l \in DOMAIN calls : k < l => indices[At(k)] < indices[At(l)]

\* A call that waits is still at the neighbour it called.
FramesOpen ==
  \A k \in DOMAIN calls :
    /\ At(k) \in OnStack
    /\ calls[k].left \subseteq Neighbours(At(k))
    /\ k < Len(calls) => At(k + 1) \in calls[k].left

\* What a visited course points to was visited or will be, and nothing leads
\* out of the complete components.
Explored ==
  \A m \in DOMAIN indices : \A n \in Neighbours(m) :
    n \in DOMAIN indices \/ \E k \in DOMAIN calls : At(k) = m /\ n \in calls[k].left

FinishedClosed == \A m \in Finished : Neighbours(m) \subseteq Finished

\* A call leads to all that was pushed after it, and everything on the stack
\* leads to a call that was made before it.
FramesReachUp ==
  \A k \in DOMAIN calls, m \in OnStack : indices[At(k)] <= indices[m] => Leads(At(k), m)

StackReachesFrame ==
  \A m \in OnStack : \E k \in DOMAIN calls : indices[At(k)] <= indices[m] /\ Leads(m, At(k))

\* A low link is the index of a course on the stack that the call leads to ...
LowIsReached ==
  \A k \in DOMAIN calls :
    /\ low[At(k)] <= indices[At(k)]
    /\ \E s \in OnStack : indices[s] = low[At(k)] /\ Leads(At(k), s)

\* The courses that were pushed during the k-th call and belong to no later one.
InSegment(k, m) ==
  /\ m \in OnStack /\ indices[At(k)] <= indices[m]
  /\ k < Len(calls) => indices[m] < indices[At(k + 1)]

\* ... and no edge that was followed from there goes below it.
LowBounds ==
  \A k \in DOMAIN calls, m, n \in OnStack :
    InSegment(k, m) /\ n \in Neighbours(m) /\ ~(m = At(k) /\ n \in calls[k].left)
      => low[At(k)] <= indices[n]

\* The reports so far are the complete components with a cycle, once each.
ReportsTrue ==
  \A i \in DOMAIN reports :
    /\ \E n \in Finished :
         Reaches(n, n) /\ reports[i].nodes = {m \in Nodes : Reaches(n, m) /\ Reaches(m, n)}
    /\ reports[i].nodes \subseteq Finished
    /\ reports[i].legitimate <=>
         \A e \in edges : {e[1], e[2]} \subseteq reports[i].nodes => e[3] = "corequisite"

ReportsAll == \A n \in Finished : Reaches(n, n) => \E i \in DOMAIN reports : n \in reports[i].nodes

ReportsOnce == \A i, j \in DOMAIN reports : reports[i].nodes = reports[j].nodes => i = j

\* The search begins with nothing, and the decision comes after it.
Decided ==
  /\ phase = "parse" => edges = {} /\ search = <<<<>>, <<>>, <<>>, <<>>, <<>>>>
  /\ Done => /\ calls = <<>> /\ Nodes \subseteq DOMAIN indices
             /\ phase = "accepted" <=> /\ UnknownReferences = {}
                                       /\ \A i \in DOMAIN reports : reports[i].legitimate

GraphInvariant ==
  /\ GraphTypeOK /\ Ordered /\ FramesOpen /\ Explored /\ FinishedClosed
  /\ FramesReachUp /\ StackReachesFrame /\ LowIsReached /\ LowBounds
  /\ ReportsTrue /\ ReportsAll /\ ReportsOnce /\ Decided

\* The nodes of a graph are courses, and there are finitely many of them.
LEMMA NodesTyped ==
  ASSUME edges \subseteq Nat \X Nat \X Relations, IsFiniteSet(edges)
  PROVE  /\ Nodes \subseteq Nat /\ IsFiniteSet(Nodes)
         /\ \A e \in edges : e[1] \in Nodes /\ e[2] \in Nodes /\ e[3] \in Relations
         /\ \A n : Neighbours(n) \subseteq Nodes
<1>1. \A e \in edges : e[1] \in Nat /\ e[2] \in Nat /\ e[3] \in Relations
  OBVIOUS
<1>2. ASSUME NEW i \in {1, 2} PROVE IsFiniteSet({e[i] : e \in edges})
  <2> DEFINE f == [e \in edges |-> e[i]]
  <2>1. f \in Surjection(edges, {e[i] : e \in edges})
    BY DEF Surjection
  <2> QED  BY <2>1, FS_Surjection
<1>3. IsFiniteSet(Nodes)
  BY <1>2, FS_Union DEF Nodes
<1> QED
  BY <1>1, <1>3 DEF Nodes, Neighbours

\* What an edge and two ways one after the other say of reachability.
LEMMA EdgeReaches ==
  ASSUME NEW a, NEW b \in Neighbours(a)
  PROVE  Reaches(a, b)
BY DEF Reaches, Neighbours

LEMMA ReachesTransitive ==
  ASSUME NEW a, NEW b, NEW c, Reaches(a, b), Reaches(b, c)
  PROVE  Reaches(a, c)
BY DEF Reaches

LEMMA LeadsTransitive ==
  ASSUME NEW a, NEW b, NEW c
  PROVE  /\ Leads(a, b) /\ Leads(b, c) => Leads(a, c)
         /\ Leads(a, b) /\ Reaches(b, c) => Reaches(a, c)
         /\ Reaches(a, b) /\ Leads(b, c) => Reaches(a, c)
BY ReachesTransitive DEF Leads

\* Nothing leaves a set of nodes that the edges do not leave.
LEMMA ReachesWithin ==
  ASSUME NEW closed \in SUBSET Nodes, NEW a \in closed, NEW b, Reaches(a, b),
         \A m \in closed : Neighbours(m) \subseteq closed
  PROVE  b \in closed
<1>1. \A e \in edges : e[1] \in closed => e[2] \in closed
  BY DEF Neighbours
<1> QED
  BY <1>1 DEF Reaches

LEMMA ReachesNode ==
  ASSUME NEW a, NEW b, Reaches(a, b), edges \subseteq Nat \X Nat \X Relations
  PROVE  b \in Nodes
<1>1. \A e \in edges : e[2] \in Nodes
  BY DEF Nodes
<1> QED
  BY <1>1 DEF Reaches

\* A way starts with an edge.
LEMMA ReachesFirst ==
  ASSUME NEW a, NEW b, Reaches(a, b), edges \subseteq Nat \X Nat \X Relations
  PROVE  \E x \in Neighbours(a) : Leads(x, b)
<1> DEFINE closed == {y \in Nodes : \E x \in Neighbours(a) : Leads(x, y)}
<1>1. ASSUME NEW e \in edges, e[1] = a \/ e[1] \in closed
      PROVE  e[2] \in closed
  <2>1. e[2] \in Nodes /\ e[2] \in Neighbours(e[1])
    BY DEF Nodes, Neighbours
  <2>2. CASE e[1] = a
    BY <2>1, <2>2 DEF Leads
  <2>3. CASE e[1] \in closed
    <3>1. PICK x \in Neighbours(a) : Leads(x, e[1])
      BY <2>3
    <3>2. Leads(x, e[2])
      BY <3>1, <2>1, EdgeReaches, LeadsTransitive DEF Leads
    <3> QED  BY <3>2, <2>1
  <2> QED  BY <1>1, <2>2, <2>3
<1>2. closed \in SUBSET Nodes
  OBVIOUS
<1>3. b \in closed
  BY <1>1, <1>2 DEF Reaches
<1> QED
  BY <1>3

\* The graph does not change once it is built.
LEMMA SameGraph ==
  ASSUME edges' = edges
  PROVE  /\ Nodes' = Nodes
         /\ \A n : Neighbours(n)' = Neighbours(n)
         /\ \A a, b : Reaches(a, b)' = Reaches(a, b)
         /\ \A a, b : Leads(a, b)' = Leads(a, b)
<1>1. Nodes' = Nodes  BY DEF Nodes
<1>2. \A n : Neighbours(n)' = Neighbours(n)  BY DEF Neighbours
<1>3. \A a, b : Reaches(a, b)' = Reaches(a, b)  BY <1>1 DEF Reaches
<1> QED  BY <1>1, <1>2, <1>3 DEF Leads

\* A sequence over a set is one over a larger set.
LEMMA SeqLarger ==
  ASSUME NEW S, NEW T, S \subseteq T, NEW s \in Seq(S)
  PROVE  s \in Seq(T)
OBVIOUS

LEMMA SeqElements ==
  ASSUME NEW S, NEW s \in Seq(S)
  PROVE  /\ Len(s) \in Nat /\ DOMAIN s = 1..Len(s)
         /\ \A i \in DOMAIN s : s[i] \in S
OBVIOUS

\* What the typing says of the stack and of the frames, element by element.
LEMMA StackTyped ==
  ASSUME GraphTypeOK
  PROVE  /\ Len(stack) \in Nat /\ DOMAIN stack = 1..Len(stack)
         /\ \A i \in DOMAIN stack : stack[i] \in DOMAIN indices
         /\ OnStack \subseteq DOMAIN indices
         /\ Len(calls) \in Nat /\ DOMAIN calls = 1..Len(calls)
         /\ \A k \in DOMAIN calls : /\ calls[k] = [node |-> At(k), left |-> calls[k].left]
                                    /\ At(k) \in DOMAIN indices
                                    /\ calls[k].left \subseteq Nodes
<1>1. /\ Len(stack) \in Nat /\ DOMAIN stack = 1..Len(stack)
      /\ \A i \in DOMAIN stack : stack[i] \in DOMAIN indices
  BY DEF GraphTypeOK
<1>2. /\ Len(calls) \in Nat /\ DOMAIN calls = 1..Len(calls)
      /\ \A k \in DOMAIN calls : calls[k] \in [node : DOMAIN indices, left : SUBSET Nodes]
  BY SeqElements DEF GraphTypeOK
<1> QED
  BY <1>1, <1>2 DEF OnStack, At

\* A visited node gets the largest index and goes on top of both stacks.
LEMMA PushFacts ==
  ASSUME GraphTypeOK, Ordered, NEW node \in Nodes \ DOMAIN indices, Push(node)
  PROVE  /\ GraphTypeOK' /\ Ordered'
         /\ DOMAIN indices' = DOMAIN indices \cup {node}
         /\ \A n \in DOMAIN indices : /\ indices'[n] = indices[n] /\ low'[n] = low[n]
                                      /\ indices'[n] < indices'[node]
         /\ low'[node] = indices'[node] /\ indices'[node] \in Nat
         /\ OnStack' = OnStack \cup {node}
         /\ Len(calls') = Len(calls) + 1
         /\ DOMAIN calls' = DOMAIN calls \cup {Len(calls) + 1}
         /\ \A k \in DOMAIN calls : calls'[k] = calls[k]
         /\ calls'[Len(calls) + 1] = [node |-> node, left |-> Neighbours(node)]
<1> DEFINE V == DOMAIN indices
           c == Cardinality(V)
           frame == [node |-> node, left |-> Neighbours(node)]
<1>0. Len(stack) \in Nat /\ Len(calls) \in Nat
  BY StackTyped
<1>1. IsFiniteSet(V) /\ c \in Nat /\ Cardinality(V \cup {node}) = c + 1
  BY NodesTyped, FS_Subset, FS_CardinalityType, FS_AddElement DEF GraphTypeOK
<1>2. /\ DOMAIN indices' = V \cup {node} /\ DOMAIN low' = V \cup {node}
      /\ \A n \in V : indices'[n] = indices[n] /\ low'[n] = low[n]
      /\ indices'[node] = c /\ low'[node] = c
  BY DEF Push, GraphTypeOK
<1>3. edges' = edges /\ Nodes' = Nodes /\ Neighbours(node) \subseteq Nodes
  BY SameGraph, NodesTyped DEF Push, GraphTypeOK
<1>4. /\ indices' \in [V \cup {node} -> Nat] /\ low' \in [V \cup {node} -> Nat]
      /\ V \cup {node} \subseteq Nodes
  BY <1>1 DEF Push, GraphTypeOK
<1>5. /\ stack' \in Seq(V \cup {node}) /\ Len(stack') = Len(stack) + 1
      /\ \A i \in 1..Len(stack) : stack'[i] = stack[i]
      /\ stack'[Len(stack) + 1] = node
  <2>1. stack \in Seq(V \cup {node}) /\ stack' = Append(stack, node)
    BY DEF GraphTypeOK, Push
  <2> QED  BY <2>1
<1>6. /\ calls' \in Seq([node : V \cup {node}, left : SUBSET Nodes])
      /\ Len(calls') = Len(calls) + 1
      /\ \A k \in 1..Len(calls) : calls'[k] = calls[k]
      /\ calls'[Len(calls) + 1] = frame
  <2> DEFINE F == [node : V \cup {node}, left : SUBSET Nodes]
  <2>1. [node : V, left : SUBSET Nodes] \subseteq F
    OBVIOUS
  <2>2. calls \in Seq(F)
    BY <2>1, SeqLarger DEF GraphTypeOK
  <2>3. calls' = Append(calls, frame) /\ frame \in F
    BY <1>3 DEF Push
  <2> QED  BY <2>2, <2>3
<1>7. GraphTypeOK'
  BY <1>2, <1>3, <1>4, <1>5, <1>6 DEF GraphTypeOK, Push
<1>8. OnStack' = OnStack \cup {node}
  <2>1. DOMAIN stack' = 1..(Len(stack) + 1) /\ Len(stack) \in Nat /\ DOMAIN stack = 1..Len(stack)
    BY <1>5, StackTyped
  <2> QED  BY <1>5, <2>1 DEF OnStack
<1>9. \A n \in V : indices'[n] < indices'[node]
  BY <1>2 DEF Ordered
<1>10. Ordered'
  <2>1. \A n \in DOMAIN indices' : indices'[n] < Cardinality(DOMAIN indices')
    BY <1>1, <1>2 DEF Ordered, GraphTypeOK
  <2>2. \A i, j \in DOMAIN stack' : i < j => indices'[stack'[i]] < indices'[stack'[j]]
    <3> SUFFICES ASSUME NEW i \in 1..(Len(stack) + 1), NEW j \in 1..(Len(stack) + 1), i < j
                 PROVE  indices'[stack'[i]] < indices'[stack'[j]]
      BY <1>5, StackTyped
    <3>1. i \in 1..Len(stack) /\ stack'[i] = stack[i] /\ stack[i] \in V
      BY <1>5, StackTyped
    <3>2. CASE j = Len(stack) + 1
      BY <3>1, <3>2, <1>5, <1>9
    <3>3. CASE j \in 1..Len(stack)
      BY <3>1, <3>3, <1>2, <1>5, StackTyped DEF Ordered
    <3> QED  BY <1>0, <3>2, <3>3
  <2>3. \A k, l \in DOMAIN calls' : k < l => indices'[At(k)'] < indices'[At(l)']
    <3> SUFFICES ASSUME NEW k \in 1..(Len(calls) + 1), NEW l \in 1..(Len(calls) + 1), k < l
                 PROVE  indices'[calls'[k].node] < indices'[calls'[l].node]
      BY <1>6, StackTyped DEF At
    <3>1. k \in 1..Len(calls) /\ calls'[k] = calls[k] /\ calls[k].node \in V
      BY <1>6, StackTyped DEF At
    <3>2. CASE l = Len(calls) + 1
      BY <3>1, <3>2, <1>6, <1>9
    <3>3. CASE l \in 1..Len(calls)
      <4>1. k \in DOMAIN calls /\ l \in DOMAIN calls /\ calls[l].node \in V
        BY <3>1, <3>3, StackTyped DEF At
      <4>2. indices[calls[k].node] < indices[calls[l].node]
        BY <4>1 DEF Ordered, At
      <4>3. calls'[l] = calls[l]
        BY <3>3, <1>6
      <4> QED  BY <3>1, <4>1, <4>2, <4>3, <1>2
    <3> QED  BY <1>0, <3>2, <3>3
  <2> QED  BY <2>1, <2>2, <2>3 DEF Ordered
<1> QED
  BY <1>1, <1>2, <1>5, <1>6, <1>7, <1>8, <1>9, <1>10, StackTyped

\* What is on the frames: their nodes are on the stack, and each leads to all
\* that was pushed after it.
LEMMA FrameFacts ==
  ASSUME GraphInvariant
  PROVE  /\ Len(calls) \in Nat /\ DOMAIN calls = 1..Len(calls)
         /\ \A k \in DOMAIN calls :
              /\ At(k) \in OnStack /\ At(k) \in DOMAIN indices /\ At(k) \in Nodes
              /\ calls[k].left \subseteq Neighbours(At(k))
              /\ indices[At(k)] \in Nat /\ low[At(k)] \in Nat
         /\ \A k, l \in DOMAIN calls : k <= l => Leads(At(k), At(l))
         /\ \A n \in OnStack : n \in DOMAIN indices /\ n \in Nodes /\ indices[n] \in Nat
<1>1. /\ Len(calls) \in Nat /\ DOMAIN calls = 1..Len(calls)
      /\ \A k \in DOMAIN calls : At(k) \in DOMAIN indices
      /\ OnStack \subseteq DOMAIN indices
  BY StackTyped DEF GraphInvariant
<1>2. \A n \in DOMAIN indices : n \in Nodes /\ indices[n] \in Nat /\ low[n] \in Nat
  BY DEF GraphInvariant, GraphTypeOK
<1>3. \A k \in DOMAIN calls : At(k) \in OnStack /\ calls[k].left \subseteq Neighbours(At(k))
  BY DEF GraphInvariant, FramesOpen
<1>4. ASSUME NEW k \in DOMAIN calls, NEW l \in DOMAIN calls, k <= l
      PROVE  Leads(At(k), At(l))
  <2>1. CASE k = l
    BY <2>1 DEF Leads
  <2>2. CASE k < l
    <3>1. indices[At(k)] < indices[At(l)]
      BY <2>2 DEF GraphInvariant, Ordered
    <3>2. indices[At(k)] <= indices[At(l)]
      BY <1>1, <1>2, <3>1
    <3> QED  BY <1>3, <3>2 DEF GraphInvariant, FramesReachUp
  <2> QED  BY <1>1, <1>4, <2>1, <2>2
<1> QED
  BY <1>1, <1>2, <1>3, <1>4

\* A call that is made keeps the invariant.
LEMMA PushKeeps ==
  ASSUME GraphInvariant, phase = "cycles",
         NEW node \in Nodes \ DOMAIN indices, Push(node),
         calls # <<>> => node \in Top.left
  PROVE  GraphInvariant'
<1> DEFINE L == Len(calls)
<1>1. /\ GraphTypeOK' /\ Ordered'
      /\ DOMAIN indices' = DOMAIN indices \cup {node}
      /\ \A n \in DOMAIN indices : /\ indices'[n] = indices[n] /\ low'[n] = low[n]
                                   /\ indices'[n] < indices'[node]
      /\ low'[node] = indices'[node] /\ indices'[node] \in Nat
      /\ OnStack' = OnStack \cup {node}
      /\ Len(calls') = L + 1
      /\ DOMAIN calls' = DOMAIN calls \cup {L + 1}
      /\ \A k \in DOMAIN calls : calls'[k] = calls[k]
      /\ calls'[L + 1] = [node |-> node, left |-> Neighbours(node)]
  BY PushFacts DEF GraphInvariant
<1>2. /\ edges' = edges /\ phase' = phase /\ reports' = reports /\ Nodes' = Nodes
      /\ \A n : Neighbours(n)' = Neighbours(n)
      /\ \A a, b : Reaches(a, b)' = Reaches(a, b)
      /\ \A a, b : Leads(a, b)' = Leads(a, b)
  BY SameGraph DEF Push
<1>3. /\ L \in Nat /\ DOMAIN calls = 1..L
      /\ \A k \in DOMAIN calls :
           /\ At(k) \in OnStack /\ At(k) \in DOMAIN indices
           /\ calls[k].left \subseteq Neighbours(At(k))
      /\ \A k, l \in DOMAIN calls : k <= l => Leads(At(k), At(l))
      /\ \A n \in OnStack : n \in DOMAIN indices /\ indices[n] \in Nat
  BY FrameFacts
<1>4. /\ \A k \in DOMAIN calls : At(k)' = At(k)
      /\ \A k : k = L + 1 => At(k)' = node
  BY <1>1 DEF At
<1>5. L # 0 => L \in DOMAIN calls /\ node \in calls[L].left /\ node \in Neighbours(At(L))
  BY <1>3 DEF Top
<1>6. \A k \in DOMAIN calls' : Leads(At(k)', node)
  <2>1. ASSUME NEW k \in DOMAIN calls PROVE Leads(At(k), node)
    <3>1. Leads(At(k), At(L)) /\ Leads(At(L), node)
      BY <1>3, <1>5, EdgeReaches DEF Leads
    <3> QED  BY <3>1, LeadsTransitive
  <2>2. Leads(node, node)
    BY DEF Leads
  <2> QED  BY <1>1, <1>4, <2>1, <2>2
<1>7. Finished' = Finished
  <2>1. OnStack \subseteq DOMAIN indices /\ node \notin DOMAIN indices
    BY <1>3
  <2> QED  BY <1>1, <2>1 DEF Finished
<1>8. FramesOpen'
  <2> SUFFICES ASSUME NEW k \in DOMAIN calls'
               PROVE  /\ At(k)' \in OnStack' /\ calls'[k].left \subseteq Neighbours(At(k)')
                      /\ k < L + 1 => At(k + 1)' \in calls'[k].left
    BY <1>1, <1>2 DEF FramesOpen
  <2>1. CASE k = L + 1
    BY <2>1, <1>1, <1>3, <1>4
  <2>2. CASE k \in DOMAIN calls
    <3>1. k < L => At(k + 1) \in calls[k].left /\ k + 1 \in DOMAIN calls
      BY <2>2, <1>3 DEF GraphInvariant, FramesOpen
    <3>2. CASE k < L
      BY <2>2, <3>1, <3>2, <1>1, <1>3, <1>4
    <3>3. CASE k = L
      BY <2>2, <3>3, <1>1, <1>3, <1>4, <1>5
    <3> QED  BY <2>2, <3>2, <3>3, <1>3
  <2> QED  BY <1>1, <2>1, <2>2
<1>9. Explored'
  <2> SUFFICES ASSUME NEW m \in DOMAIN indices', NEW n \in Neighbours(m), n \notin DOMAIN indices'
               PROVE  \E k \in DOMAIN calls' : At(k)' = m /\ n \in calls'[k].left
    BY <1>2 DEF Explored
  <2>1. CASE m = node
    BY <2>1, <1>1, <1>4
  <2>2. CASE m \in DOMAIN indices
    <3>1. PICK k \in DOMAIN calls : At(k) = m /\ n \in calls[k].left
      BY <2>2, <1>1 DEF GraphInvariant, Explored
    <3> QED  BY <3>1, <1>1, <1>4
  <2> QED  BY <1>1, <2>1, <2>2
<1>10. FinishedClosed'
  BY <1>2, <1>7 DEF GraphInvariant, FinishedClosed
<1>11. FramesReachUp'
  <2> SUFFICES ASSUME NEW k \in DOMAIN calls', NEW m \in OnStack', indices'[At(k)'] <= indices'[m]
               PROVE  Leads(At(k)', m)
    BY <1>2 DEF FramesReachUp
  <2>1. CASE m = node
    BY <2>1, <1>6
  <2>2. CASE m # node
    <3>1. m \in OnStack /\ m \in DOMAIN indices /\ indices'[m] < indices'[node]
      BY <2>2, <1>1, <1>3
    <3>2. k # L + 1
      <4> SUFFICES ASSUME k = L + 1 PROVE FALSE
        OBVIOUS
      <4>1. indices'[m] \in Nat /\ indices'[node] \in Nat
        BY <3>1, <1>1, <1>3
      <4> QED  BY <3>1, <1>4, <4>1
    <3>3. k \in DOMAIN calls /\ At(k)' = At(k) /\ At(k) \in DOMAIN indices
      BY <3>2, <1>1, <1>3, <1>4
    <3>4. indices[At(k)] <= indices[m]
      BY <3>1, <3>3, <1>1
    <3> QED  BY <3>1, <3>3, <3>4 DEF GraphInvariant, FramesReachUp
  <2> QED  BY <2>1, <2>2
<1>12. StackReachesFrame'
  <2> SUFFICES ASSUME NEW m \in OnStack'
               PROVE  \E k \in DOMAIN calls' : indices'[At(k)'] <= indices'[m] /\ Leads(m, At(k)')
    BY <1>2 DEF StackReachesFrame
  <2>1. CASE m = node
    BY <2>1, <1>1, <1>4 DEF Leads
  <2>2. CASE m \in OnStack
    <3>1. PICK k \in DOMAIN calls : indices[At(k)] <= indices[m] /\ Leads(m, At(k))
      BY <2>2 DEF GraphInvariant, StackReachesFrame
    <3> QED  BY <2>2, <3>1, <1>1, <1>3, <1>4
  <2> QED  BY <1>1, <2>1, <2>2
<1>13. LowIsReached'
  <2> SUFFICES ASSUME NEW k \in DOMAIN calls'
               PROVE  /\ low'[At(k)'] <= indices'[At(k)']
                      /\ \E s \in OnStack' : indices'[s] = low'[At(k)'] /\ Leads(At(k)', s)
    BY <1>2 DEF LowIsReached
  <2>1. CASE k = L + 1
    BY <2>1, <1>1, <1>4 DEF Leads
  <2>2. CASE k \in DOMAIN calls
    <3>1. low[At(k)] <= indices[At(k)]
      BY <2>2 DEF GraphInvariant, LowIsReached
    <3>2. PICK s \in OnStack : indices[s] = low[At(k)] /\ Leads(At(k), s)
      BY <2>2 DEF GraphInvariant, LowIsReached
    <3> QED  BY <2>2, <3>1, <3>2, <1>1, <1>3, <1>4
  <2> QED  BY <1>1, <2>1, <2>2
<1>14. LowBounds'
  <2> SUFFICES ASSUME NEW k \in DOMAIN calls', NEW m \in OnStack', NEW n \in OnStack',
                      InSegment(k, m)', n \in Neighbours(m),
                      ~(m = At(k)' /\ n \in calls'[k].left)
               PROVE  low'[At(k)'] <= indices'[n]
    BY <1>2 DEF LowBounds
  <2>1. CASE k = L + 1
    <3>1. m = node
      <4> SUFFICES ASSUME m # node PROVE FALSE
        OBVIOUS
      <4>1. m \in DOMAIN indices /\ indices'[m] < indices'[node]
        BY <1>1, <1>3
      <4>2. indices'[m] \in Nat /\ indices'[node] \in Nat
        BY <4>1, <1>1, <1>3
      <4> QED  BY <2>1, <4>1, <4>2, <1>4 DEF InSegment
    <3> QED  BY <2>1, <3>1, <1>1, <1>4
  <2>2. CASE k \in DOMAIN calls
    <3>1. At(k)' = At(k) /\ At(k) \in DOMAIN indices /\ indices'[At(k)] = indices[At(k)]
          /\ low'[At(k)] = low[At(k)] /\ low[At(k)] \in Nat /\ calls'[k] = calls[k]
      BY <2>2, <1>1, <1>3, <1>4, FrameFacts
    <3>2. m # node
      <4> SUFFICES ASSUME m = node PROVE FALSE
        OBVIOUS
      <4>1. indices'[node] < indices'[At(k + 1)'] /\ k + 1 \in DOMAIN calls'
        BY <2>2, <1>1, <1>3 DEF InSegment
      <4>2. CASE k = L
        BY <4>1, <4>2, <1>1, <1>4
      <4>3. CASE k < L
        <5>1. At(k + 1)' = At(k + 1) /\ At(k + 1) \in DOMAIN indices
          BY <2>2, <4>3, <1>3, <1>4
        <5>2. indices'[At(k + 1)] < indices'[node] /\ indices'[At(k + 1)] \in Nat
          BY <5>1, <1>1 DEF GraphInvariant, GraphTypeOK
        <5> QED  BY <4>1, <5>1, <5>2, <1>1
      <4> QED  BY <2>2, <1>3, <4>2, <4>3
    <3>3. m \in OnStack /\ m \in DOMAIN indices /\ indices'[m] = indices[m]
      BY <3>2, <1>1, <1>3
    <3>4. InSegment(k, m)
      <4>1. indices[At(k)] <= indices[m]
        BY <3>1, <3>3 DEF InSegment
      <4>2. ASSUME k < L PROVE indices[m] < indices[At(k + 1)]
        <5>1. At(k + 1)' = At(k + 1) /\ At(k + 1) \in DOMAIN indices
          BY <2>2, <4>2, <1>3, <1>4
        <5>2. k < L + 1
          BY <2>2, <4>2, <1>3
        <5> QED  BY <5>1, <5>2, <3>3, <1>1 DEF InSegment
      <4> QED  BY <3>3, <4>1, <4>2 DEF InSegment
    <3>5. CASE n = node
      <4>1. low[At(k)] <= indices[At(k)]
        BY <2>2 DEF GraphInvariant, LowIsReached
      <4>2. indices'[At(k)] < indices'[node] /\ indices[At(k)] \in Nat
        BY <2>2, <1>1, <3>1, FrameFacts
      <4> QED  BY <3>1, <3>5, <4>1, <4>2, <1>1
    <3>6. CASE n \in OnStack
      <4>1. low[At(k)] <= indices[n]
        BY <2>2, <3>1, <3>3, <3>4, <3>6 DEF GraphInvariant, LowBounds
      <4> QED  BY <3>1, <3>6, <4>1, <1>1, <1>3
    <3> QED  BY <1>1, <3>5, <3>6
  <2> QED  BY <1>1, <2>1, <2>2
<1>15. ReportsTrue' /\ ReportsAll' /\ ReportsOnce'
  BY <1>2, <1>7 DEF GraphInvariant, ReportsTrue, ReportsAll, ReportsOnce
<1>16. Decided'
  BY <1>2 DEF Decided, Done
<1> QED
  BY <1>1, <1>8, <1>9, <1>10, <1>11, <1>12, <1>13, <1>14, <1>15, <1>16 DEF GraphInvariant

\* One element of a sequence is replaced.
LEMMA SeqReplace ==
  ASSUME NEW S, NEW s \in Seq(S), NEW i \in 1..Len(s), NEW x \in S
  PROVE  /\ [s EXCEPT ![i] = x] \in Seq(S)
         /\ Len([s EXCEPT ![i] = x]) = Len(s)
         /\ DOMAIN [s EXCEPT ![i] = x] = DOMAIN s
         /\ [s EXCEPT ![i] = x][i] = x
         /\ \A j \in DOMAIN s : j # i => [s EXCEPT ![i] = x][j] = s[j]
OBVIOUS

\* No two frames are of one node, and the last one is on top.
LEMMA TopFacts ==
  ASSUME GraphInvariant, calls # <<>>
  PROVE  /\ Len(calls) \in DOMAIN calls /\ Top = calls[Len(calls)] /\ Top.node = At(Len(calls))
         /\ \A k \in DOMAIN calls : k # Len(calls) =>
              At(k) # Top.node /\ indices[At(k)] < indices[Top.node]
<1>1. Len(calls) \in DOMAIN calls /\ DOMAIN calls = 1..Len(calls) /\ Len(calls) \in Nat
  <2>1. calls \in Seq([node : DOMAIN indices, left : SUBSET Nodes])
    BY DEF GraphInvariant, GraphTypeOK
  <2>2. Len(calls) # 0
    BY <2>1
  <2> QED  BY <2>2, FrameFacts
<1>2. Top = calls[Len(calls)] /\ Top.node = At(Len(calls))
  BY DEF Top, At
<1>3. ASSUME NEW k \in DOMAIN calls, k # Len(calls)
      PROVE  At(k) # Top.node /\ indices[At(k)] < indices[Top.node]
  <2>1. k < Len(calls)
    BY <1>1, <1>3
  <2>2. indices[At(k)] < indices[Top.node]
    BY <1>1, <1>2, <2>1 DEF GraphInvariant, Ordered
  <2>3. indices[At(k)] \in Nat
    BY FrameFacts
  <2> QED  BY <2>2, <2>3
<1> QED
  BY <1>1, <1>2, <1>3

\* A neighbour that is skipped keeps the invariant.
LEMMA SkipKeeps ==
  ASSUME GraphInvariant, SkipNeighbour
  PROVE  GraphInvariant'
<1> DEFINE L == Len(calls)
           top == Top.node
<1>1. /\ L \in Nat /\ DOMAIN calls = 1..L /\ L \in DOMAIN calls
      /\ top = At(L) /\ Top = calls[L]
      /\ \A k \in DOMAIN calls : k # L => At(k) # top
      /\ \A k \in DOMAIN calls :
           /\ At(k) \in OnStack /\ At(k) \in DOMAIN indices
           /\ calls[k].left \subseteq Neighbours(At(k))
           /\ indices[At(k)] \in Nat /\ low[At(k)] \in Nat
      /\ \A n \in OnStack : n \in DOMAIN indices /\ indices[n] \in Nat
  BY FrameFacts, TopFacts DEF SkipNeighbour
<1>2. PICK nb \in Top.left \cap DOMAIN indices :
        /\ low' = IF nb \in OnStack THEN [low EXCEPT ![top] = Smaller(@, indices[nb])] ELSE low
        /\ calls' = [calls EXCEPT ![L] = Past(@, nb)]
  BY DEF SkipNeighbour
<1>3. /\ edges' = edges /\ phase' = phase /\ reports' = reports /\ Nodes' = Nodes
      /\ indices' = indices /\ stack' = stack /\ document' = document
      /\ OnStack' = OnStack /\ Finished' = Finished
      /\ \A n : Neighbours(n)' = Neighbours(n)
      /\ \A a, b : Reaches(a, b)' = Reaches(a, b)
      /\ \A a, b : Leads(a, b)' = Leads(a, b)
  BY SameGraph DEF SkipNeighbour, OnStack, Finished
<1>4. /\ calls \in Seq([node : DOMAIN indices, left : SUBSET Nodes])
      /\ low \in [DOMAIN indices -> Nat] /\ indices \in [DOMAIN indices -> Nat]
  BY DEF GraphInvariant, GraphTypeOK
<1>5. /\ DOMAIN calls' = DOMAIN calls /\ Len(calls') = L
      /\ \A k \in DOMAIN calls : k # L => calls'[k] = calls[k]
      /\ calls'[L] = [node |-> top, left |-> calls[L].left \ {nb}]
      /\ calls' \in Seq([node : DOMAIN indices, left : SUBSET Nodes])
  <2> DEFINE F == [node : DOMAIN indices, left : SUBSET Nodes]
             frame == Past(calls[L], nb)
  <2>1. calls[L] \in F
    <3>1. calls \in Seq(F)
      BY <1>4
    <3> HIDE DEF F
    <3> QED  BY <3>1, <1>1, SeqElements
  <2>2. frame \in F
    BY <2>1 DEF Past
  <2>3. frame = [node |-> top, left |-> calls[L].left \ {nb}]
    BY <1>1 DEF Past
  <2>4. calls' = [calls EXCEPT ![L] = frame] /\ L \in 1..Len(calls) /\ calls \in Seq(F)
    BY <1>1, <1>2, <1>4
  <2> HIDE DEF F, frame
  <2>5. /\ calls' \in Seq(F) /\ Len(calls') = L /\ DOMAIN calls' = DOMAIN calls
        /\ calls'[L] = frame /\ \A j \in DOMAIN calls : j # L => calls'[j] = calls[j]
    BY <2>2, <2>4, SeqReplace
  <2> QED  BY <2>3, <2>5 DEF F
<1>6. /\ \A k \in DOMAIN calls : /\ At(k)' = At(k) /\ calls'[k].left \subseteq calls[k].left
                                 /\ calls[k].left \subseteq calls'[k].left \cup {nb}
                                 /\ k # L => calls'[k].left = calls[k].left
  BY <1>1, <1>5 DEF At
<1>7. /\ low' \in [DOMAIN indices -> Nat]
      /\ \A n \in DOMAIN indices : low'[n] <= low[n] /\ (n # top => low'[n] = low[n])
      /\ low'[top] = low[top] \/ (nb \in OnStack /\ low'[top] = indices[nb])
      /\ nb \in OnStack => low'[top] <= indices[nb]
  BY <1>1, <1>2, <1>4 DEF Smaller
<1>8. GraphTypeOK'
  BY <1>3, <1>5, <1>7 DEF GraphInvariant, GraphTypeOK
<1>9. Ordered'
  BY <1>3, <1>5, <1>6 DEF GraphInvariant, Ordered
<1>10. FramesOpen'
  <2> SUFFICES ASSUME NEW k \in DOMAIN calls
               PROVE  /\ At(k)' \in OnStack' /\ calls'[k].left \subseteq Neighbours(At(k)')
                      /\ k < L => At(k + 1)' \in calls'[k].left
    BY <1>3, <1>5 DEF FramesOpen
  <2>1. k < L => At(k + 1) \in calls[k].left /\ At(k + 1)' = At(k + 1) /\ k # L
    BY <1>1, <1>6 DEF GraphInvariant, FramesOpen
  <2> QED  BY <2>1, <1>1, <1>3, <1>6
<1>11. Explored'
  <2> SUFFICES ASSUME NEW m \in DOMAIN indices, NEW n \in Neighbours(m), n \notin DOMAIN indices
               PROVE  \E k \in DOMAIN calls' : At(k)' = m /\ n \in calls'[k].left
    BY <1>3 DEF Explored
  <2>1. PICK k \in DOMAIN calls : At(k) = m /\ n \in calls[k].left
    BY DEF GraphInvariant, Explored
  <2>2. n # nb
    BY <1>2
  <2> QED  BY <2>1, <2>2, <1>5, <1>6
<1>12. FinishedClosed'
  BY <1>3 DEF GraphInvariant, FinishedClosed
<1>13. FramesReachUp' /\ StackReachesFrame'
  BY <1>3, <1>5, <1>6 DEF GraphInvariant, FramesReachUp, StackReachesFrame
<1>14. LowIsReached'
  <2> SUFFICES ASSUME NEW k \in DOMAIN calls
               PROVE  /\ low'[At(k)] <= indices[At(k)]
                      /\ \E s \in OnStack : indices[s] = low'[At(k)] /\ Leads(At(k), s)
    BY <1>3, <1>5, <1>6 DEF LowIsReached
  <2>1. low[At(k)] <= indices[At(k)] /\ low'[At(k)] <= low[At(k)] /\ low'[At(k)] \in Nat
    BY <1>1, <1>7 DEF GraphInvariant, LowIsReached
  <2>2. PICK s \in OnStack : indices[s] = low[At(k)] /\ Leads(At(k), s)
    BY DEF GraphInvariant, LowIsReached
  <2>3. CASE low'[At(k)] = low[At(k)]
    BY <2>1, <2>2, <2>3
  <2>4. CASE low'[At(k)] # low[At(k)]
    <3>1. At(k) = top /\ nb \in OnStack /\ low'[top] = indices[nb]
      BY <2>4, <1>1, <1>7
    <3>2. nb \in Neighbours(top)
      BY <1>1, <1>2
    <3>3. Leads(top, nb)
      BY <3>2, EdgeReaches DEF Leads
    <3> QED  BY <2>1, <3>1, <3>3, <1>1
  <2> QED  BY <2>3, <2>4
<1>15. LowBounds'
  <2> SUFFICES ASSUME NEW k \in DOMAIN calls, NEW m \in OnStack, NEW n \in OnStack,
                      InSegment(k, m)', n \in Neighbours(m),
                      ~(m = At(k) /\ n \in calls'[k].left)
               PROVE  low'[At(k)] <= indices[n]
    BY <1>3, <1>5, <1>6 DEF LowBounds
  <2>1. low'[At(k)] <= low[At(k)] /\ low'[At(k)] \in Nat /\ low[At(k)] \in Nat /\ indices[n] \in Nat
    BY <1>1, <1>7
  <2>2. InSegment(k, m)
    <3>1. k < L => At(k + 1)' = At(k + 1)
      BY <1>1, <1>6
    <3> QED  BY <3>1, <1>3, <1>5, <1>6 DEF InSegment
  <2>3. CASE m = At(k) /\ n \in calls[k].left
    <3>1. k = L /\ n = nb
      BY <2>3, <1>6
    <3> QED  BY <3>1, <1>1, <1>7
  <2>4. CASE ~(m = At(k) /\ n \in calls[k].left)
    <3>1. low[At(k)] <= indices[n]
      BY <2>2, <2>4 DEF GraphInvariant, LowBounds
    <3> QED  BY <2>1, <3>1
  <2> QED  BY <2>3, <2>4
<1>16. ReportsTrue' /\ ReportsAll' /\ ReportsOnce'
  BY <1>3 DEF GraphInvariant, ReportsTrue, ReportsAll, ReportsOnce
<1>17. Decided'
  <2>1. phase = "cycles"
    BY <1>1 DEF GraphInvariant, Decided, Done, GraphTypeOK, search, SkipNeighbour
  <2> QED  BY <2>1, <1>3 DEF Decided, Done
<1> QED
  BY <1>8, <1>9, <1>10, <1>11, <1>12, <1>13, <1>14, <1>15, <1>16, <1>17 DEF GraphInvariant

\* The part of the stack from the node on top of the calls.
Above(node) == {m \in OnStack : indices[node] <= indices[m]}

\* What a return does to the frames and to the low links.
LEMMA ResumeFacts ==
  ASSUME GraphInvariant, calls # <<>>, Resume(Top.node)
  PROVE  LET L == Len(calls)
             V == DOMAIN indices
         IN  /\ calls' \in Seq([node : V, left : SUBSET Nodes])
             /\ Len(calls') = L - 1 /\ DOMAIN calls' = 1..(L - 1)
             /\ \A k \in 1..(L - 1) :
                  /\ calls'[k].node = At(k)
                  /\ calls'[k].left = IF k = L - 1 THEN calls[k].left \ {Top.node} ELSE calls[k].left
             /\ low' \in [V -> Nat]
             /\ \A k \in 1..(L - 1) :
                  low'[At(k)] = IF k = L - 1 THEN Smaller(low[At(k)], low[Top.node]) ELSE low[At(k)]
<1> DEFINE L == Len(calls)
           V == DOMAIN indices
           F == [node : V, left : SUBSET Nodes]
           node == Top.node
<1>1. /\ L \in Nat /\ DOMAIN calls = 1..L /\ L \in DOMAIN calls /\ node = At(L)
      /\ \A k, l \in DOMAIN calls : k < l => indices[At(k)] < indices[At(l)]
      /\ \A k \in DOMAIN calls : At(k) \in V /\ indices[At(k)] \in Nat
  BY FrameFacts, TopFacts DEF GraphInvariant, Ordered
<1>2. calls \in Seq(F) /\ low \in [V -> Nat]
  BY DEF GraphInvariant, GraphTypeOK
<1>0. L \in Nat /\ 1 <= L /\ DOMAIN calls = 1..L
  BY <1>1
<1>3. CASE L = 1
  <2>1. calls' = <<>> /\ low' = low
    BY <1>1, <1>3 DEF Resume
  <2>2. calls' \in Seq(F) /\ Len(calls') = 0 /\ DOMAIN calls' = 1..0
    BY <2>1
  <2> QED  BY <1>2, <1>3, <2>1, <2>2
<1>4. CASE L # 1
  <2>0. PICK d \in Int : d = L - 1
    <3>1. L - 1 \in Int
      BY <1>0
    <3> QED  BY <3>1, Zenon
  <2> DEFINE s == SubSeq(calls, 1, d)
             frame == Past(calls[d], node)
  <2>1. /\ d \in 1..L /\ d # L /\ d # 0 /\ d \in Nat
        /\ d \in DOMAIN calls
        /\ 1..d \subseteq DOMAIN calls
        /\ \A k \in 1..d : k \in Int /\ (k # d => k < d)
    <3> HIDE DEF L
    <3>1. d \in 1..L /\ d # L /\ d # 0 /\ d \in Nat
      BY <1>0, <1>4, <2>0
    <3>2. d \in DOMAIN calls
      BY <1>0, <3>1
    <3>3. \A k \in 1..d : k \in 1..L /\ k \in Int /\ (k # d => k < d)
      BY <1>0, <3>1
    <3> QED  BY <1>0, <3>1, <3>2, <3>3
  <2>2. calls' = [s EXCEPT ![d] = Past(s[d], node)]
    BY <2>0, <2>1 DEF Resume
  <2>3. low' = [low EXCEPT ![At(d)] = Smaller(low[At(d)], low[node])]
    BY <2>0, <2>1 DEF Resume, At
  <2>4. calls[d] \in F
    <3> HIDE DEF F
    <3> QED  BY <2>1, <1>2, SeqElements
  <2>5. frame \in F /\ frame = [node |-> At(d), left |-> calls[d].left \ {node}]
    BY <2>4 DEF Past, At
  <2>6. s \in Seq(F) /\ Len(s) = d /\ \A k \in 1..d : s[k] = calls[k]
    <3> HIDE DEF F
    <3>1. calls \in Seq(F)
      BY <1>2
    <3> QED  BY <2>1, <3>1
  <2>7. calls' = [s EXCEPT ![d] = frame]
    <3> HIDE DEF s
    <3>1. s[d] = calls[d]
      BY <2>1, <2>6
    <3> QED  BY <2>2, <3>1
  <2>8. /\ calls' \in Seq(F) /\ Len(calls') = d /\ DOMAIN calls' = 1..d
        /\ calls'[d] = frame /\ \A k \in 1..d : k # d => calls'[k] = calls[k]
    <3> HIDE DEF F, frame, s
    <3>1. d \in 1..Len(s) /\ DOMAIN s = 1..d
      BY <2>1, <2>6, SeqElements
    <3> QED  BY <2>5, <2>6, <2>7, <3>1, SeqReplace
  <2>9. \A k \in 1..d : k # d => At(k) # At(d)
    <3> SUFFICES ASSUME NEW k \in 1..d, k # d, At(k) = At(d) PROVE FALSE
      OBVIOUS
    <3>1. k \in DOMAIN calls /\ k < d
      BY <2>1
    <3>2. indices[At(k)] < indices[At(d)] /\ indices[At(k)] \in Nat
      BY <3>1, <2>1, <1>1
    <3> QED  BY <3>2
  <2>10. Smaller(low[At(d)], low[node]) \in Nat
    <3>1. low[At(d)] \in Nat /\ low[node] \in Nat
      BY <1>1, <1>2, <2>1
    <3> QED  BY <3>1 DEF Smaller
  <2>11. /\ low' \in [V -> Nat]
         /\ \A k \in 1..d : low'[At(k)] = IF k = d THEN Smaller(low[At(k)], low[node]) ELSE low[At(k)]
    <3>1. At(d) \in V /\ \A k \in 1..d : At(k) \in V
      <4>1. \A k \in DOMAIN calls : At(k) \in V
        BY <1>1
      <4> QED  BY <2>1, <4>1
    <3> QED  BY <1>2, <2>3, <2>9, <2>10, <3>1
  <2>12. \A k \in 1..d : /\ calls'[k].node = At(k)
                         /\ calls'[k].left = IF k = d THEN calls[k].left \ {node} ELSE calls[k].left
    <3>1. calls'[d].node = At(d) /\ calls'[d].left = calls[d].left \ {node}
      BY <2>5, <2>8
    <3>2. \A k \in 1..d : k # d => calls'[k].node = At(k) /\ calls'[k].left = calls[k].left
      BY <2>8 DEF At
    <3> QED  BY <3>1, <3>2
  <2> QED  BY <2>0, <2>8, <2>11, <2>12
<1> QED
  BY <1>3, <1>4

\* What is cut off the stack.
LEMMA CutFacts ==
  ASSUME GraphInvariant, calls # <<>>, Cut(Top.node)
  PROVE  LET node == Top.node
             component == Above(node)
         IN  /\ stack' \in Seq(DOMAIN indices)
             /\ Len(stack') <= Len(stack) /\ Len(stack') \in Nat
             /\ \A i \in DOMAIN stack' : i \in DOMAIN stack /\ stack'[i] = stack[i]
             /\ OnStack' = {m \in OnStack : indices[m] < indices[node]}
             /\ reports' = IF Cyclic(component) THEN Append(reports, Report(component)) ELSE reports
<1> DEFINE node == Top.node
           V == DOMAIN indices
           p == CHOOSE i \in DOMAIN stack : stack[i] = node
           C == {stack[i] : i \in p..Len(stack)}
<1>1. node \in OnStack /\ indices[node] \in Nat
  BY FrameFacts, TopFacts
<1>2. /\ Len(stack) \in Nat /\ DOMAIN stack = 1..Len(stack)
      /\ \A i \in DOMAIN stack : stack[i] \in V /\ indices[stack[i]] \in Nat
      /\ \A i, j \in DOMAIN stack : i < j => indices[stack[i]] < indices[stack[j]]
      /\ stack \in Seq(V)
  BY StackTyped DEF GraphInvariant, GraphTypeOK, Ordered
<1>3. p \in 1..Len(stack) /\ stack[p] = node
  <2>1. \E i \in DOMAIN stack : stack[i] = node
    BY <1>1 DEF OnStack
  <2> QED  BY <2>1, <1>2
<1>4. stack' = SubSeq(stack, 1, p - 1)
  BY DEF Cut
<1>5. reports' = IF Cyclic(C) THEN Append(reports, Report(C)) ELSE reports
  BY DEF Cut
<1> HIDE DEF p
<1>6. p \in Nat /\ p - 1 \in Nat /\ p - 1 <= Len(stack)
  BY <1>2, <1>3
<1>7. /\ stack' \in Seq(V) /\ Len(stack') = p - 1 /\ DOMAIN stack' = 1..(p - 1)
      /\ \A i \in 1..(p - 1) : stack'[i] = stack[i]
  BY <1>2, <1>4, <1>6
<1>8. \A i \in DOMAIN stack : i < p <=> indices[stack[i]] < indices[node]
  <2> SUFFICES ASSUME NEW i \in DOMAIN stack PROVE i < p <=> indices[stack[i]] < indices[node]
    OBVIOUS
  <2>1. i \in Nat /\ indices[stack[i]] \in Nat /\ indices[stack[p]] = indices[node] /\ p \in DOMAIN stack
    BY <1>2, <1>3
  <2>2. CASE i < p
    BY <2>1, <2>2, <1>2
  <2>3. CASE i = p
    BY <2>1, <2>3, <1>1
  <2>4. CASE p < i
    <3>1. indices[stack[p]] < indices[stack[i]]
      BY <2>1, <2>4, <1>2
    <3> QED  BY <2>1, <2>4, <3>1, <1>1, <1>6
  <2> QED  BY <2>1, <2>2, <2>3, <2>4, <1>6
<1>9. OnStack' = {m \in OnStack : indices[m] < indices[node]}
  <2>1. OnStack' = {stack[i] : i \in 1..(p - 1)}
    BY <1>7 DEF OnStack
  <2>2. 1..(p - 1) = {i \in DOMAIN stack : i < p}
    BY <1>2, <1>3, <1>6
  <2> QED  BY <2>1, <2>2, <1>8 DEF OnStack
<1>10. C = Above(node)
  <2>1. p..Len(stack) = {i \in DOMAIN stack : ~(i < p)}
    BY <1>2, <1>3, <1>6
  <2>2. \A i \in DOMAIN stack : ~(i < p) <=> indices[node] <= indices[stack[i]]
    BY <1>1, <1>2, <1>8
  <2> QED  BY <2>1, <2>2 DEF OnStack, Above
<1>11. \A i \in DOMAIN stack' : i \in DOMAIN stack /\ stack'[i] = stack[i]
  BY <1>2, <1>3, <1>6, <1>7
<1> QED
  BY <1>5, <1>6, <1>7, <1>9, <1>10, <1>11

\* When the node on top has no neighbour left and its low link is its own
\* index, what is above it on the stack is one strongly connected component.
LEMMA RootComponent ==
  ASSUME GraphInvariant, calls # <<>>, Top.left = {}, low[Top.node] = indices[Top.node]
  PROVE  LET C == Above(Top.node)
         IN  /\ Top.node \in C /\ C \subseteq Nodes
             /\ \A m \in C : Neighbours(m) \subseteq C \cup Finished
             /\ \A m \in C : \A n \in Nodes : n \in C <=> n = m \/ (Reaches(m, n) /\ Reaches(n, m))
<1> DEFINE L == Len(calls)
           node == Top.node
           C == Above(node)
<1>1. /\ L \in Nat /\ DOMAIN calls = 1..L /\ L \in DOMAIN calls
      /\ node = At(L) /\ calls[L].left = {}
      /\ \A k \in DOMAIN calls : k # L => indices[At(k)] < indices[node]
      /\ \A k \in DOMAIN calls : k <= L /\ At(k) \in OnStack /\ indices[At(k)] \in Nat
      /\ \A k, l \in DOMAIN calls : k <= l => Leads(At(k), At(l))
      /\ \A n \in OnStack : n \in DOMAIN indices /\ n \in Nodes /\ indices[n] \in Nat
  BY FrameFacts, TopFacts
<1>2. \A m \in C : InSegment(L, m)
  BY <1>1 DEF InSegment, Above
<1>3. node \in C /\ C \subseteq OnStack /\ C \subseteq Nodes
  BY <1>1 DEF Above
<1>4. ASSUME NEW m \in C, NEW n \in Neighbours(m) PROVE n \in DOMAIN indices
  <2> SUFFICES ASSUME n \notin DOMAIN indices PROVE FALSE
    OBVIOUS
  <2>1. PICK k \in DOMAIN calls : At(k) = m /\ n \in calls[k].left
    BY <1>1, <1>3 DEF GraphInvariant, Explored
  <2>2. k # L
    BY <1>1, <2>1
  <2>3. indices[m] < indices[node] /\ indices[node] <= indices[m]
    BY <1>1, <2>1, <2>2 DEF Above
  <2> QED  BY <1>1, <1>3, <2>3
<1>5. ASSUME NEW m \in C, NEW n \in Neighbours(m) PROVE n \in C \cup Finished
  <2>1. CASE n \in OnStack
    <3>1. low[node] <= indices[n]
      BY <1>1, <1>2, <1>3, <2>1 DEF GraphInvariant, LowBounds
    <3> QED  BY <2>1, <3>1 DEF Above
  <2>2. CASE n \notin OnStack
    BY <1>4, <2>2 DEF Finished
  <2> QED  BY <2>1, <2>2
<1>6. ASSUME NEW m \in C PROVE Leads(node, m) /\ Leads(m, node)
  <2>1. Leads(node, m)
    BY <1>1, <1>3 DEF Above, GraphInvariant, FramesReachUp
  <2>2. PICK k \in DOMAIN calls : Leads(m, At(k))
    BY <1>3 DEF GraphInvariant, StackReachesFrame
  <2>3. Leads(At(k), node)
    BY <1>1
  <2> QED  BY <2>1, <2>2, <2>3, LeadsTransitive
<1>7. ASSUME NEW m \in C, NEW n \in C PROVE n = m \/ (Reaches(m, n) /\ Reaches(n, m))
  BY <1>6, LeadsTransitive DEF Leads
<1>8. ASSUME NEW m \in C, NEW n \in Nodes, Reaches(m, n), Reaches(n, m) PROVE n \in C
  <2>1. \A x \in Finished : Neighbours(x) \subseteq Finished
    BY DEF GraphInvariant, FinishedClosed
  <2>2. Finished \subseteq Nodes
    BY DEF GraphInvariant, GraphTypeOK, Finished
  <2>3. n \in C \cup Finished
    <3>1. \A x \in C \cup Finished : Neighbours(x) \subseteq C \cup Finished
      BY <1>5, <2>1
    <3> DEFINE D == C \cup Finished
    <3>2. D \in SUBSET Nodes /\ m \in D /\ \A x \in D : Neighbours(x) \subseteq D
      BY <1>3, <2>2, <3>1
    <3> HIDE DEF D
    <3>3. n \in D
      BY <1>8, <3>2, ReachesWithin
    <3> QED  BY <3>3 DEF D
  <2>4. CASE n \in Finished
    <3>1. m \in Finished
      BY <1>8, <2>1, <2>2, <2>4, ReachesWithin
    <3> QED  BY <1>3, <3>1 DEF Finished
  <2> QED  BY <2>3, <2>4
<1> QED
  BY <1>3, <1>5, <1>7, <1>8

\* A component is reported exactly when its courses are on a cycle, and its
\* report is legitimate exactly when no edge inside is strict.
LEMMA ComponentReport ==
  ASSUME edges \subseteq Nat \X Nat \X Relations, IsFiniteSet(edges),
         NEW C \in SUBSET Nodes, NEW node \in C,
         \A n \in Nodes : n \in C <=> n = node \/ (Reaches(node, n) /\ Reaches(n, node))
  PROVE  /\ Cyclic(C) <=> Reaches(node, node)
         /\ Report(C).nodes = C /\ Report(C) \in [nodes : SUBSET Nodes, legitimate : BOOLEAN]
         /\ Reaches(node, node) =>
              (Report(C).legitimate <=>
                 \A e \in edges : {e[1], e[2]} \subseteq C => e[3] = "corequisite")
<1>1. ASSUME Reaches(node, node)
      PROVE  \E e \in Inside(C) : e[1] = node
  <2>1. PICK y \in Neighbours(node) : Leads(y, node)
    BY <1>1, ReachesFirst
  <2>2. Reaches(node, y) /\ y \in Nodes
    BY EdgeReaches, NodesTyped
  <2>3. y \in C
    BY <2>1, <2>2 DEF Leads
  <2>4. PICK e \in edges : e[1] = node /\ e[2] = y
    BY DEF Neighbours
  <2> QED  BY <2>3, <2>4 DEF Inside
<1>2. IsFiniteSet(C) /\ Cardinality(C) \in Nat
  BY NodesTyped, FS_Subset, FS_CardinalityType
<1>3. IsFiniteSet(C \ {node}) /\ Cardinality(C \ {node}) = Cardinality(C) - 1
  BY <1>2, FS_RemoveElement
<1>4. Cardinality(C) > 1 <=> C \ {node} # {}
  <2>1. Cardinality(C \ {node}) \in Nat /\ (Cardinality(C \ {node}) = 0 <=> C \ {node} = {})
    BY <1>3, FS_CardinalityType, FS_EmptySet
  <2> QED  BY <1>2, <1>3, <2>1
<1>5. ASSUME Cyclic(C) PROVE Reaches(node, node)
  <2>1. CASE Cardinality(C) > 1
    <3>1. PICK x \in C : x # node
      BY <1>4, <2>1
    <3> QED  BY <3>1, ReachesTransitive
  <2>2. CASE \E e \in Inside(C) : e[1] = e[2]
    <3>1. PICK e \in Inside(C) : e[1] = e[2]
      BY <2>2
    <3>2. e[1] \in C /\ Reaches(e[1], e[1])
      <4>1. e \in edges /\ e[1] \in C /\ e[2] \in Neighbours(e[1])
        BY DEF Inside, Neighbours
      <4> QED  BY <3>1, <4>1, EdgeReaches
    <3>3. e[1] = node \/ (Reaches(node, e[1]) /\ Reaches(e[1], node))
      BY <3>2
    <3> QED  BY <3>2, <3>3, ReachesTransitive
  <2> QED  BY <1>5, <2>1, <2>2 DEF Cyclic
<1>6. ASSUME Reaches(node, node) PROVE Cyclic(C)
  <2>1. PICK e \in Inside(C) : e[1] = node
    BY <1>1, <1>6
  <2>2. CASE e[2] = node
    BY <2>1, <2>2 DEF Cyclic
  <2>3. CASE e[2] # node
    BY <2>3, <1>4 DEF Cyclic, Inside
  <2> QED  BY <2>2, <2>3
<1>7. ASSUME Reaches(node, node)
      PROVE  Report(C).legitimate <=>
               \A e \in edges : {e[1], e[2]} \subseteq C => e[3] = "corequisite"
  <2>1. Inside(C) # {}
    BY <1>1, <1>7
  <2>2. Report(C).legitimate <=> \A e \in Inside(C) : e[3] = "corequisite"
    BY <2>1 DEF Report
  <2> QED  BY <2>2 DEF Inside
<1>8. Report(C).nodes = C /\ Report(C) \in [nodes : SUBSET Nodes, legitimate : BOOLEAN]
  BY DEF Report
<1> QED
  BY <1>5, <1>6, <1>7, <1>8

\* A report is added at the end.
LEMMA SeqAppend ==
  ASSUME NEW S, NEW s \in Seq(S), NEW x \in S
  PROVE  /\ Append(s, x) \in Seq(S) /\ Len(Append(s, x)) = Len(s) + 1
         /\ DOMAIN Append(s, x) = DOMAIN s \cup {Len(s) + 1}
         /\ Len(s) + 1 \notin DOMAIN s
         /\ \A i \in DOMAIN s : Append(s, x)[i] = s[i]
         /\ Append(s, x)[Len(s) + 1] = x
OBVIOUS

\* What a return does to the reports: nothing, or a component is finished.
LEMMA ReturnReports ==
  ASSUME GraphInvariant, Return
  PROVE  /\ reports' \in Seq([nodes : SUBSET Nodes, legitimate : BOOLEAN])
         /\ stack' \in Seq(DOMAIN indices)
         /\ \A i \in DOMAIN stack' : i \in DOMAIN stack /\ stack'[i] = stack[i]
         /\ OnStack' \subseteq OnStack
         /\ \A m \in OnStack : indices[m] < indices[Top.node] => m \in OnStack'
         /\ low[Top.node] = indices[Top.node] =>
              \A m \in OnStack' : indices[m] < indices[Top.node]
         /\ FinishedClosed' /\ ReportsTrue' /\ ReportsAll' /\ ReportsOnce'
<1> DEFINE node == Top.node
           C == Above(node)
           R == [nodes : SUBSET Nodes, legitimate : BOOLEAN]
<1>1. /\ calls # <<>> /\ Top.left = {} /\ edges' = edges /\ indices' = indices
      /\ reports \in Seq(R) /\ stack \in Seq(DOMAIN indices)
      /\ edges \subseteq Nat \X Nat \X Relations /\ IsFiniteSet(edges)
  BY DEF Return, GraphInvariant, GraphTypeOK
<1>2. /\ Nodes' = Nodes /\ \A n : Neighbours(n)' = Neighbours(n)
      /\ \A a, b : Reaches(a, b)' = Reaches(a, b)
  BY <1>1, SameGraph
<1>3. CASE low[node] # indices[node]
  <2>1. stack' = stack /\ reports' = reports
    BY <1>3 DEF Return
  <2>2. OnStack' = OnStack /\ Finished' = Finished
    BY <1>1, <2>1 DEF OnStack, Finished
  <2>3. FinishedClosed' /\ ReportsTrue' /\ ReportsAll' /\ ReportsOnce'
    BY <1>1, <1>2, <2>1, <2>2
       DEF GraphInvariant, FinishedClosed, ReportsTrue, ReportsAll, ReportsOnce
  <2> QED  BY <1>1, <1>3, <2>1, <2>2, <2>3
<1>4. CASE low[node] = indices[node]
  <2>1. /\ stack' \in Seq(DOMAIN indices)
        /\ \A i \in DOMAIN stack' : i \in DOMAIN stack /\ stack'[i] = stack[i]
        /\ OnStack' = {m \in OnStack : indices[m] < indices[node]}
        /\ reports' = IF Cyclic(C) THEN Append(reports, Report(C)) ELSE reports
    BY <1>1, <1>4, CutFacts DEF Return
  <2>2. /\ node \in C /\ C \subseteq Nodes
        /\ \A m \in C : Neighbours(m) \subseteq C \cup Finished
        /\ \A m \in C : \A n \in Nodes : n \in C <=> n = m \/ (Reaches(m, n) /\ Reaches(n, m))
    BY <1>1, <1>4, RootComponent
  <2>3. Finished' = Finished \cup C /\ C \cap Finished = {}
    <3>1. \A m \in OnStack : m \in DOMAIN indices /\ (m \in C <=> ~(indices[m] < indices[node]))
      <4>1. \A m \in OnStack : m \in DOMAIN indices /\ indices[m] \in Nat
        BY FrameFacts
      <4>2. indices[node] \in Nat
        BY <1>1, FrameFacts, TopFacts
      <4> QED  BY <4>1, <4>2 DEF Above
    <3>2. C \subseteq OnStack
      BY DEF Above
    <3> QED  BY <1>1, <2>1, <3>1, <3>2 DEF Finished
  <2>4. FinishedClosed'
    BY <1>2, <2>2, <2>3 DEF GraphInvariant, FinishedClosed
  <2>5. /\ Cyclic(C) <=> Reaches(node, node)
        /\ Report(C).nodes = C /\ Report(C) \in R
        /\ Reaches(node, node) =>
             (Report(C).legitimate <=>
                \A e \in edges : {e[1], e[2]} \subseteq C => e[3] = "corequisite")
    <3> HIDE DEF C
    <3>1. C \in SUBSET Nodes /\ node \in C
          /\ \A n \in Nodes : n \in C <=> n = node \/ (Reaches(node, n) /\ Reaches(n, node))
      BY <2>2
    <3> QED  BY <1>1, <3>1, ComponentReport
  <2>6. \A m \in C : Reaches(m, m) => Reaches(node, node)
    BY <2>2, ReachesTransitive
  <2> HIDE DEF C, R
  <2>7. CASE ~Cyclic(C)
    <3>1. reports' = reports
      BY <2>1, <2>7
    <3>2. ReportsTrue'
      BY <1>1, <1>2, <2>3, <3>1 DEF GraphInvariant, ReportsTrue
    <3>3. ReportsAll'
      BY <1>2, <2>3, <2>5, <2>6, <2>7, <3>1 DEF GraphInvariant, ReportsAll
    <3>4. ReportsOnce'
      BY <3>1 DEF GraphInvariant, ReportsOnce
    <3> QED  BY <1>1, <1>4, <2>1, <2>4, <3>1, <3>2, <3>3, <3>4 DEF R
  <2>8. CASE Cyclic(C)
    <3> DEFINE last == Len(reports) + 1
    <3>1. reports' = Append(reports, Report(C))
      BY <2>1, <2>8
    <3>2. /\ reports' \in Seq(R) /\ DOMAIN reports' = DOMAIN reports \cup {last}
          /\ last \notin DOMAIN reports
          /\ \A i \in DOMAIN reports : reports'[i] = reports[i]
          /\ reports'[last] = Report(C)
      BY <1>1, <2>5, <3>1, SeqAppend
    <3> HIDE DEF last
    <3>3. Reaches(node, node) /\ C = {m \in Nodes : Reaches(node, m) /\ Reaches(m, node)}
      BY <2>2, <2>5, <2>8
    <3>4. ReportsTrue'
      <4> SUFFICES ASSUME NEW i \in DOMAIN reports'
                   PROVE  /\ \E n \in Finished' :
                               /\ Reaches(n, n)
                               /\ reports'[i].nodes = {m \in Nodes : Reaches(n, m) /\ Reaches(m, n)}
                          /\ reports'[i].nodes \subseteq Finished'
                          /\ reports'[i].legitimate <=>
                               \A e \in edges : {e[1], e[2]} \subseteq reports'[i].nodes
                                                  => e[3] = "corequisite"
        BY <1>1, <1>2 DEF ReportsTrue
      <4>1. CASE i = last
        <5>1. reports'[i] = Report(C) /\ reports'[i].nodes = C
          BY <4>1, <3>2, <2>5
        <5>2. node \in Finished' /\ C \subseteq Finished'
          BY <2>2, <2>3
        <5> QED  BY <2>5, <3>3, <5>1, <5>2
      <4>2. CASE i \in DOMAIN reports
        BY <4>2, <3>2, <2>3 DEF GraphInvariant, ReportsTrue
      <4> QED  BY <3>2, <4>1, <4>2
    <3>5. ReportsAll'
      <4> SUFFICES ASSUME NEW n \in Finished', Reaches(n, n)
                   PROVE  \E i \in DOMAIN reports' : n \in reports'[i].nodes
        BY <1>2 DEF ReportsAll
      <4>1. CASE n \in C
        BY <4>1, <2>5, <3>2
      <4>2. CASE n \in Finished
        <5>1. PICK i \in DOMAIN reports : n \in reports[i].nodes
          BY <4>2 DEF GraphInvariant, ReportsAll
        <5> QED  BY <5>1, <3>2
      <4> QED  BY <2>3, <4>1, <4>2
    <3>6. ReportsOnce'
      <4>1. \A i \in DOMAIN reports : reports[i].nodes # C
        <5>1. \A i \in DOMAIN reports : reports[i].nodes \subseteq Finished
          BY DEF GraphInvariant, ReportsTrue
        <5> QED  BY <5>1, <2>2, <2>3
      <4>2. reports'[last].nodes = C
        BY <2>5, <3>2
      <4>3. \A i, j \in DOMAIN reports : reports[i].nodes = reports[j].nodes => i = j
        BY DEF GraphInvariant, ReportsOnce
      <4> QED  BY <3>2, <4>1, <4>2, <4>3 DEF ReportsOnce
    <3> QED  BY <1>1, <1>4, <2>1, <2>4, <3>2, <3>4, <3>5, <3>6 DEF R
  <2> QED  BY <2>7, <2>8
<1> QED
  BY <1>3, <1>4

\* A call that returns keeps the invariant.
LEMMA ReturnKeeps ==
  ASSUME GraphInvariant, Return
  PROVE  GraphInvariant'
<1> DEFINE L == Len(calls)
           node == Top.node
<1>1. /\ L \in Nat /\ DOMAIN calls = 1..L /\ L \in DOMAIN calls
      /\ node = At(L) /\ calls[L].left = {} /\ calls # <<>>
      /\ \A k \in DOMAIN calls : k # L => At(k) # node /\ indices[At(k)] < indices[node]
      /\ \A k \in DOMAIN calls :
           /\ At(k) \in OnStack /\ At(k) \in DOMAIN indices
           /\ calls[k].left \subseteq Neighbours(At(k))
           /\ indices[At(k)] \in Nat /\ low[At(k)] \in Nat
      /\ \A k, l \in DOMAIN calls : k <= l => Leads(At(k), At(l))
      /\ \A n \in OnStack : n \in DOMAIN indices /\ indices[n] \in Nat
  BY FrameFacts, TopFacts DEF Return
<1>2. /\ edges' = edges /\ phase' = phase /\ indices' = indices /\ document' = document
      /\ Nodes' = Nodes
      /\ \A n : Neighbours(n)' = Neighbours(n)
      /\ \A a, b : Reaches(a, b)' = Reaches(a, b)
      /\ \A a, b : Leads(a, b)' = Leads(a, b)
  BY SameGraph DEF Return
<1>3. PICK d \in Int : d = L - 1
  <2>1. L - 1 \in Int
    BY <1>1
  <2> QED  BY <2>1, Zenon
<1>4. /\ calls' \in Seq([node : DOMAIN indices, left : SUBSET Nodes])
      /\ Len(calls') = d /\ DOMAIN calls' = 1..d
      /\ \A k \in 1..d :
           /\ calls'[k].node = At(k)
           /\ calls'[k].left = IF k = d THEN calls[k].left \ {node} ELSE calls[k].left
      /\ low' \in [DOMAIN indices -> Nat]
      /\ \A k \in 1..d :
           low'[At(k)] = IF k = d THEN Smaller(low[At(k)], low[node]) ELSE low[At(k)]
  BY <1>1, <1>3, ResumeFacts DEF Return
<1>5. /\ reports' \in Seq([nodes : SUBSET Nodes, legitimate : BOOLEAN])
      /\ stack' \in Seq(DOMAIN indices)
      /\ \A i \in DOMAIN stack' : i \in DOMAIN stack /\ stack'[i] = stack[i]
      /\ OnStack' \subseteq OnStack
      /\ \A m \in OnStack : indices[m] < indices[node] => m \in OnStack'
      /\ low[node] = indices[node] => \A m \in OnStack' : indices[m] < indices[node]
      /\ FinishedClosed' /\ ReportsTrue' /\ ReportsAll' /\ ReportsOnce'
  BY ReturnReports
<1>6. /\ d \in Nat /\ d + 1 = L
      /\ \A k \in 1..d : /\ k \in DOMAIN calls /\ k # L /\ k \in Nat
                         /\ k < d <=> k # d
                         /\ k < d => k + 1 \in 1..d /\ k + 1 # L
                         /\ k < L
      /\ \A k \in DOMAIN calls : k # L => k \in 1..d
  <2>1. L \in Nat /\ L \in 1..L /\ DOMAIN calls = 1..L
    BY <1>1
  <2> HIDE DEF L
  <2>2. d \in Nat /\ d + 1 = L
    BY <2>1, <1>3
  <2>3. \A k \in 1..d : /\ k \in 1..L /\ k # L /\ k \in Nat
                        /\ k < d <=> k # d
                        /\ k < d => k + 1 \in 1..d /\ k + 1 # L
                        /\ k < L
    BY <2>2
  <2>4. \A k \in 1..L : k # L => k \in 1..d
    BY <2>2
  <2> QED  BY <2>1, <2>2, <2>3, <2>4
<1>7. \A k \in 1..d : At(k)' = At(k) /\ At(k) \in OnStack'
  BY <1>1, <1>4, <1>5, <1>6 DEF At
<1>8. \A k \in 1..d : /\ low'[At(k)] <= low[At(k)] /\ low'[At(k)] \in Nat
                      /\ k # d => low'[At(k)] = low[At(k)]
                      /\ k = d => low'[At(k)] <= low[node]
                      /\ low'[At(k)] = low[At(k)] \/ (k = d /\ low'[At(k)] = low[node])
  <2>1. \A k \in 1..d : low[At(k)] \in Nat /\ low[node] \in Nat
    BY <1>1, <1>6
  <2> QED  BY <1>4, <2>1 DEF Smaller
<1>9. GraphTypeOK'
  BY <1>2, <1>4, <1>5 DEF GraphInvariant, GraphTypeOK
<1>10. Ordered'
  <2>1. \A n \in DOMAIN indices' : indices'[n] < Cardinality(DOMAIN indices')
    BY <1>2 DEF GraphInvariant, Ordered
  <2>2. \A i, j \in DOMAIN stack' : i < j => indices'[stack'[i]] < indices'[stack'[j]]
    BY <1>2, <1>5 DEF GraphInvariant, Ordered
  <2>3. ASSUME NEW k \in 1..d, NEW l \in 1..d, k < l
        PROVE  indices'[At(k)'] < indices'[At(l)']
    <3>1. indices[At(k)] < indices[At(l)]
      BY <2>3, <1>6 DEF GraphInvariant, Ordered
    <3> QED  BY <3>1, <1>2, <1>7
  <2> QED  BY <1>4, <2>1, <2>2, <2>3 DEF Ordered
<1>11. FramesOpen'
  <2> SUFFICES ASSUME NEW k \in 1..d
               PROVE  /\ At(k)' \in OnStack' /\ calls'[k].left \subseteq Neighbours(At(k)')
                      /\ k < d => At(k + 1)' \in calls'[k].left
    BY <1>2, <1>4 DEF FramesOpen
  <2>1. calls'[k].left \subseteq calls[k].left
    BY <1>4
  <2>2. calls'[k].left \subseteq Neighbours(At(k))
    BY <2>1, <1>1, <1>6
  <2>3. ASSUME k < d PROVE At(k + 1)' \in calls'[k].left
    <3>1. At(k + 1) \in calls[k].left
      BY <1>6 DEF GraphInvariant, FramesOpen
    <3>2. At(k + 1)' = At(k + 1) /\ calls'[k].left = calls[k].left
      BY <2>3, <1>4, <1>6, <1>7
    <3> QED  BY <3>1, <3>2
  <2> QED  BY <1>7, <2>2, <2>3
<1>12. Explored'
  <2> SUFFICES ASSUME NEW m \in DOMAIN indices, NEW n \in Neighbours(m), n \notin DOMAIN indices
               PROVE  \E k \in DOMAIN calls' : At(k)' = m /\ n \in calls'[k].left
    BY <1>2 DEF Explored
  <2>1. PICK k \in DOMAIN calls : At(k) = m /\ n \in calls[k].left
    BY DEF GraphInvariant, Explored
  <2>2. k \in 1..d /\ n # node
    BY <2>1, <1>1, <1>6
  <2> QED  BY <2>1, <2>2, <1>4, <1>7
<1>13. FramesReachUp'
  <2> SUFFICES ASSUME NEW k \in 1..d, NEW m \in OnStack', indices[At(k)] <= indices[m]
               PROVE  Leads(At(k), m)
    BY <1>2, <1>4, <1>7 DEF FramesReachUp
  <2> QED  BY <1>5, <1>6 DEF GraphInvariant, FramesReachUp
<1>14. StackReachesFrame'
  <2> SUFFICES ASSUME NEW m \in OnStack'
               PROVE  \E k \in DOMAIN calls' : indices'[At(k)'] <= indices'[m] /\ Leads(m, At(k)')
    BY <1>2 DEF StackReachesFrame
  <2> SUFFICES \E k \in 1..d : indices[At(k)] <= indices[m] /\ Leads(m, At(k))
    BY <1>2, <1>4, <1>7
  <2>1. m \in OnStack /\ indices[m] \in Nat
    BY <1>1, <1>5
  <2>2. PICK k \in DOMAIN calls : indices[At(k)] <= indices[m] /\ Leads(m, At(k))
    BY <2>1 DEF GraphInvariant, StackReachesFrame
  <2>3. CASE k # L
    BY <2>2, <2>3, <1>6
  <2>4. CASE k = L
    <3>1. indices[node] <= indices[m] /\ Leads(m, node) /\ indices[node] \in Nat
      BY <2>2, <2>4, <1>1
    <3>2. low[node] # indices[node]
      BY <3>1, <2>1, <1>5
    <3>3. low[node] < indices[node]
      <4>1. low[node] <= indices[node] /\ low[node] \in Nat
        BY <1>1 DEF GraphInvariant, LowIsReached
      <4> QED  BY <3>1, <3>2, <4>1
    <3>4. PICK s \in OnStack : indices[s] = low[node] /\ Leads(node, s)
      BY <1>1 DEF GraphInvariant, LowIsReached
    <3>5. PICK l \in DOMAIN calls : indices[At(l)] <= indices[s] /\ Leads(s, At(l))
      BY DEF GraphInvariant, StackReachesFrame
    <3>6. indices[At(l)] < indices[node] /\ indices[At(l)] <= indices[m]
      <4>1. indices[At(l)] \in Nat /\ indices[s] \in Nat
        BY <1>1
      <4> QED  BY <3>1, <3>3, <3>4, <3>5, <2>1, <4>1
    <3>7. l # L
      BY <3>1, <3>6, <1>1
    <3>8. Leads(m, At(l))
      BY <3>1, <3>4, <3>5, LeadsTransitive
    <3> QED  BY <3>6, <3>7, <3>8, <1>6
  <2> QED  BY <2>3, <2>4
<1>15. LowIsReached'
  <2> SUFFICES ASSUME NEW k \in 1..d
               PROVE  /\ low'[At(k)] <= indices[At(k)]
                      /\ \E s \in OnStack' : indices[s] = low'[At(k)] /\ Leads(At(k), s)
    BY <1>2, <1>4, <1>7 DEF LowIsReached
  <2>1. /\ k \in DOMAIN calls /\ low[At(k)] \in Nat /\ indices[At(k)] \in Nat
        /\ indices[At(k)] < indices[node] /\ indices[node] \in Nat
        /\ Leads(At(k), node)
    <3>1. k \in DOMAIN calls /\ k # L /\ k <= L
      BY <1>6
    <3> QED  BY <3>1, <1>1
  <2>2. low[At(k)] <= indices[At(k)]
    BY <2>1 DEF GraphInvariant, LowIsReached
  <2>3. low'[At(k)] <= indices[At(k)] /\ low'[At(k)] < indices[node]
    BY <1>8, <2>1, <2>2
  <2>4. CASE low'[At(k)] = low[At(k)]
    <3>1. PICK s \in OnStack : indices[s] = low[At(k)] /\ Leads(At(k), s)
      BY <2>1 DEF GraphInvariant, LowIsReached
    <3>2. s \in OnStack'
      BY <3>1, <2>3, <2>4, <1>5
    <3> QED  BY <2>3, <2>4, <3>1, <3>2
  <2>5. CASE low'[At(k)] = low[node]
    <3>1. PICK s \in OnStack : indices[s] = low[node] /\ Leads(node, s)
      BY <1>1 DEF GraphInvariant, LowIsReached
    <3>2. s \in OnStack'
      BY <3>1, <2>3, <2>5, <1>5
    <3>3. Leads(At(k), s)
      BY <2>1, <3>1, LeadsTransitive
    <3> QED  BY <2>3, <2>5, <3>1, <3>2, <3>3
  <2> QED  BY <1>8, <2>4, <2>5
<1>16. LowBounds'
  <2> SUFFICES ASSUME NEW k \in 1..d, NEW m \in OnStack, NEW n \in OnStack,
                      InSegment(k, m)', n \in Neighbours(m),
                      ~(m = At(k) /\ n \in calls'[k].left)
               PROVE  low'[At(k)] <= indices[n]
    BY <1>2, <1>4, <1>5, <1>7 DEF LowBounds
  <2>1. /\ low'[At(k)] <= low[At(k)] /\ low'[At(k)] \in Nat /\ low[At(k)] \in Nat
        /\ indices[n] \in Nat /\ indices[m] \in Nat /\ low[node] \in Nat /\ indices[node] \in Nat
    BY <1>1, <1>6, <1>8
  <2>2. indices[At(k)] <= indices[m]
    BY <1>2, <1>7 DEF InSegment
  <2>3. ASSUME InSegment(k, m), ~(m = At(k) /\ n \in calls[k].left)
        PROVE  low'[At(k)] <= indices[n]
    <3>1. low[At(k)] <= indices[n]
      BY <2>3, <1>6 DEF GraphInvariant, LowBounds
    <3> QED  BY <2>1, <3>1
  <2>4. CASE k # d
    <3>1. k < d /\ k + 1 \in 1..d
      BY <2>4, <1>6
    <3>2. At(k + 1)' = At(k + 1)
      BY <3>1, <1>7
    <3>3. indices[m] < indices[At(k + 1)]
      BY <3>1, <3>2, <1>2, <1>4 DEF InSegment
    <3>4. InSegment(k, m)
      BY <2>2, <3>3 DEF InSegment
    <3>5. calls'[k].left = calls[k].left
      BY <2>4, <1>4
    <3> QED  BY <2>3, <3>4, <3>5
  <2>5. CASE k = d /\ indices[m] < indices[node]
    <3>1. InSegment(k, m)
      <4>1. k + 1 = L
        BY <2>5, <1>6
      <4> QED  BY <2>2, <2>5, <4>1, <1>1 DEF InSegment
    <3>2. CASE m = At(k) /\ n \in calls[k].left
      <4>1. n = node
        BY <2>5, <3>2, <1>4
      <4>2. low'[At(k)] <= low[node] /\ low[node] <= indices[node]
        BY <2>5, <1>1, <1>8 DEF GraphInvariant, LowIsReached
      <4> QED  BY <2>1, <4>1, <4>2
    <3> QED  BY <2>3, <3>1, <3>2
  <2>6. CASE k = d /\ ~(indices[m] < indices[node])
    <3>1. InSegment(L, m)
      BY <2>1, <2>6, <1>1 DEF InSegment
    <3>2. low[node] <= indices[n]
      BY <3>1, <1>1 DEF GraphInvariant, LowBounds
    <3>3. low'[At(k)] <= low[node]
      BY <2>6, <1>8
    <3> QED  BY <2>1, <3>2, <3>3
  <2> QED  BY <2>4, <2>5, <2>6
<1>17. Decided'
  <2>1. phase = "cycles"
    BY <1>1 DEF GraphInvariant, Decided, Done, GraphTypeOK, search
  <2> QED  BY <2>1, <1>2 DEF Decided, Done
<1> QED
  BY <1>5, <1>9, <1>10, <1>11, <1>12, <1>13, <1>14, <1>15, <1>16, <1>17 DEF GraphInvariant

\* A search that has not begun has nothing to keep.
LEMMA InitHolds ==
  ASSUME GraphInit
  PROVE  GraphInvariant
<1>1. /\ phase = "parse" /\ edges = {} /\ indices = <<>> /\ low = <<>>
      /\ stack = <<>> /\ calls = <<>> /\ reports = <<>>
  BY DEF GraphInit
<1>2. DOMAIN indices = {} /\ DOMAIN stack = {} /\ DOMAIN calls = {} /\ DOMAIN reports = {}
  BY <1>1
<1>3. OnStack = {} /\ Finished = {}
  BY <1>2 DEF OnStack, Finished
<1>4. indices \in [DOMAIN indices -> Nat] /\ low \in [DOMAIN indices -> Nat]
  BY <1>1
<1>5. /\ stack \in Seq(DOMAIN indices)
      /\ calls \in Seq([node : DOMAIN indices, left : SUBSET Nodes])
      /\ reports \in Seq([nodes : SUBSET Nodes, legitimate : BOOLEAN])
  BY <1>1
<1>6. GraphTypeOK
  BY <1>1, <1>2, <1>4, <1>5, FS_EmptySet DEF GraphTypeOK
<1>7. Ordered /\ FramesOpen /\ Explored /\ FinishedClosed
  BY <1>2, <1>3 DEF Ordered, FramesOpen, Explored, FinishedClosed
<1>8. FramesReachUp /\ StackReachesFrame /\ LowIsReached /\ LowBounds
  BY <1>2, <1>3 DEF FramesReachUp, StackReachesFrame, LowIsReached, LowBounds
<1>9. ReportsTrue /\ ReportsAll /\ ReportsOnce
  BY <1>2, <1>3 DEF ReportsTrue, ReportsAll, ReportsOnce
<1>10. Decided
  BY <1>1 DEF Decided, Done, search
<1> QED
  BY <1>6, <1>7, <1>8, <1>9, <1>10 DEF GraphInvariant

\* The graph of the texts is built before anything is searched.
LEMMA BuildKeeps ==
  ASSUME GraphInvariant, BuildGraph
  PROVE  GraphInvariant'
<1>1. /\ phase' = "cycles" /\ indices' = <<>> /\ low' = <<>>
      /\ stack' = <<>> /\ calls' = <<>> /\ reports' = <<>>
      /\ edges' \subseteq Nat \X Nat \X Relations /\ IsFiniteSet(edges')
  BY DEF BuildGraph, GraphInvariant, Decided, search
<1>2. DOMAIN indices' = {} /\ DOMAIN stack' = {} /\ DOMAIN calls' = {} /\ DOMAIN reports' = {}
  BY <1>1
<1>3. OnStack' = {} /\ Finished' = {}
  BY <1>2 DEF OnStack, Finished
<1>4. indices' \in [DOMAIN indices' -> Nat] /\ low' \in [DOMAIN indices' -> Nat]
  BY <1>1
<1>5. /\ stack' \in Seq(DOMAIN indices')
      /\ calls' \in Seq([node : DOMAIN indices', left : SUBSET Nodes'])
      /\ reports' \in Seq([nodes : SUBSET Nodes', legitimate : BOOLEAN])
  BY <1>1
<1>6. GraphTypeOK'
  BY <1>1, <1>2, <1>4, <1>5 DEF GraphTypeOK
<1>7. Ordered' /\ FramesOpen' /\ Explored' /\ FinishedClosed'
  BY <1>2, <1>3 DEF Ordered, FramesOpen, Explored, FinishedClosed
<1>8. FramesReachUp' /\ StackReachesFrame' /\ LowIsReached' /\ LowBounds'
  BY <1>2, <1>3 DEF FramesReachUp, StackReachesFrame, LowIsReached, LowBounds
<1>9. ReportsTrue' /\ ReportsAll' /\ ReportsOnce'
  BY <1>2, <1>3 DEF ReportsTrue, ReportsAll, ReportsOnce
<1>10. Decided'
  BY <1>1 DEF Decided, Done
<1> QED
  BY <1>6, <1>7, <1>8, <1>9, <1>10 DEF GraphInvariant

\* The decision follows the search.
LEMMA DecideKeeps ==
  ASSUME GraphInvariant, Decide
  PROVE  GraphInvariant'
<1>1. /\ edges' = edges /\ indices' = indices /\ low' = low /\ stack' = stack
      /\ calls' = calls /\ reports' = reports /\ document' = document
      /\ phase' \in {"accepted", "refused"}
  BY DEF Decide, search
<1>2. /\ Nodes' = Nodes /\ OnStack' = OnStack /\ Finished' = Finished
      /\ \A n : Neighbours(n)' = Neighbours(n)
      /\ \A a, b : Reaches(a, b)' = Reaches(a, b)
      /\ \A a, b : Leads(a, b)' = Leads(a, b)
      /\ \A k : At(k)' = At(k)
  BY <1>1, SameGraph DEF OnStack, Finished, At
<1>3. GraphTypeOK'
  BY <1>1, <1>2 DEF GraphInvariant, GraphTypeOK
<1>4. Ordered' /\ FramesOpen' /\ Explored' /\ FinishedClosed'
  BY <1>1, <1>2 DEF GraphInvariant, Ordered, FramesOpen, Explored, FinishedClosed
<1>5. FramesReachUp' /\ StackReachesFrame' /\ LowIsReached'
  BY <1>1, <1>2 DEF GraphInvariant, FramesReachUp, StackReachesFrame, LowIsReached
<1>6. LowBounds'
  BY <1>1, <1>2 DEF GraphInvariant, LowBounds, InSegment
<1>7. ReportsTrue' /\ ReportsAll' /\ ReportsOnce'
  BY <1>1, <1>2 DEF GraphInvariant, ReportsTrue, ReportsAll, ReportsOnce
<1>8. Decided'
  <2>1. UnknownReferences' = UnknownReferences
    BY <1>1 DEF UnknownReferences
  <2>2. calls = <<>> /\ Nodes \subseteq DOMAIN indices
    BY DEF Decide, Searched
  <2>3. phase' = "accepted" <=> /\ UnknownReferences = {}
                                /\ \A i \in DOMAIN reports : reports[i].legitimate
    BY DEF Decide
  <2> QED  BY <1>1, <1>2, <2>1, <2>2, <2>3 DEF Decided, Done
<1> QED
  BY <1>3, <1>4, <1>5, <1>6, <1>7, <1>8 DEF GraphInvariant

\* graph/cycles.py, visit(): the search for strongly connected components keeps
\* the two stacks, the indices, the low links and the reports in order.
THEOREM SearchKeepsOrder == GraphSpec => []GraphInvariant
<1>1. GraphInit => GraphInvariant
  BY InitHolds
<1>2. GraphInvariant /\ [GraphNext]_graphVars => GraphInvariant'
  <2> SUFFICES ASSUME GraphInvariant, [GraphNext]_graphVars
               PROVE  GraphInvariant'
    OBVIOUS
  <2>1. CASE BuildGraph
    BY <2>1, BuildKeeps
  <2>2. CASE VisitRoot
    BY <2>2, PushKeeps DEF VisitRoot
  <2>3. CASE VisitNeighbour
    <3>1. phase = "cycles"
      BY <2>3 DEF VisitNeighbour, GraphInvariant, Decided, Done, GraphTypeOK, search
    <3>2. PICK node \in Top.left \ DOMAIN indices : Push(node)
      BY <2>3 DEF VisitNeighbour
    <3>3. node \in Nodes \ DOMAIN indices
      <4>1. Top.left \subseteq Neighbours(Top.node)
        BY <2>3, FrameFacts, TopFacts DEF VisitNeighbour
      <4>2. Neighbours(Top.node) \subseteq Nodes
        BY NodesTyped DEF GraphInvariant, GraphTypeOK
      <4> QED  BY <3>2, <4>1, <4>2
    <3> QED  BY <3>1, <3>2, <3>3, PushKeeps
  <2>4. CASE SkipNeighbour
    BY <2>4, SkipKeeps
  <2>5. CASE Return
    BY <2>5, ReturnKeeps
  <2>6. CASE Decide
    BY <2>6, DecideKeeps
  <2>7. CASE UNCHANGED graphVars
    <3>1. /\ edges' = edges /\ indices' = indices /\ low' = low /\ stack' = stack
          /\ calls' = calls /\ reports' = reports /\ document' = document /\ phase' = phase
      BY <2>7 DEF graphVars, search
    <3>2. /\ Nodes' = Nodes /\ OnStack' = OnStack /\ Finished' = Finished
          /\ \A n : Neighbours(n)' = Neighbours(n)
          /\ \A a, b : Reaches(a, b)' = Reaches(a, b)
          /\ \A a, b : Leads(a, b)' = Leads(a, b)
          /\ \A k : At(k)' = At(k)
      BY <3>1, SameGraph DEF OnStack, Finished, At
    <3>3. GraphTypeOK'
      BY <3>1, <3>2 DEF GraphInvariant, GraphTypeOK
    <3>4. Ordered' /\ FramesOpen' /\ Explored' /\ FinishedClosed'
      BY <3>1, <3>2 DEF GraphInvariant, Ordered, FramesOpen, Explored, FinishedClosed
    <3>5. FramesReachUp' /\ StackReachesFrame' /\ LowIsReached'
      BY <3>1, <3>2 DEF GraphInvariant, FramesReachUp, StackReachesFrame, LowIsReached
    <3>6. LowBounds'
      BY <3>1, <3>2 DEF GraphInvariant, LowBounds, InSegment
    <3>7. ReportsTrue' /\ ReportsAll' /\ ReportsOnce'
      BY <3>1, <3>2 DEF GraphInvariant, ReportsTrue, ReportsAll, ReportsOnce
    <3>8. Decided'
      BY <3>1, <3>2 DEF GraphInvariant, Decided, Done, UnknownReferences, search
    <3> QED  BY <3>3, <3>4, <3>5, <3>6, <3>7, <3>8 DEF GraphInvariant
  <2> QED
    BY <2>1, <2>2, <2>3, <2>4, <2>5, <2>6, <2>7 DEF GraphNext, Validate
<1> QED
  BY <1>1, <1>2, PTL DEF GraphSpec

\* When the search is over, every course of the graph is in a finished component.
LEMMA AllFinished ==
  ASSUME GraphInvariant, Done
  PROVE  /\ Finished = Nodes
         /\ phase = "accepted" <=> /\ UnknownReferences = {}
                                   /\ \A i \in DOMAIN reports : reports[i].legitimate
<1>1. calls = <<>> /\ Nodes \subseteq DOMAIN indices /\ DOMAIN indices \subseteq Nodes
  BY DEF GraphInvariant, Decided, GraphTypeOK
<1>2. OnStack = {}
  BY <1>1 DEF GraphInvariant, StackReachesFrame
<1> QED
  BY <1>1, <1>2 DEF Finished, GraphInvariant, Decided

\* strict_cycles reports exactly the sets of courses that reach each other.
LEMMA ReportsAreComponents ==
  ASSUME GraphInvariant
  PROVE  CyclesAreComponents
<1> SUFFICES ASSUME Done
             PROVE  /\ {reports[i].nodes : i \in DOMAIN reports} =
                         {{m \in Nodes : Reaches(n, m) /\ Reaches(m, n)} :
                            n \in {m \in Nodes : Reaches(m, m)}}
                    /\ \A i, j \in DOMAIN reports : reports[i].nodes = reports[j].nodes => i = j
                    /\ \A i \in DOMAIN reports :
                         reports[i].legitimate <=>
                           \A e \in edges :
                             {e[1], e[2]} \subseteq reports[i].nodes => e[3] = "corequisite"
  BY DEF CyclesAreComponents
<1> DEFINE Component(n) == {m \in Nodes : Reaches(n, m) /\ Reaches(m, n)}
<1>1. \A i \in DOMAIN reports :
        \E n \in Nodes : Reaches(n, n) /\ reports[i].nodes = Component(n)
  BY AllFinished DEF GraphInvariant, ReportsTrue
<1>2. \A n \in Nodes : Reaches(n, n) => \E i \in DOMAIN reports : n \in reports[i].nodes
  BY AllFinished DEF GraphInvariant, ReportsAll
<1>3. \A m, n \in Nodes : m \in Component(n) => Component(m) = Component(n)
  BY ReachesTransitive
<1>4. ASSUME NEW n \in Nodes, Reaches(n, n)
      PROVE  \E i \in DOMAIN reports : reports[i].nodes = Component(n)
  <2>1. PICK i \in DOMAIN reports : n \in reports[i].nodes
    BY <1>2, <1>4
  <2>2. PICK m \in Nodes : reports[i].nodes = Component(m)
    BY <1>1
  <2> QED  BY <1>3, <2>1, <2>2
<1>5. {reports[i].nodes : i \in DOMAIN reports} =
        {Component(n) : n \in {m \in Nodes : Reaches(m, m)}}
  <2> HIDE DEF Component
  <2> QED  BY <1>1, <1>4
<1> QED
  BY <1>5 DEF GraphInvariant, ReportsTrue, ReportsOnce

\* graph/cycles.py, strict_cycles: Tarjan's algorithm agrees with the definition
\* of a component by reachability, whatever the graph.
THEOREM GraphCyclesAreComponents == GraphSpec => []CyclesAreComponents
BY SearchKeepsOrder, ReportsAreComponents, PTL

\* If no cycle has a strict edge, the courses in the number of those that lead
\* to each are in an order of terms.
LEMMA OrderFromReports ==
  ASSUME GraphInvariant, Done, \A i \in DOMAIN reports : reports[i].legitimate
  PROVE  \E term \in [Nodes -> 1..Cardinality(Nodes)] :
           \A e \in edges : IF e[3] = "strict" THEN term[e[1]] < term[e[2]]
                            ELSE term[e[1]] <= term[e[2]]
<1> DEFINE Before(n) == {m \in Nodes : Leads(m, n)}
           term == [n \in Nodes |-> Cardinality(Before(n))]
<1>1. /\ IsFiniteSet(Nodes)
      /\ \A e \in edges : e[1] \in Nodes /\ e[2] \in Nodes /\ e[3] \in Relations
  BY NodesTyped DEF GraphInvariant, GraphTypeOK
<1>2. \A n \in Nodes : Before(n) \in SUBSET Nodes /\ IsFiniteSet(Before(n)) /\ n \in Before(n)
  BY <1>1, FS_Subset DEF Leads
<1>3. ASSUME NEW n \in Nodes PROVE Cardinality(Before(n)) \in 1..Cardinality(Nodes)
  <2>1. Cardinality(Before(n)) \in Nat /\ Cardinality(Nodes) \in Nat
    BY <1>1, <1>2, FS_CardinalityType
  <2>2. Cardinality(Before(n)) # 0
    BY <1>2, FS_EmptySet
  <2>3. Cardinality(Before(n)) <= Cardinality(Nodes)
    BY <1>1, <1>2, FS_Subset
  <2> QED  BY <2>1, <2>2, <2>3
<1>4. term \in [Nodes -> 1..Cardinality(Nodes)]
  BY <1>3
<1>5. ASSUME NEW e \in edges PROVE IF e[3] = "strict" THEN term[e[1]] < term[e[2]]
                                   ELSE term[e[1]] <= term[e[2]]
  <2> DEFINE a == e[1]
             b == e[2]
  <2>1. a \in Nodes /\ b \in Nodes /\ Reaches(a, b)
    <3>1. b \in Neighbours(a)
      BY DEF Neighbours
    <3> QED  BY <1>1, <3>1, EdgeReaches
  <2>2. Before(a) \subseteq Before(b)
    <3>1. Leads(a, b)
      BY <2>1 DEF Leads
    <3> QED  BY <3>1, LeadsTransitive
  <2>3. Cardinality(Before(a)) \in Nat /\ Cardinality(Before(b)) \in Nat
    BY <1>2, <2>1, FS_CardinalityType
  <2>4. Cardinality(Before(a)) <= Cardinality(Before(b))
    BY <1>2, <2>1, <2>2, FS_Subset
  <2>5. ASSUME e[3] = "strict" PROVE Cardinality(Before(a)) # Cardinality(Before(b))
    <3> SUFFICES ASSUME Cardinality(Before(a)) = Cardinality(Before(b)) PROVE FALSE
      OBVIOUS
    <3>1. Before(a) = Before(b)
      BY <1>2, <2>1, <2>2, FS_Subset
    <3>2. Leads(b, a)
      BY <1>2, <2>1, <3>1
    <3>3. Reaches(a, a) /\ (a = b \/ Reaches(b, a))
      BY <2>1, <3>2, ReachesTransitive DEF Leads
    <3>4. PICK i \in DOMAIN reports : a \in reports[i].nodes
      BY <2>1, <3>3, AllFinished DEF GraphInvariant, ReportsAll
    <3>5. PICK n \in Nodes : reports[i].nodes = {m \in Nodes : Reaches(n, m) /\ Reaches(m, n)}
      BY AllFinished DEF GraphInvariant, ReportsTrue
    <3>6. b \in reports[i].nodes
      BY <2>1, <3>3, <3>4, <3>5, ReachesTransitive
    <3>7. reports[i].legitimate
      OBVIOUS
    <3>8. e[3] = "corequisite"
      BY <3>4, <3>6, <3>7 DEF GraphInvariant, ReportsTrue
    <3> QED  BY <2>5, <3>8
  <2> HIDE DEF Before
  <2>6. term[a] = Cardinality(Before(a)) /\ term[b] = Cardinality(Before(b))
    BY <2>1
  <2> HIDE DEF term
  <2>7. CASE e[3] = "strict"
    <3>1. term[a] < term[b]
      BY <2>3, <2>4, <2>5, <2>6, <2>7
    <3> QED  BY <3>1, <2>7
  <2>8. CASE e[3] # "strict"
    BY <2>4, <2>6, <2>8
  <2> QED  BY <2>7, <2>8
<1> HIDE DEF term
<1> QED
  BY <1>4, <1>5

\* An order of terms leaves no cycle with a strict edge.
LEMMA ReportsFromOrder ==
  ASSUME GraphInvariant, Done, NEW term \in [Nodes -> 1..Cardinality(Nodes)],
         \A e \in edges : IF e[3] = "strict" THEN term[e[1]] < term[e[2]]
                          ELSE term[e[1]] <= term[e[2]]
  PROVE  \A i \in DOMAIN reports : reports[i].legitimate
<1>1. /\ IsFiniteSet(Nodes) /\ Cardinality(Nodes) \in Nat
      /\ \A e \in edges : e[1] \in Nodes /\ e[2] \in Nodes /\ e[3] \in Relations
  BY NodesTyped, FS_CardinalityType DEF GraphInvariant, GraphTypeOK
<1>2. \A n \in Nodes : term[n] \in Nat
  BY <1>1
<1> SUFFICES ASSUME NEW i \in DOMAIN reports PROVE reports[i].legitimate
  OBVIOUS
<1> SUFFICES ASSUME NEW e \in edges, {e[1], e[2]} \subseteq reports[i].nodes
             PROVE  e[3] = "corequisite"
  BY DEF GraphInvariant, ReportsTrue
<1>3. PICK n \in Nodes : reports[i].nodes = {m \in Nodes : Reaches(n, m) /\ Reaches(m, n)}
  BY AllFinished DEF GraphInvariant, ReportsTrue
<1>4. Reaches(e[2], e[1])
  BY <1>3, ReachesTransitive
<1> DEFINE later == {x \in Nodes : term[e[2]] <= term[x]}
<1>5. \A x \in later : Neighbours(x) \subseteq later
  <2> SUFFICES ASSUME NEW x \in later, NEW y \in Neighbours(x) PROVE y \in later
    OBVIOUS
  <2>1. PICK f \in edges : f[1] = x /\ f[2] = y
    BY DEF Neighbours
  <2>2. term[x] <= term[y] /\ x \in Nodes /\ y \in Nodes /\ term[x] \in Nat /\ term[y] \in Nat
    <3>1. f[1] \in Nodes /\ f[2] \in Nodes /\ term[f[1]] \in Nat /\ term[f[2]] \in Nat
      BY <1>1, <1>2
    <3>2. term[f[1]] <= term[f[2]]
      BY <3>1
    <3> QED  BY <2>1, <3>1, <3>2
  <2>3. term[e[2]] \in Nat
    BY <1>1, <1>2
  <2> QED  BY <2>2, <2>3
<1>6. later \in SUBSET Nodes /\ e[2] \in later
  BY <1>1, <1>2
<1>7. e[1] \in later
  <2> HIDE DEF later
  <2> QED  BY <1>4, <1>5, <1>6, ReachesWithin
<1>8. ~(term[e[1]] < term[e[2]])
  BY <1>1, <1>2, <1>7
<1> QED
  BY <1>1, <1>8 DEF Relations

\* catalog/service.py, parse_document: a document is accepted exactly when its
\* references are known and its courses can be put in an order of terms.
THEOREM GraphAcceptedHasTermOrder == GraphSpec => []AcceptedHasTermOrder
<1>1. ASSUME GraphInvariant PROVE AcceptedHasTermOrder
  <2> DEFINE Order(term) == \A e \in edges : IF e[3] = "strict" THEN term[e[1]] < term[e[2]]
                                             ELSE term[e[1]] <= term[e[2]]
  <2> SUFFICES ASSUME Done
               PROVE  phase = "accepted" <=>
                        /\ \A e \in edges : e[1] \in DOMAIN document
                        /\ \E term \in [Nodes -> 1..Cardinality(Nodes)] : Order(term)
    BY DEF AcceptedHasTermOrder
  <2>1. UnknownReferences = {} <=> \A e \in edges : e[1] \in DOMAIN document
    BY DEF UnknownReferences
  <2>2. (\A i \in DOMAIN reports : reports[i].legitimate) =>
          \E term \in [Nodes -> 1..Cardinality(Nodes)] : Order(term)
    BY <1>1, OrderFromReports
  <2>3. (\E term \in [Nodes -> 1..Cardinality(Nodes)] : Order(term)) =>
          \A i \in DOMAIN reports : reports[i].legitimate
    BY <1>1, ReportsFromOrder
  <2> HIDE DEF Order
  <2> QED  BY <1>1, <2>1, <2>2, <2>3, AllFinished
<1> QED
  BY <1>1, SearchKeepsOrder, PTL

\* ------------------------------------------------------------ compilation

\* Compiling a document takes the steps of a search of its graph.
THEOREM CompileSearchesGraph == CompileSpec => GraphSpec
<1>1. CompileInit => GraphInit  BY DEF CompileInit
<1>2. [CompileNext]_compileVars => [GraphNext]_graphVars
  BY DEF CompileNext, ParseCourses, GraphNext, compileVars
<1> QED  BY <1>1, <1>2, PTL DEF CompileSpec, GraphSpec

\* strict_cycles finds the strongly connected components of a compiled document.
THEOREM CyclesFound == CompileSpec => []CyclesAreComponents
BY CompileSearchesGraph, GraphCyclesAreComponents, PTL

\* catalog/service.py accepts a compiled document exactly when it can be taught.
THEOREM AcceptedIsTeachable == CompileSpec => []AcceptedHasTermOrder
BY CompileSearchesGraph, GraphAcceptedHasTermOrder, PTL

\* The truth of x, given that of its parts.
TruthFrom(f, x, student, granted) ==
  LET truths == {f[part] : part \in Parts(x)}
  IN  \/ x.op \in Predicates /\ x.value \in granted
      \/ x.op \in {"and", "corequisite"} /\ FALSE \notin truths
      \/ x.op = "or" /\ TRUE \in truths
      \/ LeafHolds(x, student)

LEMMA TruthIsBoolean ==
  ASSUME NEW x, NEW f, NEW student, NEW granted
  PROVE  TruthFrom(f, x, student, granted) \in BOOLEAN
BY DEF TruthFrom

\* Kind by kind, what it means for an expression to hold.
LEMMA TruthByKind ==
  ASSUME NEW x \in Expressions, NEW f \in [Expressions -> BOOLEAN], NEW student, NEW granted
  PROVE  /\ x.op \in Predicates => (TruthFrom(f, x, student, granted) <=> x.value \in granted)
         /\ x.op \in {"and", "corequisite"} =>
              (TruthFrom(f, x, student, granted) <=> \A part \in Parts(x) : f[part])
         /\ x.op = "or" => (TruthFrom(f, x, student, granted) <=> \E part \in Parts(x) : f[part])
         /\ x.op \in {"course", "grade", "credits"} =>
              (TruthFrom(f, x, student, granted) <=> LeafHolds(x, student))
<1> DEFINE truths == {f[part] : part \in Parts(x)}
<1>1. \A part \in Parts(x) : f[part] \in BOOLEAN  BY ExpressionsAssumption
<1>2. FALSE \notin truths <=> \A part \in Parts(x) : f[part]  BY <1>1
<1>3. TRUE \in truths <=> \E part \in Parts(x) : f[part]  BY <1>1
<1>4. x.op \notin {"course", "grade", "credits"} => ~LeafHolds(x, student)  BY DEF LeafHolds
<1>5. TruthFrom(f, x, student, granted) <=>
        \/ x.op \in Predicates /\ x.value \in granted
        \/ x.op \in {"and", "corequisite"} /\ FALSE \notin truths
        \/ x.op = "or" /\ TRUE \in truths
        \/ LeafHolds(x, student)
  BY DEF TruthFrom
<1> HIDE DEF truths
<1> QED  BY <1>2, <1>3, <1>4, <1>5 DEF Predicates

\* The recursion of the two-valued truth has a function that follows it.
LEMMA HoldsFollows ==
  ASSUME NEW student, NEW granted
  PROVE  \E f \in [Expressions -> BOOLEAN] :
           /\ \A x \in Expressions : f[x] = TruthFrom(f, x, student, granted)
           /\ \A x \in Expressions : Holds(x, student, granted) = f[x]
<1> DEFINE Truths == [Expressions -> BOOLEAN]
           depth == [x \in Expressions |-> Depth(x)]
           rule == [p \in Expressions \X Truths |-> TruthFrom(p[2], p[1], student, granted)]
<1>1. depth \in [Expressions -> Nat]  BY ExpressionsAssumption
<1>2. ASSUME NEW x \in Expressions, NEW f \in Truths
      PROVE  rule[<<x, f>>] = TruthFrom(f, x, student, granted)
  <2>1. PICK p : p = <<x, f>>  OBVIOUS
  <2>2. p \in Expressions \X Truths /\ p[1] = x /\ p[2] = f  BY <2>1
  <2>3. rule[p] = TruthFrom(p[2], p[1], student, granted)  BY <2>2
  <2> HIDE DEF rule
  <2> QED  BY <2>1, <2>2, <2>3
<1>3. rule \in [Expressions \X Truths -> BOOLEAN]
  <2>1. \A p \in Expressions \X Truths : TruthFrom(p[2], p[1], student, granted) \in BOOLEAN
    BY TruthIsBoolean
  <2> QED  BY <2>1
<1>4. ASSUME NEW x \in Expressions, NEW f \in Truths, NEW g \in Truths,
             \A y \in Expressions : depth[y] < depth[x] => f[y] = g[y]
      PROVE  TruthFrom(f, x, student, granted) = TruthFrom(g, x, student, granted)
  <2>1. \A part \in Parts(x) : f[part] = g[part]
    <3> SUFFICES ASSUME NEW part \in Parts(x) PROVE f[part] = g[part]  OBVIOUS
    <3>1. part \in Expressions /\ Depth(part) < Depth(x)  BY ExpressionsAssumption
    <3> QED  BY <1>4, <3>1
  <2>2. {f[part] : part \in Parts(x)} = {g[part] : part \in Parts(x)}  BY <2>1
  <2> QED  BY <2>2 DEF TruthFrom
<1> HIDE DEF rule, depth
<1>5. Local(Expressions, BOOLEAN, depth, rule)  BY <1>2, <1>4 DEF Local
<1>6. PICK f \in Truths : \A x \in Expressions : f[x] = rule[<<x, f>>]
  <2>1. Followers(Expressions, BOOLEAN, rule) # {}  BY <1>1, <1>3, <1>5, RecursionExists
  <2> QED  BY <2>1 DEF Followers
<1>7. f = [x \in Expressions |-> TruthFrom(f, x, student, granted)]  BY <1>2, <1>6
<1> DEFINE holding == CHOOSE h : h = [x \in Expressions |-> TruthFrom(h, x, student, granted)]
<1>8. holding = [x \in Expressions |-> TruthFrom(holding, x, student, granted)]  BY <1>7
<1>9. \A x \in Expressions : Holds(x, student, granted) = holding[x]  BY DEF Holds, TruthFrom
<1> HIDE DEF holding
<1>10. \A x \in Expressions : holding[x] = TruthFrom(holding, x, student, granted)  BY <1>8
<1>11. holding \in Truths  BY <1>8, <1>10, TruthIsBoolean
<1> QED  BY <1>9, <1>10, <1>11

\* Granting more never makes an expression false.
LEMMA HoldsMonotone ==
  ASSUME NEW student, NEW granted, NEW more, granted \subseteq more,
         NEW e \in Expressions, Holds(e, student, granted)
  PROVE  Holds(e, student, more)
<1>1. PICK f \in [Expressions -> BOOLEAN] :
        /\ \A x \in Expressions : f[x] = TruthFrom(f, x, student, granted)
        /\ \A x \in Expressions : Holds(x, student, granted) = f[x]
  BY HoldsFollows
<1>2. PICK g \in [Expressions -> BOOLEAN] :
        /\ \A x \in Expressions : g[x] = TruthFrom(g, x, student, more)
        /\ \A x \in Expressions : Holds(x, student, more) = g[x]
  BY HoldsFollows
<1> DEFINE Good == {x \in Expressions : f[x] => g[x]}
<1>3. ASSUME NEW x \in Expressions, \A part \in Parts(x) : part \in Good
      PROVE  x \in Good
  <2>1. \A part \in Parts(x) : f[part] => g[part]  BY <1>3
  <2>2. f[x] = TruthFrom(f, x, student, granted) /\ g[x] = TruthFrom(g, x, student, more)
    BY <1>1, <1>2
  <2>3. x.op \in {"course", "grade", "credits"} \cup Predicates \cup Compounds
    BY ExpressionsAssumption
  <2>4. TruthFrom(f, x, student, granted) => TruthFrom(g, x, student, more)
    BY <2>1, <2>3, TruthByKind DEF Predicates, Compounds
  <2> QED  BY <2>2, <2>4
<1> HIDE DEF Good
<1>4. Expressions \subseteq Good  BY <1>3, ExpressionInduction
<1>5. e \in Good  BY <1>4
<1> QED  BY <1>1, <1>2, <1>5 DEF Good

\* The three answers of evaluate are those of the two extreme grants.
LEMMA EligibleExactly ==
  ASSUME NEW s, NEW e \in Expressions
  PROVE  Eligible(e, s) = (IF Holds(e, s, s.verified) THEN "satisfied"
                           ELSE IF Holds(e, s, s.verified \cup AllPredicates) THEN "unknown"
                           ELSE "unsatisfied")
<1> DEFINE all == s.verified \cup AllPredicates
           Answer(least, most) == IF least THEN "satisfied" ELSE IF most THEN "unknown" ELSE "unsatisfied"
<1>1. PICK f \in [Expressions -> BOOLEAN] :
        /\ \A x \in Expressions : f[x] = TruthFrom(f, x, s, s.verified)
        /\ \A x \in Expressions : Holds(x, s, s.verified) = f[x]
  BY HoldsFollows
<1>2. PICK g \in [Expressions -> BOOLEAN] :
        /\ \A x \in Expressions : g[x] = TruthFrom(g, x, s, all)
        /\ \A x \in Expressions : Holds(x, s, all) = g[x]
  BY HoldsFollows
<1>3. PICK answer \in [Expressions -> States] :
        /\ \A x \in Expressions : answer[x] = AnswerFrom(answer, x, s)
        /\ \A x \in Expressions : Eligible(x, s) = answer[x]
  BY EligibleFollows
<1>4. \A x \in Expressions : f[x] => g[x]
  <2> SUFFICES ASSUME NEW x \in Expressions, f[x] PROVE g[x]  OBVIOUS
  <2>1. Holds(x, s, s.verified)  BY <1>1
  <2>2. Holds(x, s, all)  BY <2>1, HoldsMonotone
  <2> QED  BY <1>2, <2>2
<1> DEFINE Good == {x \in Expressions : answer[x] = Answer(f[x], g[x])}
<1>5. ASSUME NEW x \in Expressions, \A part \in Parts(x) : part \in Good
      PROVE  x \in Good
  <2> DEFINE items == {answer[part] : part \in Parts(x)}
  <2>1. \A part \in Parts(x) : /\ part \in Expressions
                               /\ answer[part] = Answer(f[part], g[part])
    BY <1>5
  <2>2. answer[x] = AnswerFrom(answer, x, s)  BY <1>3
  <2>3. (f[x] <=> TruthFrom(f, x, s, s.verified)) /\ (g[x] <=> TruthFrom(g, x, s, all))
    BY <1>1, <1>2
  <2>4. x.op \in {"course", "grade", "credits"} \cup Predicates \cup Compounds
    BY ExpressionsAssumption
  <2>5. CASE x.op \in Predicates
    <3>1. x.value \in AllPredicates  BY <2>5 DEF AllPredicates
    <3>2. answer[x] = IF x.value \in s.verified THEN "satisfied" ELSE "unknown"
      BY <2>2, <2>5 DEF AnswerFrom, Predicates
    <3>3. (f[x] <=> x.value \in s.verified) /\ (g[x] <=> x.value \in all)
      BY <2>3, <2>5, TruthByKind
    <3> QED  BY <3>1, <3>2, <3>3
  <2>6. CASE x.op \in {"course", "grade", "credits"}
    <3>1. answer[x] = YesNo(LeafHolds(x, s))  BY <2>2, <2>6 DEF AnswerFrom, Predicates
    <3>2. (f[x] <=> LeafHolds(x, s)) /\ (g[x] <=> LeafHolds(x, s))  BY <2>3, <2>6, TruthByKind
    <3> QED  BY <3>1, <3>2 DEF YesNo
  <2>7. \A part \in Parts(x) : /\ answer[part] = "satisfied" <=> f[part]
                               /\ answer[part] = "unsatisfied" <=> ~g[part]
                               /\ answer[part] = "unknown" <=> ~f[part] /\ g[part]
    BY <1>4, <2>1
  <2>8. /\ "satisfied" \in items <=> \E part \in Parts(x) : f[part]
        /\ "unsatisfied" \in items <=> \E part \in Parts(x) : ~g[part]
        /\ "unknown" \in items <=> \E part \in Parts(x) : ~f[part] /\ g[part]
        /\ items \subseteq {"unsatisfied"} <=> \A part \in Parts(x) : ~g[part]
    BY <2>7
  <2>9. CASE x.op \in {"and", "corequisite"}
    <3>1. answer[x] = AllState(items)  BY <2>2, <2>9 DEF AnswerFrom, Predicates
    <3>2. (f[x] <=> \A part \in Parts(x) : f[part]) /\ (g[x] <=> \A part \in Parts(x) : g[part])
      BY <2>3, <2>9, TruthByKind
    <3> HIDE DEF items
    <3> QED  BY <1>4, <2>1, <2>8, <3>1, <3>2 DEF AllState
  <2>10. CASE x.op = "or"
    <3>1. answer[x] = AnyState(items)  BY <2>2, <2>10 DEF AnswerFrom, Predicates
    <3>2. (f[x] <=> \E part \in Parts(x) : f[part]) /\ (g[x] <=> \E part \in Parts(x) : g[part])
      BY <2>3, <2>10, TruthByKind
    <3> HIDE DEF items
    <3> QED  BY <1>4, <2>1, <2>8, <3>1, <3>2 DEF AnyState
  <2> QED  BY <2>4, <2>5, <2>6, <2>9, <2>10 DEF Compounds
<1> HIDE DEF Good
<1>6. Expressions \subseteq Good  BY <1>5, ExpressionInduction
<1>7. e \in Good  BY <1>6
<1> QED  BY <1>1, <1>2, <1>3, <1>7 DEF Good

\* What was parsed are expressions.
CompileTyped == document \in Documents /\ \A c \in DOMAIN expressions : expressions[c] \in Expressions

LEMMA CompiledTyped == CompileSpec => []CompileTyped
<1>1. CompileInit => CompileTyped  BY DEF CompileInit, GraphInit, CompileTyped
<1>2. CompileTyped /\ [CompileNext]_compileVars => CompileTyped'
  <2> SUFFICES ASSUME CompileTyped, [CompileNext]_compileVars PROVE CompileTyped'  OBVIOUS
  <2>1. CASE ParseCourses  BY <2>1, ParserAssumption DEF CompileTyped, ParseCourses, BuildGraph
  <2>2. CASE Validate /\ UNCHANGED expressions
    BY <2>2 DEF CompileTyped, Validate, VisitRoot, VisitNeighbour, Push, SkipNeighbour, Return, Decide
  <2>3. CASE UNCHANGED compileVars  BY <2>3 DEF CompileTyped, compileVars, graphVars
  <2> QED  BY <2>1, <2>2, <2>3 DEF CompileNext
<1> QED  BY <1>1, <1>2, PTL DEF CompileSpec

\* catalog/graph.py, evaluate: the three answers a student can get are exactly
\* those of the two-valued truth before and after every open question is
\* answered in the student's favour.
THEOREM EligibilityIsExact == CompileSpec => []EligibilityExact
<1>1. CompileTyped => EligibilityExact  BY EligibleExactly DEF CompileTyped, EligibilityExact
<1> QED  BY <1>1, CompiledTyped, PTL

\* ---------------------------------------------------------------- parsing
\*
\* The parser is a recursive function of its calls and the grammar one of the
\* spans of a text.  Both are what their equations say, since a call makes
\* calls of a smaller size and a span is read from spans of a smaller size;
\* by induction over the sizes, what a call returns is a reading of the tokens
\* it took, and what a span can be read as is what the call returns.

Text(t) == Len(t) \in Nat /\ DOMAIN t = 1..Len(t)

Rank(level) ==
  IF level = "primary" THEN 0 ELSE IF level = "AND" THEN 1 ELSE IF level = "OR" THEN 2 ELSE 3

\* What gets smaller from a call to the calls it makes, from a span to the
\* spans it is read from.
CallSize(t, x) == 4 * (Len(t) + 1 - x[2]) + Rank(x[1])
SpanSize(x) == 4 * (x[3] - x[2]) + Rank(x[1])

\* A call that succeeds takes a token.
Moves(t, result, i) == result.ok => result.index \in (i + 1)..(Len(t) + 1)

LEMMA KindIn ==
  ASSUME NEW t, Text(t), NEW i \in Nat, KindAt(t, i) # "END"
  PROVE  i <= Len(t) /\ KindAt(t, i) = t[i].kind
BY DEF KindAt, Text

LEMMA CallTyped ==
  ASSUME NEW t, Text(t), NEW level \in Lists \cup {"primary"}, NEW i \in 1..(Len(t) + 1)
  PROVE  /\ <<level, i>> \in Calls(t)
         /\ CallSize(t, <<level, i>>) = 4 * (Len(t) + 1 - i) + Rank(level)
         /\ CallSize(t, <<level, i>>) \in Nat
BY DEF Calls, CallSize, Text, Lists, Rank

\* Two records of what calls return that agree on the calls smaller than x.
Agree(f, g, t, x) ==
  \A y \in Calls(t) : CallSize(t, y) < CallSize(t, x) => f[y] = g[y] /\ Moves(t, f[y], y[2])

LEMMA AgreeAt ==
  ASSUME NEW t, Text(t), NEW x \in Calls(t), NEW f, NEW g, Agree(f, g, t, x),
         NEW level \in Lists \cup {"primary"}, NEW i \in 1..(Len(t) + 1),
         i > x[2] \/ (i = x[2] /\ Rank(level) < Rank(x[1]))
  PROVE  f[<<level, i>>] = g[<<level, i>>] /\ Moves(t, f[<<level, i>>], i)
<1>1. PICK y : y = <<level, i>>  OBVIOUS
<1>2. y \in Calls(t) /\ y[1] = level /\ y[2] = i  BY <1>1, CallTyped
<1>3. x[2] \in 1..(Len(t) + 1) /\ x[1] \in Lists \cup {"primary"}  BY DEF Calls
<1>4. Rank(level) \in 0..3 /\ Rank(x[1]) \in 0..3 /\ Len(t) \in Nat  BY DEF Rank, Text
<1>5. CallSize(t, y) < CallSize(t, x)
  <2>1. PICK n, k, p, q : n = Len(t) /\ k = x[2] /\ p = Rank(level) /\ q = Rank(x[1])  OBVIOUS
  <2>2. n \in Nat /\ k \in 1..(n + 1) /\ i \in 1..(n + 1) /\ p \in 0..3 /\ q \in 0..3
    BY <1>3, <1>4, <2>1
  <2>3. i > k \/ (i = k /\ p < q)  BY <2>1
  <2>4. 4 * (n + 1 - i) + p < 4 * (n + 1 - k) + q  BY <2>2, <2>3
  <2> QED  BY <1>2, <2>1, <2>4 DEF CallSize
<1> QED  BY <1>1, <1>2, <1>5 DEF Agree

LEMMA ItemLocal ==
  ASSUME NEW t, Text(t), NEW x \in Calls(t), x[1] \in Lists, NEW f, NEW g, Agree(f, g, t, x)
  PROVE  /\ ParseItem(f, x[1], x[2]) = ParseItem(g, x[1], x[2])
         /\ Moves(t, ParseItem(f, x[1], x[2]), x[2])
<1>1. x[2] \in 1..(Len(t) + 1)  BY DEF Calls
<1>2. CASE x[1] = "OR"
  <2>1. f[<<"AND", x[2]>>] = g[<<"AND", x[2]>>] /\ Moves(t, f[<<"AND", x[2]>>], x[2])
    BY <1>1, <1>2, AgreeAt DEF Rank, Lists
  <2> QED  BY <1>2, <2>1 DEF ParseItem, ParseAnd, Joined, Moves, Parsed, Failed
<1>3. CASE x[1] = "AND"
  <2>1. f[<<"primary", x[2]>>] = g[<<"primary", x[2]>>] /\ Moves(t, f[<<"primary", x[2]>>], x[2])
    BY <1>1, <1>3, AgreeAt DEF Rank, Lists
  <2> QED  BY <1>3, <2>1 DEF ParseItem
<1>4. CASE x[1] = "COMMA"
  <2>1. f[<<"OR", x[2]>>] = g[<<"OR", x[2]>>] /\ Moves(t, f[<<"OR", x[2]>>], x[2])
    BY <1>1, <1>4, AgreeAt DEF Rank, Lists
  <2> QED  BY <1>4, <2>1 DEF ParseItem, ParseOr, Joined, Moves, Parsed, Failed
<1> QED  BY <1>2, <1>3, <1>4 DEF Lists

LEMMA ItemsLocal ==
  ASSUME NEW t, Text(t), NEW x \in Calls(t), x[1] \in Lists, NEW f, NEW g, Agree(f, g, t, x)
  PROVE  /\ ParseItems(f, t, x[1], x[2]) = ParseItems(g, t, x[1], x[2])
         /\ Moves(t, ParseItems(f, t, x[1], x[2]), x[2])
<1> DEFINE first == ParseItem(f, x[1], x[2])
<1>1. first = ParseItem(g, x[1], x[2]) /\ Moves(t, first, x[2])  BY ItemLocal
<1>2. x[2] \in 1..(Len(t) + 1) /\ Len(t) \in Nat  BY DEF Calls, Text
<1> HIDE DEF first
<1>3. CASE ~first.ok
  BY <1>1, <1>3 DEF ParseItems, first, Failed, Moves
<1>4. CASE first.ok /\ KindAt(t, first.index) # x[1]
  BY <1>1, <1>2, <1>4 DEF ParseItems, first, Parsed, Moves
<1>5. CASE first.ok /\ KindAt(t, first.index) = x[1]
  <2>1. first.index \in (x[2] + 1)..(Len(t) + 1)  BY <1>1, <1>5 DEF Moves
  <2>2. first.index <= Len(t)  BY <1>2, <1>5, <2>1, KindIn DEF Lists
  <2>3. first.index + 1 \in 1..(Len(t) + 1) /\ first.index + 1 > x[2]  BY <1>2, <2>1, <2>2
  <2>4. /\ f[<<x[1], first.index + 1>>] = g[<<x[1], first.index + 1>>]
        /\ Moves(t, f[<<x[1], first.index + 1>>], first.index + 1)
    BY <2>3, AgreeAt
  <2>5. PICK rest : rest = f[<<x[1], first.index + 1>>]  OBVIOUS
  <2>6. rest.ok => rest.index \in (x[2] + 1)..(Len(t) + 1)
    BY <1>2, <2>1, <2>4, <2>5 DEF Moves
  <2>7. /\ ParseItems(f, t, x[1], x[2]) =
             IF rest.ok THEN Parsed(<<first.expr>> \o rest.expr, rest.index) ELSE Failed
        /\ ParseItems(g, t, x[1], x[2]) =
             IF rest.ok THEN Parsed(<<first.expr>> \o rest.expr, rest.index) ELSE Failed
    BY <1>1, <1>5, <2>4, <2>5 DEF ParseItems, first
  <2> QED  BY <2>6, <2>7 DEF Moves, Parsed, Failed
<1> QED  BY <1>3, <1>4, <1>5

LEMMA PrimaryLocal ==
  ASSUME NEW t, Text(t), NEW x \in Calls(t), NEW f, NEW g, Agree(f, g, t, x)
  PROVE  /\ ParsePrimary(f, t, x[2]) = ParsePrimary(g, t, x[2])
         /\ Moves(t, ParsePrimary(f, t, x[2]), x[2])
<1> DEFINE i == x[2]
<1>1. i \in 1..(Len(t) + 1) /\ Len(t) \in Nat  BY DEF Calls, Text
<1>2. KindAt(t, i) # "END" => i <= Len(t)  BY <1>1, KindIn
<1>3. KindAt(t, i + 1) # "END" => i + 1 <= Len(t)  BY <1>1, KindIn
<1> HIDE DEF i
<1>4. CASE KindAt(t, i) = "LPAREN"
  <2>1. i + 1 \in 1..(Len(t) + 1)  BY <1>1, <1>2, <1>4
  <2>2. f[<<"OR", i + 1>>] = g[<<"OR", i + 1>>] /\ Moves(t, f[<<"OR", i + 1>>], i + 1)
    BY <1>1, <2>1, AgreeAt DEF i, Lists
  <2>3. PICK inner : inner = ParseOr(f, i + 1)  OBVIOUS
  <2>4. inner = ParseOr(g, i + 1) /\ Moves(t, inner, i + 1)
    BY <2>2, <2>3 DEF ParseOr, Joined, Moves, Parsed, Failed
  <2>5. ParsePrimary(f, t, i) = Closed(t, inner) /\ ParsePrimary(g, t, i) = Closed(t, inner)
    BY <1>4, <2>3, <2>4 DEF ParsePrimary, Predicates
  <2>6. Moves(t, Closed(t, inner), i)
    <3>1. inner.ok /\ KindAt(t, inner.index) = "RPAREN" => inner.index + 1 \in (i + 1)..(Len(t) + 1)
      <4> SUFFICES ASSUME inner.ok, KindAt(t, inner.index) = "RPAREN"
                   PROVE  inner.index + 1 \in (i + 1)..(Len(t) + 1)  OBVIOUS
      <4>1. inner.index \in (i + 2)..(Len(t) + 1)  BY <1>1, <2>4 DEF Moves
      <4>2. inner.index \in Nat  BY <1>1, <4>1
      <4>3. inner.index <= Len(t)  BY <4>2, KindIn
      <4> QED  BY <1>1, <4>1, <4>3
    <3> QED  BY <3>1 DEF Closed, Moves, Parsed, Failed
  <2> QED  BY <2>5, <2>6 DEF i
<1>5. CASE KindAt(t, i) = "COREQ" /\ KindAt(t, i + 1) = "LPAREN"
  <2>1. i + 2 \in 1..(Len(t) + 1)  BY <1>1, <1>3, <1>5
  <2>2. f[<<"COMMA", i + 2>>] = g[<<"COMMA", i + 2>>] /\ Moves(t, f[<<"COMMA", i + 2>>], i + 2)
    BY <1>1, <2>1, AgreeAt DEF i, Lists
  <2>3. PICK inner : inner = f[<<"COMMA", i + 2>>]  OBVIOUS
  <2>4. PICK items : items = Closed(t, inner)  OBVIOUS
  <2>5. /\ ParsePrimary(f, t, i) = IF items.ok THEN Parsed(CoRequisite(items.expr), items.index) ELSE Failed
        /\ ParsePrimary(g, t, i) = IF items.ok THEN Parsed(CoRequisite(items.expr), items.index) ELSE Failed
    BY <1>5, <2>2, <2>3, <2>4 DEF ParsePrimary, Predicates
  <2>6. Moves(t, items, i)
    <3>1. inner.ok /\ KindAt(t, inner.index) = "RPAREN" => inner.index + 1 \in (i + 1)..(Len(t) + 1)
      <4> SUFFICES ASSUME inner.ok, KindAt(t, inner.index) = "RPAREN"
                   PROVE  inner.index + 1 \in (i + 1)..(Len(t) + 1)  OBVIOUS
      <4>1. inner.index \in (i + 3)..(Len(t) + 1)  BY <1>1, <2>2, <2>3 DEF Moves
      <4>2. inner.index \in Nat  BY <1>1, <4>1
      <4>3. inner.index <= Len(t)  BY <4>2, KindIn
      <4> QED  BY <1>1, <4>1, <4>3
    <3> QED  BY <2>4, <3>1 DEF Closed, Moves, Parsed, Failed
  <2> QED  BY <2>5, <2>6 DEF i, Moves, Parsed, Failed
<1>6. CASE KindAt(t, i) \notin {"LPAREN", "COREQ"} \/ (KindAt(t, i) = "COREQ" /\ KindAt(t, i + 1) # "LPAREN")
  <2>1. ParsePrimary(f, t, i) = ParsePrimary(g, t, i)  BY <1>6 DEF ParsePrimary
  <2>2. Moves(t, ParsePrimary(f, t, i), i)
    BY <1>1, <1>2, <1>3, <1>6 DEF ParsePrimary, Moves, Parsed, Failed, Predicates
  <2> QED  BY <2>1, <2>2 DEF i
<1> QED  BY <1>4, <1>5, <1>6

LEMMA CallLocal ==
  ASSUME NEW t, Text(t), NEW x \in Calls(t), NEW f, NEW g, Agree(f, g, t, x)
  PROVE  /\ ParseCall(f, t, x) = ParseCall(g, t, x)
         /\ Moves(t, ParseCall(f, t, x), x[2])
<1>1. x[1] \in Lists \cup {"primary"}  BY DEF Calls
<1>2. CASE x[1] = "primary"  BY <1>2, PrimaryLocal DEF ParseCall
<1>3. CASE x[1] # "primary"  BY <1>1, <1>3, ItemsLocal DEF ParseCall
<1> QED  BY <1>2, <1>3

\* Calls, and then whole texts, by induction over sizes.
LEMMA SizeInduction ==
  ASSUME NEW S, NEW size \in [S -> Nat], NEW Good,
         \A x \in S : (\A y \in S : size[y] < size[x] => y \in Good) => x \in Good
  PROVE  S \subseteq Good
<1> SUFFICES ASSUME NEW z \in S, z \notin Good PROVE FALSE  OBVIOUS
<1> DEFINE T == {size[x] : x \in S \ Good}
<1>1. T \subseteq Nat /\ T # {}  OBVIOUS
<1>2. PICK n \in T : \A m \in T : n <= m
  <2> HIDE DEF T
  <2> QED  BY <1>1, LeastNat
<1>3. PICK x \in S \ Good : size[x] = n  OBVIOUS
<1>4. \A y \in S : size[y] < size[x] => y \in Good
  <2> SUFFICES ASSUME NEW y \in S, size[y] < size[x], y \notin Good PROVE FALSE  OBVIOUS
  <2>1. size[y] \in T  OBVIOUS
  <2>2. n <= size[y]  BY <1>2, <2>1
  <2>3. size[y] \in Nat /\ size[x] \in Nat  OBVIOUS
  <2> QED  BY <1>3, <2>2, <2>3
<1> QED  BY <1>3, <1>4

\* A record of what the calls smaller than m return.
Obeys(f, t, m) ==
  \A x \in Calls(t) :
    CallSize(t, x) < m => f[x] = ParseCall(f, t, x) /\ Moves(t, f[x], x[2])

SizeOf(t) == [x \in Calls(t) |-> CallSize(t, x)]

LEMMA CallSizes ==
  ASSUME NEW t, Text(t)
  PROVE  SizeOf(t) \in [Calls(t) -> Nat] /\ \A x \in Calls(t) : CallSize(t, x) < 4 * Len(t) + 4
<1>1. ASSUME NEW x \in Calls(t)
      PROVE  CallSize(t, x) \in Nat /\ CallSize(t, x) < 4 * Len(t) + 4
  <2>1. x[2] \in 1..(Len(t) + 1) /\ Rank(x[1]) \in 0..3 /\ Len(t) \in Nat
    BY DEF Calls, Rank, Text
  <2>2. PICK n, i, p : n = Len(t) /\ i = x[2] /\ p = Rank(x[1])  OBVIOUS
  <2>3. 4 * (n + 1 - i) + p \in Nat /\ 4 * (n + 1 - i) + p < 4 * n + 4  BY <2>1, <2>2
  <2> QED  BY <2>2, <2>3 DEF CallSize
<1> QED  BY <1>1 DEF SizeOf

LEMMA ParserBegun ==
  ASSUME NEW t, Text(t), NEW m \in Nat
  PROVE  \E f : Obeys(f, t, m)
<1> DEFINE Bad == {k \in Nat : ~\E f : Obeys(f, t, k)}
<1> SUFFICES ASSUME m \in Bad PROVE FALSE  OBVIOUS
<1>1. PICK k \in Bad : \A j \in Bad : k <= j
  <2>1. Bad \subseteq Nat /\ Bad # {}  OBVIOUS
  <2> HIDE DEF Bad
  <2> QED  BY <2>1, LeastNat
<1>2. k \in Nat /\ ~\E f : Obeys(f, t, k)  OBVIOUS
<1>3. \A x \in Calls(t) : CallSize(t, x) \in Nat  BY CallSizes DEF SizeOf
<1>4. k # 0
  <2>1. \A x \in Calls(t) : ~(CallSize(t, x) < 0)  BY <1>3
  <2>2. Obeys(t, t, 0)  BY <2>1 DEF Obeys
  <2> QED  BY <1>2, <2>2
<1>5. k - 1 \in Nat /\ ~(k <= k - 1)  BY <1>2, <1>4
<1>6. k - 1 \notin Bad
  <2> HIDE DEF Bad
  <2> QED  BY <1>1, <1>5
<1>7. PICK f : Obeys(f, t, k - 1)  BY <1>5, <1>6
<1> DEFINE g == [x \in Calls(t) |-> ParseCall(f, t, x)]
<1>8. \A x \in Calls(t) : g[x] = ParseCall(f, t, x)  OBVIOUS
<1> HIDE DEF g
<1>9. ASSUME NEW x \in Calls(t), CallSize(t, x) < k
      PROVE  g[x] = ParseCall(g, t, x) /\ Moves(t, g[x], x[2])
  <2>1. \A y \in Calls(t) : CallSize(t, y) < CallSize(t, x) => CallSize(t, y) < k - 1
    BY <1>2, <1>3, <1>9
  <2>2. Agree(f, g, t, x)  BY <1>7, <1>8, <2>1 DEF Agree, Obeys
  <2> QED  BY <1>8, <2>2, CallLocal
<1>10. Obeys(g, t, k)  BY <1>9 DEF Obeys
<1> QED  BY <1>2, <1>10

\* What the parser returns is what its methods compute, and a call that
\* succeeds takes a token.
LEMMA ParserFollows ==
  ASSUME NEW t, Text(t), NEW x \in Calls(t)
  PROVE  Parser(t)[x] = ParseCall(Parser(t), t, x) /\ Moves(t, Parser(t)[x], x[2])
<1> DEFINE P == Parser(t)
           size == SizeOf(t)
           Good == {y \in Calls(t) : Moves(t, P[y], y[2])}
<1>1. P = [y \in Calls(t) |-> ParseCall(P, t, y)]
  <2>1. 4 * Len(t) + 4 \in Nat  BY DEF Text
  <2>2. PICK f : Obeys(f, t, 4 * Len(t) + 4)  BY <2>1, ParserBegun
  <2>3. \A y \in Calls(t) : f[y] = ParseCall(f, t, y) /\ Moves(t, f[y], y[2])
    BY <2>2, CallSizes DEF Obeys
  <2> DEFINE g == [y \in Calls(t) |-> ParseCall(f, t, y)]
  <2>4. \A y \in Calls(t) : g[y] = f[y]  BY <2>3
  <2>5. ASSUME NEW y \in Calls(t) PROVE ParseCall(f, t, y) = ParseCall(g, t, y)
    <3> HIDE DEF g
    <3>1. Agree(f, g, t, y)  BY <2>3, <2>4 DEF Agree
    <3> QED  BY <3>1, CallLocal
  <2>6. g = [y \in Calls(t) |-> ParseCall(g, t, y)]  BY <2>5
  <2> HIDE DEF g
  <2>7. Parser(t) = CHOOSE p : p = [y \in Calls(t) |-> ParseCall(p, t, y)]  BY DEF Parser
  <2> QED  BY <2>6, <2>7
<1> HIDE DEF P
<1>2. \A y \in Calls(t) : P[y] = ParseCall(P, t, y)  BY <1>1
<1>3. size \in [Calls(t) -> Nat] /\ \A y \in Calls(t) : size[y] = CallSize(t, y)
  BY CallSizes DEF SizeOf
<1>4. ASSUME NEW y \in Calls(t), \A z \in Calls(t) : size[z] < size[y] => z \in Good
      PROVE  y \in Good
  <2>1. Agree(P, P, t, y)  BY <1>3, <1>4 DEF Agree
  <2>2. Moves(t, ParseCall(P, t, y), y[2])  BY <2>1, CallLocal
  <2> QED  BY <1>2, <2>2
<1> HIDE DEF Good, size
<1>5. Calls(t) \subseteq Good  BY <1>3, <1>4, SizeInduction
<1>6. Moves(t, P[x], x[2])  BY <1>5 DEF Good
<1> QED  BY <1>2, <1>6 DEF P

\* ---------------------------------------------------------------- spans

LEMMA SpanTyped ==
  ASSUME NEW t, Text(t), NEW x \in Spans(t)
  PROVE  /\ x[1] \in Lists \cup {"primary"} /\ x[2] \in 1..(Len(t) + 1)
         /\ x[3] \in 1..(Len(t) + 1) /\ x[2] <= x[3]
         /\ SpanSize(x) \in Nat /\ SpanSize(x) < 4 * Len(t) + 4
<1>1. /\ x[1] \in Lists \cup {"primary"} /\ x[2] \in 1..(Len(t) + 1)
      /\ x[3] \in 1..(Len(t) + 1) /\ x[2] <= x[3]
  BY DEF Spans
<1>2. Rank(x[1]) \in 0..3 /\ Len(t) \in Nat  BY DEF Rank, Text
<1>3. PICK n, i, j, p : n = Len(t) /\ i = x[2] /\ j = x[3] /\ p = Rank(x[1])  OBVIOUS
<1>4. 4 * (j - i) + p \in Nat /\ 4 * (j - i) + p < 4 * n + 4  BY <1>1, <1>2, <1>3
<1> QED  BY <1>1, <1>3, <1>4 DEF SpanSize

AgreeSpans(f, g, t, x) == \A y \in Spans(t) : SpanSize(y) < SpanSize(x) => f[y] = g[y]

\* The span of a level from i to j is smaller than x.
Within(t, x, level, i, j) ==
  /\ level \in Lists \cup {"primary"} /\ i \in 1..(Len(t) + 1) /\ j \in 1..(Len(t) + 1)
  /\ i <= j /\ x[2] <= i /\ j <= x[3]
  /\ i > x[2] \/ Rank(level) < Rank(x[1])

LEMMA SpanWithin ==
  ASSUME NEW t, Text(t), NEW x \in Spans(t), NEW level, NEW i, NEW j, Within(t, x, level, i, j)
  PROVE  <<level, i, j>> \in Spans(t) /\ SpanSize(<<level, i, j>>) < SpanSize(x)
<1>1. PICK y : y = <<level, i, j>>  OBVIOUS
<1>2. y \in Spans(t) /\ y[1] = level /\ y[2] = i /\ y[3] = j  BY <1>1 DEF Spans, Within
<1>3. x[2] \in 1..(Len(t) + 1) /\ x[3] \in 1..(Len(t) + 1)  BY SpanTyped
<1>4. Rank(level) \in 0..3 /\ Rank(x[1]) \in 0..3 /\ Len(t) \in Nat  BY DEF Rank, Text
<1>5. SpanSize(y) < SpanSize(x)
  <2>1. PICK n, k, l, p, q :
          n = Len(t) /\ k = x[2] /\ l = x[3] /\ p = Rank(level) /\ q = Rank(x[1])  OBVIOUS
  <2>2. /\ n \in Nat /\ k \in 1..(n + 1) /\ l \in 1..(n + 1) /\ p \in 0..3 /\ q \in 0..3
        /\ i \in 1..(n + 1) /\ j \in 1..(n + 1) /\ k <= i /\ j <= l
        /\ (i > k \/ p < q)
    BY <1>3, <1>4, <2>1 DEF Within
  <2>3. 4 * (j - i) + p < 4 * (l - k) + q  BY <2>2
  <2> QED  BY <1>2, <2>1, <2>3 DEF SpanSize
<1> QED  BY <1>1, <1>2, <1>5

LEMMA AgreeWithin ==
  ASSUME NEW t, Text(t), NEW x \in Spans(t), NEW f, NEW g, AgreeSpans(f, g, t, x),
         NEW level, NEW i, NEW j, Within(t, x, level, i, j)
  PROVE  f[<<level, i, j>>] = g[<<level, i, j>>]
<1>1. PICK y : y = <<level, i, j>>  OBVIOUS
<1> QED  BY <1>1, SpanWithin DEF AgreeSpans

LEMMA ItemReadingsLocal ==
  ASSUME NEW t, Text(t), NEW x \in Spans(t), x[1] \in Lists, NEW f, NEW g, AgreeSpans(f, g, t, x),
         NEW k \in x[2]..x[3]
  PROVE  ItemReadings(f, x[1], x[2], k) = ItemReadings(g, x[1], x[2], k)
<1>1. /\ x[2] \in 1..(Len(t) + 1) /\ x[3] \in 1..(Len(t) + 1) /\ Len(t) \in Nat
      /\ k \in 1..(Len(t) + 1) /\ x[2] <= k /\ k <= x[3]
  BY SpanTyped DEF Text
<1>2. CASE x[1] = "OR"
  <2>1. Within(t, x, "AND", x[2], k)  BY <1>1, <1>2 DEF Within, Rank, Lists
  <2>2. f[<<"AND", x[2], k>>] = g[<<"AND", x[2], k>>]  BY <2>1, AgreeWithin
  <2> QED  BY <1>2, <2>2 DEF ItemReadings
<1>3. CASE x[1] = "AND"
  <2>1. Within(t, x, "primary", x[2], k)  BY <1>1, <1>3 DEF Within, Rank, Lists
  <2>2. f[<<"primary", x[2], k>>] = g[<<"primary", x[2], k>>]  BY <2>1, AgreeWithin
  <2> QED  BY <1>3, <2>2 DEF ItemReadings
<1>4. CASE x[1] = "COMMA"
  <2>1. Within(t, x, "OR", x[2], k)  BY <1>1, <1>4 DEF Within, Rank, Lists
  <2>2. f[<<"OR", x[2], k>>] = g[<<"OR", x[2], k>>]  BY <2>1, AgreeWithin
  <2> QED  BY <1>4, <2>2 DEF ItemReadings
<1> QED  BY <1>2, <1>3, <1>4 DEF Lists

LEMMA SpanLocal ==
  ASSUME NEW t, Text(t), NEW x \in Spans(t), NEW f, NEW g, AgreeSpans(f, g, t, x)
  PROVE  SpanReadings(f, t, x) = SpanReadings(g, t, x)
<1>1. /\ x[1] \in Lists \cup {"primary"}
      /\ x[2] \in 1..(Len(t) + 1) /\ x[3] \in 1..(Len(t) + 1) /\ Len(t) \in Nat /\ x[2] <= x[3]
  BY SpanTyped DEF Text
<1>2. CASE x[1] = "primary"
  <2>1. PICK i, j : i = x[2] /\ j = x[3]  OBVIOUS
  <2>2. CASE j > i + 2 /\ KindAt(t, i) = "LPAREN"
    <3>1. Within(t, x, "OR", i + 1, j - 1)  BY <1>1, <2>1, <2>2 DEF Within, Lists
    <3>2. f[<<"OR", i + 1, j - 1>>] = g[<<"OR", i + 1, j - 1>>]  BY <3>1, AgreeWithin
    <3>3. PrimaryReadings(f, t, i, j) = PrimaryReadings(g, t, i, j)
      BY <2>2, <3>2 DEF PrimaryReadings, Predicates
    <3> QED  BY <1>2, <2>1, <3>3 DEF SpanReadings
  <2>3. CASE j > i + 3 /\ KindAt(t, i) = "COREQ"
    <3>1. Within(t, x, "COMMA", i + 2, j - 1)  BY <1>1, <2>1, <2>3 DEF Within, Lists
    <3>2. f[<<"COMMA", i + 2, j - 1>>] = g[<<"COMMA", i + 2, j - 1>>]  BY <3>1, AgreeWithin
    <3>3. PrimaryReadings(f, t, i, j) = PrimaryReadings(g, t, i, j)
      BY <2>3, <3>2 DEF PrimaryReadings, Predicates
    <3> QED  BY <1>2, <2>1, <3>3 DEF SpanReadings
  <2>4. CASE ~(j > i + 2 /\ KindAt(t, i) = "LPAREN") /\ ~(j > i + 3 /\ KindAt(t, i) = "COREQ")
    <3>1. PrimaryReadings(f, t, i, j) = PrimaryReadings(g, t, i, j)
      BY <2>4 DEF PrimaryReadings
    <3> QED  BY <1>2, <2>1, <3>1 DEF SpanReadings
  <2> QED  BY <2>2, <2>3, <2>4
<1>3. CASE x[1] \in Lists
  <2>1. PICK s, i, j : s = x[1] /\ i = x[2] /\ j = x[3]  OBVIOUS
  <2>2. \A k \in i..j : ItemReadings(f, s, i, k) = ItemReadings(g, s, i, k)
    BY <1>3, <2>1, ItemReadingsLocal
  <2>3. ASSUME NEW k \in i..(j - 1)
        PROVE  /\ f[<<s, k + 1, j>>] = g[<<s, k + 1, j>>]
               /\ ItemReadings(f, s, i, k) = ItemReadings(g, s, i, k)
    <3>1. Within(t, x, s, k + 1, j)  BY <1>1, <1>3, <2>1 DEF Within
    <3>2. k \in i..j  BY <1>1, <2>1
    <3> QED  BY <2>2, <3>1, <3>2, AgreeWithin
  <2>4. ItemReadings(f, s, i, j) = ItemReadings(g, s, i, j)  BY <1>1, <2>1, <2>2
  <2>5. ListReadings(f, t, s, i, j) = ListReadings(g, t, s, i, j)
    <3> DEFINE cut(r, k) == {Ahead(e, rest) : e \in ItemReadings(r, s, i, k),
                                             rest \in r[<<s, k + 1, j>>]}
               K == {m \in i..(j - 1) : t[m].kind = s}
    <3>1. ASSUME NEW k \in K PROVE cut(f, k) = cut(g, k)
      <4>1. k \in i..(j - 1)  OBVIOUS
      <4>2. PICK items, rests : /\ items = ItemReadings(f, s, i, k) /\ items = ItemReadings(g, s, i, k)
                                /\ rests = f[<<s, k + 1, j>>] /\ rests = g[<<s, k + 1, j>>]
        BY <2>3, <4>1
      <4>3. cut(f, k) = {Ahead(e, rest) : e \in items, rest \in rests}  BY <4>2
      <4>4. cut(g, k) = {Ahead(e, rest) : e \in items, rest \in rests}  BY <4>2
      <4> HIDE DEF cut
      <4> QED  BY <4>3, <4>4
    <3>2. {cut(f, k) : k \in K} = {cut(g, k) : k \in K}
      <4> HIDE DEF cut, K
      <4> QED  BY <3>1
    <3>3. UNION {cut(f, k) : k \in K} = UNION {cut(g, k) : k \in K}
      <4> HIDE DEF cut, K
      <4> QED  BY <3>2
    <3>4. ListReadings(f, t, s, i, j) =
            {<<e>> : e \in ItemReadings(f, s, i, j)} \cup UNION {cut(f, k) : k \in K}
      BY DEF ListReadings
    <3>5. ListReadings(g, t, s, i, j) =
            {<<e>> : e \in ItemReadings(g, s, i, j)} \cup UNION {cut(g, k) : k \in K}
      BY DEF ListReadings
    <3> HIDE DEF cut, K
    <3> QED  BY <2>4, <3>3, <3>4, <3>5
  <2> QED  BY <1>3, <2>1, <2>5 DEF SpanReadings, Lists
<1> QED  BY <1>1, <1>2, <1>3

\* A record of what the spans smaller than m are read as.
ReadsAs(f, t, m) == \A x \in Spans(t) : SpanSize(x) < m => f[x] = SpanReadings(f, t, x)

LEMMA GrammarBegun ==
  ASSUME NEW t, Text(t), NEW m \in Nat
  PROVE  \E f : ReadsAs(f, t, m)
<1> DEFINE Bad == {k \in Nat : ~\E f : ReadsAs(f, t, k)}
<1> SUFFICES ASSUME m \in Bad PROVE FALSE  OBVIOUS
<1>1. PICK k \in Bad : \A j \in Bad : k <= j
  <2>1. Bad \subseteq Nat /\ Bad # {}  OBVIOUS
  <2> HIDE DEF Bad
  <2> QED  BY <2>1, LeastNat
<1>2. k \in Nat /\ ~\E f : ReadsAs(f, t, k)  OBVIOUS
<1>3. \A x \in Spans(t) : SpanSize(x) \in Nat  BY SpanTyped
<1>4. k # 0
  <2>1. \A x \in Spans(t) : ~(SpanSize(x) < 0)  BY <1>3
  <2>2. ReadsAs(t, t, 0)  BY <2>1 DEF ReadsAs
  <2> QED  BY <1>2, <2>2
<1>5. k - 1 \in Nat /\ ~(k <= k - 1)  BY <1>2, <1>4
<1>6. k - 1 \notin Bad
  <2> HIDE DEF Bad
  <2> QED  BY <1>1, <1>5
<1>7. PICK f : ReadsAs(f, t, k - 1)  BY <1>5, <1>6
<1> DEFINE g == [x \in Spans(t) |-> SpanReadings(f, t, x)]
<1>8. \A x \in Spans(t) : g[x] = SpanReadings(f, t, x)  OBVIOUS
<1> HIDE DEF g
<1>9. ASSUME NEW x \in Spans(t), SpanSize(x) < k
      PROVE  g[x] = SpanReadings(g, t, x)
  <2>1. \A y \in Spans(t) : SpanSize(y) < SpanSize(x) => SpanSize(y) < k - 1
    BY <1>2, <1>3, <1>9
  <2>2. AgreeSpans(f, g, t, x)  BY <1>7, <1>8, <2>1 DEF AgreeSpans, ReadsAs
  <2> QED  BY <1>8, <2>2, SpanLocal
<1>10. ReadsAs(g, t, k)  BY <1>9 DEF ReadsAs
<1> QED  BY <1>2, <1>10

\* What the grammar reads a span as is what its rules say.
LEMMA GrammarFollows ==
  ASSUME NEW t, Text(t), NEW x \in Spans(t)
  PROVE  Grammar(t)[x] = SpanReadings(Grammar(t), t, x)
<1> DEFINE G == Grammar(t)
<1>1. G = [y \in Spans(t) |-> SpanReadings(G, t, y)]
  <2>1. 4 * Len(t) + 4 \in Nat  BY DEF Text
  <2>2. PICK f : ReadsAs(f, t, 4 * Len(t) + 4)  BY <2>1, GrammarBegun
  <2>3. \A y \in Spans(t) : f[y] = SpanReadings(f, t, y)  BY <2>2, SpanTyped DEF ReadsAs
  <2> DEFINE g == [y \in Spans(t) |-> SpanReadings(f, t, y)]
  <2>4. \A y \in Spans(t) : g[y] = f[y]  BY <2>3
  <2>5. ASSUME NEW y \in Spans(t) PROVE SpanReadings(f, t, y) = SpanReadings(g, t, y)
    <3> HIDE DEF g
    <3>1. AgreeSpans(f, g, t, y)  BY <2>4 DEF AgreeSpans
    <3> QED  BY <3>1, SpanLocal
  <2>6. g = [y \in Spans(t) |-> SpanReadings(g, t, y)]  BY <2>5
  <2> HIDE DEF g
  <2>7. Grammar(t) = CHOOSE p : p = [y \in Spans(t) |-> SpanReadings(p, t, y)]  BY DEF Grammar
  <2> QED  BY <2>6, <2>7
<1> HIDE DEF G
<1> QED  BY <1>1 DEF G

\* ---------------------------------------------------------------- soundness

\* u is the text t with the grades the parser finds in it.
Regraded(t, u) ==
  /\ Text(t) /\ Text(u) /\ Len(u) = Len(t)
  /\ \A i \in 1..Len(t) :
       /\ u[i].kind = t[i].kind
       /\ u[i].value = IF t[i].kind = "GRADE" THEN ReadGrade(t[i].value) ELSE t[i].value

LEMMA SameKinds ==
  ASSUME NEW t, NEW u, Regraded(t, u), NEW i \in Nat, i > 0
  PROVE  KindAt(u, i) = KindAt(t, i)
BY DEF Regraded, KindAt, Text

\* A result r of a call that the grammar agrees with.
Found(u, r, level, i) ==
  r.ok => r.index \in (i + 1)..(Len(u) + 1) /\ r.expr \in Grammar(u)[<<level, i, r.index>>]

FoundBelow(t, u, x) ==
  \A y \in Calls(t) : CallSize(t, y) < CallSize(t, x) => Found(u, Parser(t)[y], y[1], y[2])

LEMMA FoundWithin ==
  ASSUME NEW t, NEW u, Regraded(t, u), NEW x \in Calls(t), FoundBelow(t, u, x),
         NEW level \in Lists \cup {"primary"}, NEW i \in 1..(Len(t) + 1),
         i > x[2] \/ (i = x[2] /\ Rank(level) < Rank(x[1]))
  PROVE  Found(u, Parser(t)[<<level, i>>], level, i)
<1>0. Text(t) /\ Text(u) /\ Len(t) = Len(u)  BY DEF Regraded
<1>1. PICK y : y = <<level, i>>  OBVIOUS
<1>2. y \in Calls(t) /\ y[1] = level /\ y[2] = i  BY <1>0, <1>1, CallTyped
<1>3. x[2] \in 1..(Len(t) + 1) /\ x[1] \in Lists \cup {"primary"}  BY DEF Calls
<1>4. Rank(level) \in 0..3 /\ Rank(x[1]) \in 0..3 /\ Len(t) \in Nat  BY <1>0 DEF Rank, Text
<1>5. CallSize(t, y) < CallSize(t, x)
  <2>1. PICK n, k, p, q : n = Len(t) /\ k = x[2] /\ p = Rank(level) /\ q = Rank(x[1])  OBVIOUS
  <2>2. n \in Nat /\ k \in 1..(n + 1) /\ i \in 1..(n + 1) /\ p \in 0..3 /\ q \in 0..3
    BY <1>3, <1>4, <2>1
  <2>3. i > k \/ (i = k /\ p < q)  BY <2>1
  <2>4. 4 * (n + 1 - i) + p < 4 * (n + 1 - k) + q  BY <2>2, <2>3
  <2> QED  BY <1>2, <2>1, <2>4 DEF CallSize
<1> QED  BY <1>1, <1>2, <1>5 DEF FoundBelow

LEMMA ItemFound ==
  ASSUME NEW t, NEW u, Regraded(t, u), NEW x \in Calls(t), x[1] \in Lists, FoundBelow(t, u, x),
         NEW item, item = ParseItem(Parser(t), x[1], x[2]), item.ok
  PROVE  /\ item.index \in (x[2] + 1)..(Len(u) + 1)
         /\ item.expr \in ItemReadings(Grammar(u), x[1], x[2], item.index)
<1>1. x[2] \in 1..(Len(t) + 1)  BY DEF Calls
<1>2. CASE x[1] = "OR"
  <2>1. PICK r : r = Parser(t)[<<"AND", x[2]>>]  OBVIOUS
  <2>2. Found(u, r, "AND", x[2])  BY <1>1, <1>2, <2>1, FoundWithin DEF Rank, Lists
  <2>3. item = Joined("and", r)  BY <1>2, <2>1 DEF ParseItem, ParseAnd
  <2>4. r.ok /\ item.index = r.index /\ item.expr = Flat("and", r.expr)
    BY <2>3 DEF Joined, Flat, Parsed, Failed
  <2> QED  BY <1>2, <2>2, <2>4 DEF Found, ItemReadings
<1>3. CASE x[1] = "AND"
  <2>1. PICK r : r = Parser(t)[<<"primary", x[2]>>]  OBVIOUS
  <2>2. Found(u, r, "primary", x[2])  BY <1>1, <1>3, <2>1, FoundWithin DEF Rank, Lists
  <2>3. item = r  BY <1>3, <2>1 DEF ParseItem
  <2> QED  BY <1>3, <2>2, <2>3 DEF Found, ItemReadings
<1>4. CASE x[1] = "COMMA"
  <2>1. PICK r : r = Parser(t)[<<"OR", x[2]>>]  OBVIOUS
  <2>2. Found(u, r, "OR", x[2])  BY <1>1, <1>4, <2>1, FoundWithin DEF Rank, Lists
  <2>3. item = Joined("or", r)  BY <1>4, <2>1 DEF ParseItem, ParseOr
  <2>4. r.ok /\ item.index = r.index /\ item.expr = Flat("or", r.expr)
    BY <2>3 DEF Joined, Flat, Parsed, Failed
  <2> QED  BY <1>4, <2>2, <2>4 DEF Found, ItemReadings
<1> QED  BY <1>2, <1>3, <1>4 DEF Lists

LEMMA ListReads ==
  ASSUME NEW u, Text(u), NEW s \in Lists, NEW i \in 1..(Len(u) + 1), NEW j \in i..(Len(u) + 1)
  PROVE  Grammar(u)[<<s, i, j>>] = ListReadings(Grammar(u), u, s, i, j)
<1>1. PICK y : y = <<s, i, j>>  OBVIOUS
<1>2. y \in Spans(u) /\ y[1] = s /\ y[2] = i /\ y[3] = j /\ s # "primary"
  BY <1>1 DEF Spans, Lists, Text
<1>3. Grammar(u)[y] = SpanReadings(Grammar(u), u, y)  BY <1>2, GrammarFollows
<1> QED  BY <1>1, <1>2, <1>3 DEF SpanReadings

LEMMA PrimaryReads ==
  ASSUME NEW u, Text(u), NEW i \in 1..(Len(u) + 1), NEW j \in i..(Len(u) + 1)
  PROVE  Grammar(u)[<<"primary", i, j>>] = PrimaryReadings(Grammar(u), u, i, j)
<1>1. PICK y : y = <<"primary", i, j>>  OBVIOUS
<1>2. y \in Spans(u) /\ y[1] = "primary" /\ y[2] = i /\ y[3] = j
  BY <1>1 DEF Spans, Text
<1>3. Grammar(u)[y] = SpanReadings(Grammar(u), u, y)  BY <1>2, GrammarFollows
<1> QED  BY <1>1, <1>2, <1>3 DEF SpanReadings

LEMMA ListFound ==
  ASSUME NEW t, NEW u, Regraded(t, u), NEW x \in Calls(t), x[1] \in Lists, FoundBelow(t, u, x)
  PROVE  Found(u, Parser(t)[x], x[1], x[2])
<1> DEFINE first == ParseItem(Parser(t), x[1], x[2])
           r == Parser(t)[x]
<1>1. Text(t) /\ Text(u) /\ Len(u) = Len(t) /\ Len(t) \in Nat /\ x[2] \in 1..(Len(t) + 1)
  BY DEF Regraded, Text, Calls
<1>2. r = ParseItems(Parser(t), t, x[1], x[2]) /\ Moves(t, r, x[2])
  BY <1>1, ParserFollows DEF ParseCall, Lists
<1>3. first.ok => /\ first.index \in (x[2] + 1)..(Len(u) + 1)
                  /\ first.expr \in ItemReadings(Grammar(u), x[1], x[2], first.index)
  BY ItemFound
<1> SUFFICES ASSUME r.ok
             PROVE  r.index \in (x[2] + 1)..(Len(u) + 1) /\ r.expr \in Grammar(u)[<<x[1], x[2], r.index>>]
  BY DEF Found
<1>4. r.index \in (x[2] + 1)..(Len(u) + 1) /\ r.index \in x[2]..(Len(u) + 1)  BY <1>1, <1>2 DEF Moves
<1> HIDE DEF first, r
<1>5. Grammar(u)[<<x[1], x[2], r.index>>] = ListReadings(Grammar(u), u, x[1], x[2], r.index)
  BY <1>1, <1>4, ListReads
<1>6. first.ok  BY <1>2 DEF ParseItems, first, Failed
<1>7. CASE KindAt(t, first.index) # x[1]
  <2>1. r = Parsed(<<first.expr>>, first.index)  BY <1>2, <1>6, <1>7 DEF ParseItems, first
  <2>2. r.index = first.index /\ r.expr = <<first.expr>>  BY <2>1 DEF Parsed
  <2>3. r.expr \in ListReadings(Grammar(u), u, x[1], x[2], r.index)
    BY <1>3, <1>6, <2>2 DEF ListReadings
  <2> QED  BY <1>4, <1>5, <2>3
<1>8. CASE KindAt(t, first.index) = x[1]
  <2>1. PICK k : k = first.index  OBVIOUS
  <2>2. k \in (x[2] + 1)..(Len(t) + 1)  BY <1>1, <1>3, <1>6, <2>1
  <2>3. k <= Len(t) /\ t[k].kind = x[1]  BY <1>1, <1>8, <2>1, <2>2, KindIn DEF Lists
  <2>4. PICK rest : rest = Parser(t)[<<x[1], k + 1>>]  OBVIOUS
  <2>5. rest.ok /\ r = Parsed(<<first.expr>> \o rest.expr, rest.index)
    BY <1>2, <1>6, <1>8, <2>1, <2>4 DEF ParseItems, first, Failed
  <2>6. r.index = rest.index /\ r.expr = Ahead(first.expr, rest.expr)  BY <2>5 DEF Parsed, Ahead
  <2>7. k + 1 \in 1..(Len(t) + 1) /\ k + 1 > x[2]  BY <1>1, <2>2, <2>3
  <2>8. Found(u, rest, x[1], k + 1)  BY <2>4, <2>7, FoundWithin
  <2>9. /\ rest.index \in (k + 2)..(Len(u) + 1)
        /\ rest.expr \in Grammar(u)[<<x[1], k + 1, r.index>>]
    BY <1>1, <2>2, <2>5, <2>6, <2>8 DEF Found
  <2>10. k \in x[2]..(r.index - 1) /\ u[k].kind = x[1]
    BY <1>1, <2>2, <2>3, <2>6, <2>9 DEF Regraded
  <2>11. first.expr \in ItemReadings(Grammar(u), x[1], x[2], k)  BY <1>3, <1>6, <2>1
  <2>12. r.expr \in {Ahead(e, l) : e \in ItemReadings(Grammar(u), x[1], x[2], k),
                                  l \in Grammar(u)[<<x[1], k + 1, r.index>>]}
    BY <2>6, <2>9, <2>11
  <2>13. r.expr \in ListReadings(Grammar(u), u, x[1], x[2], r.index)
    BY <2>10, <2>12 DEF ListReadings
  <2> QED  BY <1>4, <1>5, <2>13
<1> QED  BY <1>7, <1>8

\* A list in parentheses stands from i up to j.
InParens(u, i, j) ==
  /\ i \in Nat /\ j \in Nat /\ j > i + 2
  /\ KindAt(u, i) = "LPAREN" /\ KindAt(u, j - 1) = "RPAREN"

InCoreq(u, i, j) ==
  /\ i \in Nat /\ j \in Nat /\ j > i + 3
  /\ KindAt(u, i) = "COREQ" /\ KindAt(u, i + 1) = "LPAREN" /\ KindAt(u, j - 1) = "RPAREN"

LEMMA PrimaryParens ==
  ASSUME NEW G, NEW u, NEW i, NEW j, InParens(u, i, j)
  PROVE  PrimaryReadings(G, u, i, j) = {Flat("or", e) : e \in G[<<"OR", i + 1, j - 1>>]}
<1>1. j # i + 1 /\ j # i + 2  BY DEF InParens
<1> QED  BY <1>1 DEF PrimaryReadings, Predicates, InParens

LEMMA PrimaryCoreq ==
  ASSUME NEW G, NEW u, NEW i, NEW j, InCoreq(u, i, j)
  PROVE  PrimaryReadings(G, u, i, j) = {CoRequisite(e) : e \in G[<<"COMMA", i + 2, j - 1>>]}
<1>1. j # i + 1 /\ j # i + 2  BY DEF InCoreq
<1> QED  BY <1>1 DEF PrimaryReadings, Predicates, InCoreq

LEMMA PrimaryFound ==
  ASSUME NEW t, NEW u, Regraded(t, u), NEW x \in Calls(t), x[1] = "primary", FoundBelow(t, u, x)
  PROVE  Found(u, Parser(t)[x], "primary", x[2])
<1> DEFINE r == Parser(t)[x]
<1>1. Text(t) /\ Text(u) /\ Len(u) = Len(t) /\ Len(t) \in Nat /\ x[2] \in 1..(Len(t) + 1)
  BY DEF Regraded, Text, Calls
<1>2. r = ParsePrimary(Parser(t), t, x[2]) /\ Moves(t, r, x[2])
  BY <1>1, ParserFollows DEF ParseCall
<1> SUFFICES ASSUME r.ok
             PROVE  r.index \in (x[2] + 1)..(Len(u) + 1)
                    /\ r.expr \in Grammar(u)[<<"primary", x[2], r.index>>]
  BY DEF Found
<1>3. r.index \in (x[2] + 1)..(Len(u) + 1) /\ r.index \in x[2]..(Len(u) + 1)  BY <1>1, <1>2 DEF Moves
<1> HIDE DEF r
<1>4. PICK i, j : i = x[2] /\ j = r.index  OBVIOUS
<1>5. Grammar(u)[<<"primary", i, j>>] = PrimaryReadings(Grammar(u), u, i, j)
  BY <1>1, <1>3, <1>4, PrimaryReads
<1>6. KindAt(t, i) # "END"
  BY <1>2, <1>4 DEF ParsePrimary, Failed, Predicates
<1>7. i \in 1..Len(t) /\ KindAt(t, i) = t[i].kind  BY <1>1, <1>4, <1>6, KindIn
<1>8. /\ KindAt(u, i) = KindAt(t, i) /\ KindAt(u, i + 1) = KindAt(t, i + 1)
      /\ KindAt(t, i) # "GRADE" => u[i].value = t[i].value
  BY <1>7, SameKinds DEF Regraded
<1>9. r.expr \in PrimaryReadings(Grammar(u), u, i, j)
  <2>1. CASE KindAt(t, i) = "LPAREN"
    <3>0. i \in Nat /\ j \in Nat  BY <1>1, <1>3, <1>4
    <3>1. PICK l : l = Parser(t)[<<"OR", i + 1>>]  OBVIOUS
    <3>2. Found(u, l, "OR", i + 1)
      <4>1. i + 1 \in 1..(Len(t) + 1) /\ i + 1 > x[2]  BY <1>4, <1>7, <1>1
      <4> QED  BY <3>1, <4>1, FoundWithin DEF Lists
    <3>3. r = Closed(t, Joined("or", l))
      BY <1>2, <1>4, <2>1, <3>1 DEF ParsePrimary, ParseOr, Predicates
    <3>4. l.ok /\ r.expr = Flat("or", l.expr) /\ j = l.index + 1 /\ KindAt(t, l.index) = "RPAREN"
      BY <1>4, <3>3 DEF Closed, Joined, Flat, Parsed, Failed
    <3>5. l.index \in (i + 2)..(Len(u) + 1) /\ l.expr \in Grammar(u)[<<"OR", i + 1, l.index>>]
      BY <1>1, <1>7, <3>2, <3>4 DEF Found
    <3>6. j > i + 2 /\ j - 1 = l.index /\ KindAt(u, j - 1) = "RPAREN"
      BY <1>1, <1>7, <3>4, <3>5, SameKinds
    <3>7. r.expr \in {Flat("or", e) : e \in Grammar(u)[<<"OR", i + 1, j - 1>>]}
      BY <3>4, <3>5, <3>6
    <3>8. InParens(u, i, j)  BY <1>8, <2>1, <3>0, <3>6 DEF InParens
    <3>9. PrimaryReadings(Grammar(u), u, i, j) =
            {Flat("or", e) : e \in Grammar(u)[<<"OR", i + 1, j - 1>>]}
      BY <3>8, PrimaryParens
    <3> QED  BY <3>7, <3>9
  <2>2. CASE KindAt(t, i) = "COREQ"
    <3>0. i \in Nat /\ j \in Nat  BY <1>1, <1>3, <1>4
    <3>1. PICK l : l = Parser(t)[<<"COMMA", i + 2>>]  OBVIOUS
    <3>2. PICK c : c = Closed(t, l)  OBVIOUS
    <3>3. KindAt(t, i + 1) = "LPAREN" /\ c.ok /\ r = Parsed(CoRequisite(c.expr), c.index)
      BY <1>2, <1>4, <2>2, <3>1, <3>2 DEF ParsePrimary, Predicates, Failed
    <3>4. i + 1 <= Len(t)  BY <1>1, <1>7, <3>3, KindIn
    <3>5. Found(u, l, "COMMA", i + 2)
      <4>1. i + 2 \in 1..(Len(t) + 1) /\ i + 2 > x[2]  BY <1>4, <1>7, <1>1, <3>4
      <4> QED  BY <3>1, <4>1, FoundWithin DEF Lists
    <3>6. l.ok /\ c.expr = l.expr /\ c.index = l.index + 1 /\ KindAt(t, l.index) = "RPAREN"
      BY <3>2, <3>3 DEF Closed, Parsed, Failed
    <3>7. r.expr = CoRequisite(l.expr) /\ j = l.index + 1  BY <1>4, <3>3, <3>6 DEF Parsed
    <3>8. l.index \in (i + 3)..(Len(u) + 1) /\ l.expr \in Grammar(u)[<<"COMMA", i + 2, l.index>>]
      BY <1>1, <1>7, <3>5, <3>6 DEF Found
    <3>9. j > i + 3 /\ j - 1 = l.index /\ KindAt(u, j - 1) = "RPAREN"
      BY <1>1, <1>7, <3>6, <3>7, <3>8, SameKinds
    <3>10. r.expr \in {CoRequisite(e) : e \in Grammar(u)[<<"COMMA", i + 2, j - 1>>]}
      BY <3>7, <3>8, <3>9
    <3>11. InCoreq(u, i, j)  BY <1>8, <2>2, <3>0, <3>3, <3>9 DEF InCoreq
    <3>12. PrimaryReadings(Grammar(u), u, i, j) =
             {CoRequisite(e) : e \in Grammar(u)[<<"COMMA", i + 2, j - 1>>]}
      BY <3>11, PrimaryCoreq
    <3> QED  BY <3>10, <3>12
  <2>3. CASE KindAt(t, i) = "COURSE" /\ KindAt(t, i + 1) = "GRADE"
    <3>1. r = Parsed(Grade(t[i].value, ReadGrade(t[i + 1].value)), i + 2)
      BY <1>2, <1>4, <2>3 DEF ParsePrimary, Predicates
    <3>2. i + 1 \in 1..Len(t) /\ t[i + 1].kind = "GRADE"  BY <1>1, <1>7, <2>3, KindIn
    <3>3. u[i + 1].value = ReadGrade(t[i + 1].value)  BY <3>2 DEF Regraded
    <3>4. j = i + 2 /\ r.expr = Grade(u[i].value, u[i + 1].value)
      BY <1>4, <1>8, <2>3, <3>1, <3>3 DEF Parsed
    <3> QED  BY <1>7, <1>8, <2>3, <3>4 DEF PrimaryReadings, Predicates
  <2>4. CASE KindAt(t, i) = "COURSE" /\ KindAt(t, i + 1) # "GRADE"
    <3>1. r = Parsed(Ref(t[i].value), i + 1)
      BY <1>2, <1>4, <2>4 DEF ParsePrimary, Predicates
    <3>2. j = i + 1 /\ r.expr = Ref(u[i].value)  BY <1>4, <1>8, <2>4, <3>1 DEF Parsed
    <3> QED  BY <1>7, <1>8, <2>4, <3>2 DEF PrimaryReadings, Predicates
  <2>5. CASE KindAt(t, i) = "CREDITS"
    <3>1. r = Parsed(Credits(t[i].value), i + 1)
      BY <1>2, <1>4, <2>5 DEF ParsePrimary, Predicates
    <3>2. j = i + 1 /\ r.expr = Credits(u[i].value)  BY <1>4, <1>8, <2>5, <3>1 DEF Parsed
    <3> QED  BY <1>7, <1>8, <2>5, <3>2 DEF PrimaryReadings, Predicates
  <2>6. CASE KindAt(t, i) \in Predicates
    <3>1. r = Parsed(Predicate(KindAt(t, i), t[i].value), i + 1)
      BY <1>2, <1>4, <2>6 DEF ParsePrimary, Predicates
    <3>2. j = i + 1 /\ r.expr = Predicate(KindAt(u, i), u[i].value)
      BY <1>4, <1>8, <2>6, <3>1 DEF Parsed, Predicates
    <3> QED  BY <1>7, <1>8, <2>6, <3>2 DEF PrimaryReadings, Predicates
  <2>7. KindAt(t, i) \in {"LPAREN", "COREQ", "COURSE", "CREDITS"} \cup Predicates
    BY <1>2, <1>4 DEF ParsePrimary, Failed
  <2> QED  BY <2>1, <2>2, <2>3, <2>4, <2>5, <2>6, <2>7
<1> QED  BY <1>3, <1>4, <1>5, <1>9

\* Everything a call returns is a reading of the tokens it took.
LEMMA ParserSound ==
  ASSUME NEW t, NEW u, Regraded(t, u), NEW x \in Calls(t)
  PROVE  Found(u, Parser(t)[x], x[1], x[2])
<1> DEFINE size == SizeOf(t)
           Good == {y \in Calls(t) : Found(u, Parser(t)[y], y[1], y[2])}
<1>1. size \in [Calls(t) -> Nat] /\ \A y \in Calls(t) : size[y] = CallSize(t, y)
  BY CallSizes DEF SizeOf, Regraded
<1>2. ASSUME NEW y \in Calls(t), \A z \in Calls(t) : size[z] < size[y] => z \in Good
      PROVE  y \in Good
  <2>1. FoundBelow(t, u, y)  BY <1>1, <1>2 DEF FoundBelow
  <2>2. y[1] \in Lists \cup {"primary"}  BY DEF Calls
  <2> QED  BY <2>1, <2>2, ListFound, PrimaryFound
<1> HIDE DEF Good, size
<1>3. Calls(t) \subseteq Good  BY <1>1, <1>2, SizeInduction
<1> QED  BY <1>3 DEF Good

\* ---------------------------------------------------------------- completeness

\* The token at j cannot go on what a call of the level has read.
Stops(t, level, j) ==
  KindAt(t, j) \notin (IF level = "primary" THEN {"GRADE"} ELSE IF level = "AND" THEN {"GRADE", "AND"}
                       ELSE IF level = "OR" THEN {"GRADE", "AND", "OR"}
                       ELSE {"GRADE", "AND", "OR", "COMMA"})

\* The parser takes everything the grammar reads the span as.
Taken(t, u, x) ==
  \A e \in Grammar(u)[x] :
    Stops(t, x[1], x[3]) => Parser(t)[<<x[1], x[2]>>] = Parsed(e, x[3])

TakenBelow(t, u, x) == \A y \in Spans(u) : SpanSize(y) < SpanSize(x) => Taken(t, u, y)

LEMMA TakenWithin ==
  ASSUME NEW t, NEW u, Regraded(t, u), NEW x \in Spans(u), TakenBelow(t, u, x),
         NEW level, NEW i, NEW j, Within(u, x, level, i, j),
         NEW e \in Grammar(u)[<<level, i, j>>], Stops(t, level, j)
  PROVE  Parser(t)[<<level, i>>] = Parsed(e, j)
<1>1. PICK y : y = <<level, i, j>>  OBVIOUS
<1>2. y[1] = level /\ y[2] = i /\ y[3] = j  BY <1>1
<1>3. y \in Spans(u) /\ SpanSize(y) < SpanSize(x)  BY <1>1, SpanWithin DEF Regraded
<1>4. e \in Grammar(u)[y]  BY <1>1
<1> QED  BY <1>2, <1>3, <1>4 DEF TakenBelow, Taken

LEMMA ItemTaken ==
  ASSUME NEW t, NEW u, Regraded(t, u), NEW x \in Spans(u), x[1] \in Lists, TakenBelow(t, u, x),
         NEW k \in x[2]..x[3], NEW e \in ItemReadings(Grammar(u), x[1], x[2], k),
         Stops(t, x[1], k) \/ KindAt(t, k) = x[1]
  PROVE  ParseItem(Parser(t), x[1], x[2]) = Parsed(e, k)
<1>1. /\ x[2] \in 1..(Len(u) + 1) /\ x[3] \in 1..(Len(u) + 1) /\ Len(u) \in Nat
      /\ k \in 1..(Len(u) + 1) /\ x[2] <= k /\ k <= x[3]
  BY SpanTyped DEF Regraded, Text
<1>2. CASE x[1] = "OR"
  <2>1. PICK l : l \in Grammar(u)[<<"AND", x[2], k>>] /\ e = Flat("and", l)
    BY <1>2 DEF ItemReadings
  <2>2. Within(u, x, "AND", x[2], k)  BY <1>1, <1>2 DEF Within, Rank, Lists
  <2>3. Stops(t, "AND", k)  BY <1>2 DEF Stops
  <2>4. Parser(t)[<<"AND", x[2]>>] = Parsed(l, k)  BY <2>1, <2>2, <2>3, TakenWithin
  <2>5. ParseItem(Parser(t), x[1], x[2]) = Joined("and", Parsed(l, k))
    BY <1>2, <2>4 DEF ParseItem, ParseAnd
  <2> QED  BY <2>1, <2>5 DEF Joined, Flat, Parsed
<1>3. CASE x[1] = "AND"
  <2>1. e \in Grammar(u)[<<"primary", x[2], k>>]  BY <1>3 DEF ItemReadings
  <2>2. Within(u, x, "primary", x[2], k)  BY <1>1, <1>3 DEF Within, Rank, Lists
  <2>3. Stops(t, "primary", k)  BY <1>3 DEF Stops
  <2>4. Parser(t)[<<"primary", x[2]>>] = Parsed(e, k)  BY <2>1, <2>2, <2>3, TakenWithin
  <2> QED  BY <1>3, <2>4 DEF ParseItem
<1>4. CASE x[1] = "COMMA"
  <2>1. PICK l : l \in Grammar(u)[<<"OR", x[2], k>>] /\ e = Flat("or", l)
    BY <1>4 DEF ItemReadings
  <2>2. Within(u, x, "OR", x[2], k)  BY <1>1, <1>4 DEF Within, Rank, Lists
  <2>3. Stops(t, "OR", k)  BY <1>4 DEF Stops
  <2>4. Parser(t)[<<"OR", x[2]>>] = Parsed(l, k)  BY <2>1, <2>2, <2>3, TakenWithin
  <2>5. ParseItem(Parser(t), x[1], x[2]) = Joined("or", Parsed(l, k))
    BY <1>4, <2>4 DEF ParseItem, ParseOr
  <2> QED  BY <2>1, <2>5 DEF Joined, Flat, Parsed
<1> QED  BY <1>2, <1>3, <1>4 DEF Lists

LEMMA CutHas ==
  ASSUME NEW A, NEW B, NEW e, e \in {Ahead(f, rest) : f \in A, rest \in B}
  PROVE  \E f \in A, rest \in B : e = Ahead(f, rest)
BY SMT

LEMMA ListTaken ==
  ASSUME NEW t, NEW u, Regraded(t, u), NEW x \in Spans(u), x[1] \in Lists, TakenBelow(t, u, x)
  PROVE  Taken(t, u, x)
<1>1. PICK s, i, j : s = x[1] /\ i = x[2] /\ j = x[3]  OBVIOUS
<1>2. /\ s \in Lists /\ i \in 1..(Len(u) + 1) /\ j \in 1..(Len(u) + 1) /\ i <= j
      /\ Len(u) \in Nat /\ Text(t) /\ Text(u) /\ Len(t) = Len(u)
  BY <1>1, SpanTyped DEF Regraded, Text
<1>3. x = <<s, i, j>>  BY <1>1 DEF Spans
<1>4. Grammar(u)[x] = ListReadings(Grammar(u), u, s, i, j)  BY <1>2, <1>3, ListReads
<1> SUFFICES ASSUME NEW e \in ListReadings(Grammar(u), u, s, i, j), Stops(t, s, j)
             PROVE  Parser(t)[<<s, i>>] = Parsed(e, j)
  BY <1>1, <1>4 DEF Taken
<1>5. Parser(t)[<<s, i>>] = ParseItems(Parser(t), t, s, i)
  <2>1. PICK y : y = <<s, i>>  OBVIOUS
  <2>2. y \in Calls(t) /\ y[1] = s /\ y[2] = i  BY <1>2, <2>1, CallTyped
  <2> QED  BY <1>2, <2>1, <2>2, ParserFollows DEF ParseCall, Lists
<1>6. CASE \E f \in ItemReadings(Grammar(u), s, i, j) : e = <<f>>
  <2>1. PICK f \in ItemReadings(Grammar(u), s, i, j) : e = <<f>>  BY <1>6
  <2>2. j \in x[2]..x[3]  BY <1>1, <1>2
  <2>3. ParseItem(Parser(t), s, i) = Parsed(f, j)  BY <1>1, <1>2, <2>2, ItemTaken
  <2>4. KindAt(t, j) # s  BY <1>2 DEF Stops, Lists
  <2>5. Parsed(f, j).ok /\ Parsed(f, j).expr = f /\ Parsed(f, j).index = j  BY DEF Parsed
  <2> QED  BY <1>5, <2>1, <2>3, <2>4, <2>5 DEF ParseItems
<1>7. CASE \E k \in i..(j - 1) :
             /\ u[k].kind = s
             /\ \E f \in ItemReadings(Grammar(u), s, i, k), rest \in Grammar(u)[<<s, k + 1, j>>] :
                  e = Ahead(f, rest)
  <2>1. PICK k \in i..(j - 1) :
             /\ u[k].kind = s
             /\ \E f \in ItemReadings(Grammar(u), s, i, k), rest \in Grammar(u)[<<s, k + 1, j>>] :
                  e = Ahead(f, rest)
    BY <1>7
  <2>2. PICK f \in ItemReadings(Grammar(u), s, i, k) :
          \E rest \in Grammar(u)[<<s, k + 1, j>>] : e = Ahead(f, rest)
    BY <2>1
  <2>3. PICK rest \in Grammar(u)[<<s, k + 1, j>>] : e = Ahead(f, rest)  BY <2>2
  <2>4. k \in 1..Len(t) /\ k \in x[2]..x[3]  BY <1>1, <1>2
  <2>5. KindAt(t, k) = s  BY <2>1, <2>4 DEF KindAt, Regraded
  <2>6. ParseItem(Parser(t), s, i) = Parsed(f, k)  BY <1>1, <1>2, <2>4, <2>5, ItemTaken
  <2>7. Within(u, x, s, k + 1, j)  BY <1>1, <1>2, <2>4 DEF Within
  <2>8. Parser(t)[<<s, k + 1>>] = Parsed(rest, j)  BY <2>7, TakenWithin
  <2>9. Parsed(f, k).ok /\ Parsed(f, k).expr = f /\ Parsed(f, k).index = k  BY DEF Parsed
  <2>10. Parsed(rest, j).ok /\ Parsed(rest, j).expr = rest /\ Parsed(rest, j).index = j
    BY DEF Parsed
  <2>11. ParseItems(Parser(t), t, s, i) = Parsed(Ahead(f, rest), j)
    BY <2>5, <2>6, <2>8, <2>9, <2>10 DEF ParseItems, Ahead
  <2> QED  BY <1>5, <2>3, <2>11
<1> DEFINE cut(k) == {Ahead(f, rest) : f \in ItemReadings(Grammar(u), s, i, k),
                                      rest \in Grammar(u)[<<s, k + 1, j>>]}
           K == {m \in i..(j - 1) : u[m].kind = s}
           single == {<<f>> : f \in ItemReadings(Grammar(u), s, i, j)}
<1>8. ListReadings(Grammar(u), u, s, i, j) = single \cup UNION {cut(k) : k \in K}
  BY DEF ListReadings
<1>9. CASE e \in single
  BY <1>6, <1>9
<1>10. CASE e \in UNION {cut(k) : k \in K}
  <2>1. PICK k \in K : e \in cut(k)
    <3> HIDE DEF cut, K
    <3> QED  BY <1>10
  <2>2. \E f \in ItemReadings(Grammar(u), s, i, k), rest \in Grammar(u)[<<s, k + 1, j>>] :
          e = Ahead(f, rest)
    <3>1. PICK A, B : A = ItemReadings(Grammar(u), s, i, k) /\ B = Grammar(u)[<<s, k + 1, j>>]
      OBVIOUS
    <3>2. e \in {Ahead(f, rest) : f \in A, rest \in B}  BY <2>1, <3>1
    <3>3. \E f \in A, rest \in B : e = Ahead(f, rest)
      <4> HIDE DEF cut
      <4> QED  BY <3>2, CutHas
    <3> QED  BY <3>1, <3>3
  <2>3. k \in i..(j - 1) /\ u[k].kind = s  OBVIOUS
  <2> HIDE DEF K, cut
  <2> QED  BY <1>7, <2>2, <2>3
<1> HIDE DEF single, cut, K
<1> QED  BY <1>8, <1>9, <1>10

LEMMA PrimaryTaken ==
  ASSUME NEW t, NEW u, Regraded(t, u), NEW x \in Spans(u), x[1] = "primary", TakenBelow(t, u, x)
  PROVE  Taken(t, u, x)
<1>1. PICK i, j : i = x[2] /\ j = x[3]  OBVIOUS
<1>2. /\ i \in 1..(Len(u) + 1) /\ j \in 1..(Len(u) + 1) /\ i <= j
      /\ Len(u) \in Nat /\ Text(t) /\ Text(u) /\ Len(t) = Len(u)
  BY <1>1, SpanTyped DEF Regraded, Text
<1>3. x = <<"primary", i, j>>  BY <1>1 DEF Spans
<1>4. Grammar(u)[x] = PrimaryReadings(Grammar(u), u, i, j)  BY <1>2, <1>3, PrimaryReads
<1> SUFFICES ASSUME NEW e \in PrimaryReadings(Grammar(u), u, i, j), KindAt(t, j) # "GRADE"
             PROVE  Parser(t)[<<"primary", i>>] = Parsed(e, j)
  BY <1>1, <1>4 DEF Taken, Stops
<1>5. Parser(t)[<<"primary", i>>] = ParsePrimary(Parser(t), t, i)
  <2>1. PICK y : y = <<"primary", i>>  OBVIOUS
  <2>2. y \in Calls(t) /\ y[1] = "primary" /\ y[2] = i  BY <1>2, <2>1, CallTyped
  <2> QED  BY <1>2, <2>1, <2>2, ParserFollows DEF ParseCall
<1>6. KindAt(u, i) = KindAt(t, i) /\ KindAt(u, i + 1) = KindAt(t, i + 1)
  BY <1>2, SameKinds
<1>7. CASE InParens(u, i, j)
  <2>1. e \in {Flat("or", l) : l \in Grammar(u)[<<"OR", i + 1, j - 1>>]}  BY <1>7, PrimaryParens
  <2>2. PICK l \in Grammar(u)[<<"OR", i + 1, j - 1>>] : e = Flat("or", l)  BY <2>1
  <2>3. j > i + 2  BY <1>7 DEF InParens
  <2>4. Within(u, x, "OR", i + 1, j - 1)  BY <1>1, <1>2, <2>3 DEF Within, Lists
  <2>5. KindAt(t, j - 1) = "RPAREN"  BY <1>2, <1>7, SameKinds DEF InParens
  <2>6. Stops(t, "OR", j - 1)  BY <2>5 DEF Stops
  <2>7. Parser(t)[<<"OR", i + 1>>] = Parsed(l, j - 1)  BY <2>4, <2>6, TakenWithin
  <2>8. ParseOr(Parser(t), i + 1) = Parsed(e, j - 1)
    BY <2>2, <2>7 DEF ParseOr, Joined, Flat, Parsed
  <2>9. Closed(t, Parsed(e, j - 1)) = Parsed(e, j)
    <3>1. /\ Parsed(e, j - 1).ok /\ Parsed(e, j - 1).expr = e /\ Parsed(e, j - 1).index = j - 1
          /\ (j - 1) + 1 = j
      BY <1>2 DEF Parsed
    <3> QED  BY <2>5, <3>1 DEF Closed
  <2>10. ParsePrimary(Parser(t), t, i) = Closed(t, ParseOr(Parser(t), i + 1))
    BY <1>6, <1>7 DEF ParsePrimary, InParens, Predicates
  <2> QED  BY <1>5, <2>8, <2>9, <2>10
<1>8. CASE InCoreq(u, i, j)
  <2>1. e \in {CoRequisite(l) : l \in Grammar(u)[<<"COMMA", i + 2, j - 1>>]}  BY <1>8, PrimaryCoreq
  <2>2. PICK l \in Grammar(u)[<<"COMMA", i + 2, j - 1>>] : e = CoRequisite(l)  BY <2>1
  <2>3. j > i + 3  BY <1>8 DEF InCoreq
  <2>4. Within(u, x, "COMMA", i + 2, j - 1)  BY <1>1, <1>2, <2>3 DEF Within, Lists
  <2>5. KindAt(t, j - 1) = "RPAREN"  BY <1>2, <1>8, SameKinds DEF InCoreq
  <2>6. Stops(t, "COMMA", j - 1)  BY <2>5 DEF Stops
  <2>7. Parser(t)[<<"COMMA", i + 2>>] = Parsed(l, j - 1)  BY <2>4, <2>6, TakenWithin
  <2>8. Closed(t, Parsed(l, j - 1)) = Parsed(l, j)
    <3>1. /\ Parsed(l, j - 1).ok /\ Parsed(l, j - 1).expr = l /\ Parsed(l, j - 1).index = j - 1
          /\ (j - 1) + 1 = j
      BY <1>2 DEF Parsed
    <3> QED  BY <2>5, <3>1 DEF Closed
  <2>9. Parsed(l, j).ok /\ Parsed(l, j).expr = l /\ Parsed(l, j).index = j  BY DEF Parsed
  <2>10. ParsePrimary(Parser(t), t, i) = Parsed(CoRequisite(l), j)
    BY <1>6, <1>8, <2>7, <2>9, <2>8 DEF ParsePrimary, InCoreq, Predicates
  <2> QED  BY <1>5, <2>2, <2>10
<1>9. CASE j = i + 1 /\ KindAt(u, i) \in {"COURSE", "CREDITS"} \cup Predicates
  <2>1. i \in 1..Len(t)  BY <1>2, <1>9
  <2>2. u[i].value = t[i].value  BY <1>6, <1>9, <2>1 DEF Regraded, KindAt, Predicates
  <2>3. CASE KindAt(u, i) = "COURSE"
    <3>1. e = Ref(u[i].value)  BY <1>2, <1>9, <2>3 DEF PrimaryReadings, Predicates
    <3> QED  BY <1>5, <1>6, <1>9, <2>2, <2>3, <3>1 DEF ParsePrimary, Predicates
  <2>4. CASE KindAt(u, i) = "CREDITS"
    <3>1. e = Credits(u[i].value)  BY <1>9, <2>4 DEF PrimaryReadings, Predicates
    <3> QED  BY <1>5, <1>6, <1>9, <2>2, <2>4, <3>1 DEF ParsePrimary, Predicates
  <2>5. CASE KindAt(u, i) \in Predicates
    <3>1. e = Predicate(KindAt(u, i), u[i].value)  BY <1>9, <2>5 DEF PrimaryReadings, Predicates
    <3> QED  BY <1>5, <1>6, <1>9, <2>2, <2>5, <3>1 DEF ParsePrimary, Predicates
  <2> QED  BY <1>9, <2>3, <2>4, <2>5
<1>10. CASE j = i + 2 /\ KindAt(u, i) = "COURSE" /\ KindAt(u, i + 1) = "GRADE"
  <2>1. i \in 1..Len(t) /\ i + 1 \in 1..Len(t)  BY <1>2, <1>10
  <2>2. t[i].kind = "COURSE" /\ t[i + 1].kind = "GRADE"  BY <1>6, <1>10, <2>1 DEF KindAt
  <2>3. u[i].value = t[i].value /\ u[i + 1].value = ReadGrade(t[i + 1].value)
    BY <2>1, <2>2 DEF Regraded
  <2>4. e = Grade(u[i].value, u[i + 1].value)
    <3>1. j # i + 1  BY <1>2, <1>10
    <3> QED  BY <1>10, <3>1 DEF PrimaryReadings, Predicates
  <2>5. ParsePrimary(Parser(t), t, i) = Parsed(Grade(t[i].value, ReadGrade(t[i + 1].value)), i + 2)
    BY <1>6, <1>10 DEF ParsePrimary, Predicates
  <2> QED  BY <1>5, <1>10, <2>3, <2>4, <2>5
<1>11. i \in Nat /\ j \in Nat  BY <1>2
<1> QED  BY <1>7, <1>8, <1>9, <1>10, <1>11 DEF PrimaryReadings, InParens, InCoreq

\* What the grammar reads a span as, the parser returns, if what follows
\* cannot go on with it.
LEMMA ParserComplete ==
  ASSUME NEW t, NEW u, Regraded(t, u), NEW x \in Spans(u)
  PROVE  Taken(t, u, x)
<1> DEFINE size == [y \in Spans(u) |-> SpanSize(y)]
           Good == {y \in Spans(u) : Taken(t, u, y)}
<1>1. size \in [Spans(u) -> Nat] /\ \A y \in Spans(u) : size[y] = SpanSize(y)
  BY SpanTyped DEF Regraded
<1>2. ASSUME NEW y \in Spans(u), \A z \in Spans(u) : size[z] < size[y] => z \in Good
      PROVE  y \in Good
  <2>1. TakenBelow(t, u, y)  BY <1>1, <1>2 DEF TakenBelow
  <2>2. y[1] \in Lists \cup {"primary"}  BY SpanTyped DEF Regraded
  <2> QED  BY <2>1, <2>2, ListTaken, PrimaryTaken
<1> HIDE DEF Good, size
<1>3. Spans(u) \subseteq Good  BY <1>1, <1>2, SizeInduction
<1> QED  BY <1>3 DEF Good

\* ---------------------------------------------------------------- texts

LEMMA AsReadRegrades ==
  ASSUME NEW t, Text(t)
  PROVE  Regraded(t, AsRead(t))
<1> DEFINE u == AsRead(t)
<1>1. u = [i \in 1..Len(t) |->
             IF t[i].kind = "GRADE" THEN Token("GRADE", ReadGrade(t[i].value)) ELSE t[i]]
  BY DEF AsRead, Text
<1>2. Len(t) \in Nat  BY DEF Text
<1>3. Len(u) = Len(t) /\ DOMAIN u = 1..Len(t)  BY <1>1, <1>2
<1>4. \A i \in 1..Len(t) :
        /\ u[i].kind = t[i].kind
        /\ u[i].value = IF t[i].kind = "GRADE" THEN ReadGrade(t[i].value) ELSE t[i].value
  BY <1>1 DEF Token
<1> QED  BY <1>2, <1>3, <1>4 DEF Regraded, Text

LEMMA TextReads ==
  ASSUME NEW t, Text(t), t # <<>>
  PROVE  Readings(AsRead(t)) =
           IF Parse(t).status = "parsed" THEN {Parse(t).ast} ELSE {}
<1> DEFINE u == AsRead(t)
           n == Len(t) + 1
<1>1. Regraded(t, u) /\ Len(u) = Len(t) /\ Len(t) \in Nat /\ Text(u)
  BY AsReadRegrades DEF Regraded, Text
<1>2. PICK r : r = Parser(t)[<<"OR", 1>>]  OBVIOUS
<1>3. Found(u, r, "OR", 1)
  <2>1. PICK y : y = <<"OR", 1>>  OBVIOUS
  <2>2. y \in Calls(t) /\ y[1] = "OR" /\ y[2] = 1  BY <1>1, <2>1, CallTyped DEF Lists
  <2> HIDE DEF u
  <2> QED  BY <1>1, <1>2, <2>1, <2>2, ParserSound
<1> HIDE DEF u
<1>4. \A l \in Grammar(u)[<<"OR", 1, n>>] : r = Parsed(l, n)
  <2>1. PICK x : x = <<"OR", 1, n>>  OBVIOUS
  <2>2. x \in Spans(u) /\ x[1] = "OR" /\ x[2] = 1 /\ x[3] = n
    BY <1>1, <2>1 DEF Spans, Lists
  <2>3. KindAt(t, n) = "END"  BY <1>1 DEF KindAt
  <2>4. Stops(t, "OR", n)  BY <2>3 DEF Stops
  <2>5. Taken(t, u, x)  BY <1>1, <2>2, ParserComplete
  <2> QED  BY <1>2, <2>1, <2>2, <2>4, <2>5 DEF Taken
<1>5. Readings(u) = {Flat("or", l) : l \in Grammar(u)[<<"OR", 1, n>>]}  BY <1>1 DEF Readings
<1>6. ParseOr(Parser(t), 1) = Joined("or", r)  BY <1>2 DEF ParseOr
<1>7. CASE r.ok /\ r.index = n
  <2>1. r.expr \in Grammar(u)[<<"OR", 1, n>>]  BY <1>3, <1>7 DEF Found
  <2>2. \A l \in Grammar(u)[<<"OR", 1, n>>] : l = r.expr  BY <1>4 DEF Parsed
  <2>3. Readings(u) = {Flat("or", r.expr)}  BY <1>5, <2>1, <2>2
  <2>4. Joined("or", r) = Parsed(Flat("or", r.expr), n)  BY <1>7 DEF Joined, Flat
  <2>5. Parse(t).status = "parsed" /\ Parse(t).ast = Flat("or", r.expr)
    BY <1>6, <2>4 DEF Parse, Parsed
  <2> QED  BY <2>3, <2>5 DEF u
<1>8. CASE ~(r.ok /\ r.index = n)
  <2>1. Grammar(u)[<<"OR", 1, n>>] = {}  BY <1>4, <1>8 DEF Parsed
  <2>2. Readings(u) = {}  BY <1>5, <2>1
  <2>3. ~(Joined("or", r).ok /\ Joined("or", r).index = n)  BY <1>8 DEF Joined, Parsed, Failed
  <2>4. Parse(t).status # "parsed"  BY <1>6, <2>3 DEF Parse
  <2> QED  BY <2>2, <2>4 DEF u
<1> QED  BY <1>7, <1>8

\* What is parsed is what the texts read as.
TextsParsed ==
  /\ document \in Documents
  /\ phase # "parse" =>
       expressions = [c \in {d \in DOMAIN document : Parse(document[d]).status = "parsed"}
                        |-> Parse(document[c]).ast]

LEMMA TextsAreParsed == CompileSpec => []TextsParsed
<1>1. CompileInit => TextsParsed  BY DEF CompileInit, GraphInit, TextsParsed
<1>2. TextsParsed /\ [CompileNext]_compileVars => TextsParsed'
  <2> SUFFICES ASSUME TextsParsed, [CompileNext]_compileVars PROVE TextsParsed'  OBVIOUS
  <2>1. CASE ParseCourses  BY <2>1 DEF TextsParsed, ParseCourses, BuildGraph
  <2>2. CASE Validate /\ UNCHANGED expressions
    <3>1. document' = document /\ (phase' # "parse" => phase # "parse")
      BY <2>2 DEF Validate, VisitRoot, VisitNeighbour, Push, SkipNeighbour, Return, Decide, Searched
    <3> QED  BY <2>2, <3>1 DEF TextsParsed
  <2>3. CASE UNCHANGED compileVars  BY <2>3 DEF TextsParsed, compileVars, graphVars
  <2> QED  BY <2>1, <2>2, <2>3 DEF CompileNext
<1> QED  BY <1>1, <1>2, PTL DEF CompileSpec

\* catalog/parser.py, parse_prerequisites: for every text of tokens, the
\* recursive descent returns the one expression that the documented grammar
\* gives the text, and rejects exactly the texts that it gives none.
THEOREM ParserIsGrammar == CompileSpec => []ParsedAsGrammar
<1>1. TextsParsed => ParsedAsGrammar
  <2> SUFFICES ASSUME TextsParsed, phase = "cycles", NEW c \in DOMAIN document, document[c] # <<>>
               PROVE  Readings(AsRead(document[c])) =
                        IF c \in DOMAIN expressions THEN {expressions[c]} ELSE {}
    BY DEF ParsedAsGrammar
  <2>1. Text(document[c])  BY TextsAssumption DEF TextsParsed, Text
  <2>2. c \in DOMAIN expressions <=> Parse(document[c]).status = "parsed"
    BY DEF TextsParsed
  <2>3. c \in DOMAIN expressions => expressions[c] = Parse(document[c]).ast
    BY DEF TextsParsed
  <2> QED  BY <2>1, <2>2, <2>3, TextReads
<1> QED  BY <1>1, TextsAreParsed, PTL
=============================================================================
