---------------------------- MODULE ActivePointer ----------------------------
(***************************************************************************)
(* What catalog activation promises: the institution has one active        *)
(* pointer.  Once it points at a snapshot it always points at one; a       *)
(* snapshot that it has left is archived and never comes back.             *)
(***************************************************************************)
CONSTANTS Snapshots, NoSnapshot

VARIABLES active, archived

pointer == <<active, archived>>

Init == active = NoSnapshot /\ archived = {}

Activate(s) ==
  /\ s \notin archived
  /\ s # active
  /\ active' = s
  /\ archived' = archived \cup ({active} \ {NoSnapshot})

Next == \E s \in Snapshots : Activate(s)

Spec == Init /\ [][Next]_pointer
=============================================================================
