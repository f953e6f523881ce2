---------------------------- MODULE CatalogGraph ----------------------------
(***************************************************************************)
(* The prerequisite graph of a catalog document: references to courses the *)
(* document does not list, the strongly connected components, found with   *)
(* Tarjan's algorithm over an explicit call stack, and the decision that   *)
(* depends on both.  Courses are numbers, in their alphabetical order.     *)
(***************************************************************************)
EXTENDS Integers, Sequences, FiniteSets

CONSTANT Documents    \* functions from the courses of a document to their texts

VARIABLES
  document,       \* CatalogDocument.courses
  phase,          \* "parse", "cycles", "accepted" or "refused"
  edges,          \* PrerequisiteGraph.edges: prerequisite, dependent, relation
  indices,        \* Tarjan's index of each visited course
  low,            \* its low link
  stack,          \* the stack of courses, the last one on top
  calls,          \* frames of visit(): node, and the neighbours it still has to do
  reports         \* the cycle reports, in the order found

search == <<indices, low, stack, calls, reports>>
graphVars == <<document, phase, edges, search>>

Relations == {"strict", "corequisite"}

Nodes == {e[1] : e \in edges} \cup {e[2] : e \in edges}

UnknownReferences == {e[1] : e \in edges} \ DOMAIN document

\* adjacency[node]: the code keeps the order of the texts and goes over an edge
\* that occurs twice a second time, which changes nothing; here any order.
Neighbours(node) == {e[2] : e \in {f \in edges : f[1] = node}}

GraphInit ==
  /\ document \in Documents
  /\ phase = "parse" /\ edges = {}
  /\ indices = <<>> /\ low = <<>>
  /\ stack = <<>> /\ calls = <<>> /\ reports = <<>>

\* What the texts refer to: this module only knows that it is a finite graph.
BuildGraph ==
  /\ phase = "parse" /\ phase' = "cycles"
  /\ edges' \in SUBSET (Nat \X Nat \X Relations) /\ IsFiniteSet(edges')
  /\ UNCHANGED <<document, search>>

Push(node) ==
  /\ indices' = [n \in DOMAIN indices \cup {node} |->
                   IF n = node THEN Cardinality(DOMAIN indices) ELSE indices[n]]
  /\ low' = [n \in DOMAIN low \cup {node} |->
               IF n = node THEN Cardinality(DOMAIN indices) ELSE low[n]]
  /\ stack' = Append(stack, node)
  /\ calls' = Append(calls, [node |-> node, left |-> Neighbours(node)])
  /\ UNCHANGED <<document, phase, edges, reports>>

Top == calls[Len(calls)]

OnStack == {stack[i] : i \in DOMAIN stack}

\* A frame goes on to the neighbours after one.
Past(frame, neighbour) == [node |-> frame.node, left |-> frame.left \ {neighbour}]

Smaller(m, n) == IF m < n THEN m ELSE n

\* The outer loop takes the smallest node that was not visited yet.
VisitRoot ==
  /\ phase = "cycles" /\ calls = <<>>
  /\ \E node \in Nodes \ DOMAIN indices :
       /\ \A other \in Nodes \ DOMAIN indices : node <= other
       /\ Push(node)

\* The recursive call; its frame stays on the neighbour until it returns.
VisitNeighbour ==
  /\ calls # <<>>
  /\ \E neighbour \in Top.left \ DOMAIN indices : Push(neighbour)

\* A plausible bug: a node of a finished component lowers the link too.
SkipNeighbourAnywhere ==
  /\ calls # <<>>
  /\ \E neighbour \in Top.left \cap DOMAIN indices :
       /\ low' = [low EXCEPT ![Top.node] = Smaller(@, indices[neighbour])]
       /\ calls' = [calls EXCEPT ![Len(calls)] = Past(@, neighbour)]
  /\ UNCHANGED <<document, phase, edges, indices, stack, reports>>

\* An edge to a node that was visited before.
SkipNeighbour ==
  /\ calls # <<>>
  /\ \E neighbour \in Top.left \cap DOMAIN indices :
       /\ low' = IF neighbour \in OnStack
                 THEN [low EXCEPT ![Top.node] = Smaller(@, indices[neighbour])] ELSE low
       /\ calls' = [calls EXCEPT ![Len(calls)] = Past(@, neighbour)]
  /\ UNCHANGED <<document, phase, edges, indices, stack, reports>>

Inside(component) == {e \in edges : e[1] \in component /\ e[2] \in component}

Report(component) ==
  [nodes |-> component, legitimate |-> {e[3] : e \in Inside(component)} = {"corequisite"}]

Cyclic(component) ==
  Cardinality(component) > 1 \/ \E e \in Inside(component) : e[1] = e[2]

\* A component is cut off the stack when the node is its root, and reported
\* when it has a cycle.
Cut(node) ==
  LET position == CHOOSE i \in DOMAIN stack : stack[i] = node
      component == {stack[i] : i \in position..Len(stack)}
  IN  /\ stack' = SubSeq(stack, 1, position - 1)
      /\ reports' = IF Cyclic(component) THEN Append(reports, Report(component)) ELSE reports

\* The caller takes over the low link and is done with the node.
Resume(node) ==
  LET depth == Len(calls) - 1
  IN  /\ calls' = IF depth = 0 THEN <<>>
                  ELSE [SubSeq(calls, 1, depth) EXCEPT ![depth] = Past(@, node)]
      /\ low' = IF depth = 0 THEN low
                ELSE [low EXCEPT ![calls[depth].node] = Smaller(@, low[node])]

Return ==
  /\ calls # <<>> /\ Top.left = {}
  /\ IF low[Top.node] = indices[Top.node] THEN Cut(Top.node) ELSE UNCHANGED <<stack, reports>>
  /\ Resume(Top.node)
  /\ UNCHANGED <<document, phase, edges, indices>>

Searched == phase = "cycles" /\ calls = <<>> /\ Nodes \subseteq DOMAIN indices

\* A plausible bug: one legitimate group excuses every other cycle.
DecideAny ==
  /\ Searched
  /\ phase' = IF /\ UnknownReferences = {}
                 /\ reports = <<>> \/ \E i \in DOMAIN reports : reports[i].legitimate
              THEN "accepted" ELSE "refused"
  /\ UNCHANGED <<document, edges, search>>

\* validate_catalog's errors decide whether parse_document raises.
Decide ==
  /\ Searched
  /\ phase' = IF /\ UnknownReferences = {}
                 /\ \A i \in DOMAIN reports : reports[i].legitimate
              THEN "accepted" ELSE "refused"
  /\ UNCHANGED <<document, edges, search>>

Validate == VisitRoot \/ VisitNeighbour \/ SkipNeighbour \/ Return \/ Decide

GraphNext == BuildGraph \/ Validate

GraphSpec == GraphInit /\ [][GraphNext]_graphVars

\* ------------------------------------------------------------ properties

Done == phase \in {"accepted", "refused"}

\* Every set of nodes that is closed under the edges and holds the
\* successors of a holds b.
Reaches(a, b) ==
  \A closed \in SUBSET Nodes :
    (\A e \in edges : (e[1] = a \/ e[1] \in closed) => e[2] \in closed) => b \in closed

\* strict_cycles reports, once each, exactly the sets of courses that reach
\* each other, and calls one legitimate exactly when it has no strict edge
\* inside: an algorithm with a low link, a stack and a recursion agrees with
\* the definition by reachability.
CyclesAreComponents ==
  Done =>
    /\ {reports[i].nodes : i \in DOMAIN reports} =
         {{m \in Nodes : Reaches(n, m) /\ Reaches(m, n)} :
            n \in {m \in Nodes : Reaches(m, m)}}
    /\ \A i, j \in DOMAIN reports : reports[i].nodes = reports[j].nodes => i = j
    /\ \A i \in DOMAIN reports :
         reports[i].legitimate <=>
           \A e \in edges : {e[1], e[2]} \subseteq reports[i].nodes => e[3] = "corequisite"

\* A document that is accepted can be taught: its courses can be put in an
\* order of terms in which every strict prerequisite comes before and no
\* co-requisite comes after; a document without that order is refused.
AcceptedHasTermOrder ==
  Done =>
    (phase = "accepted" <=>
       /\ \A e \in edges : e[1] \in DOMAIN document
       /\ \E term \in [Nodes -> 1..Cardinality(Nodes)] :
            \A e \in edges : IF e[3] = "strict" THEN term[e[1]] < term[e[2]]
                             ELSE term[e[1]] <= term[e[2]])
=============================================================================
