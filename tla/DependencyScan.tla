---------------------------- MODULE DependencyScan ----------------------------
(***************************************************************************)
(* The search for circular dependencies in a graph of metadata, one edge at  *)
(* a time (detect_circular_dependencies in                                  *)
(* backend/app/metadata_engine/dependency_graph.py).                        *)
(*                                                                          *)
(* A graph is what a caller sent: an edge may lead to a node that is not      *)
(* listed.  Edges of a node are taken in any order.                         *)
(***************************************************************************)
EXTENDS Integers, Sequences, FiniteSets

CONSTANTS Nodes     \* identifiers in the payload

VARIABLES
  listed, edges,    \* the graph
  visited, path,    \* nodes seen; the stack, with the edges each has left
  cycles            \* the cycles reported

scanVars == <<listed, edges, visited, path, cycles>>

Outgoing(n) == {e \in edges : e[1] = n}
OnPath == {path[k].node : k \in DOMAIN path}
Top == path[Len(path)]
Frame(n) == [node |-> n, left |-> Outgoing(n)]

\* from_payload
ScanInit ==
  /\ listed \in SUBSET Nodes /\ edges \in SUBSET (Nodes \X Nodes)
  /\ visited = {} /\ path = << >> /\ cycles = {}

\* The loop over the nodes of the graph
Visit(n) ==
  /\ path = << >> /\ n \in listed \ visited
  /\ visited' = visited \cup {n} /\ path' = <<Frame(n)>>
  /\ UNCHANGED <<listed, edges, cycles>>

\* An edge back into the stack closes a cycle; one to a new node is followed.
Follow(e) ==
  /\ path # << >> /\ e \in Top.left
  /\ LET n == Len(path)
         rest == [path EXCEPT ![n].left = @ \ {e}]
     IN IF e[2] \in OnPath
          THEN LET first == CHOOSE k \in DOMAIN path : path[k].node = e[2]
               IN /\ cycles' = cycles \cup {[k \in 1 .. n - first + 1 |-> path[first + k - 1].node] \o <<e[2]>>}
                  /\ path' = rest /\ UNCHANGED visited
          ELSE IF e[2] \notin visited
            THEN path' = Append(rest, Frame(e[2])) /\ visited' = visited \cup {e[2]} /\ UNCHANGED cycles
            ELSE path' = rest /\ UNCHANGED <<visited, cycles>>
  /\ UNCHANGED <<listed, edges>>

Return ==
  /\ path # << >> /\ Top.left = {}
  /\ path' = SubSeq(path, 1, Len(path) - 1)
  /\ UNCHANGED <<listed, edges, visited, cycles>>

ScanNext == (\E n \in Nodes : Visit(n)) \/ (\E e \in edges : Follow(e)) \/ Return

ScanSpec == ScanInit /\ [][ScanNext]_scanVars

-----------------------------------------------------------------------------
ScanTypeOK ==
  /\ listed \subseteq Nodes /\ visited \subseteq Nodes /\ OnPath \subseteq visited
  /\ \A k \in DOMAIN path : path[k].left \subseteq Outgoing(path[k].node)

\* From every one of these nodes an edge leads to another of them, or to itself: whoever
\* starts in such a set comes into a circle.
Circular(S) == \A n \in S : \E m \in S : <<n, m>> \in edges

\* What is reported as a cycle is one; and when the search is through with a graph in
\* which a listed node leads into a circle, it reported one, whatever the order.
CyclesAreFound ==
  /\ \A c \in cycles : /\ c[1] = c[Len(c)]
                       /\ \A k \in 1 .. Len(c) - 1 : <<c[k], c[k + 1]>> \in edges
  /\ path = << >> /\ listed \subseteq visited =>
       \A S \in SUBSET Nodes : Circular(S) /\ S \cap listed # {} => cycles # {}

=============================================================================
