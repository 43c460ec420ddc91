-------------------------- MODULE SupplierHierarchy --------------------------
(***************************************************************************)
(* The corporate hierarchy of suppliers: the parent_supplier_id column,    *)
(* PATCH /suppliers/{id}/hierarchy (crud.supplier.set_supplier_parent),    *)
(* the deletion of a supplier, and the breadth-first walk behind the spend *)
(* roll-up (get_supplier_descendant_ids).                                  *)
(*                                                                         *)
(* Every get_supplier is an await of its own: other requests commit        *)
(* between the steps of a walk, and between the walk and the write.  The   *)
(* session's identity map keeps the two rows a request holds as they were  *)
(* first read.                                                             *)
(***************************************************************************)
EXTENDS Naturals, FiniteSets

CONSTANTS
  Suppliers,      \* supplier identifiers
  Clerks,         \* users changing the hierarchy, one request each at a time
  NoSupplier,     \* null
  MaxDepth,       \* max_depth of get_supplier_ancestor_ids: 50 in the code
  MaxHierarchyCalls \* bound: requests begun in all

ASSUME HierarchyAssumption ==
  /\ NoSupplier \notin Suppliers
  /\ IsFiniteSet(Suppliers)
  /\ Cardinality(Suppliers) =< MaxDepth
  /\ MaxDepth \in Nat /\ MaxHierarchyCalls \in Nat

VARIABLES
  live,       \* rows of the suppliers table
  parent,     \* parent_supplier_id of each row, NoSupplier when null
  move,       \* per clerk: the set_supplier_parent in progress, or Idle
  calls,      \* requests begun so far (bound)
  overtaken,  \* history: an attachment was written after another one had
              \* been written since its request began
  rollup      \* the spend roll-up in progress, or NoRollup

hierarchyVars == <<live, parent, move, calls, overtaken, rollup>>

SupplierIds == Suppliers \cup {NoSupplier}

\* A move: sup goes under par; held is sup's parent as first read; next is
\* the parent of the row the walk is at; seen is the code's visited set;
\* fresh says that no parent was set by anyone since the request began.
Idle == [state |-> "idle"]
Moves == [state : {"walking", "detaching"}, sup : Suppliers, par : SupplierIds,
          held : SupplierIds, next : SupplierIds, seen : SUBSET Suppliers,
          fresh : BOOLEAN]

\* A roll-up: queue and visited of the code; fresh: nothing changed since
\* it began.
NoRollup == [state |-> "none"]
Rollups == [state : {"walking", "done"}, root : Suppliers,
            queue : SUBSET Suppliers, visited : SUBSET Suppliers, fresh : BOOLEAN]

HierarchyInit ==
  /\ live = Suppliers
  /\ parent = [s \in Suppliers |-> NoSupplier]
  /\ move = [c \in Clerks |-> Idle]
  /\ calls = 0
  /\ overtaken = FALSE
  /\ rollup = NoRollup

----------------------------------------------------------------------------
\* The marks a change of the table leaves on what is still in progress.
Staled(m) == IF m.state = "walking" THEN [m EXCEPT !.fresh = FALSE] ELSE m
RollupStaled == IF rollup = NoRollup THEN rollup ELSE [rollup EXCEPT !.fresh = FALSE]

Called == calls < MaxHierarchyCalls /\ calls' = calls + 1

\* set_supplier_parent: the look-ups of the supplier and of the parent.  A
\* self-parent or an unknown parent raises and leaves nothing behind.
BeginAttach(c, s, p) ==
  /\ Called
  /\ move[c] = Idle /\ s \in live /\ p \in live /\ s # p
  /\ move' = [move EXCEPT ![c] =
       [state |-> "walking", sup |-> s, par |-> p, held |-> parent[s],
        next |-> parent[p], seen |-> {p}, fresh |-> TRUE]]
  /\ UNCHANGED <<live, parent, overtaken, rollup>>

BeginDetach(c, s) ==
  /\ Called
  /\ move[c] = Idle /\ s \in live
  /\ parent[s] # NoSupplier       \* otherwise no UPDATE is emitted
  /\ move' = [move EXCEPT ![c] =
       [state |-> "detaching", sup |-> s, par |-> NoSupplier, held |-> parent[s],
        next |-> NoSupplier, seen |-> {}, fresh |-> TRUE]]
  /\ UNCHANGED <<live, parent, overtaken, rollup>>

\* Mutant: only the direct parent is looked at.
WalkGoesOneStep(m) == FALSE

\* get_supplier_ancestor_ids goes on while there is a parent, not visited
\* yet and within max_depth.
WalkGoesOn(m) ==
  /\ m.next # NoSupplier
  /\ m.next \notin m.seen
  /\ Cardinality(m.seen) =< MaxDepth

\* One turn of the loop: the row is read now, unless the session holds it.
\* A row that was deleted meanwhile ends the walk.
Walk(c) ==
  /\ move[c].state = "walking"
  /\ WalkGoesOn(move[c])
  /\ LET m == move[c]
         up == IF m.next = m.sup THEN m.held ELSE parent[m.next]
     IN move' = [move EXCEPT ![c].seen = @ \cup {m.next}, ![c].next = up]
  /\ UNCHANGED <<live, parent, calls, overtaken, rollup>>

\* "Setting this parent would create a cycle": raised, nothing written.
RefuseCycle(c) ==
  /\ move[c].state = "walking"
  /\ ~ WalkGoesOn(move[c])
  /\ move[c].sup \in move[c].seen
  /\ move' = [move EXCEPT ![c] = Idle]
  /\ UNCHANGED <<live, parent, calls, overtaken, rollup>>

\* The UPDATE and its commit.  A value equal to the one first read emits no
\* UPDATE; a supplier deleted meanwhile, or a parent deleted meanwhile (the
\* foreign key), raises.
Attaches(m) == m.sup \in live /\ m.par \in live /\ m.held # m.par

CommitAttach(c) ==
  LET m == move[c] IN
  /\ m.state = "walking"
  /\ ~ WalkGoesOn(m)
  /\ m.sup \notin m.seen
  /\ IF Attaches(m)
     THEN /\ parent' = [parent EXCEPT ![m.sup] = m.par]
          /\ overtaken' = (overtaken \/ ~ m.fresh)
          /\ move' = [d \in Clerks |-> IF d = c THEN Idle ELSE Staled(move[d])]
          /\ rollup' = RollupStaled
     ELSE /\ move' = [move EXCEPT ![c] = Idle]
          /\ UNCHANGED <<parent, overtaken, rollup>>
  /\ UNCHANGED <<live, calls>>

CommitDetach(c) ==
  LET m == move[c] IN
  /\ m.state = "detaching"
  /\ parent' = IF m.sup \in live THEN [parent EXCEPT ![m.sup] = NoSupplier] ELSE parent
  /\ move' = [move EXCEPT ![c] = Idle]
  /\ rollup' = RollupStaled
  /\ UNCHANGED <<live, calls, overtaken>>

\* DELETE /suppliers/{id}: the foreign key sets the children's parent null.
DeleteSupplier(s) ==
  /\ Called
  /\ s \in live
  /\ live' = live \ {s}
  /\ parent' = [t \in Suppliers |-> IF t = s \/ parent[t] = s THEN NoSupplier ELSE parent[t]]
  /\ rollup' = RollupStaled
  /\ UNCHANGED <<move, overtaken>>

----------------------------------------------------------------------------
\* get_supplier_children
ChildrenOf(s) == {t \in live : parent[t] = s}

BeginRollup(s) ==
  /\ Called
  /\ rollup = NoRollup /\ s \in live
  /\ rollup' = [state |-> "walking", root |-> s, queue |-> {s}, visited |-> {s},
                fresh |-> TRUE]
  /\ UNCHANGED <<live, parent, move, overtaken>>

\* One turn of get_supplier_descendant_ids.  The order of the queue is the
\* order of the rows of the children, which no query fixes: any.
RollupStep(s) ==
  /\ rollup.state = "walking" /\ s \in rollup.queue
  /\ LET fresh == ChildrenOf(s) \ rollup.visited
     IN rollup' = [rollup EXCEPT !.queue = (@ \ {s}) \cup fresh,
                                 !.visited = @ \cup fresh]
  /\ UNCHANGED <<live, parent, move, calls, overtaken>>

\* The spend of every visited supplier is summed; the reader then leaves.
EndRollup ==
  /\ rollup.state = "walking" /\ rollup.queue = {}
  /\ rollup' = [rollup EXCEPT !.state = "done"]
  /\ UNCHANGED <<live, parent, move, calls, overtaken>>

LeaveRollup ==
  /\ rollup.state = "done"
  /\ rollup' = NoRollup
  /\ UNCHANGED <<live, parent, move, calls, overtaken>>

----------------------------------------------------------------------------
MoveStep(c) == Walk(c) \/ RefuseCycle(c) \/ CommitAttach(c) \/ CommitDetach(c)

RollupProgress == (\E s \in Suppliers : RollupStep(s)) \/ EndRollup

HierarchyNext ==
  \/ \E c \in Clerks, s \in Suppliers : BeginDetach(c, s) \/ \E p \in Suppliers : BeginAttach(c, s, p)
  \/ \E c \in Clerks : MoveStep(c)
  \/ \E s \in Suppliers : DeleteSupplier(s) \/ BeginRollup(s)
  \/ RollupProgress \/ LeaveRollup

HierarchySpec == HierarchyInit /\ [][HierarchyNext]_hierarchyVars

----------------------------------------------------------------------------
\* The type invariant of the hierarchy's rows and requests.
HierarchyTypeOK ==
  /\ live \in SUBSET Suppliers
  /\ parent \in [Suppliers -> SupplierIds]
  /\ move \in [Clerks -> Moves \cup {Idle}]
  /\ calls \in 0..MaxHierarchyCalls
  /\ overtaken \in BOOLEAN
  /\ rollup \in Rollups \cup {NoRollup}

\* No supplier is its own ancestor: no set of suppliers has all its members'
\* parents inside itself.  set_supplier_parent promises it with its walk
\* ("a parent assignment that would create a cycle" is refused); the walk and
\* the write are apart, so the promise holds as long as no attachment was
\* written behind another one's walk.
Acyclic ==
  ~ overtaken =>
     \A S \in SUBSET Suppliers : S # {} => \E s \in S : parent[s] \notin S

\* A roll-up during which nothing changed has visited the supplier and all
\* its descendants, nothing else, also in a table that holds a cycle: the
\* visited set is closed under children, and it is the least such set.
RollupIsExact ==
  (rollup.state = "done" /\ rollup.fresh) =>
     /\ \A s \in rollup.visited : ChildrenOf(s) \subseteq rollup.visited
     /\ \A S \in SUBSET rollup.visited :
           (rollup.root \in S /\ \A s \in S : ChildrenOf(s) \subseteq S) => S = rollup.visited

\* The hierarchy is a forest, and its spend is summed over the whole subtree.
HierarchyIsSound == Acyclic /\ RollupIsExact
=============================================================================
