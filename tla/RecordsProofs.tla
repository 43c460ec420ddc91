---------------------------- MODULE RecordsProofs ----------------------------
(***************************************************************************)
(* Proofs about the records the office keeps, for every number of records,   *)
(* users and requests: the supplier master and its preferred rows, awards   *)
(* and contracts, the preferred status, the answers to one approval step,   *)
(* the metadata and its audit trail, the questionnaire templates and the     *)
(* budgets.  One section per component, each with its inductive invariant.  *)
(***************************************************************************)
EXTENDS TradingPartners, SupplierRecords, PreferredStatus, StepAnswers, MetadataService,
        TemplateLibrary, BudgetControl, SumTheorems, FiniteSetTheorems, SequenceTheorems,
        WellFoundedInduction, TLAPS

----------------------------------------------------------------------------
(***************************************************************************)
(* The supplier hierarchy: the walk of set_supplier_parent keeps it free of  *)
(* cycles as long as no attachment is written behind another one's walk,     *)
(* and a rollup knows its children.                                          *)
(***************************************************************************)

\* What the walk of a request knows as long as no parent was set since it
\* began: the pointers of the rows it has seen lead to rows it has seen or to
\* the row it reads next, apart from those that were cleared.
WalkKnows(m) ==
  /\ m.par \in m.seen
  /\ parent[m.sup] \in {m.held, NoSupplier}
  /\ \A x \in m.seen : parent[x] \in m.seen \cup {m.next, NoSupplier}

WalksKnow ==
  \A c \in Clerks : (move[c].state = "walking" /\ move[c].fresh) => WalkKnows(move[c])

HierarchyInv == HierarchyTypeOK /\ WalksKnow /\ Acyclic

\* The type invariant holds of every reachable state.
THEOREM HierarchyTypeCorrect == HierarchySpec => []HierarchyTypeOK
<1> USE HierarchyAssumption DEF SupplierIds, Idle, Moves, NoRollup, Rollups
<1>1. ASSUME HierarchyInit PROVE HierarchyTypeOK
  <2>1. calls \in 0..MaxHierarchyCalls
    BY <1>1, HierarchyAssumption DEF HierarchyInit, HierarchyAssumption
  <2>4. live \in SUBSET Suppliers /\ overtaken \in BOOLEAN
    BY <1>1 DEF HierarchyInit
  <2>2. parent \in [Suppliers -> SupplierIds] /\ rollup \in Rollups \cup {NoRollup}
    BY <1>1 DEF HierarchyInit
  <2>3. move \in [Clerks -> Moves \cup {Idle}]
    BY <1>1 DEF HierarchyInit
  <2> QED BY <2>1, <2>2, <2>3, <2>4 DEF HierarchyTypeOK
<1>2. HierarchyTypeOK /\ [HierarchyNext]_hierarchyVars => HierarchyTypeOK'
  <2> SUFFICES ASSUME HierarchyTypeOK, [HierarchyNext]_hierarchyVars
               PROVE  HierarchyTypeOK'
    OBVIOUS
  <2> USE DEF HierarchyTypeOK
  <2>1. ASSUME NEW c \in Clerks, NEW s \in Suppliers, BeginDetach(c, s) PROVE HierarchyTypeOK'
    BY <2>1 DEF BeginDetach, Called
  <2>2. ASSUME NEW c \in Clerks, NEW s \in Suppliers, NEW p \in Suppliers, BeginAttach(c, s, p)
        PROVE HierarchyTypeOK'
    BY <2>2 DEF BeginAttach, Called
  <2>3. ASSUME NEW c \in Clerks, Walk(c) PROVE HierarchyTypeOK'
    <3>1. move[c] \in Moves
      BY <2>3 DEF Walk
    <3>2. move[c].next \in Suppliers
      BY <2>3, <3>1 DEF Walk, WalkGoesOn
    <3>3. move' \in [Clerks -> Moves \cup {Idle}]
      BY <2>3, <3>1, <3>2 DEF Walk
    <3> QED BY <2>3, <3>3 DEF Walk
  <2>4. ASSUME NEW c \in Clerks, RefuseCycle(c) PROVE HierarchyTypeOK'
    BY <2>4 DEF RefuseCycle
  <2>5. ASSUME NEW c \in Clerks, CommitAttach(c) PROVE HierarchyTypeOK'
    <3>1. move[c] \in Moves
      BY <2>5 DEF CommitAttach
    <3>2. \A d \in Clerks : Staled(move[d]) \in Moves \cup {Idle}
      BY DEF Staled
    <3>3. RollupStaled \in Rollups \cup {NoRollup}
      BY DEF RollupStaled
    <3>4. CASE Attaches(move[c])
      <4>1. parent' \in [Suppliers -> SupplierIds]
        BY <2>5, <3>1, <3>4 DEF CommitAttach
      <4>2. move' \in [Clerks -> Moves \cup {Idle}]
        BY <2>5, <3>2, <3>4 DEF CommitAttach
      <4>3. rollup' \in Rollups \cup {NoRollup}
        BY <2>5, <3>3, <3>4 DEF CommitAttach
      <4>4. overtaken' \in BOOLEAN /\ live' = live /\ calls' = calls
        BY <2>5, <3>1, <3>4 DEF CommitAttach
      <4> QED BY <4>1, <4>2, <4>3, <4>4
    <3>5. CASE ~ Attaches(move[c])
      BY <2>5, <3>5 DEF CommitAttach
    <3> QED BY <3>4, <3>5
  <2>6. ASSUME NEW c \in Clerks, CommitDetach(c) PROVE HierarchyTypeOK'
    <3>1. RollupStaled \in Rollups \cup {NoRollup}
      BY DEF RollupStaled
    <3>2. move[c] \in Moves
      BY <2>6 DEF CommitDetach
    <3> QED BY <2>6, <3>1, <3>2 DEF CommitDetach
  <2>7. ASSUME NEW s \in Suppliers, DeleteSupplier(s) PROVE HierarchyTypeOK'
    <3>1. RollupStaled \in Rollups \cup {NoRollup}
      BY DEF RollupStaled
    <3> QED BY <2>7, <3>1 DEF DeleteSupplier, Called
  <2>8. ASSUME NEW s \in Suppliers, BeginRollup(s) PROVE HierarchyTypeOK'
    BY <2>8 DEF BeginRollup, Called
  <2>9. ASSUME NEW s \in Suppliers, RollupStep(s) PROVE HierarchyTypeOK'
    BY <2>9 DEF RollupStep, ChildrenOf
  <2>10. CASE EndRollup \/ LeaveRollup
    BY <2>10 DEF EndRollup, LeaveRollup
  <2>11. CASE UNCHANGED hierarchyVars
    BY <2>11 DEF hierarchyVars
  <2> QED
    BY <2>1, <2>2, <2>3, <2>4, <2>5, <2>6, <2>7, <2>8, <2>9, <2>10, <2>11
    DEF HierarchyNext, MoveStep, RollupProgress
<1> QED BY <1>1, <1>2, PTL DEF HierarchySpec

\* A finished walk that did not meet the supplier has seen a set of rows that
\* is closed under parents: max_depth did not cut it off, there being no more
\* suppliers than max_depth.
LEMMA FinishedWalkIsClosed ==
  ASSUME HierarchyTypeOK, NEW c \in Clerks,
         move[c].state = "walking", WalkKnows(move[c]), ~ WalkGoesOn(move[c])
  PROVE  \A x \in move[c].seen : parent[x] \in move[c].seen \cup {NoSupplier}
<1>1. move[c] \in Moves
  BY DEF HierarchyTypeOK, Idle
<1>2. move[c].seen \in SUBSET Suppliers
  BY <1>1 DEF Moves
<1>3. IsFiniteSet(move[c].seen) /\ Cardinality(move[c].seen) =< Cardinality(Suppliers)
  BY <1>2, FS_Subset, HierarchyAssumption
<1>4. Cardinality(move[c].seen) \in Nat /\ Cardinality(Suppliers) \in Nat
  BY <1>3, FS_CardinalityType, HierarchyAssumption
<1>5. Cardinality(move[c].seen) =< MaxDepth
  BY <1>3, <1>4, HierarchyAssumption
<1>6. move[c].next = NoSupplier \/ move[c].next \in move[c].seen
  BY <1>5 DEF WalkGoesOn
<1> QED BY <1>6 DEF WalkKnows

\* Attaching a supplier outside a closed set of rows to a row inside it
\* closes no loop.
LEMMA AttachKeepsAcyclic ==
  ASSUME parent \in [Suppliers -> SupplierIds],
         NEW s \in Suppliers, NEW p \in Suppliers, NEW seen \in SUBSET Suppliers,
         p \in seen, s \notin seen,
         \A x \in seen : parent[x] \in seen \cup {NoSupplier},
         \A S \in SUBSET Suppliers : S # {} => \E t \in S : parent[t] \notin S,
         NEW after, after = [parent EXCEPT ![s] = p]
  PROVE  \A S \in SUBSET Suppliers : S # {} => \E t \in S : after[t] \notin S
<1> SUFFICES ASSUME NEW S \in SUBSET Suppliers, S # {}, \A t \in S : after[t] \in S
             PROVE  FALSE
  OBVIOUS
<1>1. CASE s \notin S
  <2>1. \A t \in S : parent[t] \in S
    BY <1>1
  <2> QED BY <2>1
<1>2. CASE s \in S
  <2> DEFINE T == S \cap seen
  <2>1. p \in T
    BY <1>2
  <2>2. ASSUME NEW t \in T PROVE parent[t] \in T
    <3>1. t # s /\ after[t] = parent[t]
      BY <2>2
    <3>2. parent[t] \in S
      BY <2>2, <3>1
    <3>3. parent[t] # NoSupplier
      BY <3>2, HierarchyAssumption
    <3> QED BY <2>2, <3>2, <3>3
  <2>3. T \in SUBSET Suppliers /\ T # {}
    BY <2>1
  <2> QED BY <2>2, <2>3
<1> QED BY <1>1, <1>2

\* Clearing pointers closes no loop.
LEMMA ClearingKeepsAcyclic ==
  ASSUME NEW after, \A t \in Suppliers : after[t] \in {parent[t], NoSupplier},
         \A S \in SUBSET Suppliers : S # {} => \E t \in S : parent[t] \notin S
  PROVE  \A S \in SUBSET Suppliers : S # {} => \E t \in S : after[t] \notin S
BY HierarchyAssumption

\* The invariant that makes Acyclic inductive is preserved by every step.
LEMMA HierarchyInvStep ==
  ASSUME HierarchyTypeOK, HierarchyTypeOK', WalksKnow, Acyclic, [HierarchyNext]_hierarchyVars
  PROVE  WalksKnow' /\ Acyclic'
<1> USE HierarchyAssumption
<1>1. ASSUME NEW c \in Clerks, NEW s \in Suppliers, BeginDetach(c, s) PROVE WalksKnow' /\ Acyclic'
  BY <1>1 DEF BeginDetach, WalksKnow, WalkKnows, Acyclic, HierarchyTypeOK
<1>2. ASSUME NEW c \in Clerks, NEW s \in Suppliers, NEW p \in Suppliers, BeginAttach(c, s, p)
      PROVE WalksKnow' /\ Acyclic'
  <2>1. Acyclic'
    BY <1>2 DEF BeginAttach, Acyclic
  <2>2. ASSUME NEW d \in Clerks, move'[d].state = "walking", move'[d].fresh
        PROVE WalkKnows(move[d])'
    <3>1. CASE d = c
      BY <1>2, <3>1 DEF BeginAttach, WalkKnows, HierarchyTypeOK
    <3>2. CASE d # c
      BY <1>2, <2>2, <3>2 DEF BeginAttach, WalksKnow, WalkKnows, HierarchyTypeOK
    <3> QED BY <3>1, <3>2
  <2> QED BY <2>1, <2>2 DEF WalksKnow
<1>3. ASSUME NEW c \in Clerks, Walk(c) PROVE WalksKnow' /\ Acyclic'
  <2>1. Acyclic'
    BY <1>3 DEF Walk, Acyclic
  <2>2. ASSUME NEW d \in Clerks, move'[d].state = "walking", move'[d].fresh
        PROVE WalkKnows(move[d])'
    <3>1. CASE d = c
      <4> DEFINE m == move[c]
                 up == IF m.next = m.sup THEN m.held ELSE parent[m.next]
      <4>1. m \in Moves
        BY <1>3 DEF Walk, HierarchyTypeOK, Idle
      <4>2. move'[c] = [m EXCEPT !.seen = @ \cup {m.next}, !.next = up]
        BY <1>3 DEF Walk, HierarchyTypeOK
      <4>3. /\ move'[c].seen = m.seen \cup {m.next} /\ move'[c].next = up
            /\ move'[c].par = m.par /\ move'[c].sup = m.sup /\ move'[c].held = m.held
            /\ move'[c].fresh = m.fresh
        BY <4>1, <4>2 DEF Moves
      <4>4. WalkKnows(m)
        BY <1>3, <2>2, <3>1, <4>3 DEF Walk, WalksKnow
      <4>5. parent[m.next] \in {up, NoSupplier}
        BY <4>4 DEF WalkKnows
      <4>6. parent' = parent
        BY <1>3 DEF Walk
      <4> QED BY <3>1, <4>3, <4>4, <4>5, <4>6 DEF WalkKnows
    <3>2. CASE d # c
      BY <1>3, <2>2, <3>2 DEF Walk, WalksKnow, WalkKnows, HierarchyTypeOK
    <3> QED BY <3>1, <3>2
  <2> QED BY <2>1, <2>2 DEF WalksKnow
<1>4. ASSUME NEW c \in Clerks, RefuseCycle(c) PROVE WalksKnow' /\ Acyclic'
  BY <1>4 DEF RefuseCycle, WalksKnow, WalkKnows, Acyclic, HierarchyTypeOK, Idle
<1>5. ASSUME NEW c \in Clerks, CommitAttach(c) PROVE WalksKnow' /\ Acyclic'
  <2> DEFINE m == move[c]
  <2>1. m \in Moves /\ m.state = "walking" /\ ~ WalkGoesOn(m) /\ m.sup \notin m.seen
    BY <1>5 DEF CommitAttach, HierarchyTypeOK, Idle
  <2>2. CASE ~ Attaches(m)
    BY <1>5, <2>2 DEF CommitAttach, WalksKnow, WalkKnows, Acyclic, HierarchyTypeOK, Idle
  <2>3. CASE Attaches(m)
    <3>1. /\ parent' = [parent EXCEPT ![m.sup] = m.par]
          /\ overtaken' = (overtaken \/ ~ m.fresh)
          /\ move' = [d \in Clerks |-> IF d = c THEN Idle ELSE Staled(move[d])]
      BY <1>5, <2>3 DEF CommitAttach
    <3>2. \A d \in Clerks : move'[d].state = "walking" => ~ move'[d].fresh
      <4> TAKE d \in Clerks
      <4>1. move[d] \in Moves \cup {Idle}
        BY DEF HierarchyTypeOK
      <4> QED BY <3>1, <4>1 DEF Staled, Idle, Moves
    <3>3. WalksKnow'
      BY <3>2 DEF WalksKnow
    <3>4. CASE overtaken'
      BY <3>3, <3>4 DEF Acyclic
    <3>5. CASE ~ overtaken'
      <4>1. ~ overtaken /\ m.fresh
        BY <2>1, <3>1, <3>5 DEF HierarchyTypeOK, Moves
      <4>2. WalkKnows(m)
        BY <2>1, <4>1 DEF WalksKnow
      <4>3. \A x \in m.seen : parent[x] \in m.seen \cup {NoSupplier}
        BY <2>1, <4>2, FinishedWalkIsClosed
      <4>4. m.sup \in Suppliers /\ m.par \in Suppliers /\ m.seen \in SUBSET Suppliers /\ m.par \in m.seen
        BY <2>1, <2>3, <4>2 DEF Moves, Attaches, WalkKnows, HierarchyTypeOK
      <4>5. \A S \in SUBSET Suppliers : S # {} => \E t \in S : parent[t] \notin S
        BY <4>1 DEF Acyclic
      <4>6. \A S \in SUBSET Suppliers : S # {} => \E t \in S : parent'[t] \notin S
        BY <2>1, <3>1, <4>3, <4>4, <4>5, AttachKeepsAcyclic DEF HierarchyTypeOK
      <4> QED BY <3>3, <4>6 DEF Acyclic
    <3> QED BY <3>4, <3>5
  <2> QED BY <2>2, <2>3
<1>6. ASSUME NEW c \in Clerks, CommitDetach(c) PROVE WalksKnow' /\ Acyclic'
  <2>1. \A t \in Suppliers : parent'[t] \in {parent[t], NoSupplier}
    BY <1>6 DEF CommitDetach, HierarchyTypeOK
  <2>2. Acyclic'
    BY <1>6, <2>1, ClearingKeepsAcyclic DEF CommitDetach, Acyclic
  <2>3. ASSUME NEW d \in Clerks, move'[d].state = "walking", move'[d].fresh
        PROVE WalkKnows(move[d])'
    <3>1. move'[d] = move[d]
      BY <1>6, <2>3 DEF CommitDetach, HierarchyTypeOK, Idle
    <3>2. WalkKnows(move[d]) /\ move[d] \in Moves
      BY <2>3, <3>1 DEF WalksKnow, HierarchyTypeOK, Idle
    <3> QED BY <2>1, <3>1, <3>2 DEF WalkKnows, Moves
  <2> QED BY <2>2, <2>3 DEF WalksKnow
<1>7. ASSUME NEW s \in Suppliers, DeleteSupplier(s) PROVE WalksKnow' /\ Acyclic'
  <2>1. \A t \in Suppliers : parent'[t] \in {parent[t], NoSupplier}
    BY <1>7 DEF DeleteSupplier, HierarchyTypeOK
  <2>2. Acyclic'
    BY <1>7, <2>1, ClearingKeepsAcyclic DEF DeleteSupplier, Acyclic
  <2>3. ASSUME NEW d \in Clerks, move'[d].state = "walking", move'[d].fresh
        PROVE WalkKnows(move[d])'
    <3>1. move'[d] = move[d]
      BY <1>7 DEF DeleteSupplier
    <3>2. WalkKnows(move[d]) /\ move[d] \in Moves
      BY <2>3, <3>1 DEF WalksKnow, HierarchyTypeOK, Idle
    <3> QED BY <2>1, <3>1, <3>2 DEF WalkKnows, Moves
  <2> QED BY <2>2, <2>3 DEF WalksKnow
<1>8. ASSUME NEW s \in Suppliers, BeginRollup(s) \/ RollupStep(s) PROVE WalksKnow' /\ Acyclic'
  BY <1>8 DEF BeginRollup, RollupStep, WalksKnow, WalkKnows, Acyclic
<1>9. CASE EndRollup \/ LeaveRollup
  BY <1>9 DEF EndRollup, LeaveRollup, WalksKnow, WalkKnows, Acyclic
<1>10. CASE UNCHANGED hierarchyVars
  BY <1>10 DEF hierarchyVars, WalksKnow, WalkKnows, Acyclic
<1> QED
  BY <1>1, <1>2, <1>3, <1>4, <1>5, <1>6, <1>7, <1>8, <1>9, <1>10
  DEF HierarchyNext, MoveStep, RollupProgress

\* The hierarchy holds no cycle as long as no attachment was written behind
\* another one's walk, for every number of suppliers up to max_depth and of
\* users.
THEOREM HierarchyIsAcyclic == HierarchySpec => []Acyclic
<1>1. HierarchyInit => WalksKnow /\ Acyclic
  BY HierarchyAssumption DEF HierarchyInit, WalksKnow, Acyclic, Idle
<1>2. HierarchyTypeOK /\ HierarchyTypeOK' /\ WalksKnow /\ Acyclic /\ [HierarchyNext]_hierarchyVars
        => WalksKnow' /\ Acyclic'
  BY HierarchyInvStep
<1> QED BY <1>1, <1>2, HierarchyTypeCorrect, PTL DEF HierarchySpec

----------------------------------------------------------------------------
\* What a roll-up knows as long as nothing changed since it began: a visited
\* row that is no longer queued has its children visited, and every set of rows
\* that holds the root and is closed under children holds all that was visited.
Closed(S) == \A s \in S : ChildrenOf(s) \subseteq S

RollupKnows ==
  rollup # NoRollup =>
    /\ rollup.state = "done" => rollup.queue = {}
    /\ rollup.fresh =>
         /\ rollup.root \in rollup.visited /\ rollup.queue \subseteq rollup.visited
         /\ \A s \in rollup.visited \ rollup.queue : ChildrenOf(s) \subseteq rollup.visited
         /\ \A S \in SUBSET Suppliers : (rollup.root \in S /\ Closed(S)) => rollup.visited \subseteq S

\* Clearing the mark of freshness leaves the rest of the roll-up.
LEMMA StaledRollup ==
  ASSUME HierarchyTypeOK, RollupKnows, rollup' = RollupStaled
  PROVE  RollupKnows'
<1>1. CASE rollup = NoRollup
  BY <1>1 DEF RollupKnows, RollupStaled
<1>2. CASE rollup # NoRollup
  <2>1. rollup \in Rollups
    BY <1>2 DEF HierarchyTypeOK
  <2>2. rollup' = [rollup EXCEPT !.fresh = FALSE]
    BY <1>2 DEF RollupStaled
  <2>3. ~ rollup'.fresh /\ rollup'.state = rollup.state /\ rollup'.queue = rollup.queue
    BY <2>1, <2>2 DEF Rollups
  <2> QED BY <1>2, <2>3 DEF RollupKnows
<1> QED BY <1>1, <1>2

\* One turn of the walk keeps what it knows.
LEMMA RollupStepKnows ==
  ASSUME HierarchyTypeOK, RollupKnows, NEW s \in Suppliers, RollupStep(s)
  PROVE  RollupKnows'
<1>1. rollup \in Rollups /\ rollup # NoRollup /\ rollup.state = "walking" /\ s \in rollup.queue
  BY DEF RollupStep, HierarchyTypeOK, NoRollup
<1>a. ChildrenOf(s) \ rollup.visited \in SUBSET Suppliers
  BY DEF ChildrenOf, HierarchyTypeOK
<1>2. PICK found \in SUBSET Suppliers : found = ChildrenOf(s) \ rollup.visited
  BY <1>a
<1>3. rollup' = [rollup EXCEPT !.queue = (@ \ {s}) \cup found, !.visited = @ \cup found]
  BY <1>2 DEF RollupStep
<1>4. /\ rollup'.queue = (rollup.queue \ {s}) \cup found /\ rollup'.visited = rollup.visited \cup found
      /\ rollup'.root = rollup.root /\ rollup'.fresh = rollup.fresh /\ rollup'.state = "walking"
  BY <1>1, <1>3 DEF Rollups
<1>5. \A t : ChildrenOf(t)' = ChildrenOf(t)
  BY DEF RollupStep, ChildrenOf
<1>6. \A S \in SUBSET Suppliers : Closed(S)' <=> Closed(S)
  BY <1>5 DEF Closed
<1>7. ASSUME rollup'.fresh
      PROVE  /\ rollup'.root \in rollup'.visited /\ rollup'.queue \subseteq rollup'.visited
             /\ \A t \in rollup'.visited \ rollup'.queue : ChildrenOf(t)' \subseteq rollup'.visited
             /\ \A S \in SUBSET Suppliers : (rollup'.root \in S /\ Closed(S)') => rollup'.visited \subseteq S
  <2>1. /\ rollup.root \in rollup.visited /\ rollup.queue \subseteq rollup.visited
        /\ \A t \in rollup.visited \ rollup.queue : ChildrenOf(t) \subseteq rollup.visited
        /\ \A S \in SUBSET Suppliers : (rollup.root \in S /\ Closed(S)) => rollup.visited \subseteq S
    BY <1>1, <1>4, <1>7 DEF RollupKnows
  <2>2. rollup'.root \in rollup'.visited /\ rollup'.queue \subseteq rollup'.visited
    BY <1>4, <2>1
  <2>3. ASSUME NEW t \in rollup'.visited \ rollup'.queue PROVE ChildrenOf(t) \subseteq rollup'.visited
    <3>1. CASE t = s
      BY <1>2, <1>4, <3>1
    <3>2. CASE t # s
      BY <1>4, <2>1, <2>3, <3>2
    <3> QED BY <3>1, <3>2
  <2>4. ASSUME NEW S \in SUBSET Suppliers, rollup'.root \in S, Closed(S)'
        PROVE  rollup'.visited \subseteq S
    <3>1. rollup.visited \subseteq S /\ Closed(S)
      BY <1>4, <1>6, <2>1, <2>4
    <3>2. ChildrenOf(s) \subseteq S
      BY <1>1, <2>1, <3>1 DEF Closed
    <3> QED BY <1>2, <1>4, <3>1, <3>2
  <2> QED BY <1>5, <2>2, <2>3, <2>4
<1> QED BY <1>4, <1>7 DEF RollupKnows

\* A roll-up during which nothing changed has visited exactly the subtree of its
\* root, whatever the table holds, for every number of suppliers and of users.
LEMMA RollupInvariant == HierarchySpec => [](HierarchyTypeOK /\ RollupKnows)
<1>1. HierarchyInit => RollupKnows
  BY DEF HierarchyInit, RollupKnows
<1>2. ASSUME HierarchyTypeOK, RollupKnows, [HierarchyNext]_hierarchyVars PROVE RollupKnows'
  <2>1. CASE UNCHANGED <<live, parent, rollup>>
    <3>1. \A t : ChildrenOf(t)' = ChildrenOf(t)
      BY <2>1 DEF ChildrenOf
    <3>2. \A S : Closed(S)' <=> Closed(S)
      BY <3>1 DEF Closed
    <3> QED BY <1>2, <2>1, <3>1, <3>2 DEF RollupKnows, NoRollup
  <2>2. CASE rollup' = RollupStaled
    BY <1>2, <2>2, StaledRollup
  <2>3. ASSUME NEW s \in Suppliers, BeginRollup(s) PROVE RollupKnows'
    <3>1. rollup' = [state |-> "walking", root |-> s, queue |-> {s}, visited |-> {s}, fresh |-> TRUE]
      BY <2>3 DEF BeginRollup
    <3>2. /\ rollup'.state = "walking" /\ rollup'.root = s /\ rollup'.queue = {s}
          /\ rollup'.visited = {s}
      BY <3>1
    <3> QED BY <3>2 DEF RollupKnows
  <2>4. ASSUME NEW s \in Suppliers, RollupStep(s) PROVE RollupKnows'
    BY <1>2, <2>4, RollupStepKnows
  <2>5. CASE EndRollup
    <3>1. rollup \in Rollups /\ rollup # NoRollup
      BY <1>2, <2>5 DEF EndRollup, HierarchyTypeOK, NoRollup
    <3>2. /\ rollup'.queue = rollup.queue /\ rollup'.visited = rollup.visited
          /\ rollup'.root = rollup.root /\ rollup'.fresh = rollup.fresh /\ rollup.queue = {}
      BY <2>5, <3>1 DEF EndRollup, Rollups
    <3>3. \A t : ChildrenOf(t)' = ChildrenOf(t)
      BY <2>5 DEF EndRollup, ChildrenOf
    <3>4. \A S : Closed(S)' <=> Closed(S)
      BY <3>3 DEF Closed
    <3> QED BY <1>2, <3>1, <3>2, <3>3, <3>4 DEF RollupKnows
  <2>6. CASE LeaveRollup
    BY <2>6 DEF LeaveRollup, RollupKnows
  <2>7. ASSUME NEW c \in Clerks, CommitAttach(c)
        PROVE  rollup' = RollupStaled \/ UNCHANGED <<live, parent, rollup>>
    BY <2>7 DEF CommitAttach
  <2>8. CASE HierarchyNext
    BY <2>1, <2>2, <2>3, <2>4, <2>5, <2>6, <2>7, <2>8
    DEF HierarchyNext, MoveStep, RollupProgress, BeginDetach, BeginAttach, Walk, RefuseCycle,
        CommitDetach, DeleteSupplier
  <2> QED BY <1>2, <2>1, <2>8 DEF hierarchyVars
<1> QED BY <1>1, <1>2, HierarchyTypeCorrect, PTL DEF HierarchySpec

\* What the hierarchy promises, both parts: no cycle is written as long as no
\* attachment overtook another one's walk, and the spend of a supplier is summed
\* over its whole subtree and over nothing else.
THEOREM HierarchySound == HierarchySpec => []HierarchyIsSound
<1>1. HierarchyTypeOK /\ RollupKnows => RollupIsExact
  <2> SUFFICES ASSUME HierarchyTypeOK, RollupKnows, rollup.state = "done", rollup.fresh
               PROVE  RollupIsExact
    BY DEF RollupIsExact
  <2>1. rollup \in Rollups /\ rollup # NoRollup /\ rollup.visited \in SUBSET Suppliers
    BY DEF HierarchyTypeOK, NoRollup, Rollups
  <2>2. rollup.queue = {}
    BY <2>1 DEF RollupKnows
  <2>3. \A s \in rollup.visited : ChildrenOf(s) \subseteq rollup.visited
    BY <2>1, <2>2 DEF RollupKnows
  <2>4. \A S \in SUBSET rollup.visited :
          (rollup.root \in S /\ \A s \in S : ChildrenOf(s) \subseteq S) => rollup.visited \subseteq S
    BY <2>1 DEF RollupKnows, Closed
  <2> QED BY <2>3, <2>4 DEF RollupIsExact
<1> QED BY <1>1, HierarchyIsAcyclic, RollupInvariant, PTL DEF HierarchyIsSound

----------------------------------------------------------------------------
(***************************************************************************)
(* Supplier records and their merges, the rows and renewals of a contract,   *)
(* the preferred address or account.                                         *)
(***************************************************************************)

(***************************************************************************)
(* Supplier records                                                         *)
(***************************************************************************)
\* Every transition leads to a state of its own, and none starts from "merged".
LEMMA TransitionsAvoidMerged ==
  \A a \in DOMAIN Transitions :
     /\ Transitions[a].to \in LifeStates /\ Transitions[a].to # "merged"
     /\ "merged" \notin Transitions[a].from
     /\ Transitions[a].from \subseteq LifeStates
<1>1. DOMAIN Transitions = {"begin_monitoring", "flag_requalification", "start_requalification",
                            "complete_requalification", "start_offboarding", "complete_offboarding",
                            "reactivate"}
  BY DEF Transitions
<1>2. \A a \in DOMAIN Transitions : Transitions[a].to \in LifeStates
  BY DEF LifeStates
<1>3. \A a \in DOMAIN Transitions : Transitions[a].to # "merged" /\ "merged" \notin Transitions[a].from
  BY <1>1 DEF Transitions
<1>4. {"active", "under_monitoring", "requalification_due", "requalification_in_progress",
       "offboarding", "offboarded"} \subseteq LifeStates
  <2>1. /\ Transitions["begin_monitoring"].to = "under_monitoring"
        /\ Transitions["flag_requalification"].to = "requalification_due"
        /\ Transitions["start_requalification"].to = "requalification_in_progress"
        /\ Transitions["start_offboarding"].to = "offboarding"
        /\ Transitions["complete_offboarding"].to = "offboarded"
    BY DEF Transitions
  <2> QED BY <1>1, <1>2, <2>1 DEF LifeStates
<1>5. \A a \in DOMAIN Transitions :
         Transitions[a].from \subseteq {"active", "under_monitoring", "requalification_due",
                                        "requalification_in_progress", "offboarding", "offboarded"}
  BY <1>1 DEF Transitions
<1> QED BY <1>2, <1>3, <1>4, <1>5

\* The type invariant holds of every reachable state.
THEOREM RecordsTypeCorrect == RecordsSpec => []RecordsTypeOK
<1> USE RecordsAssumption DEF NoJob, Jobs
<1>1. ASSUME RecordsInit PROVE RecordsTypeOK
  <2>1. begun \in 0..MaxRecordCalls
    BY <1>1 DEF RecordsInit, RecordsAssumption
  <2>2. life \in [Records -> LifeStates]
    BY <1>1 DEF RecordsInit, LifeStates
  <2>3. /\ mergedInto \in [Records -> Records \cup {NoRecord}]
        /\ contractOf \in [Contracts -> Records \cup {NoRecord}]
    BY <1>1 DEF RecordsInit
  <2>4. job \in [Stewards -> Jobs \cup {NoJob}]
    BY <1>1 DEF RecordsInit
  <2>5. rows \in SUBSET Records /\ filedLate \in SUBSET Contracts /\ crossed \in BOOLEAN
    BY <1>1 DEF RecordsInit
  <2> QED BY <2>1, <2>2, <2>3, <2>4, <2>5 DEF RecordsTypeOK
<1>2. RecordsTypeOK /\ [RecordsNext]_recordVars => RecordsTypeOK'
  <2> SUFFICES ASSUME RecordsTypeOK, [RecordsNext]_recordVars PROVE RecordsTypeOK'
    OBVIOUS
  <2> USE DEF RecordsTypeOK
  <2>0. "merged" \in LifeStates
    BY DEF LifeStates
  <2>1. ASSUME NEW u \in Stewards, NEW r \in Records, NEW t \in Records, BeginMerge(u, r, t)
        PROVE  RecordsTypeOK'
    BY <2>0, <2>1 DEF BeginMerge, Begun
  <2>2. ASSUME NEW u \in Stewards, MoveContracts(u) PROVE RecordsTypeOK'
    <3>1. job[u] \in Jobs
      BY <2>2 DEF MoveContracts
    <3> QED BY <2>2, <3>1 DEF MoveContracts
  <2>3. ASSUME NEW u \in Stewards, CommitMerge(u) PROVE RecordsTypeOK'
    <3>1. job[u] \in Jobs
      BY <2>3 DEF CommitMerge
    <3>2. \A R : Touched(u, R) \in [Stewards -> Jobs \cup {NoJob}]
      BY DEF Touched
    <3>3. CASE {job[u].sup, job[u].into} \subseteq rows
      <4>1. mergedInto' \in [Records -> Records \cup {NoRecord}]
        BY <2>3, <3>1, <3>3 DEF CommitMerge
      <4>2. life' \in [Records -> LifeStates]
        BY <2>0, <2>3, <3>1, <3>3 DEF CommitMerge
      <4>3. contractOf' \in [Contracts -> Records \cup {NoRecord}]
        BY <2>3, <3>1, <3>3 DEF CommitMerge
      <4>4. crossed' \in BOOLEAN /\ filedLate' \in SUBSET Contracts
        BY <2>3, <3>1, <3>3 DEF CommitMerge
      <4>5. rows' = rows /\ begun' = begun
        BY <2>3 DEF CommitMerge
      <4>6. job' \in [Stewards -> Jobs \cup {NoJob}]
        <5>1. job' = Touched(u, {job[u].sup, job[u].into})
          BY <2>3, <3>3 DEF CommitMerge
        <5> HIDE DEF Jobs, NoJob
        <5> QED BY <3>2, <5>1
      <4> QED BY <4>1, <4>2, <4>3, <4>4, <4>5, <4>6
    <3>4. CASE ~ ({job[u].sup, job[u].into} \subseteq rows)
      BY <2>3, <3>4 DEF CommitMerge
    <3> QED BY <3>3, <3>4
  <2>4. ASSUME NEW u \in Stewards, NEW r \in Records, NEW a \in DOMAIN Transitions,
               BeginTransition(u, r, a)
        PROVE  RecordsTypeOK'
    BY <2>4, TransitionsAvoidMerged DEF BeginTransition, Begun
  <2>5. ASSUME NEW u \in Stewards, CommitTransition(u) PROVE RecordsTypeOK'
    <3>1. job[u] \in Jobs
      BY <2>5 DEF CommitTransition
    <3>2. job' \in [Stewards -> Jobs \cup {NoJob}]
      BY <2>5, <3>1 DEF CommitTransition
    <3>3. life' \in [Records -> LifeStates]
      BY <2>5, <3>1 DEF CommitTransition
    <3> QED BY <2>5, <3>2, <3>3 DEF CommitTransition
  <2>6. ASSUME NEW k \in Contracts, NEW r \in Records, FileContract(k, r) PROVE RecordsTypeOK'
    BY <2>6 DEF FileContract, Begun
  <2>7. ASSUME NEW r \in Records, DeleteRecord(r) PROVE RecordsTypeOK'
    BY <2>7 DEF DeleteRecord, Begun
  <2>8. CASE UNCHANGED recordVars
    BY <2>8 DEF recordVars
  <2> QED BY <2>1, <2>2, <2>3, <2>4, <2>5, <2>6, <2>7, <2>8 DEF RecordsNext
<1> QED BY <1>1, <1>2, PTL DEF RecordsSpec

\* A merge that was not overtaken still finds both records unmerged, and once
\* it has moved the contracts it knows every one of its source's, those filed
\* since apart.
MergeHolds(j) ==
  /\ j.into \in Records /\ j.sup # j.into
  /\ mergedInto[j.sup] = NoRecord /\ mergedInto[j.into] = NoRecord
  /\ j.kind = "moved" =>
       \A k \in Contracts : (contractOf[k] = j.sup /\ k \notin j.moved) => k \in filedLate

\* A transition that was not overtaken still finds its record unmerged.
FreshJobs ==
  \A u \in Stewards : (job[u] # NoJob /\ job[u].fresh) =>
     /\ job[u].kind \in {"merge", "moved"} => MergeHolds(job[u])
     /\ job[u].kind = "life" => life[job[u].sup] # "merged"

\* The invariant of the requests that were not overtaken.
LEMMA FreshJobsHold == RecordsSpec => []FreshJobs
<1>1. RecordsInit => FreshJobs
  BY DEF RecordsInit, FreshJobs
<1>2. RecordsTypeOK /\ FreshJobs /\ [RecordsNext]_recordVars => FreshJobs'
  <2> SUFFICES ASSUME RecordsTypeOK, FreshJobs, [RecordsNext]_recordVars, NEW v \in Stewards,
                      job'[v] # NoJob, job'[v].fresh
               PROVE  /\ job'[v].kind \in {"merge", "moved"} => MergeHolds(job[v])'
                      /\ job'[v].kind = "life" => life'[job'[v].sup] # "merged"
    BY DEF FreshJobs
  <2> DEFINE Holds == /\ job'[v].kind \in {"merge", "moved"} => MergeHolds(job[v])'
                      /\ job'[v].kind = "life" => life'[job'[v].sup] # "merged"
  <2> USE DEF RecordsTypeOK, FreshJobs
  <2>1. ASSUME NEW u \in Stewards, NEW r \in Records, NEW t \in Records, BeginMerge(u, r, t)
        PROVE  Holds
    <3>1. CASE v = u
      <4>1. job'[v] = [kind |-> "merge", sup |-> r, into |-> t, to |-> "merged",
                       was |-> life[r], moved |-> {}, fresh |-> TRUE]
        BY <2>1, <3>1 DEF BeginMerge
      <4>2. mergedInto'[r] = NoRecord /\ mergedInto'[t] = NoRecord /\ r # t
        BY <2>1 DEF BeginMerge
      <4> QED BY <4>1, <4>2 DEF MergeHolds
    <3>2. CASE v # u
      BY <2>1, <3>2 DEF BeginMerge, MergeHolds
    <3> QED BY <3>1, <3>2
  <2>2. ASSUME NEW u \in Stewards, MoveContracts(u) PROVE Holds
    <3>1. CASE v = u
      <4>1. job[u] \in Jobs /\ job[u] # NoJob /\ job[u].kind = "merge"
        BY <2>2 DEF MoveContracts, NoJob
      <4>2. /\ job'[u].kind = "moved" /\ job'[u].sup = job[u].sup /\ job'[u].into = job[u].into
            /\ job'[u].moved = {k \in Contracts : contractOf[k] = job[u].sup}
            /\ job'[u].fresh = job[u].fresh
        BY <2>2, <4>1 DEF MoveContracts, Jobs
      <4>3. MergeHolds(job[u])
        BY <3>1, <4>1, <4>2
      <4>4. UNCHANGED <<mergedInto, contractOf, filedLate>>
        BY <2>2 DEF MoveContracts
      <4> QED BY <3>1, <4>2, <4>3, <4>4 DEF MergeHolds
    <3>2. CASE v # u
      BY <2>2, <3>2 DEF MoveContracts, MergeHolds
    <3> QED BY <3>1, <3>2
  <2>3. ASSUME NEW u \in Stewards, CommitMerge(u) PROVE Holds
    <3>1. job[u] \in Jobs
      BY <2>3 DEF CommitMerge, NoJob
    <3>2. CASE {job[u].sup, job[u].into} \subseteq rows
      <4>1. v # u /\ job'[v] = job[v] /\ {job[v].sup, job[v].into} \cap {job[u].sup, job[u].into} = {}
        <5>1. job'[v] = IF v = u THEN NoJob
                        ELSE IF job[v] # NoJob /\ {job[v].sup, job[v].into} \cap {job[u].sup, job[u].into} # {}
                             THEN [job[v] EXCEPT !.fresh = FALSE] ELSE job[v]
          BY <2>3, <3>2 DEF CommitMerge, Touched
        <5> QED BY <5>1 DEF Jobs
      <4>2. /\ mergedInto' = [mergedInto EXCEPT ![job[u].sup] = job[u].into]
            /\ life' = IF job[u].was = "merged" THEN life ELSE [life EXCEPT ![job[u].sup] = "merged"]
            /\ contractOf' = [k \in Contracts |-> IF k \in job[u].moved THEN job[u].into ELSE contractOf[k]]
            /\ filedLate' = filedLate \ job[u].moved
        BY <2>3, <3>2 DEF CommitMerge
      <4>3. job[v] \in Jobs /\ job[v].sup \in Records
        BY <4>1 DEF Jobs
      <4>4. ASSUME job[v].kind \in {"merge", "moved"} PROVE MergeHolds(job[v])'
        <5>1. MergeHolds(job[v])
          BY <4>1, <4>4
        <5>2. mergedInto'[job[v].sup] = NoRecord /\ mergedInto'[job[v].into] = NoRecord
          BY <4>1, <4>2, <4>3, <5>1 DEF MergeHolds
        <5>3. ASSUME job[v].kind = "moved", NEW k \in Contracts, contractOf'[k] = job[v].sup,
                     k \notin job[v].moved
              PROVE  k \in filedLate'
          <6>1. k \notin job[u].moved
            BY <4>1, <4>2, <5>3
          <6> QED BY <4>2, <5>1, <5>3, <6>1 DEF MergeHolds
        <5> QED BY <4>1, <5>1, <5>2, <5>3 DEF MergeHolds
      <4>5. ASSUME job[v].kind = "life" PROVE life'[job[v].sup] # "merged"
        BY <4>1, <4>2, <4>3, <4>5
      <4> QED BY <4>1, <4>4, <4>5
    <3>3. CASE ~ ({job[u].sup, job[u].into} \subseteq rows)
      BY <2>3, <3>3 DEF CommitMerge, MergeHolds
    <3> QED BY <3>2, <3>3
  <2>4. ASSUME NEW u \in Stewards, NEW r \in Records, NEW a \in DOMAIN Transitions,
               BeginTransition(u, r, a)
        PROVE  Holds
    <3>1. CASE v = u
      <4>1. job'[v] = [kind |-> "life", sup |-> r, into |-> NoRecord, to |-> Transitions[a].to,
                       was |-> life[r], moved |-> {}, fresh |-> TRUE]
        BY <2>4, <3>1 DEF BeginTransition
      <4>2. life'[r] # "merged"
        BY <2>4, TransitionsAvoidMerged DEF BeginTransition
      <4> QED BY <4>1, <4>2
    <3>2. CASE v # u
      BY <2>4, <3>2 DEF BeginTransition, MergeHolds
    <3> QED BY <3>1, <3>2
  <2>5. ASSUME NEW u \in Stewards, CommitTransition(u) PROVE Holds
    <3>1. v # u /\ job'[v] = job[v] /\ (job[v].kind = "life" => job[v].sup # job[u].sup)
      <4>1. job'[v] = IF v = u THEN NoJob
                      ELSE IF job[v].kind = "life" /\ job[v].sup = job[u].sup
                           THEN [job[v] EXCEPT !.fresh = FALSE] ELSE job[v]
        BY <2>5 DEF CommitTransition
      <4> QED BY <4>1 DEF Jobs, NoJob
    <3>2. job[v].kind = "life" => life'[job[v].sup] = life[job[v].sup]
      BY <2>5, <3>1 DEF CommitTransition, Jobs, NoJob
    <3> QED BY <2>5, <3>1, <3>2 DEF CommitTransition, MergeHolds
  <2>6. ASSUME NEW k \in Contracts, NEW r \in Records, FileContract(k, r) PROVE Holds
    <3>1. job' = job /\ mergedInto' = mergedInto /\ life' = life
      BY <2>6 DEF FileContract
    <3>2. contractOf' = [contractOf EXCEPT ![k] = r] /\ filedLate \subseteq filedLate'
      BY <2>6 DEF FileContract
    <3>3. (job[v].kind = "moved" /\ job[v].sup = r) => k \in filedLate'
      BY <2>6 DEF FileContract
    <3> QED BY <3>1, <3>2, <3>3 DEF MergeHolds
  <2>7. ASSUME NEW r \in Records, DeleteRecord(r) PROVE Holds
    <3>1. job[v] \in Jobs
      BY <2>7 DEF DeleteRecord, NoJob
    <3> QED BY <2>7, <3>1 DEF DeleteRecord, MergeHolds, Jobs
  <2>8. CASE UNCHANGED recordVars
    BY <2>8 DEF recordVars, MergeHolds
  <2> QED BY <2>1, <2>2, <2>3, <2>4, <2>5, <2>6, <2>7, <2>8 DEF RecordsNext
<1> QED BY <1>1, <1>2, RecordsTypeCorrect, PTL DEF RecordsSpec

\* What the commit of a merge does when no other merge overtook it: it points
\* one unmerged record at another, and takes all contracts along.
LEMMA CommitOfAMerge ==
  ASSUME RecordsTypeOK, FreshJobs, NEW u \in Stewards, CommitMerge(u), ~ crossed',
         {job[u].sup, job[u].into} \subseteq rows
  PROVE  /\ job[u].sup \in Records /\ MergeHolds(job[u]) /\ job[u].kind = "moved" /\ ~ crossed
         /\ mergedInto' = [mergedInto EXCEPT ![job[u].sup] = job[u].into]
         /\ contractOf' = [k \in Contracts |-> IF k \in job[u].moved THEN job[u].into ELSE contractOf[k]]
         /\ filedLate' = filedLate \ job[u].moved
<1>1. job[u] \in Jobs /\ job[u] # NoJob /\ job[u].kind = "moved"
  BY DEF RecordsTypeOK, CommitMerge, NoJob
<1>2. /\ crossed' = (crossed \/ ~ job[u].fresh)
      /\ mergedInto' = [mergedInto EXCEPT ![job[u].sup] = job[u].into]
      /\ contractOf' = [k \in Contracts |-> IF k \in job[u].moved THEN job[u].into ELSE contractOf[k]]
      /\ filedLate' = filedLate \ job[u].moved
  BY DEF CommitMerge
<1>3. crossed \in BOOLEAN /\ job[u].fresh \in BOOLEAN /\ job[u].sup \in Records
  BY <1>1 DEF RecordsTypeOK, Jobs
<1>4. ~ crossed /\ job[u].fresh
  BY <1>2, <1>3
<1>5. MergeHolds(job[u])
  BY <1>1, <1>4 DEF FreshJobs
<1> QED BY <1>1, <1>2, <1>3, <1>4, <1>5

\* Merge pointers always lead to a surviving record, unless two merges crossed.
THEOREM MergesLeadToASurvivor == RecordsSpec => []MergesEndInASurvivor
<1> USE RecordsAssumption
<1>1. RecordsInit => MergesEndInASurvivor
  BY DEF RecordsInit, MergesEndInASurvivor
<1>2. RecordsTypeOK /\ FreshJobs /\ MergesEndInASurvivor /\ [RecordsNext]_recordVars
         => MergesEndInASurvivor'
  <2> SUFFICES ASSUME RecordsTypeOK, FreshJobs, MergesEndInASurvivor, [RecordsNext]_recordVars,
                      ~ crossed', NEW S \in SUBSET Records, S # {}
               PROVE  \E r \in S : mergedInto'[r] \notin S
    BY DEF MergesEndInASurvivor
  <2>1. ASSUME UNCHANGED <<mergedInto, crossed>> PROVE \E r \in S : mergedInto'[r] \notin S
    BY <2>1 DEF MergesEndInASurvivor
  <2>2. ASSUME NEW u \in Stewards, CommitMerge(u) PROVE \E r \in S : mergedInto'[r] \notin S
    <3>1. CASE {job[u].sup, job[u].into} \subseteq rows
      <4>1. /\ job[u].sup \in Records /\ MergeHolds(job[u]) /\ ~ crossed
            /\ mergedInto' = [mergedInto EXCEPT ![job[u].sup] = job[u].into]
        BY <2>2, <3>1, CommitOfAMerge
      <4>2. PICK r \in S : mergedInto[r] \notin S
        BY <4>1 DEF MergesEndInASurvivor
      <4>3. CASE job[u].sup \in S /\ job[u].into \in S
        <5>1. mergedInto'[job[u].into] = NoRecord
          BY <4>1, <4>3 DEF MergeHolds, RecordsTypeOK
        <5> QED BY <4>3, <5>1
      <4>4. CASE job[u].sup \in S /\ job[u].into \notin S
        BY <4>1, <4>4 DEF RecordsTypeOK
      <4>5. CASE job[u].sup \notin S
        BY <4>1, <4>2, <4>5 DEF RecordsTypeOK
      <4> QED BY <4>3, <4>4, <4>5
    <3>2. CASE ~ ({job[u].sup, job[u].into} \subseteq rows)
      BY <2>1, <2>2, <3>2 DEF CommitMerge
    <3> QED BY <3>1, <3>2
  <2>3. ASSUME NEW r \in Records, DeleteRecord(r) PROVE \E s \in S : mergedInto'[s] \notin S
    <3>1. ~ crossed /\ mergedInto' = [s \in Records |-> IF s = r \/ mergedInto[s] = r
                                                      THEN NoRecord ELSE mergedInto[s]]
      BY <2>3 DEF DeleteRecord
    <3>2. PICK s \in S : mergedInto[s] \notin S
      BY <3>1 DEF MergesEndInASurvivor
    <3> QED BY <3>1, <3>2
  <2> QED BY <2>1, <2>2, <2>3
       DEF RecordsNext, recordVars, BeginMerge, MoveContracts, BeginTransition, CommitTransition,
           FileContract
<1> QED BY <1>1, <1>2, RecordsTypeCorrect, FreshJobsHold, PTL DEF RecordsSpec

\* No contract is left with a merged record, but for those filed after the
\* merge had moved its contracts, unless two merges crossed.
THEOREM ContractsAreMoved == RecordsSpec => []ContractsFollowTheMerge
<1> USE RecordsAssumption
<1>1. RecordsInit => ContractsFollowTheMerge
  BY DEF RecordsInit, ContractsFollowTheMerge
<1>2. RecordsTypeOK /\ FreshJobs /\ ContractsFollowTheMerge /\ [RecordsNext]_recordVars
         => ContractsFollowTheMerge'
  <2> SUFFICES ASSUME RecordsTypeOK, FreshJobs, ContractsFollowTheMerge, [RecordsNext]_recordVars,
                      ~ crossed', NEW k \in Contracts,
                      contractOf'[k] # NoRecord, mergedInto'[contractOf'[k]] # NoRecord
               PROVE  k \in filedLate'
    BY DEF ContractsFollowTheMerge
  <2>1. ASSUME UNCHANGED <<mergedInto, contractOf, filedLate, crossed>> PROVE k \in filedLate'
    BY <2>1 DEF ContractsFollowTheMerge
  <2>2. ASSUME NEW u \in Stewards, CommitMerge(u) PROVE k \in filedLate'
    <3>1. CASE {job[u].sup, job[u].into} \subseteq rows
      <4>1. /\ job[u].sup \in Records /\ MergeHolds(job[u]) /\ job[u].kind = "moved" /\ ~ crossed
            /\ mergedInto' = [mergedInto EXCEPT ![job[u].sup] = job[u].into]
            /\ contractOf' = [c \in Contracts |-> IF c \in job[u].moved THEN job[u].into ELSE contractOf[c]]
            /\ filedLate' = filedLate \ job[u].moved
        BY <2>2, <3>1, CommitOfAMerge
      <4>2. k \notin job[u].moved
        <5>1. mergedInto'[job[u].into] = NoRecord
          BY <4>1 DEF MergeHolds, RecordsTypeOK
        <5> QED BY <4>1, <5>1
      <4>3. contractOf'[k] = contractOf[k] /\ contractOf[k] \in Records
        BY <4>1, <4>2 DEF RecordsTypeOK
      <4>4. CASE contractOf[k] = job[u].sup
        BY <4>1, <4>2, <4>4 DEF MergeHolds
      <4>5. CASE contractOf[k] # job[u].sup
        <5>1. mergedInto[contractOf[k]] # NoRecord
          BY <4>1, <4>3, <4>5 DEF RecordsTypeOK
        <5> QED BY <4>1, <4>2, <4>3, <5>1 DEF ContractsFollowTheMerge
      <4> QED BY <4>4, <4>5
    <3>2. CASE ~ ({job[u].sup, job[u].into} \subseteq rows)
      BY <2>1, <2>2, <3>2 DEF CommitMerge
    <3> QED BY <3>1, <3>2
  <2>3. ASSUME NEW c \in Contracts, NEW r \in Records, FileContract(c, r) PROVE k \in filedLate'
    <3>1. ~ crossed /\ mergedInto' = mergedInto /\ contractOf' = [contractOf EXCEPT ![c] = r]
      BY <2>3 DEF FileContract
    <3>2. (mergedInto[r] # NoRecord => c \in filedLate') /\ filedLate \subseteq filedLate'
      BY <2>3 DEF FileContract
    <3> QED BY <3>1, <3>2 DEF ContractsFollowTheMerge, RecordsTypeOK
  <2>4. ASSUME NEW r \in Records, DeleteRecord(r) PROVE k \in filedLate'
    <3>1. /\ UNCHANGED <<contractOf, filedLate, crossed>>
          /\ mergedInto' = [s \in Records |-> IF s = r \/ mergedInto[s] = r THEN NoRecord ELSE mergedInto[s]]
      BY <2>4 DEF DeleteRecord
    <3> QED BY <3>1 DEF ContractsFollowTheMerge, RecordsTypeOK
  <2> QED BY <2>1, <2>2, <2>3, <2>4
       DEF RecordsNext, recordVars, BeginMerge, MoveContracts, BeginTransition, CommitTransition
<1> QED BY <1>1, <1>2, RecordsTypeCorrect, FreshJobsHold, PTL DEF RecordsSpec

\* A record leaves "merged" only by a transition that was read before the merge.
THEOREM NoWayBackFromMerged == RecordsSpec => MergedStaysMerged
<1> DEFINE Stays == \A r \in Records :
              (life[r] = "merged" /\ life'[r] # "merged") =>
                 \E u \in Stewards : job[u].kind = "life" /\ job[u].sup = r /\ ~ job[u].fresh
<1>1. RecordsTypeOK /\ FreshJobs /\ [RecordsNext]_recordVars => [Stays]_recordVars
  <2> SUFFICES ASSUME RecordsTypeOK, FreshJobs, [RecordsNext]_recordVars,
                      NEW r \in Records, life[r] = "merged", life'[r] # "merged"
               PROVE  \E u \in Stewards : job[u].kind = "life" /\ job[u].sup = r /\ ~ job[u].fresh
    OBVIOUS
  <2>1. life' # life
    OBVIOUS
  <2>2. ASSUME NEW u \in Stewards, CommitMerge(u) PROVE FALSE
    BY <2>1, <2>2 DEF CommitMerge, RecordsTypeOK
  <2>3. PICK u \in Stewards : CommitTransition(u)
    BY <2>1, <2>2
    DEF RecordsNext, recordVars, BeginMerge, MoveContracts, BeginTransition, FileContract, DeleteRecord
  <2>4. job[u].kind = "life" /\ job[u].sup = r
    BY <2>1, <2>3 DEF CommitTransition, RecordsTypeOK
  <2>5. job[u] # NoJob
    BY <2>4 DEF NoJob
  <2>6. ~ job[u].fresh
    BY <2>4, <2>5 DEF FreshJobs
  <2> QED BY <2>4, <2>6
<1> QED BY <1>1, RecordsTypeCorrect, FreshJobsHold, PTL DEF RecordsSpec, MergedStaysMerged

-----------------------------------------------------------------------------
(***************************************************************************)
(* Contracts                                                                *)
(***************************************************************************)
\* A request on a contract.  Its status and approval agree, once an edit of the
\* status column alone is set aside.
Agrees(l) == \A decision \in {"approved", "rejected"} :
               l.status = decision => l.approval = decision

\* What a request holds is well-formed, and what it wants is what it read, with the
\* columns its operation sets.
ContractRequest(w) ==
  /\ w \in ContractWork
  /\ w.kind = "transition" => Agrees(w.wants)
  /\ w.kind = "renew" => w.wants.status = "active"
  /\ w.kind = "edit" => w.wants.approval = w.was.approval
  /\ w.fresh => w.was = contract

RowRequests == {"transition", "edit", "renew"}

\* The requests under way, each with what it has read; the newest reader of a row
\* holds it as it is.
WorkInv ==
  \A u \in Managers :
    /\ work[u].kind \in RowRequests => ContractRequest(work[u])
    /\ work[u].kind = "obligation" =>
         /\ work[u].was.done => obligation.done
         /\ work[u].was.status = "completed" => work[u].was.done
    /\ work[u].kind = "clause" =>
         work[u] \in ClauseWork /\ (work[u].fresh => work[u].was = clause)

ContractInv ==
  /\ contract \in ContractRows
  /\ renewals \in Seq([previous : EndDates, new : EndDates])
  /\ clause \in Nat /\ edits \in Nat
  /\ DOMAIN work = Managers
  /\ WorkInv
  /\ RowsTellWhatHappened

LEMMA ContractInitInv == ContractInit => ContractInv
BY DEF ContractInit, ContractInv, ContractRows, ContractStates, Approvals, EndDates, WorkInv, NoWork,
       RowRequests, RowsTellWhatHappened, DecisionIsRecorded, CompletedIsDated, VersionCountsEdits

\* Whoever begins a request has read the row as it is.
LEMMA BeginKeeps ==
  ASSUME ContractInv, NEW u \in Managers, NEW w, Begins(u, w),
         w.kind \in RowRequests => ContractRequest(w),
         w.kind = "obligation" => w.was = obligation,
         w.kind = "clause" => w \in ClauseWork /\ w.was = clause
  PROVE  ContractInv'
<1>1. UNCHANGED <<contract, renewals, obligation, clause, edits, torn, patched, lostEdit>>
      /\ work' = [work EXCEPT ![u] = w]
  BY DEF Begins
<1>2. DOMAIN work' = Managers /\ work'[u] = w /\ \A v \in Managers \ {u} : work'[v] = work[v]
  BY <1>1 DEF ContractInv
<1>3. WorkInv'
  BY <1>1, <1>2 DEF ContractInv, WorkInv, ContractRequest, RowsTellWhatHappened, CompletedIsDated
<1> QED BY <1>1, <1>2, <1>3 DEF ContractInv, RowsTellWhatHappened, DecisionIsRecorded,
             CompletedIsDated, VersionCountsEdits

LEMMA BeginSteps ==
  ASSUME ContractInv, NEW u \in Managers,
         \/ \E a \in DOMAIN ActionStatus : BeginContractTransition(u, a)
         \/ \E d \in Dates : BeginEdit(u, d) \/ BeginRenew(u, d)
         \/ \E s \in ContractStates : BeginStatusEdit(u, s)
         \/ \E to \in {"pending", "completed"} : BeginObligation(u, to)
         \/ BeginClause(u)
  PROVE  ContractInv'
<1>0. contract \in ContractRows /\ "active" \in ContractStates
  <2>1. ActionStatus["activate"] = "active" /\ "activate" \in DOMAIN ActionStatus
    BY DEF ActionStatus
  <2> QED BY <2>1 DEF ContractInv, ContractStates
<1>1. ASSUME NEW a \in DOMAIN ActionStatus, BeginContractTransition(u, a) PROVE ContractInv'
  <2> DEFINE granted == IF a \in DOMAIN ActionApproval THEN ActionApproval[a] ELSE contract.approval
             wants == [contract EXCEPT !.status = ActionStatus[a], !.approval = granted]
  <2>1. ActionStatus[a] \in ContractStates
    BY DEF ContractStates
  <2>2. /\ granted \in Approvals
        /\ ActionStatus[a] = "approved" => granted = "approved"
        /\ ActionStatus[a] = "rejected" => granted = "rejected"
    BY <1>0 DEF ActionStatus, ActionApproval, Approvals, ContractRows
  <2> HIDE DEF granted
  <2>3. wants \in ContractRows /\ Agrees(wants)
    BY <1>0, <2>1, <2>2 DEF ContractRows, Agrees
  <2> QED BY <1>0, <1>1, <2>3, BeginKeeps
        DEF BeginContractTransition, OnContract, ContractRequest, ContractWork, RowRequests, granted
<1>2. ASSUME NEW d \in Dates, BeginEdit(u, d) PROVE ContractInv'
  <2>1. [contract EXCEPT !.end = d] \in ContractRows
    BY <1>0 DEF ContractRows, EndDates
  <2>2. [contract EXCEPT !.end = d].approval = contract.approval
    BY <1>0 DEF ContractRows
  <2> QED BY <1>0, <1>2, <2>1, <2>2, BeginKeeps DEF BeginEdit, OnContract, ContractRequest, ContractWork,
                                                             RowRequests
<1>3. ASSUME NEW d \in Dates, BeginRenew(u, d) PROVE ContractInv'
  <2>1. [contract EXCEPT !.end = d, !.status = "active"] \in ContractRows
    BY <1>0 DEF ContractRows, EndDates
  <2>2. [contract EXCEPT !.end = d, !.status = "active"].status = "active"
    BY <1>0 DEF ContractRows
  <2> QED BY <1>0, <1>3, <2>1, <2>2, BeginKeeps DEF BeginRenew, OnContract, ContractRequest, ContractWork,
                                                             RowRequests
<1>4. ASSUME NEW s \in ContractStates, BeginStatusEdit(u, s) PROVE ContractInv'
  <2>1. [contract EXCEPT !.status = s] \in ContractRows
    BY <1>0 DEF ContractRows
  <2>2. [contract EXCEPT !.status = s].approval = contract.approval
    BY <1>0 DEF ContractRows
  <2> QED BY <1>0, <1>4, <2>1, <2>2, BeginKeeps
        DEF BeginStatusEdit, OnContract, ContractRequest, ContractWork, RowRequests
<1>5. ASSUME NEW to \in {"pending", "completed"}, BeginObligation(u, to) PROVE ContractInv'
  BY <1>5, BeginKeeps DEF BeginObligation, RowRequests
<1>6. ASSUME BeginClause(u) PROVE ContractInv'
  BY <1>6, BeginKeeps DEF BeginClause, ClauseWork, RowRequests, ContractInv
<1> QED BY <1>1, <1>2, <1>3, <1>4, <1>5, <1>6

LEMMA ContractCommitKeeps ==
  ASSUME ContractInv, NEW u \in Managers, CommitContract(u)
  PROVE  /\ ContractInv'
         /\ renewals' # renewals /\ ~ torn' =>
              LET r == renewals'[Len(renewals')]
              IN  r.previous = contract.end /\ r.new = contract'.end
<1> DEFINE w == work[u]
<1>1. /\ w.kind \in RowRequests /\ ContractRequest(w)
      /\ contract' = Merge(w.was, w.wants, contract)
      /\ renewals' = IF w.kind = "renew"
                     THEN Append(renewals, [previous |-> w.was.end, new |-> w.wants.end])
                     ELSE renewals
      /\ torn' = (torn \/ ~ w.fresh)
      /\ patched' = (patched \/ (w.kind = "edit" /\ w.wants.status # w.was.status))
      /\ UNCHANGED <<obligation, clause, edits, lostEdit>>
  BY DEF CommitContract, ContractInv, WorkInv, RowRequests
<1>2. /\ DOMAIN work' = Managers
      /\ \A v \in Managers : work'[v] = IF v = u THEN NoWork
            ELSE IF work[v].kind \in RowRequests THEN [work[v] EXCEPT !.fresh = FALSE] ELSE work[v]
  BY DEF CommitContract, RowRequests
<1>3. /\ contract \in ContractRows /\ w.was \in ContractRows /\ w.wants \in ContractRows
      /\ contract' \in ContractRows /\ (w.was = contract => contract' = w.wants)
  BY <1>1 DEF ContractInv, ContractRequest, ContractWork, Merge, ContractRows
<1>4. renewals' \in Seq([previous : EndDates, new : EndDates])
  <2>1. [previous |-> w.was.end, new |-> w.wants.end] \in [previous : EndDates, new : EndDates]
    BY <1>3 DEF ContractRows
  <2> DEFINE T == [previous : EndDates, new : EndDates]
  <2>2. renewals \in Seq(T)
    BY DEF ContractInv
  <2> HIDE DEF T
  <2>3. CASE w.kind = "renew"
    BY <1>1, <2>1, <2>2, <2>3, AppendProperties DEF T
  <2>4. CASE w.kind # "renew"
    BY <1>1, <2>2, <2>4 DEF T
  <2> QED BY <2>3, <2>4
<1>5. WorkInv'
  <2> SUFFICES ASSUME NEW v \in Managers, v # u
               PROVE  /\ work'[v].kind \in RowRequests => ContractRequest(work[v])'
                      /\ work'[v].kind = "obligation" =>
                           /\ work'[v].was.done => obligation.done
                           /\ work'[v].was.status = "completed" => work'[v].was.done
                      /\ work'[v].kind = "clause" =>
                            work'[v] \in ClauseWork /\ (work'[v].fresh => work'[v].was = clause)
    BY <1>1, <1>2 DEF WorkInv, NoWork, RowRequests
  <2>1. CASE work[v].kind \in RowRequests
    <3>1. work'[v] = [work[v] EXCEPT !.fresh = FALSE] /\ ContractRequest(work[v])
      BY <1>2, <2>1 DEF ContractInv, WorkInv
    <3> QED BY <2>1, <3>1 DEF ContractRequest, ContractWork, RowRequests
  <2>2. CASE work[v].kind \notin RowRequests
    BY <1>1, <1>2, <2>2 DEF ContractInv, WorkInv
  <2> QED BY <2>1, <2>2
<1>6. DecisionIsRecorded'
  <2> SUFFICES ASSUME ~ torn', ~ patched'
               PROVE  Agrees(contract')
    BY DEF DecisionIsRecorded, Agrees
  <2>1. w.fresh /\ ~ torn /\ ~ patched /\ w.was = contract /\ contract' = w.wants
    BY <1>1, <1>3 DEF ContractRequest
  <2>2. Agrees(contract)
    BY <2>1 DEF ContractInv, RowsTellWhatHappened, DecisionIsRecorded, Agrees
  <2>3. CASE w.kind = "transition"
    BY <1>1, <2>1, <2>3 DEF ContractRequest
  <2>4. CASE w.kind = "renew"
    BY <1>1, <2>1, <2>4 DEF ContractRequest, Agrees
  <2>5. CASE w.kind = "edit"
    BY <1>1, <2>1, <2>2, <2>5 DEF ContractRequest, Agrees
  <2> QED BY <1>1, <2>3, <2>4, <2>5 DEF RowRequests
<1>7. ASSUME renewals' # renewals, ~ torn'
      PROVE  /\ renewals'[Len(renewals')].previous = contract.end
             /\ renewals'[Len(renewals')].new = contract'.end
  <2> DEFINE e == [previous |-> w.was.end, new |-> w.wants.end]
  <2>1. renewals' = Append(renewals, e) /\ w.was = contract /\ contract' = w.wants
    BY <1>1, <1>3, <1>7 DEF ContractRequest
  <2>2. renewals'[Len(renewals')] = e
    BY <2>1 DEF ContractInv
  <2> QED BY <2>1, <2>2
<1> QED BY <1>1, <1>2, <1>3, <1>4, <1>5, <1>6, <1>7
        DEF ContractInv, RowsTellWhatHappened, CompletedIsDated, VersionCountsEdits

LEMMA OtherCommitsKeep ==
  ASSUME ContractInv, NEW u \in Managers, CommitObligation(u) \/ CommitClause(u)
  PROVE  ContractInv'
<1>1. CASE CommitObligation(u)
  <2>1. /\ UNCHANGED <<contract, renewals, clause, edits, torn, patched, lostEdit>>
        /\ DOMAIN work' = Managers /\ work'[u] = NoWork
        /\ \A v \in Managers \ {u} : work'[v] = work[v]
    BY <1>1 DEF CommitObligation, ContractInv
  <2>2. obligation.done => obligation'.done
    BY <1>1 DEF CommitObligation
  <2>3. CompletedIsDated'
    BY <1>1 DEF CommitObligation, ContractInv, WorkInv, RowsTellWhatHappened, CompletedIsDated
  <2>4. WorkInv'
    BY <2>1, <2>2 DEF ContractInv, WorkInv, ContractRequest, NoWork, RowRequests
  <2> QED BY <2>1, <2>3, <2>4 DEF ContractInv, RowsTellWhatHappened, DecisionIsRecorded, VersionCountsEdits
<1>2. CASE CommitClause(u)
  <2>1. /\ UNCHANGED <<contract, renewals, obligation, torn, patched>>
        /\ clause' = work[u].was + 1 /\ edits' = edits + 1 /\ lostEdit' = (lostEdit \/ ~ work[u].fresh)
        /\ work[u] \in ClauseWork /\ (work[u].fresh => work[u].was = clause)
        /\ DOMAIN work' = Managers /\ work'[u] = NoWork
        /\ \A v \in Managers \ {u} :
             work'[v] = IF work[v].kind = "clause" THEN [work[v] EXCEPT !.fresh = FALSE] ELSE work[v]
    BY <1>2 DEF CommitClause, ContractInv, WorkInv
  <2>2. ASSUME NEW v \in Managers, v # u, work[v].kind = "clause"
        PROVE  work'[v] \in ClauseWork /\ ~ work'[v].fresh
    BY <2>1, <2>2 DEF ContractInv, WorkInv, ClauseWork
  <2>3. WorkInv'
    <3>1. ASSUME NEW v \in Managers, v # u, work[v].kind # "clause"
          PROVE  work'[v] = work[v]
      BY <2>1, <3>1
    <3>2. \A v \in Managers : work'[v].kind \in RowRequests \cup {"obligation"} =>
             work'[v] = work[v]
      BY <2>1, <2>2, <3>1 DEF NoWork, ClauseWork, RowRequests
    <3>3. \A v \in Managers : work'[v].kind = "clause" => work'[v] \in ClauseWork /\ ~ work'[v].fresh
      BY <2>1, <2>2, <3>1 DEF NoWork
    <3>4. \A w : ContractRequest(w) <=> ContractRequest(w)'
      BY <2>1 DEF ContractRequest
    <3> QED BY <2>1, <3>2, <3>3, <3>4 DEF ContractInv, WorkInv
  <2>4. clause' \in Nat /\ edits' \in Nat
    BY <2>1 DEF ContractInv, ClauseWork
  <2>5. ASSUME ~ lostEdit' PROVE clause' = 1 + edits'
    <3>1. ~ lostEdit /\ work[u].was = clause
      BY <2>1, <2>5
    <3> QED BY <2>1, <3>1 DEF ContractInv, RowsTellWhatHappened, VersionCountsEdits
  <2> QED BY <2>1, <2>3, <2>4, <2>5
        DEF ContractInv, RowsTellWhatHappened, DecisionIsRecorded, CompletedIsDated, VersionCountsEdits
<1> QED BY <1>1, <1>2

LEMMA ContractStep ==
  ASSUME ContractInv, [ContractNext]_contractVars
  PROVE  /\ ContractInv'
         /\ renewals' # renewals /\ ~ torn' =>
              LET r == renewals'[Len(renewals')]
              IN  r.previous = contract.end /\ r.new = contract'.end
<1>1. CASE UNCHANGED contractVars
  BY <1>1 DEF contractVars, ContractInv, WorkInv, ContractRequest, RowsTellWhatHappened,
     DecisionIsRecorded, CompletedIsDated, VersionCountsEdits
<1>2. ASSUME NEW u \in Managers, CommitContract(u) PROVE ContractInv'
  BY <1>2, ContractCommitKeeps
<1>3. ASSUME NEW u \in Managers, CommitObligation(u) \/ CommitClause(u)
      PROVE  ContractInv' /\ UNCHANGED renewals
  BY <1>3, OtherCommitsKeep DEF CommitObligation, CommitClause
<1>4. ASSUME NEW u \in Managers,
             \/ \E a \in DOMAIN ActionStatus : BeginContractTransition(u, a)
             \/ \E d \in Dates : BeginEdit(u, d) \/ BeginRenew(u, d)
             \/ \E s \in ContractStates : BeginStatusEdit(u, s)
             \/ \E to \in {"pending", "completed"} : BeginObligation(u, to)
             \/ BeginClause(u)
      PROVE  ContractInv' /\ UNCHANGED renewals
  BY <1>4, BeginSteps DEF BeginContractTransition, BeginEdit, BeginRenew, BeginStatusEdit,
     BeginObligation, BeginClause, Begins
<1> QED BY <1>1, <1>2, <1>3, <1>4, ContractCommitKeeps DEF ContractNext, contractVars

\* The contract's rows agree with each other: a decision with its approval, a
\* completion with its date, a version with its edits, in the interleavings that
\* RowsTellWhatHappened names (transition_contract, update_obligation, update_clause).
THEOREM ContractRowsAgree == ContractSpec => []RowsTellWhatHappened
<1>1. ContractInv /\ [ContractNext]_contractVars => ContractInv'
  BY ContractStep
<1>2. ContractInv => RowsTellWhatHappened
  BY DEF ContractInv
<1> QED BY ContractInitInv, <1>1, <1>2, PTL DEF ContractSpec

\* A renewal's history row goes from the contract's end date to the one it gets,
\* for any dates and any requests beside it (renew_contract).
THEOREM RenewalsLink == ContractSpec => RenewalsFormAChain
<1>1. ContractInv /\ [ContractNext]_contractVars => ContractInv'
  BY ContractStep
<1>2. ContractInv /\ [ContractNext]_contractVars =>
        [(renewals' # renewals /\ ~torn') =>
           LET r == renewals'[Len(renewals')]
           IN r.previous = contract.end /\ r.new = contract'.end]_contractVars
  BY ContractStep
<1> QED BY ContractInitInv, <1>1, <1>2, PTL DEF ContractSpec, RenewalsFormAChain

-----------------------------------------------------------------------------
(***************************************************************************)
(* The preferred entry                                                      *)
(***************************************************************************)
\* The UPDATE of a setter that nothing has crossed has found every flag there is.
FlagInv ==
  /\ FlagTypeOK
  /\ AtMostOnePreferred
  /\ \A u \in Editors : setter[u] # NoSetter /\ setter[u].fresh /\ setter[u].state # "read"
                          => preferred \subseteq setter[u].locks

\* No setter is taken for NoSetter, whatever is changed in it.
LEMMA SettersDiffer == \A w \in Setters : w # NoSetter
BY DEF Setters, NoSetter

\* Setters beside which a flag was set are of no interest any more.
LEMMA CrossedSetters ==
  ASSUME FlagTypeOK
  PROVE  /\ Crossed \in [Editors -> Setters \cup {NoSetter}]
         /\ \A u \in Editors : Crossed[u] = NoSetter \/ ~ Crossed[u].fresh
<1>1. ASSUME NEW u \in Editors, setter[u] # NoSetter
      PROVE  [setter[u] EXCEPT !.fresh = FALSE] \in Setters /\ ~ [setter[u] EXCEPT !.fresh = FALSE].fresh
  BY <1>1 DEF FlagTypeOK, Setters
<1> QED BY <1>1 DEF Crossed, FlagTypeOK

LEMMA FlagStep ==
  ASSUME FlagInv, [FlagNext]_flagVars
  PROVE  FlagInv'
<1> USE FlagAssumption DEF FlagInv, FlagTypeOK, FlagCall
<1>1. ASSUME NEW e \in Entries, NEW flag \in BOOLEAN,
             CreateEntry(e, flag) \/ UpdateEntry(e, flag)
      PROVE  FlagInv'
  <2>1. /\ Store(e, flag) /\ present' \in SUBSET Entries /\ e \in present' /\ present \subseteq present'
        /\ flagCalls' \in 0 .. MaxFlagCalls
    BY <1>1 DEF CreateEntry, UpdateEntry
  <2>2. CASE flag
    BY <2>1, <2>2, CrossedSetters DEF Store, AtMostOnePreferred
  <2>3. CASE ~ flag
    BY <2>1, <2>3 DEF Store, AtMostOnePreferred
  <2> QED BY <2>2, <2>3
<1>2. ASSUME NEW e \in Entries, DeleteEntry(e) PROVE FlagInv'
  BY <1>2 DEF DeleteEntry, AtMostOnePreferred
<1>3. ASSUME NEW u \in Editors, NEW e \in Entries, BeginSet(u, e) PROVE FlagInv'
  BY <1>3, SettersDiffer DEF BeginSet, AtMostOnePreferred, Setters
<1>4. ASSUME NEW u \in Editors, StartClear(u) PROVE FlagInv'
  <2>1. setter[u] \in Setters
    BY <1>4 DEF StartClear, NoSetter
  <2> DEFINE w == [setter[u] EXCEPT !.state = "clearing", !.locks = preferred]
  <2>2. setter' = [setter EXCEPT ![u] = w]
    BY <1>4 DEF StartClear
  <2>3. w \in Setters /\ w.locks = preferred
    BY <2>1 DEF Setters
  <2> QED BY <1>4, <2>2, <2>3 DEF StartClear, AtMostOnePreferred
<1>5. ASSUME NEW u \in Editors, ClearOthers(u) PROVE FlagInv'
  <2>1. setter[u] \in Setters /\ setter[u].state = "clearing"
    BY <1>5 DEF ClearOthers, NoSetter
  <2> DEFINE w == [setter[u] EXCEPT !.state = "cleared", !.locks = setter[u].locks \cap preferred]
  <2>2. setter' = [setter EXCEPT ![u] = w]
    BY <1>5 DEF ClearOthers
  <2>3. w \in Setters /\ w.locks = setter[u].locks \cap preferred /\ w.fresh = setter[u].fresh
    BY <2>1 DEF Setters
  <2> QED BY <1>5, <2>1, <2>2, <2>3, SettersDiffer DEF ClearOthers, AtMostOnePreferred
<1>6. ASSUME NEW u \in Editors, CommitSet(u) PROVE FlagInv'
  <2>1. setter[u] \in Setters /\ setter[u].state = "cleared" /\ setter[u].entry \in Entries
    BY <1>6 DEF CommitSet, NoSetter, Setters
  <2>2. CASE setter[u].entry \in present
    <3>1. /\ preferred' = (preferred \ setter[u].locks) \cup {setter[u].entry}
          /\ contested' = ~ setter[u].fresh
          /\ setter' = [Crossed EXCEPT ![u] = NoSetter]
          /\ UNCHANGED <<present, flagCalls>>
      BY <1>6, <2>2 DEF CommitSet
    <3>2. /\ setter' \in [Editors -> Setters \cup {NoSetter}]
          /\ \A v \in Editors : setter'[v] = NoSetter \/ ~ setter'[v].fresh
      BY <3>1, CrossedSetters
    <3>3. AtMostOnePreferred'
      BY <2>1, <3>1, SettersDiffer DEF AtMostOnePreferred
    <3>4. preferred' \in SUBSET present' /\ contested' \in BOOLEAN
      BY <2>2, <3>1
    <3> QED BY <3>1, <3>2, <3>3, <3>4
  <2>3. CASE setter[u].entry \notin present
    BY <1>6, <2>3 DEF CommitSet, AtMostOnePreferred
  <2> QED BY <2>2, <2>3
<1>7. CASE UNCHANGED flagVars
  BY <1>7 DEF flagVars, AtMostOnePreferred
<1> QED BY <1>1, <1>2, <1>3, <1>4, <1>5, <1>6, <1>7 DEF FlagNext, SetStep

\* At most one entry is preferred while flags are set by setters that do not cross,
\* and one that nothing crosses repairs what else has set (set_primary_supplier_-
\* bank_account, set_default_supplier_address), for any entries and editors.
THEOREM OnePreferred == FlagSpec => []AtMostOnePreferred
<1>1. FlagInit => FlagInv
  <2> SUFFICES ASSUME FlagInit PROVE FlagInv
    OBVIOUS
  <2>1. flagCalls \in 0 .. MaxFlagCalls
    BY FlagAssumption, SMT DEF FlagInit
  <2>2. setter \in [Editors -> Setters \cup {NoSetter}]
    BY DEF FlagInit
  <2>3. \A u \in Editors : setter[u] = NoSetter
    BY DEF FlagInit
  <2>4. AtMostOnePreferred
    BY DEF FlagInit, AtMostOnePreferred
  <2>5. FlagTypeOK
    BY <2>1, <2>2 DEF FlagInit, FlagTypeOK
  <2> QED BY <2>3, <2>4, <2>5 DEF FlagInv
<1>2. FlagInv => AtMostOnePreferred
  BY DEF FlagInv
<1> QED BY <1>1, <1>2, FlagStep, PTL DEF FlagSpec

----------------------------------------------------------------------------
(***************************************************************************)
(* Sourcing events: the award and the bids agree.                            *)
(***************************************************************************)

(***************************************************************************)
(* Sourcing events                                                          *)
(***************************************************************************)
LEMMA ReadsIsTask ==
  ASSUME SourcingTypeOK, NEW kind \in {"award", "evaluate", "status"}, NEW b \in Bids \cup {NoBid},
         NEW to \in Statuses
  PROVE  Reads(kind, b, to) \in Tasks
BY DEF Reads, Tasks, SourcingTypeOK

LEMMA NextStatuses == \A a \in DOMAIN NextStatus : NextStatus[a] \in Statuses
BY DEF Statuses

\* An award and an evaluation are about a bid.
Aimed(t) == t.kind # "status" => t.for \in Bids

LEMMA SourcingTypeStep ==
  ASSUME SourcingTypeOK, \A u \in Buyers : task[u] # NoTask => Aimed(task[u]),
         [SourcingNext]_sourcingVars
  PROVE  SourcingTypeOK'
<1> USE SourcingAssumption
<1>1. ASSUME NEW b \in Bids, SubmitResponse(b) PROVE SourcingTypeOK'
  BY <1>1 DEF SubmitResponse, Sourced, SourcingTypeOK, BidStates
<1>2. ASSUME NEW u \in Buyers, NEW b \in Bids, BeginAward(u, b) \/ BeginEvaluate(u, b)
      PROVE  SourcingTypeOK'
  <2>1. "awarded" \in Statuses /\ event.status \in Statuses
    BY DEF Statuses, SourcingTypeOK
  <2>2. Reads("award", b, "awarded") \in Tasks /\ Reads("evaluate", b, event.status) \in Tasks
    BY <2>1, ReadsIsTask
  <2> QED BY <1>2, <2>2 DEF BeginAward, BeginEvaluate, Sourced, SourcingTypeOK
<1>3. ASSUME NEW u \in Buyers, ListResponses(u) PROVE SourcingTypeOK'
  <2>1. task[u] \in Tasks
    BY <1>3 DEF ListResponses, SourcingTypeOK, NoTask
  <2> DEFINE newlyListed == [b \in Bids |-> IF bid[b] = "none" \/ task[u].read[b] = "none"
                                       THEN bid[b] ELSE task[u].read[b]]
  <2>2. newlyListed \in [Bids -> BidStates]
    BY <2>1 DEF Tasks, SourcingTypeOK
  <2>3. [task[u] EXCEPT !.kind = "listed", !.read = newlyListed] \in Tasks
    BY <2>1, <2>2 DEF Tasks
  <2>4. task' = [task EXCEPT ![u] = [task[u] EXCEPT !.kind = "listed", !.read = newlyListed]]
    BY <1>3 DEF ListResponses, SourcingTypeOK
  <2> HIDE DEF newlyListed
  <2>5. task' \in [Buyers -> Tasks \cup {NoTask}]
    BY <2>3, <2>4 DEF SourcingTypeOK
  <2> QED BY <1>3, <2>5 DEF ListResponses, SourcingTypeOK
<1>4. ASSUME NEW u \in Buyers, CommitAward(u) PROVE SourcingTypeOK'
  <2>1. task[u] \in Tasks /\ task[u].for \in Bids
    BY <1>4 DEF CommitAward, SourcingTypeOK, NoTask, Aimed
  <2>2. CASE AwardFails(task[u])
    BY <1>4, <2>2 DEF CommitAward, SourcingTypeOK
  <2>3. CASE ~ AwardFails(task[u])
    <3>1. task[u].for \in Bids /\ BidderOf[task[u].for] \in Bidders
      BY <2>1
    <3>2. bid' \in [Bids -> BidStates]
      BY <1>4, <2>1, <2>3 DEF CommitAward, Written, Verdict, BidStates, SourcingTypeOK
    <3>3. event' \in [status : Statuses, bid : Bids \cup {NoBid}, supplier : Bidders \cup {NoBidder}]
      BY <1>4, <2>1, <2>3, <3>1 DEF CommitAward, AwardedEvent, Written, SourcingTypeOK, Statuses
    <3>4. task' \in [Buyers -> Tasks \cup {NoTask}]
      <4>1. \A t \in Tasks : [t EXCEPT !.fresh = FALSE] \in Tasks
        BY DEF Tasks
      <4>2. task' = Overtaken(u)
        BY <1>4, <2>3 DEF CommitAward
      <4> QED BY <4>1, <4>2 DEF Overtaken, SourcingTypeOK
    <3>5. late' \in SUBSET Bids /\ misaward' \in BOOLEAN /\ UNCHANGED <<bidders, sourced>>
      BY <1>4, <2>1, <2>3 DEF CommitAward, Placed, SourcingTypeOK, Tasks
    <3> QED BY <3>2, <3>3, <3>4, <3>5 DEF SourcingTypeOK
  <2> QED BY <2>2, <2>3
<1>5. ASSUME NEW u \in Buyers, CommitEvaluate(u) PROVE SourcingTypeOK'
  <2>1. task[u] \in Tasks
    BY <1>5 DEF CommitEvaluate, SourcingTypeOK, NoTask
  <2> QED BY <1>5, <2>1 DEF CommitEvaluate, SourcingTypeOK, BidStates, Tasks
<1>6. ASSUME NEW u \in Buyers, CommitStatus(u) PROVE SourcingTypeOK'
  <2>1. task[u] \in Tasks
    BY <1>6 DEF CommitStatus, SourcingTypeOK, NoTask
  <2> QED BY <1>6, <2>1 DEF CommitStatus, SourcingTypeOK, Written, Tasks
<1>7. ASSUME NEW u \in Buyers, NEW to \in Statuses, BeginStatus(u, to) PROVE SourcingTypeOK'
  BY <1>7, ReadsIsTask DEF BeginStatus, Sourced, SourcingTypeOK
<1>8. ASSUME NEW s \in Bidders, DeleteBidder(s) PROVE SourcingTypeOK'
  BY <1>8 DEF DeleteBidder, Sourced, SourcingTypeOK, BidStates
<1>9. CASE UNCHANGED sourcingVars
  BY <1>9 DEF sourcingVars, SourcingTypeOK
<1>10. \A s \in EventStates : s \in Statuses
  BY DEF Statuses
<1> QED BY <1>1, <1>2, <1>3, <1>4, <1>5, <1>6, <1>7, <1>8, <1>9, <1>10, NextStatuses
        DEF SourcingNext, TransitionEvent, UpdateEvent

LEMMA SourcingTypeInit == SourcingInit => SourcingTypeOK
<1> SUFFICES ASSUME SourcingInit PROVE SourcingTypeOK
  OBVIOUS
<1>1. "draft" \in Statuses /\ "none" \in BidStates
  BY DEF Statuses, BidStates
<1>2. task \in [Buyers -> Tasks \cup {NoTask}]
  BY DEF SourcingInit
<1>3. /\ event \in [status : Statuses, bid : Bids \cup {NoBid}, supplier : Bidders \cup {NoBidder}]
      /\ bid \in [Bids -> BidStates] /\ bidders \in SUBSET Bidders
  BY <1>1 DEF SourcingInit
<1>4. sourced \in 0 .. MaxSourcingCalls /\ late \in SUBSET Bids /\ misaward \in BOOLEAN
  <2>1. sourced = 0 /\ late = {} /\ misaward = FALSE
    BY DEF SourcingInit
  <2>2. MaxSourcingCalls \in Nat
    BY SourcingAssumption
  <2>3. 0 \in 0 .. MaxSourcingCalls
    BY <2>2
  <2> QED BY <2>1, <2>3
<1> QED BY <1>2, <1>3, <1>4 DEF SourcingTypeOK

Undecided(status) == status \in {"submitted", "shortlisted"}

\* What a request read that no award has overtaken: the event's winner, and of
\* every bid that is still there whether it was decided, and how.
Knows(t) ==
  /\ t.event.bid = event.bid
  /\ t.event.supplier = event.supplier \/ event.supplier = NoBidder
  /\ \A b \in Placed :
       \/ bid[b] = t.read[b]
       \/ Undecided(bid[b]) /\ (t.read[b] = "none" \/ Undecided(t.read[b]))

\* A bid goes with its supplier, and comes back with neither.
Stays(t) ==
  /\ \A b \in Bids : t.read[b] # "none" /\ BidderOf[b] \in bidders => b \in Placed
  /\ Aimed(t)
  /\ t.kind # "status" /\ BidderOf[t.for] \in bidders => t.read[t.for] # "none"

SourcingInv ==
  /\ SourcingTypeOK
  /\ \A b \in Placed : BidderOf[b] \in bidders
  /\ event.bid # NoBid /\ BidderOf[event.bid] \in bidders => event.bid \in Placed
  /\ \A u \in Buyers : task[u] # NoTask => Stays(task[u])
  /\ ~ misaward => \A u \in Buyers : task[u] # NoTask /\ task[u].fresh => Knows(task[u])
  /\ AwardAgrees

LEMMA SourcingStep == SourcingInv /\ [SourcingNext]_sourcingVars => SourcingInv'
<1> SUFFICES ASSUME SourcingInv, [SourcingNext]_sourcingVars PROVE SourcingInv'
  OBVIOUS
<1> USE SourcingAssumption
<1>0. SourcingTypeOK /\ SourcingTypeOK'
  BY SourcingTypeStep DEF SourcingInv, Stays
<1> DEFINE Parts == /\ \A b \in Placed : BidderOf[b] \in bidders
                    /\ event.bid # NoBid /\ BidderOf[event.bid] \in bidders => event.bid \in Placed
                    /\ \A u \in Buyers : task[u] # NoTask => Stays(task[u])
                    /\ ~ misaward => \A u \in Buyers : task[u] # NoTask /\ task[u].fresh => Knows(task[u])
                    /\ AwardAgrees
<1>1. ASSUME NEW b \in Bids, SubmitResponse(b) PROVE Parts'
  <2>1. /\ bid[b] = "none" /\ bid' = [bid EXCEPT ![b] = "submitted"]
        /\ BidderOf[b] \in bidders /\ late' = late \cup {b}
        /\ UNCHANGED <<event, bidders, task, misaward>>
    BY <1>1 DEF SubmitResponse
  <2>2. Placed' = Placed \cup {b} /\ b \notin Placed
    BY <1>0, <2>1 DEF Placed, SourcingTypeOK
  <2>3. \A u \in Buyers : task[u] # NoTask => Stays(task[u])'
    BY <2>1, <2>2 DEF SourcingInv, Stays, Aimed
  <2>4. \A u \in Buyers : task[u] # NoTask => task[u].read[b] = "none"
    BY <2>1, <2>2 DEF SourcingInv, Stays
  <2>5. ASSUME NEW u \in Buyers, task[u] # NoTask, Knows(task[u]) PROVE Knows(task[u])'
    BY <1>0, <2>1, <2>2, <2>4, <2>5 DEF Knows, Undecided, SourcingTypeOK
  <2>6. event.bid # b
    BY <2>1, <2>2 DEF SourcingInv
  <2>7. AwardAgrees'
    BY <1>0, <2>1, <2>2, <2>6
       DEF SourcingInv, AwardAgrees, OneWinner, EveryBidIsAnswered, WinnersSupplier, SourcingTypeOK
  <2> QED BY <2>1, <2>2, <2>3, <2>5, <2>7 DEF SourcingInv
<1>2. ASSUME NEW u \in Buyers, NEW kind \in {"award", "evaluate", "status"},
             NEW b \in Bids \cup {NoBid}, NEW to \in Statuses,
             kind # "status" => b \in Placed,
             task' = [task EXCEPT ![u] = Reads(kind, b, to)],
             UNCHANGED <<event, bid, bidders, late, misaward>>
      PROVE  Parts'
  <2>1. Reads(kind, b, to) \in Tasks /\ Placed' = Placed
    BY <1>0, <1>2, ReadsIsTask DEF Placed
  <2>2. \A v \in Buyers : task'[v] = IF v = u THEN Reads(kind, b, to) ELSE task[v]
    BY <1>0, <1>2 DEF SourcingTypeOK
  <2>3. Stays(Reads(kind, b, to)) /\ Knows(Reads(kind, b, to))
    BY <1>2 DEF Stays, Aimed, Knows, Reads, Placed
  <2>4. \A v \in Buyers : /\ (task'[v] # NoTask => Stays(task'[v]))
                          /\ (~ misaward => (task'[v] # NoTask /\ task'[v].fresh => Knows(task'[v])))
    BY <2>2, <2>3 DEF SourcingInv
  <2>5. \A t : Stays(t)' <=> Stays(t)
    BY <1>2, <2>1 DEF Stays
  <2>6. \A t : Knows(t)' <=> Knows(t)
    BY <1>2, <2>1 DEF Knows
  <2>7. AwardAgrees'
    BY <1>2, <2>1 DEF SourcingInv, AwardAgrees, OneWinner, EveryBidIsAnswered, WinnersSupplier
  <2> QED BY <1>2, <2>1, <2>4, <2>5, <2>6, <2>7 DEF SourcingInv, Stays, Knows
<1>3. ASSUME NEW u \in Buyers, ListResponses(u) PROVE Parts'
  <2> DEFINE t == task[u]
             s == task'[u]
  <2>1. /\ t \in Tasks /\ t.kind = "award" /\ t # NoTask /\ s # NoTask
        /\ s.kind = "listed" /\ s.for = t.for /\ s.event = t.event /\ s.fresh = t.fresh
        /\ s.read = [b \in Bids |-> IF bid[b] = "none" \/ t.read[b] = "none"
                                    THEN bid[b] ELSE t.read[b]]
        /\ \A v \in Buyers \ {u} : task'[v] = task[v]
        /\ UNCHANGED <<event, bid, bidders, late, misaward>>
    <3>1. t \in Tasks /\ t.kind = "award" /\ t # NoTask
      BY <1>0, <1>3 DEF ListResponses, SourcingTypeOK, NoTask
    <3>2. s = [t EXCEPT !.kind = "listed", !.read = [b \in Bids |->
                 IF bid[b] = "none" \/ t.read[b] = "none" THEN bid[b] ELSE t.read[b]]]
      BY <1>0, <1>3 DEF ListResponses, SourcingTypeOK
    <3>3. \A v \in Buyers \ {u} : task'[v] = task[v]
      BY <1>0, <1>3 DEF ListResponses, SourcingTypeOK
    <3> HIDE DEF t, s
    <3>4. /\ s.kind = "listed" /\ s.for = t.for /\ s.event = t.event /\ s.fresh = t.fresh
          /\ s.read = [b \in Bids |-> IF bid[b] = "none" \/ t.read[b] = "none"
                                      THEN bid[b] ELSE t.read[b]]
      BY <3>1, <3>2 DEF Tasks
    <3>5. s # NoTask
      BY <3>4 DEF NoTask
    <3> QED BY <1>3, <3>1, <3>3, <3>4, <3>5 DEF ListResponses
  <2>2. Placed' = Placed
    BY <2>1 DEF Placed
  <2> HIDE DEF t, s
  <2>3. Stays(s)
    BY <2>1 DEF SourcingInv, Stays, Aimed, Placed, t
  <2>4. ASSUME Knows(t) PROVE Knows(s)
    BY <2>1, <2>4 DEF Knows, Placed
  <2>5. \A r : /\ Stays(r)' <=> Stays(r)
               /\ Knows(r)' <=> Knows(r)
    BY <2>1, <2>2 DEF Stays, Knows
  <2>6. \A v \in Buyers : task'[v] # NoTask => Stays(task'[v])
    BY <2>1, <2>3 DEF SourcingInv, s
  <2>7. ~ misaward => \A v \in Buyers : task'[v] # NoTask /\ task'[v].fresh => Knows(task'[v])
    BY <2>1, <2>4 DEF SourcingInv, s, t
  <2>8. AwardAgrees'
    BY <2>1, <2>2 DEF SourcingInv, AwardAgrees, OneWinner, EveryBidIsAnswered, WinnersSupplier
  <2> QED BY <2>1, <2>2, <2>5, <2>6, <2>7, <2>8 DEF SourcingInv, Stays, Knows
<1>4. ASSUME NEW u \in Buyers, task' = [task EXCEPT ![u] = NoTask],
             UNCHANGED <<bid, bidders, late, misaward>>,
             event' \in [status : Statuses, bid : Bids \cup {NoBid}, supplier : Bidders \cup {NoBidder}],
             event'.bid = event.bid, event'.supplier = event.supplier
      PROVE  Parts'
  <2>1. Placed' = Placed /\ \A v \in Buyers : task'[v] = IF v = u THEN NoTask ELSE task[v]
    BY <1>0, <1>4 DEF Placed, SourcingTypeOK
  <2>2. \A r : /\ Stays(r)' <=> Stays(r)
               /\ Knows(r)' <=> Knows(r)
    BY <1>4, <2>1 DEF Stays, Knows
  <2>3. AwardAgrees'
    BY <1>4, <2>1 DEF SourcingInv, AwardAgrees, OneWinner, EveryBidIsAnswered, WinnersSupplier
  <2> QED BY <1>4, <2>1, <2>2, <2>3 DEF SourcingInv, Stays, Knows
<1>5. ASSUME NEW u \in Buyers, CommitAward(u), ~ AwardFails(task[u]) PROVE Parts'
  <2>0. PICK t : t = task[u]
    OBVIOUS
  <2>1. /\ t \in Tasks /\ t # NoTask /\ t.kind = "listed" /\ Stays(t)
        /\ t.for \in Bids /\ t.read[t.for] # "none"
        /\ BidderOf[t.for] \in bidders /\ t.for \in Placed
    BY <1>0, <1>5, <2>0 DEF CommitAward, SourcingTypeOK, NoTask, SourcingInv, Stays, Aimed, AwardFails
  <2>2. /\ bid' = [b \in Bids |-> IF t.read[b] = "none" THEN bid[b]
                                  ELSE Written(t.read[b], Verdict(t, b), bid[b])]
        /\ event' = AwardedEvent(t) /\ late' = {b \in Placed : t.read[b] = "none"}
        /\ misaward' = (misaward \/ ~ t.fresh) /\ task' = Overtaken(u)
        /\ UNCHANGED bidders
    BY <1>5, <2>0 DEF CommitAward
  <2>3. \A b \in Bids : (t.read[b] \notin {"none", Verdict(t, b)}) => bid[b] # "none"
    BY <1>5, <2>0 DEF AwardFails
  <2>4. Placed' = Placed
    BY <2>2, <2>3 DEF Placed, Written, Verdict
  <2>5. \A r : Stays(r)' <=> Stays(r)
    BY <2>2, <2>4 DEF Stays
  <2>6. \A v \in Buyers : task'[v] # NoTask => /\ task[v] # NoTask /\ task[v] \in Tasks
                                             /\ task'[v] = [task[v] EXCEPT !.fresh = FALSE]
    BY <1>0, <2>2 DEF Overtaken, SourcingTypeOK
  <2>7. \A v \in Buyers : task'[v] # NoTask => Stays(task'[v]) /\ ~ task'[v].fresh
    BY <2>6 DEF Tasks, SourcingInv, Stays, Aimed
  <2>8. event'.bid # NoBid /\ BidderOf[event'.bid] \in bidders => event'.bid \in Placed
    BY <2>1, <2>2 DEF AwardedEvent, Written, SourcingInv
  <2>9. ASSUME ~ misaward' PROVE AwardAgrees'
    <3>1. ~ misaward /\ Knows(t)
      BY <1>0, <2>0, <2>1, <2>2, <2>9 DEF SourcingInv, SourcingTypeOK
    <3>2. event'.bid = t.for /\ t.for # NoBid
      BY <2>1, <2>2, <3>1 DEF AwardedEvent, Written, Knows
    <3>3. event'.supplier \in {BidderOf[t.for], NoBidder}
      BY <2>2, <3>1 DEF AwardedEvent, Written, Knows
    <3>4. ASSUME NEW b \in Placed, t.read[b] # "none" PROVE bid'[b] = Verdict(t, b)
      <4>1. b \in Bids /\ bid'[b] = Written(t.read[b], Verdict(t, b), bid[b])
        BY <2>2, <3>4 DEF Placed
      <4>2. t.read[b] = Verdict(t, b) => bid[b] = t.read[b]
        BY <3>1, <3>4 DEF Knows, Verdict, Undecided
      <4> QED BY <4>1, <4>2 DEF Written
    <3>5. ASSUME NEW b \in Placed, t.read[b] = "none" PROVE bid'[b] # "awarded" /\ b # t.for
      <4>1. b \in Bids /\ bid'[b] = bid[b] /\ bid[b] # "none"
        BY <2>2, <3>5 DEF Placed
      <4> QED BY <2>1, <3>1, <3>5, <4>1 DEF Knows, Undecided
    <3>6. OneWinner'
      BY <2>4, <3>2, <3>4, <3>5 DEF OneWinner, Verdict
    <3>7. EveryBidIsAnswered'
      BY <2>2, <2>4, <3>4 DEF EveryBidIsAnswered, Verdict
    <3>8. WinnersSupplier'
      BY <3>2, <3>3 DEF WinnersSupplier
    <3> QED BY <3>6, <3>7, <3>8 DEF AwardAgrees
  <2>10. misaward' => AwardAgrees'
    BY DEF AwardAgrees, OneWinner, EveryBidIsAnswered, WinnersSupplier
  <2> QED BY <2>2, <2>4, <2>5, <2>7, <2>8, <2>9, <2>10 DEF SourcingInv, Stays
<1>6. ASSUME NEW u \in Buyers, CommitEvaluate(u) PROVE Parts'
  <2>0. PICK t : t = task[u]
    OBVIOUS
  <2>1. t \in Tasks /\ t # NoTask /\ t.kind = "evaluate" /\ Stays(t) /\ t.for \in Bids
    BY <1>0, <1>6, <2>0 DEF CommitEvaluate, SourcingTypeOK, NoTask, SourcingInv, Stays, Aimed
  <2>2. CASE ~ (t.read[t.for] = "submitted" /\ bid[t.for] # "none")
    <3>1. /\ task' = [task EXCEPT ![u] = NoTask] /\ misaward' = misaward
          /\ UNCHANGED <<event, bid, bidders, late>>
      BY <1>0, <1>6, <2>0, <2>2 DEF CommitEvaluate, SourcingTypeOK
    <3> QED BY <1>0, <1>4, <3>1 DEF SourcingTypeOK
  <2>3. CASE t.read[t.for] = "submitted" /\ bid[t.for] # "none"
    <3>1. /\ task' = [task EXCEPT ![u] = NoTask] /\ misaward' = (misaward \/ ~ t.fresh)
          /\ bid' = [bid EXCEPT ![t.for] = "shortlisted"]
          /\ UNCHANGED <<event, bidders, late>>
      BY <1>6, <2>0, <2>3 DEF CommitEvaluate
    <3>2. Placed' = Placed
      BY <1>0, <2>1, <2>3, <3>1 DEF Placed, SourcingTypeOK
    <3>3. \A v \in Buyers : task'[v] = IF v = u THEN NoTask ELSE task[v]
      BY <1>0, <3>1 DEF SourcingTypeOK
    <3>4. \A r : Stays(r)' <=> Stays(r)
      BY <3>1, <3>2 DEF Stays
    <3>5. ASSUME ~ misaward' PROVE ~ misaward /\ Undecided(bid[t.for]) /\ t.for \in Placed
      <4>1. ~ misaward /\ Knows(t) /\ t.for \in Placed
        BY <1>0, <2>0, <2>1, <2>3, <3>1, <3>5 DEF SourcingInv, SourcingTypeOK, Placed
      <4> QED BY <2>3, <4>1 DEF Knows, Undecided
    <3>6. ASSUME ~ misaward', NEW v \in Buyers, task'[v] # NoTask, task'[v].fresh
          PROVE  Knows(task[v])'
      <4>1. Knows(task[v]) /\ task'[v] = task[v]
        BY <3>3, <3>5, <3>6 DEF SourcingInv
      <4>2. bid'[t.for] = "shortlisted" /\ \A b \in Bids \ {t.for} : bid'[b] = bid[b]
        BY <1>0, <2>1, <3>1 DEF SourcingTypeOK
      <4>3. Placed \subseteq Bids
        BY DEF Placed
      <4>4. ASSUME NEW b \in Placed
            PROVE  \/ bid'[b] = task[v].read[b]
                   \/ Undecided(bid'[b]) /\ (task[v].read[b] = "none" \/ Undecided(task[v].read[b]))
        <5>1. CASE b = t.for
          <6>1. Undecided(bid[b]) /\ Undecided(bid'[b])
            BY <3>5, <3>6, <4>2, <5>1 DEF Undecided
          <6> QED BY <4>1, <6>1 DEF Knows, Undecided
        <5>2. CASE b # t.for
          BY <4>1, <4>2, <4>3, <5>2 DEF Knows
        <5> QED BY <5>1, <5>2
      <4> QED BY <3>1, <3>2, <4>1, <4>4 DEF Knows
    <3>7. AwardAgrees'
      <4>1. CASE misaward'
        BY <4>1 DEF AwardAgrees, OneWinner, EveryBidIsAnswered, WinnersSupplier
      <4>2. CASE ~ misaward'
        BY <1>0, <2>1, <3>1, <3>2, <3>5, <4>2
           DEF SourcingInv, AwardAgrees, OneWinner, EveryBidIsAnswered, WinnersSupplier, Undecided,
               SourcingTypeOK
      <4> QED BY <4>1, <4>2
    <3>8. \A b \in Placed' : BidderOf[b] \in bidders'
      BY <3>1, <3>2 DEF SourcingInv
    <3>9. (event.bid # NoBid /\ BidderOf[event.bid] \in bidders => event.bid \in Placed)'
      BY <3>1, <3>2 DEF SourcingInv
    <3>10. \A v \in Buyers : task'[v] # NoTask => Stays(task[v])'
      BY <3>3, <3>4 DEF SourcingInv
    <3> QED BY <3>6, <3>7, <3>8, <3>9, <3>10
  <2> QED BY <2>2, <2>3
<1>7. ASSUME NEW u \in Buyers, CommitStatus(u) PROVE Parts'
  <2>1. /\ task' = [task EXCEPT ![u] = NoTask] /\ UNCHANGED <<bid, bidders, late, misaward>>
        /\ event'.bid = event.bid /\ event'.supplier = event.supplier
    BY <1>0, <1>7 DEF CommitStatus, SourcingTypeOK
  <2> QED BY <1>0, <1>4, <2>1 DEF SourcingTypeOK
<1>8. ASSUME NEW s \in Bidders, DeleteBidder(s) PROVE Parts'
  <2>1. /\ bidders' = bidders \ {s} /\ UNCHANGED <<task, late, misaward>>
        /\ bid' = [b \in Bids |-> IF BidderOf[b] = s THEN "none" ELSE bid[b]]
        /\ event'.bid = event.bid
        /\ event'.supplier = IF event.supplier = s THEN NoBidder ELSE event.supplier
    BY <1>0, <1>8 DEF DeleteBidder, SourcingTypeOK
  <2>2. Placed' = {b \in Placed : BidderOf[b] # s}
    BY <2>1 DEF Placed
  <2>3. \A b \in Placed' : bid'[b] = bid[b] /\ BidderOf[b] \in bidders'
    BY <2>1, <2>2 DEF Placed, SourcingInv
  <2>4. event.bid # NoBid /\ BidderOf[event.bid] \in bidders' => event.bid \in Placed'
    BY <2>1, <2>2 DEF SourcingInv
  <2>5. \A u \in Buyers : task[u] # NoTask => Stays(task[u])'
    BY <2>1, <2>2 DEF SourcingInv, Stays, Aimed
  <2>6. \A r : Knows(r) => Knows(r)'
    BY <2>1, <2>2, <2>3 DEF Knows
  <2>7. AwardAgrees'
    BY <2>1, <2>2, <2>3 DEF SourcingInv, AwardAgrees, OneWinner, EveryBidIsAnswered, WinnersSupplier
  <2> QED BY <2>1, <2>3, <2>4, <2>5, <2>6, <2>7 DEF SourcingInv
<1>9. ASSUME UNCHANGED sourcingVars PROVE Parts'
  <2>1. UNCHANGED <<event, bid, bidders, task, late, misaward>> /\ Placed' = Placed
    BY <1>9 DEF sourcingVars, Placed
  <2>2. \A r : (Stays(r)' <=> Stays(r)) /\ (Knows(r)' <=> Knows(r))
    BY <2>1 DEF Stays, Knows
  <2>3. AwardAgrees'
    BY <2>1 DEF SourcingInv, AwardAgrees, OneWinner, EveryBidIsAnswered, WinnersSupplier
  <2> QED BY <2>1, <2>2, <2>3 DEF SourcingInv
<1>10. ASSUME SourcingNext PROVE Parts'
  <2>1. ASSUME NEW u \in Buyers, NEW b \in Bids, BeginAward(u, b) \/ BeginEvaluate(u, b)
        PROVE  Parts'
    <3>1. "awarded" \in Statuses /\ event.status \in Statuses
      BY <1>0 DEF Statuses, SourcingTypeOK
    <3>2. CASE BeginAward(u, b)
      BY <1>2, <3>1, <3>2 DEF BeginAward
    <3>3. CASE BeginEvaluate(u, b)
      BY <1>2, <3>1, <3>3 DEF BeginEvaluate
    <3> QED BY <2>1, <3>2, <3>3
  <2>2. ASSUME NEW u \in Buyers, NEW to \in Statuses, BeginStatus(u, to) PROVE Parts'
    BY <1>2, <2>2 DEF BeginStatus
  <2>3. ASSUME NEW u \in Buyers, CommitAward(u) PROVE Parts'
    <3>1. CASE AwardFails(task[u])
      <4>1. /\ task' = [task EXCEPT ![u] = NoTask] /\ UNCHANGED <<event, bid, bidders, late, misaward>>
        BY <2>3, <3>1 DEF CommitAward
      <4> QED BY <1>0, <1>4, <4>1 DEF SourcingTypeOK
    <3> QED BY <1>5, <2>3, <3>1
  <2>4. \A s \in EventStates : s \in Statuses
    BY DEF Statuses
  <2> HIDE DEF Parts
  <2> QED BY <1>1, <1>3, <1>6, <1>7, <1>8, <1>10, <2>1, <2>2, <2>3, <2>4, NextStatuses
          DEF SourcingNext, TransitionEvent, UpdateEvent
<1> HIDE DEF Parts
<1>11. Parts'
  BY <1>9, <1>10
<1> QED BY <1>0, <1>11 DEF SourcingInv, Parts

LEMMA SourcingInvariant == SourcingSpec => []SourcingInv
<1>1. SourcingInit => SourcingInv
  BY SourcingTypeInit
     DEF SourcingInit, SourcingInv, Placed, AwardAgrees, OneWinner, EveryBidIsAnswered, WinnersSupplier
<1> QED BY <1>1, SourcingStep, PTL DEF SourcingSpec

\* The type invariant holds of every reachable state.
THEOREM SourcingTypeCorrect == SourcingSpec => []SourcingTypeOK
<1>1. SourcingInv => SourcingTypeOK
  BY DEF SourcingInv
<1> QED BY <1>1, SourcingInvariant, PTL

\* One winner, the others answered, the winner's supplier on the event, however
\* often it is awarded again and whoever evaluates, bids or leaves meanwhile
\* (award_sourcing_event, evaluate).
THEOREM AwardsAgree == SourcingSpec => []AwardAgrees
<1>1. SourcingInv => AwardAgrees
  BY DEF SourcingInv
<1> QED BY <1>1, SourcingInvariant, PTL

----------------------------------------------------------------------------
(***************************************************************************)
(* The preferred status of a supplier.                                       *)
(***************************************************************************)

\* A row has the columns of the table.
IsRow(r) ==
  r = [status |-> r.status, forced |-> r.forced, score |-> r.score, quality |-> r.quality,
       performance |-> r.performance, risk |-> r.risk, tier |-> r.tier, contract |-> r.contract]

\* The status of a row has its reason: the person's word, or the components.
HasReason(r, word) ==
  IF r.forced THEN r.status = word
  ELSE r.status = Classify(Components(r)) /\ r.score = Composite(Components(r))

LEMMA RecomputedRow ==
  ASSUME NEW old, NEW f, NEW new, new = Recomputed(old, f), old = NoRow \/ IsRow(old)
  PROVE  /\ IsRow(new)
         /\ (old # NoRow /\ old.forced) => new.forced /\ new.status = old.status
         /\ ~ (old # NoRow /\ old.forced) =>
              /\ ~ new.forced /\ new.status = Classify(Components(new))
              /\ new.score = Composite(Components(new))
<1>1. PICK in : in = Inputs(f)
  OBVIOUS
<1>2. PICK forced : forced = (old # NoRow /\ old.forced)
  OBVIOUS
<1>3. PICK status : status = IF forced THEN old.status ELSE Classify(in)
  OBVIOUS
<1>4. new = Scored(status, forced, Composite(in), in)
  BY <1>1, <1>2, <1>3 DEF Recomputed
<1>5. /\ new.status = status /\ new.forced = forced /\ new.score = Composite(in)
      /\ new.quality = in.quality /\ new.performance = in.performance /\ new.risk = in.risk
      /\ new.tier = in.tier /\ new.contract = in.contract
  BY <1>4 DEF Scored
<1>6. IsRow(new)
  BY <1>4 DEF Scored, IsRow
<1>7. in = [quality |-> in.quality, performance |-> in.performance, risk |-> in.risk,
            tier |-> in.tier, contract |-> in.contract]
  BY <1>1 DEF Inputs
<1>8. Components(new) = in
  BY <1>5, <1>7 DEF Components
<1> QED BY <1>2, <1>3, <1>5, <1>6, <1>8

\* The verdict written over a row: a forced status stays, another is worked out.
Rescored(old, new) ==
  /\ IsRow(new)
  /\ IF old # NoRow /\ old.forced THEN new.forced /\ new.status = old.status
     ELSE ~ new.forced /\ HasReason(new, Unknown)

LEMMA RecomputedIsRescored ==
  ASSUME NEW old, NEW f, old = NoRow \/ IsRow(old)
  PROVE  Rescored(old, Recomputed(old, f))
<1>1. PICK new : new = Recomputed(old, f)
  OBVIOUS
<1> QED BY <1>1, RecomputedRow DEF Rescored, HasReason

LEMMA OverriddenRow ==
  ASSUME NEW old, NEW target, old = NoRow \/ IsRow(old)
  PROVE  LET new == Overridden(old, target) IN IsRow(new) /\ new.forced /\ new.status = target
<1>1. CASE old = NoRow
  BY <1>1 DEF Overridden, Scored, IsRow
<1>2. CASE old # NoRow
  <2>1. IsRow(old)
    BY <1>2
  <2>2. Overridden(old, target) =
          [status |-> target, forced |-> TRUE, score |-> old.score, quality |-> old.quality,
           performance |-> old.performance, risk |-> old.risk, tier |-> old.tier, contract |-> old.contract]
    BY <1>2, <2>1 DEF Overridden, IsRow
  <2> QED BY <2>2 DEF IsRow
<1> QED BY <1>1, <1>2

Columns == {"status", "forced", "score", "quality", "performance", "risk", "tier", "contract"}

\* A function on the columns is a row.
LEMMA ColumnsMakeARow ==
  ASSUME NEW r, r = [c \in Columns |-> r[c]]
  PROVE  IsRow(r)
<1>2. DOMAIN r = Columns
  OBVIOUS
<1>3. PICK q : q = [status |-> r.status, forced |-> r.forced, score |-> r.score, quality |-> r.quality,
       performance |-> r.performance, risk |-> r.risk, tier |-> r.tier, contract |-> r.contract]
  OBVIOUS
<1>4. DOMAIN q = Columns
  BY <1>3 DEF Columns
<1>5. \A c \in Columns : q[c] = r[c]
  BY <1>3 DEF Columns
<1>7. q = [c \in Columns |-> q[c]]
  BY <1>3, <1>4
<1>8. q = r
  BY <1>5, <1>7
<1> QED BY <1>3, <1>8 DEF IsRow

LEMMA ColumnsOfARow ==
  ASSUME NEW r, IsRow(r)
  PROVE  r = [c \in Columns |-> r[c]]
<1>1. PICK q : q = [status |-> r.status, forced |-> r.forced, score |-> r.score, quality |-> r.quality,
       performance |-> r.performance, risk |-> r.risk, tier |-> r.tier, contract |-> r.contract]
  OBVIOUS
<1>2. DOMAIN q = Columns
  BY <1>1 DEF Columns
<1>3. q = [c \in DOMAIN q |-> q[c]]
  BY <1>1
<1>4. r = q
  BY <1>1 DEF IsRow
<1> QED BY <1>2, <1>3, <1>4

\* What is written of a row somebody else has not changed since is the new row;
\* whatever is written is a row.
LEMMA WrittenRow ==
  ASSUME NEW now, NEW old, NEW new, IsRow(new)
  PROVE  /\ IsRow(WrittenColumns(now, old, new))
         /\ now = old => WrittenColumns(now, old, new) = new
<1>1. CASE old = NoRow
  BY <1>1 DEF WrittenColumns
<1>2. CASE old # NoRow
  <2>1. new = [c \in Columns |-> new[c]]
    BY ColumnsOfARow
  <2>2. DOMAIN new = Columns
    BY <2>1
  <2>3. PICK w : w = [c \in Columns |-> IF new[c] = old[c] THEN now[c] ELSE new[c]]
    OBVIOUS
  <2>4. WrittenColumns(now, old, new) = w
    BY <1>2, <2>2, <2>3 DEF WrittenColumns
  <2>5. w = [c \in Columns |-> w[c]]
    BY <2>3
  <2>6. IsRow(w)
    BY <2>5, ColumnsMakeARow
  <2>7. ASSUME now = old PROVE w = new
    <3>1. \A c \in Columns : w[c] = new[c]
      BY <2>3, <2>7
    <3> QED BY <2>1, <2>5, <3>1
  <2> QED BY <2>4, <2>6, <2>7
<1> QED BY <1>1, <1>2

\* What a request in progress holds.
EntryKnows(e, wish) ==
  /\ e.read = NoRow \/ IsRow(e.read)
  /\ IF wish # Unknown THEN e.new = Overridden(e.read, wish) ELSE Rescored(e.read, e.new)

TrayKnows(t) ==
  /\ t.step \in {"all", "commit"} =>
       /\ DOMAIN t.rows \subseteq Rated
       /\ \A s \in DOMAIN t.rows :
            EntryKnows(t.rows[s], IF t.step = "commit" THEN t.override ELSE Unknown)
  /\ t.step = "baseline" => t.supplier \in Rated

RowsAndRequests ==
  /\ row = [s \in Rated |-> row[s]] /\ told = [s \in Rated |-> told[s]]
  /\ tray = [u \in Scorers |-> tray[u]]
  /\ \A s \in Rated : row[s] = NoRow \/ IsRow(row[s])
  /\ \A u \in Scorers : TrayKnows(tray[u])
  /\ \A r \in reviews : r.supplier \in Rated /\ r.target # Unknown

ReasonInv == RowsAndRequests /\ StatusHasItsReason

LEMMA ReasonsAre ==
  StatusHasItsReason <=> \A s \in Rated \ blurred : row[s] # NoRow => HasReason(row[s], told[s])
BY DEF StatusHasItsReason, HasReason

\* One supplier's row in a request.
LEMMA OneRow ==
  ASSUME NEW s, NEW new
  PROVE  DOMAIN ReadRow(s, new) = {s} /\ ReadRow(s, new)[s] = [read |-> row[s], new |-> new]
BY DEF ReadRow, ReadToo, NoneRead

\* Putting something in a tray.
LEMMA PutKeeps ==
  ASSUME RowsAndRequests, StatusHasItsReason, NEW u \in Scorers, NEW t, Puts(u, t), TrayKnows(t),
         UNCHANGED <<row, told, blurred>>, \A r \in reviews' : r.supplier \in Rated /\ r.target # Unknown
  PROVE  ReasonInv'
<1>1. tray' = [tray EXCEPT ![u] = t]
  BY DEF Puts
<1>2. tray' = [v \in Scorers |-> tray'[v]]
  BY <1>1 DEF RowsAndRequests
<1>3. \A v \in Scorers : tray'[v] = IF v = u THEN t ELSE tray[v]
  BY <1>1 DEF RowsAndRequests
<1>4. \A x : TrayKnows(x)' <=> TrayKnows(x)
  BY DEF TrayKnows, EntryKnows, Rescored, HasReason, IsRow, Overridden, Scored
<1>5. ASSUME NEW v \in Scorers PROVE TrayKnows(tray[v])'
  <2>1. PICK x : x = tray'[v]
    OBVIOUS
  <2>2. TrayKnows(x)
    BY <1>3, <2>1 DEF RowsAndRequests
  <2>3. TrayKnows(x)'
    BY <1>4, <2>2
  <2> QED BY <2>1, <2>3 DEF TrayKnows
<1>6. RowsAndRequests'
  <2>1. \A s \in Rated : (row[s] = NoRow \/ IsRow(row[s]))'
    BY DEF RowsAndRequests, IsRow
  <2>2. row' = [s \in Rated |-> row'[s]] /\ told' = [s \in Rated |-> told'[s]]
    BY DEF RowsAndRequests
  <2> QED BY <1>2, <1>5, <2>1, <2>2 DEF RowsAndRequests
<1>7. StatusHasItsReason'
  BY ReasonsAre DEF StatusHasItsReason
<1> QED BY <1>6, <1>7 DEF ReasonInv

\* A request that read one row and is about to write it.
LEMMA OneRowHeld ==
  ASSUME NEW s \in Rated, NEW new, NEW wish, NEW review,
         EntryKnows([read |-> row[s], new |-> new], wish)
  PROVE  TrayKnows(Holding(ReadRow(s, new), wish, review))
<1>1. PICK t : t = Holding(ReadRow(s, new), wish, review)
  OBVIOUS
<1>2. t.step = "commit" /\ t.rows = ReadRow(s, new) /\ t.override = wish
  BY <1>1 DEF Holding
<1>3. DOMAIN t.rows = {s} /\ t.rows[s] = [read |-> row[s], new |-> new]
  BY <1>2, OneRow
<1> QED BY <1>1, <1>2, <1>3 DEF TrayKnows

LEMMA NextRowHeld ==
  ASSUME RowsAndRequests, NEW u \in Scorers, NEW s \in Rated, RecomputeNext(u, s), StatusHasItsReason
  PROVE  ReasonInv'
<1>1. PICK new : new = Recomputed(row[s], facts[s])
  OBVIOUS
<1>2. PICK held : held = ReadToo(tray[u].rows, s, new)
  OBVIOUS
<1>3. PICK t : t = IF DOMAIN held = Rated THEN Holding(held, Unknown, {}) ELSE [step |-> "all", rows |-> held]
  OBVIOUS
<1>4. Puts(u, t) /\ tray[u].step = "all"
  BY <1>1, <1>2, <1>3 DEF RecomputeNext
<1>5. t.rows = held /\ t.step \in {"all", "commit"} /\ (t.step = "commit" => t.override = Unknown)
  BY <1>3 DEF Holding
<1>6. Rescored(row[s], new)
  BY <1>1, RecomputedIsRescored DEF RowsAndRequests
<1>7. EntryKnows([read |-> row[s], new |-> new], Unknown)
  BY <1>6 DEF EntryKnows, RowsAndRequests
<1>8. /\ DOMAIN held = DOMAIN tray[u].rows \cup {s}
      /\ \A x \in DOMAIN held : held[x] = IF x = s THEN [read |-> row[s], new |-> new] ELSE tray[u].rows[x]
  BY <1>2 DEF ReadToo
<1>9. DOMAIN tray[u].rows \subseteq Rated /\ \A x \in DOMAIN tray[u].rows : EntryKnows(tray[u].rows[x], Unknown)
  BY <1>4 DEF RowsAndRequests, TrayKnows
<1>10. t.step # "baseline"
  BY <1>5
<1>11. DOMAIN t.rows \subseteq Rated
  BY <1>5, <1>8, <1>9
<1>12. \A x \in DOMAIN t.rows : EntryKnows(t.rows[x], Unknown)
  BY <1>5, <1>7, <1>8, <1>9
<1>13. TrayKnows(t)
  BY <1>5, <1>10, <1>11, <1>12 DEF TrayKnows
<1> QED BY <1>4, <1>13, PutKeeps DEF RecomputeNext, RowsAndRequests

\* The commit: a row nobody has written since it was read gets what was worked
\* out from it; another one is marked.
LEMMA CommitKeepsReasons ==
  ASSUME RowsAndRequests, StatusHasItsReason, NEW u \in Scorers, Commit(u)
  PROVE  ReasonInv'
<1>1. PICK held : held = tray[u].rows
  OBVIOUS
<1>2. PICK wish : wish = tray[u].override
  OBVIOUS
<1>3. PICK shifted : shifted = {s \in DOMAIN held : row[s] # held[s].read}
  OBVIOUS
<1>4. /\ tray[u].step = "commit"
      /\ row' = [s \in Rated |-> IF s \in DOMAIN held
                                 THEN WrittenColumns(row[s], held[s].read, held[s].new) ELSE row[s]]
      /\ told' = [s \in Rated |-> IF s \in DOMAIN held /\ wish # Unknown THEN wish ELSE told[s]]
      /\ blurred' = (blurred \ {s \in DOMAIN held \ shifted : wish # Unknown \/ row[s] = NoRow \/ ~ row[s].forced})
                      \cup shifted
  BY <1>1, <1>2, <1>3 DEF Commit
<1>5. DOMAIN held \subseteq Rated /\ \A s \in DOMAIN held : EntryKnows(held[s], wish)
  BY <1>1, <1>2, <1>4 DEF RowsAndRequests, TrayKnows
<1>6. \A s \in DOMAIN held : IsRow(held[s].new)
  <2> TAKE s \in DOMAIN held
  <2>1. CASE wish # Unknown
    BY <1>5, <2>1, OverriddenRow DEF EntryKnows
  <2>2. CASE wish = Unknown
    BY <1>5, <2>2 DEF EntryKnows, Rescored
  <2> QED BY <2>1, <2>2
<1>7. \A s \in Rated : row'[s] = NoRow \/ IsRow(row'[s])
  BY <1>4, <1>6, WrittenRow DEF RowsAndRequests
<1>8. ASSUME NEW s \in Rated, s \notin blurred', row'[s] # NoRow
      PROVE  HasReason(row'[s], told'[s])
  <2>1. CASE s \notin DOMAIN held
    <3>1. row'[s] = row[s] /\ told'[s] = told[s] /\ s \notin blurred
      BY <1>4, <1>8, <2>1
    <3> QED BY <1>8, <3>1, ReasonsAre
  <2>2. CASE s \in DOMAIN held
    <3>1. s \notin shifted /\ row[s] = held[s].read
      BY <1>3, <1>4, <1>8, <2>2
    <3>2. row'[s] = held[s].new
      BY <1>4, <1>6, <2>2, <3>1, WrittenRow
    <3>3. CASE wish # Unknown
      <4>1. held[s].new = Overridden(held[s].read, wish) /\ (held[s].read = NoRow \/ IsRow(held[s].read))
        BY <1>5, <2>2, <3>3 DEF EntryKnows
      <4>2. row'[s].forced /\ row'[s].status = wish
        BY <3>2, <4>1, OverriddenRow
      <4>3. told'[s] = wish
        BY <1>4, <2>2, <3>3
      <4> QED BY <4>2, <4>3 DEF HasReason
    <3>4. CASE wish = Unknown
      <4>1. Rescored(row[s], row'[s])
        BY <1>5, <2>2, <3>1, <3>2, <3>4 DEF EntryKnows
      <4>2. told'[s] = told[s]
        BY <1>4, <3>4
      <4>3. CASE row[s] # NoRow /\ row[s].forced
        <5>1. s \notin blurred
          BY <1>4, <1>8, <3>4, <4>3
        <5>2. row[s].status = told[s]
          BY <4>3, <5>1, ReasonsAre DEF HasReason
        <5> QED BY <4>1, <4>2, <4>3, <5>2 DEF Rescored, HasReason
      <4>4. CASE ~ (row[s] # NoRow /\ row[s].forced)
        BY <4>1, <4>4 DEF Rescored, HasReason
      <4> QED BY <4>3, <4>4
    <3> QED BY <3>3, <3>4
  <2> QED BY <2>1, <2>2
<1>9. StatusHasItsReason'
  BY <1>8 DEF StatusHasItsReason, HasReason
<1>10. tray' = [v \in Scorers |-> tray'[v]] /\ \A v \in Scorers : tray'[v] = IF v = u THEN EmptyTray ELSE tray[v]
  BY DEF Commit, Puts, RowsAndRequests
<1>11. TrayKnows(EmptyTray)
  BY DEF TrayKnows, EmptyTray
<1>12. \A x : TrayKnows(x)' <=> TrayKnows(x)
  BY DEF TrayKnows, EntryKnows, Rescored, HasReason, IsRow, Overridden, Scored
<1>13. ASSUME NEW v \in Scorers PROVE TrayKnows(tray[v])'
  <2>1. PICK x : x = tray'[v]
    OBVIOUS
  <2>2. TrayKnows(x)
    BY <1>10, <1>11, <2>1 DEF RowsAndRequests
  <2> QED BY <1>12, <2>1, <2>2 DEF TrayKnows
<1>14. \A r \in reviews' : r.supplier \in Rated /\ r.target # Unknown
  BY DEF Commit, RowsAndRequests
<1>15. row' = [s \in Rated |-> row'[s]] /\ told' = [s \in Rated |-> told'[s]]
  BY <1>4
<1>16. \A s \in Rated : (row[s] = NoRow \/ IsRow(row[s]))'
  BY <1>7 DEF IsRow
<1> QED BY <1>9, <1>10, <1>13, <1>14, <1>15, <1>16 DEF ReasonInv, RowsAndRequests

LEMMA ReasonStep == ReasonInv /\ [PreferredNext]_preferredVars => ReasonInv'
<1> SUFFICES ASSUME RowsAndRequests, StatusHasItsReason, [PreferredNext]_preferredVars
             PROVE  ReasonInv'
  BY DEF ReasonInv
<1>1. ASSUME UNCHANGED <<row, told, blurred, tray>>,
             \A r \in reviews' : r.supplier \in Rated /\ r.target # Unknown
      PROVE  ReasonInv'
  <2>1. StatusHasItsReason'
    BY <1>1, ReasonsAre DEF StatusHasItsReason
  <2>a. \A x : TrayKnows(x)' <=> TrayKnows(x)
    BY DEF TrayKnows, EntryKnows, Rescored, HasReason, IsRow, Overridden, Scored
  <2>b. \A u \in Scorers : TrayKnows(tray[u])'
    BY <1>1, <2>a DEF RowsAndRequests, TrayKnows
  <2>c. \A s \in Rated : (row[s] = NoRow \/ IsRow(row[s]))'
    BY <1>1 DEF RowsAndRequests, IsRow
  <2>2. RowsAndRequests'
    BY <1>1, <2>b, <2>c DEF RowsAndRequests
  <2> QED BY <2>1, <2>2 DEF ReasonInv
<1>2. TrayKnows(EmptyTray)
  BY DEF TrayKnows, EmptyTray
<1>3. ASSUME NEW s \in Rated, NEW f, Drifts(s, f) PROVE ReasonInv'
  BY <1>1, <1>3 DEF Drifts, RowsAndRequests
<1>4. ASSUME NEW u \in Scorers, NEW s \in Rated, NEW quality, Qualify(u, s, quality) PROVE ReasonInv'
  BY <1>1, <1>4 DEF Qualify, RowsAndRequests
<1>5. ASSUME NEW s \in Rated
      PROVE  EntryKnows([read |-> row[s], new |-> Recomputed(row[s], facts[s])], Unknown)
  BY RecomputedIsRescored DEF EntryKnows, RowsAndRequests
<1>6. ASSUME NEW u \in Scorers, NEW s \in Rated, Recompute(u, s) PROVE ReasonInv'
  <2>1. TrayKnows(Holding(ReadRow(s, Recomputed(row[s], facts[s])), Unknown, {}))
    BY <1>5, OneRowHeld
  <2> QED BY <1>6, <2>1, PutKeeps DEF Recompute, RowsAndRequests
<1>7. ASSUME NEW u \in Scorers, RecomputeAll(u) PROVE ReasonInv'
  <2>1. TrayKnows([step |-> "all", rows |-> NoneRead])
    BY DEF TrayKnows, NoneRead
  <2> QED BY <1>7, <2>1, PutKeeps DEF RecomputeAll, RowsAndRequests
<1>8. ASSUME NEW u \in Scorers, NEW s \in Rated, RecomputeNext(u, s) PROVE ReasonInv'
  BY <1>8, NextRowHeld
<1>9. ASSUME NEW s \in Rated, NEW wish, wish # Unknown
      PROVE  EntryKnows([read |-> row[s], new |-> Overridden(row[s], wish)], wish)
  BY <1>9 DEF EntryKnows, RowsAndRequests
<1>10. ASSUME NEW u \in Scorers, NEW s \in Rated, NEW target \in Targets, OverrideAtOnce(u, s, target)
       PROVE  ReasonInv'
  <2>1. target # Unknown
    BY PreferredAssumption
  <2>2. TrayKnows(Holding(ReadRow(s, Overridden(row[s], target)), target, {}))
    <3>1. EntryKnows([read |-> row[s], new |-> Overridden(row[s], target)], target)
      BY <1>9, <2>1
    <3> QED BY <3>1, OneRowHeld
  <2> QED BY <1>10, <2>2, PutKeeps DEF OverrideAtOnce, RowsAndRequests
<1>11. ASSUME NEW u \in Scorers, NEW s \in Rated, NEW target \in Targets, OverrideForReview(u, s, target)
       PROVE  ReasonInv'
  <2>1. PICK t : t = IF row[s] = NoRow THEN [step |-> "baseline", supplier |-> s] ELSE EmptyTray
    OBVIOUS
  <2>2. TrayKnows(t)
    BY <1>2, <2>1 DEF TrayKnows
  <2>3. PICK nr : reviews' = reviews \cup {[supplier |-> s, target |-> target, nr |-> nr]}
    BY <1>11 DEF OverrideForReview
  <2>4. \A r \in reviews' : r.supplier \in Rated /\ r.target # Unknown
    BY <2>3, PreferredAssumption DEF RowsAndRequests
  <2>5. Puts(u, t) /\ UNCHANGED <<row, told, blurred>>
    BY <1>11, <2>1 DEF OverrideForReview
  <2> QED BY <2>2, <2>4, <2>5, PutKeeps
<1>12. ASSUME NEW u \in Scorers, Baseline(u) PROVE ReasonInv'
  <2>1. PICK s : s = tray[u].supplier
    OBVIOUS
  <2>2. s \in Rated
    BY <1>12, <2>1 DEF Baseline, RowsAndRequests, TrayKnows
  <2>3. TrayKnows(Holding(ReadRow(s, Recomputed(row[s], facts[s])), Unknown, {}))
    BY <1>5, <2>2, OneRowHeld
  <2> QED BY <1>12, <2>1, <2>3, PutKeeps DEF Baseline, RowsAndRequests
<1>13. ASSUME NEW u \in Scorers, NEW r \in reviews, ReviewApproved(u, r) PROVE ReasonInv'
  <2>1. r.supplier \in Rated /\ r.target # Unknown
    BY DEF RowsAndRequests
  <2>2. TrayKnows(Holding(ReadRow(r.supplier, Overridden(row[r.supplier], r.target)), r.target, {r}))
    <3>1. EntryKnows([read |-> row[r.supplier], new |-> Overridden(row[r.supplier], r.target)], r.target)
      BY <1>9, <2>1
    <3> QED BY <2>1, <3>1, OneRowHeld
  <2> QED BY <1>13, <2>2, PutKeeps DEF ReviewApproved, RowsAndRequests
<1>14. ASSUME NEW u \in Scorers, NEW r \in reviews, ReviewRejected(u, r) PROVE ReasonInv'
  BY <1>1, <1>14 DEF ReviewRejected, RowsAndRequests
<1>15. ASSUME NEW u \in Scorers, Commit(u) PROVE ReasonInv'
  BY <1>15, CommitKeepsReasons
<1>16. ASSUME NEW u \in Scorers, Fails(u) PROVE ReasonInv'
  BY <1>2, <1>16, PutKeeps DEF Fails, RowsAndRequests
<1>17. CASE UNCHANGED preferredVars
  BY <1>1, <1>17 DEF preferredVars, RowsAndRequests
<1> QED
  BY <1>3, <1>4, <1>6, <1>7, <1>8, <1>10, <1>11, <1>12, <1>13, <1>14, <1>15, <1>16, <1>17
  DEF PreferredNext

\* The status a supplier is shown with has its reason on record, for every number
\* of suppliers, users, reviews and requests, and whatever is known of a supplier.
THEOREM StatusesHaveReasons == PreferredSpec => []StatusHasItsReason
<1>1. PreferredInit => ReasonInv
  <2> SUFFICES ASSUME PreferredInit PROVE ReasonInv
    OBVIOUS
  <2>1. \A u \in Scorers : TrayKnows(tray[u])
    BY DEF PreferredInit, TrayKnows, EmptyTray
  <2> QED BY <2>1 DEF PreferredInit, ReasonInv, RowsAndRequests, StatusHasItsReason
<1> QED BY <1>1, ReasonStep, PTL DEF PreferredSpec, ReasonInv

----------------------------------------------------------------------------
(***************************************************************************)
(* The answers to one approval step.                                         *)
(***************************************************************************)

\* The type invariant holds of every reachable state.
THEOREM AnswersTypeCorrect == AnswersSpec => []AnswersTypeOK
<1> USE AnswersAssumption DEF NoAnswer, AnswerRecords, Outcomes, RowStatus
<1>1. ASSUME AnswersInit PROVE AnswersTypeOK
  <2>1. answers \in 0..MaxAnswers
    BY <1>1 DEF AnswersInit, AnswersAssumption
  <2>2. taskRow \in [StepTasks -> RowStatus] /\ outcome \in Outcomes
    BY <1>1 DEF AnswersInit
  <2>3. answer \in [Answerers -> AnswerRecords \cup {NoAnswer}]
    BY <1>1 DEF AnswersInit
  <2>4. signed \in SUBSET StepTasks /\ clashed \in BOOLEAN
    BY <1>1 DEF AnswersInit
  <2> QED BY <2>1, <2>2, <2>3, <2>4 DEF AnswersTypeOK
<1>2. AnswersTypeOK /\ [AnswersNext]_answerVars => AnswersTypeOK'
  <2> SUFFICES ASSUME AnswersTypeOK, [AnswersNext]_answerVars
               PROVE  AnswersTypeOK'
    OBVIOUS
  <2> USE DEF AnswersTypeOK
  <2>1. ASSUME NEW r \in Answerers, NEW t \in StepTasks, NEW d \in {"approved", "rejected"},
               ReadTask(r, t, d)
        PROVE  AnswersTypeOK'
    BY <2>1 DEF ReadTask
  <2>2. ASSUME NEW r \in Answerers, FlushAnswer(r) PROVE AnswersTypeOK'
    BY <2>2 DEF FlushAnswer
  <2>3. ASSUME NEW r \in Answerers, Decide(r) PROVE AnswersTypeOK'
    <3>1. answer[r] \in AnswerRecords
      BY <2>3 DEF Decide
    <3> DEFINE wants == IF answer[r].decision = "rejected" THEN "rejected"
                        ELSE IF Enough(r) THEN "advanced" ELSE outcome
               cancels == IF answer[r].decision = "rejected"
                          THEN {t \in StepTasks \ {answer[r].task} : taskRow[t] = "pending"} ELSE {}
    <3>2. wants \in Outcomes /\ cancels \in SUBSET StepTasks
      OBVIOUS
    <3>3. [answer[r] EXCEPT !.at = "decided", !.was = outcome, !.wants = wants, !.cancels = cancels]
            \in AnswerRecords
      BY <3>1, <3>2
    <3> HIDE DEF wants, cancels
    <3>4. answer' \in [Answerers -> AnswerRecords \cup {NoAnswer}]
      BY <2>3, <3>3 DEF Decide, wants, cancels
    <3> QED BY <2>3, <3>4 DEF Decide
  <2>4. ASSUME NEW r \in Answerers, CommitAnswer(r) PROVE AnswersTypeOK'
    <3>1. answer[r] \in AnswerRecords
      BY <2>4 DEF CommitAnswer
    <3>2. taskRow' \in [StepTasks -> RowStatus] /\ outcome' \in Outcomes
      BY <2>4, <3>1 DEF CommitAnswer
    <3>3. signed' \in SUBSET StepTasks /\ clashed' \in BOOLEAN /\ answers' \in 0..MaxAnswers
      BY <2>4, <3>1 DEF CommitAnswer
    <3>4. \A q \in Answerers : answer[q] # NoAnswer =>
             [answer[q] EXCEPT !.fresh = FALSE] \in AnswerRecords
      OBVIOUS
    <3>5. answer' \in [Answerers -> AnswerRecords \cup {NoAnswer}]
      BY <2>4, <3>4 DEF CommitAnswer
    <3> QED BY <3>2, <3>3, <3>5
  <2>5. ASSUME NEW r \in Answerers, RollBack(r) PROVE AnswersTypeOK'
    BY <2>5 DEF RollBack
  <2>6. CASE UNCHANGED answerVars
    BY <2>6 DEF answerVars
  <2> QED BY <2>1, <2>2, <2>3, <2>4, <2>5, <2>6 DEF AnswersNext, AnswerStep, BreakDeadlock
<1> QED BY <1>1, <1>2, PTL DEF AnswersSpec

\* The approvals that are committed were signed, and a request that wants the step
\* advanced knows of enough of them, its own included.
WantsAreSigned ==
  /\ Approved \subseteq signed
  /\ \A r \in Answerers :
       (answer[r].at = "decided" /\ answer[r].wants = "advanced" /\ answer[r].was # "advanced") =>
          /\ answer[r].decision = "approved"
          /\ Cardinality(signed \cup {answer[r].task}) >= Required

\* More signatures are no fewer.
LEMMA MoreSigned ==
  ASSUME NEW S \in SUBSET StepTasks, NEW T \in SUBSET S, Cardinality(T) >= Required
  PROVE  Cardinality(S) >= Required
<1>1. IsFiniteSet(S)
  BY FS_Subset, AnswersAssumption
<1>2. IsFiniteSet(T) /\ Cardinality(T) =< Cardinality(S)
  BY <1>1, FS_Subset
<1>3. Cardinality(S) \in Nat /\ Cardinality(T) \in Nat
  BY <1>1, <1>2, FS_CardinalityType
<1>4. Required \in Nat
  BY AnswersAssumption, FS_CardinalityType
<1> QED BY <1>2, <1>3, <1>4

\* However answers overlap, the step is not advanced unsigned: the count a request
\* makes is of signatures that stay, and its own is committed with the result.
THEOREM AdvancesAreSigned == AnswersSpec => []AdvancedIsSigned
<1>1. AnswersInit => WantsAreSigned /\ AdvancedIsSigned
  BY DEF AnswersInit, WantsAreSigned, AdvancedIsSigned, Approved, NoAnswer
<1>2. AnswersTypeOK /\ AnswersTypeOK' /\ WantsAreSigned /\ AdvancedIsSigned /\ [AnswersNext]_answerVars
        => WantsAreSigned' /\ AdvancedIsSigned'
  <2> SUFFICES ASSUME AnswersTypeOK, AnswersTypeOK', WantsAreSigned, AdvancedIsSigned,
                      [AnswersNext]_answerVars
               PROVE  WantsAreSigned' /\ AdvancedIsSigned'
    OBVIOUS
  <2> USE DEF AnswersTypeOK, WantsAreSigned, AdvancedIsSigned, Approved
  <2>1. ASSUME NEW r \in Answerers, NEW t \in StepTasks, NEW d \in {"approved", "rejected"},
               ReadTask(r, t, d)
        PROVE  WantsAreSigned' /\ AdvancedIsSigned'
    BY <2>1 DEF ReadTask
  <2>2. ASSUME NEW r \in Answerers, FlushAnswer(r) PROVE WantsAreSigned' /\ AdvancedIsSigned'
    BY <2>2 DEF FlushAnswer
  <2>3. ASSUME NEW r \in Answerers, Decide(r) PROVE WantsAreSigned' /\ AdvancedIsSigned'
    <3>1. answer[r] \in AnswerRecords
      BY <2>3 DEF Decide, NoAnswer
    <3>2. UNCHANGED <<taskRow, outcome, signed>> /\ \A q \in Answerers \ {r} : answer'[q] = answer[q]
      BY <2>3 DEF Decide
    <3>3. answer'[r].was = outcome /\ answer'[r].decision = answer[r].decision
            /\ answer'[r].task = answer[r].task
      BY <2>3, <3>1 DEF Decide, AnswerRecords
    <3>4. ASSUME answer'[r].wants = "advanced", outcome # "advanced"
          PROVE  answer[r].decision = "approved" /\ Cardinality(Approved \cup {answer[r].task}) >= Required
      BY <2>3, <3>1, <3>4 DEF Decide, AnswerRecords, Enough
    <3>5. ASSUME answer'[r].wants = "advanced", outcome # "advanced"
          PROVE  Cardinality(signed \cup {answer[r].task}) >= Required
      <4>1. answer[r].task \in StepTasks
        BY <3>1 DEF AnswerRecords
      <4>2. Approved \cup {answer[r].task} \subseteq signed \cup {answer[r].task}
        OBVIOUS
      <4> QED BY <3>4, <3>5, <4>1, <4>2, MoreSigned
    <3> QED BY <3>2, <3>3, <3>4, <3>5
  <2>4. ASSUME NEW r \in Answerers, CommitAnswer(r) PROVE WantsAreSigned' /\ AdvancedIsSigned'
    <3>1. answer[r] \in AnswerRecords /\ answer[r].at = "decided"
      BY <2>4 DEF CommitAnswer, NoAnswer
    <3>2. signed \subseteq signed' /\ signed' \subseteq StepTasks
      BY <2>4 DEF CommitAnswer
    <3>3. Approved' \subseteq signed'
      BY <2>4, <3>1 DEF CommitAnswer, AnswerRecords
    <3>4. ASSUME NEW q \in Answerers, answer'[q].at = "decided", answer'[q].wants = "advanced",
                 answer'[q].was # "advanced"
          PROVE  /\ answer'[q].decision = "approved"
                 /\ Cardinality(signed' \cup {answer'[q].task}) >= Required
      <4>1. q # r /\ answer[q] # NoAnswer /\ answer'[q] = [answer[q] EXCEPT !.fresh = FALSE]
        BY <2>4, <3>4 DEF CommitAnswer, NoAnswer
      <4>2. answer[q] \in AnswerRecords
        BY <4>1
      <4>3. /\ answer'[q].at = answer[q].at /\ answer'[q].wants = answer[q].wants
            /\ answer'[q].was = answer[q].was /\ answer'[q].task = answer[q].task
            /\ answer'[q].decision = answer[q].decision
        BY <4>1, <4>2 DEF AnswerRecords
      <4>4. answer[q].decision = "approved" /\ Cardinality(signed \cup {answer[q].task}) >= Required
        BY <3>4, <4>3
      <4>5. answer[q].task \in StepTasks
        BY <4>2 DEF AnswerRecords
      <4>6. Cardinality(signed' \cup {answer[q].task}) >= Required
        BY <3>2, <4>4, <4>5, MoreSigned
      <4> QED BY <4>3, <4>4, <4>6
    <3>5. ASSUME outcome' = "advanced" PROVE Cardinality(signed') >= Required
      <4>1. CASE outcome = "advanced"
        BY <3>2, <4>1, MoreSigned
      <4>2. CASE outcome # "advanced"
        <5>1. answer[r].wants = "advanced" /\ answer[r].was # "advanced"
          BY <2>4, <3>5, <4>2 DEF CommitAnswer
        <5>2. signed' = signed \cup {answer[r].task}
          BY <2>4, <3>1, <5>1 DEF CommitAnswer
        <5> QED BY <3>1, <5>1, <5>2
      <4> QED BY <4>1, <4>2
    <3> QED BY <3>3, <3>4, <3>5
  <2>5. ASSUME NEW r \in Answerers, RollBack(r) PROVE WantsAreSigned' /\ AdvancedIsSigned'
    BY <2>5 DEF RollBack, NoAnswer
  <2>6. CASE UNCHANGED answerVars
    BY <2>6 DEF answerVars
  <2> QED BY <2>1, <2>2, <2>3, <2>4, <2>5, <2>6 DEF AnswersNext, AnswerStep, BreakDeadlock
<1> QED BY <1>1, <1>2, AnswersTypeCorrect, PTL DEF AnswersSpec

\* What a request read still holds as long as no other one has committed: its task
\* and the rows it will cancel are pending, the instance is where it was, and with
\* its own answer there are enough approvals only if it wants to advance.
DecisionHolds(a) ==
  /\ a.was = outcome
  /\ \A t \in a.cancels : taskRow[t] = "pending"
  /\ a.decision = "rejected" => a.wants = "rejected"
  /\ a.decision = "approved" =>
       /\ a.cancels = {}
       /\ Cardinality(Approved \cup {a.task}) >= Required => a.wants = "advanced"

FreshHolds ==
  \A r \in Answerers :
    (answer[r] # NoAnswer /\ answer[r].fresh) =>
       /\ taskRow[answer[r].task] = "pending"
       /\ answer[r].at = "decided" => DecisionHolds(answer[r])

\* The invariant of the fresh requests.
LEMMA FreshAlwaysHolds == AnswersSpec => []FreshHolds
<1>1. AnswersInit => FreshHolds
  BY DEF AnswersInit, FreshHolds
<1>2. AnswersTypeOK /\ FreshHolds /\ [AnswersNext]_answerVars => FreshHolds'
  <2> SUFFICES ASSUME AnswersTypeOK, FreshHolds, [AnswersNext]_answerVars, NEW q \in Answerers,
                      answer'[q] # NoAnswer, answer'[q].fresh
               PROVE  /\ taskRow'[answer'[q].task] = "pending"
                      /\ answer'[q].at = "decided" => DecisionHolds(answer[q])'
    BY DEF FreshHolds
  <2> USE DEF AnswersTypeOK, FreshHolds
  <2>0. ASSUME answer'[q] = answer[q], UNCHANGED <<taskRow, outcome>>
        PROVE  /\ taskRow'[answer'[q].task] = "pending"
               /\ answer'[q].at = "decided" => DecisionHolds(answer[q])'
    BY <2>0 DEF DecisionHolds, Approved
  <2>1. ASSUME NEW r \in Answerers, NEW t \in StepTasks, NEW d \in {"approved", "rejected"},
               ReadTask(r, t, d)
        PROVE  /\ taskRow'[answer'[q].task] = "pending"
               /\ answer'[q].at = "decided" => DecisionHolds(answer[q])'
    <3>1. CASE q = r
      BY <2>1, <3>1 DEF ReadTask
    <3>2. CASE q # r
      BY <2>0, <2>1, <3>2 DEF ReadTask
    <3> QED BY <3>1, <3>2
  <2>2. ASSUME NEW r \in Answerers, FlushAnswer(r)
        PROVE  /\ taskRow'[answer'[q].task] = "pending"
               /\ answer'[q].at = "decided" => DecisionHolds(answer[q])'
    <3>1. CASE q = r
      BY <2>2, <3>1 DEF FlushAnswer, AnswerRecords, NoAnswer
    <3>2. CASE q # r
      BY <2>0, <2>2, <3>2 DEF FlushAnswer
    <3> QED BY <3>1, <3>2
  <2>3. ASSUME NEW r \in Answerers, Decide(r)
        PROVE  /\ taskRow'[answer'[q].task] = "pending"
               /\ answer'[q].at = "decided" => DecisionHolds(answer[q])'
    <3>1. CASE q = r
      <4>1. answer[r] \in AnswerRecords /\ answer[r] # NoAnswer
        BY <2>3 DEF Decide, NoAnswer
      <4>2. /\ answer'[r].task = answer[r].task /\ answer'[r].decision = answer[r].decision
            /\ answer'[r].fresh = answer[r].fresh /\ answer'[r].was = outcome
        BY <2>3, <4>1 DEF Decide, AnswerRecords
      <4>3. UNCHANGED <<taskRow, outcome>>
        BY <2>3 DEF Decide
      <4>4. taskRow[answer[r].task] = "pending"
        BY <3>1, <4>1, <4>2
      <4>5. CASE answer[r].decision = "rejected"
        <5>1. /\ answer'[r].wants = "rejected"
              /\ answer'[r].cancels = {t \in StepTasks \ {answer[r].task} : taskRow[t] = "pending"}
          BY <2>3, <4>1, <4>5 DEF Decide, AnswerRecords
        <5> QED BY <3>1, <4>2, <4>3, <4>4, <4>5, <5>1 DEF DecisionHolds
      <4>6. CASE answer[r].decision = "approved"
        <5>1. /\ answer'[r].wants = IF Enough(r) THEN "advanced" ELSE outcome
              /\ answer'[r].cancels = {}
          BY <2>3, <4>1, <4>6 DEF Decide, AnswerRecords
        <5>2. Approved' = Approved
          BY <4>3 DEF Approved
        <5> QED BY <3>1, <4>2, <4>3, <4>4, <4>6, <5>1, <5>2 DEF DecisionHolds, Enough
      <4> QED BY <4>1, <4>5, <4>6 DEF AnswerRecords
    <3>2. CASE q # r
      BY <2>0, <2>3, <3>2 DEF Decide
    <3> QED BY <3>1, <3>2
  <2>4. ASSUME NEW r \in Answerers, CommitAnswer(r) PROVE FALSE
    <3>1. answer'[q] = IF q = r \/ answer[q] = NoAnswer THEN NoAnswer
                       ELSE [answer[q] EXCEPT !.fresh = FALSE]
      BY <2>4 DEF CommitAnswer
    <3> QED BY <3>1 DEF AnswerRecords
  <2>5. ASSUME NEW r \in Answerers, RollBack(r)
        PROVE  /\ taskRow'[answer'[q].task] = "pending"
               /\ answer'[q].at = "decided" => DecisionHolds(answer[q])'
    BY <2>0, <2>5 DEF RollBack
  <2>6. CASE UNCHANGED answerVars
    BY <2>0, <2>6 DEF answerVars
  <2> QED BY <2>1, <2>2, <2>3, <2>4, <2>5, <2>6 DEF AnswersNext, AnswerStep, BreakDeadlock
<1> QED BY <1>1, <1>2, AnswersTypeCorrect, PTL DEF AnswersSpec

\* Only a commit changes what is committed.
LEMMA OnlyCommits ==
  ASSUME [AnswersNext]_answerVars, ~ \E r \in Answerers : CommitAnswer(r)
  PROVE  UNCHANGED <<taskRow, outcome, clashed>>
BY DEF AnswersNext, AnswerStep, BreakDeadlock, ReadTask, FlushAnswer, Decide, RollBack, answerVars

\* As long as requests did not overlap, enough approvals never leave the step
\* waiting: the last of them counts the others.
THEOREM EnoughAreNoticed == AnswersSpec => []EnoughIsNoticed
<1>1. ASSUME AnswersInit PROVE EnoughIsNoticed
  <2>1. Approved = {}
    BY <1>1 DEF AnswersInit, Approved
  <2>2. Cardinality(Approved) = 0
    BY <2>1, FS_EmptySet
  <2>3. Required \in Nat /\ Required > 0
    BY AnswersAssumption, FS_CardinalityType
  <2> QED BY <2>2, <2>3 DEF EnoughIsNoticed
<1>2. AnswersTypeOK /\ FreshHolds /\ EnoughIsNoticed /\ [AnswersNext]_answerVars => EnoughIsNoticed'
  <2> SUFFICES ASSUME AnswersTypeOK, FreshHolds, EnoughIsNoticed, [AnswersNext]_answerVars
               PROVE  EnoughIsNoticed'
    OBVIOUS
  <2>1. ASSUME NEW r \in Answerers, CommitAnswer(r), ~ clashed',
               Cardinality(Approved') >= Required
        PROVE  outcome' # "waiting"
    <3>0. answer[r].fresh
      BY <2>1 DEF CommitAnswer
    <3>1. answer[r] \in AnswerRecords /\ answer[r].at = "decided" /\ answer[r].fresh
      BY <2>1, <3>0 DEF CommitAnswer, AnswersTypeOK, NoAnswer
    <3>2. DecisionHolds(answer[r])
      BY <3>1 DEF FreshHolds, NoAnswer
    <3>3. CASE answer[r].decision = "rejected"
      BY <2>1, <3>2, <3>3 DEF CommitAnswer, DecisionHolds
    <3>4. CASE answer[r].decision = "approved"
      <4>1. Approved' = Approved \cup {answer[r].task}
        BY <2>1, <3>1, <3>2, <3>4 DEF CommitAnswer, DecisionHolds, Approved, AnswerRecords
      <4>2. answer[r].wants = "advanced"
        BY <2>1, <3>2, <3>4, <4>1 DEF DecisionHolds
      <4> QED BY <2>1, <3>2, <4>2 DEF CommitAnswer, DecisionHolds
    <3> QED BY <3>1, <3>3, <3>4 DEF AnswerRecords
  <2>2. CASE ~ \E r \in Answerers : CommitAnswer(r)
    BY <2>2, OnlyCommits DEF EnoughIsNoticed, Approved
  <2> QED BY <2>1, <2>2 DEF EnoughIsNoticed
<1> QED BY <1>1, <1>2, AnswersTypeCorrect, FreshAlwaysHolds, PTL DEF AnswersSpec

\* As long as requests did not overlap, an answer is never overwritten, neither
\* by a second answer nor by a rejection that cancels what it read as pending.
THEOREM AnswersAreFinal == AnswersSpec => AnswersStay
<1>1. AnswersTypeOK /\ FreshHolds /\ [AnswersNext]_answerVars =>
        [\A t \in StepTasks :
            taskRow[t] \in {"approved", "rejected"} => taskRow'[t] = taskRow[t] \/ clashed']_answerVars
  <2> SUFFICES ASSUME AnswersTypeOK, FreshHolds, [AnswersNext]_answerVars, ~ clashed',
                      NEW t \in StepTasks, taskRow[t] \in {"approved", "rejected"}
               PROVE  taskRow'[t] = taskRow[t]
    OBVIOUS
  <2>1. ASSUME NEW r \in Answerers, CommitAnswer(r) PROVE taskRow'[t] = taskRow[t]
    <3>0. answer[r].fresh
      BY <2>1 DEF CommitAnswer
    <3>1. answer[r] \in AnswerRecords /\ answer[r].at = "decided" /\ answer[r].fresh
      BY <2>1, <3>0 DEF CommitAnswer, AnswersTypeOK, NoAnswer
    <3>2. DecisionHolds(answer[r]) /\ taskRow[answer[r].task] = "pending"
      BY <3>1 DEF FreshHolds, NoAnswer
    <3>3. t # answer[r].task /\ t \notin answer[r].cancels
      BY <3>2 DEF DecisionHolds
    <3> QED BY <2>1, <3>3 DEF CommitAnswer
  <2>2. CASE ~ \E r \in Answerers : CommitAnswer(r)
    BY <2>2, OnlyCommits
  <2> QED BY <2>1, <2>2
<1> QED BY <1>1, AnswersTypeCorrect, FreshAlwaysHolds, PTL DEF AnswersSpec, AnswersStay

----------------------------------------------------------------------------
(***************************************************************************)
(* The metadata records and their audit trail.                               *)
(***************************************************************************)

\* The type of the rows, the trail and the requests, without the two bounds.
MetaShape ==
  /\ metaRows \subseteq MetaIds
  /\ ref \in [MetaIds -> MetaIds \cup {NoRef}]
  /\ auditTrail \subseteq MetaEvents /\ silent \subseteq MetaEvents
  /\ editing \in [Curators -> Edits \cup {NoEdit}]

\* Events whose change is committed: written to the trail, about to be, or lost
\* with the process.
Pending == {editing[u].does : u \in {v \in Curators : editing[v].next = "audit"}}
WrittenEvents == auditTrail \cup silent \cup Pending

Busy(u) == editing[u] # NoEdit

\* A record that is there was created and not deleted, and a value's field is there.
RowsAreTold ==
  \A i \in metaRows :
    /\ Event("Created", i) \in WrittenEvents /\ Event("Deleted", i) \notin WrittenEvents
    /\ i \in Values => ref[i] \in MetaFields \cap metaRows

\* A record that was created and is not there was deleted, or its field was.
GoneIsTold ==
  \A i \in MetaIds \ metaRows :
    Event("Created", i) \in WrittenEvents =>
      \/ Event("Deleted", i) \in WrittenEvents
      \/ i \in Values /\ ref[i] \in MetaFields /\ Event("Deleted", ref[i]) \in WrittenEvents

\* A request that is about to create a record is alone with it, and one that is
\* about to write a value names its field.
Alone(u) ==
  LET c == editing[u] IN
  c.next = "row" =>
    /\ c.does.event = "Created" =>
         /\ c.does.id \notin metaRows
         /\ \A e \in WrittenEvents : e.id # c.does.id
         /\ \A v \in Curators \ {u} : Busy(v) => editing[v].does.id # c.does.id
    /\ (c.does.id \in Values /\ c.does.event # "Deleted") =>
         /\ c.to \in MetaFields
         /\ c.does.event = "Updated" => c.to = ref[c.does.id]

MetaInv == MetaShape /\ RowsAreTold /\ GoneIsTold /\ \A u \in Curators : Alone(u)

LEMMA EventFields ==
  \A k \in {"Created", "Updated", "Deleted"}, i \in MetaIds :
    Event(k, i) \in MetaEvents /\ Event(k, i).event = k /\ Event(k, i).id = i
BY DEF Event, MetaEvents

LEMMA EventIs == \A e \in MetaEvents : e = Event(e.event, e.id) /\ e.id \in MetaIds
BY DEF Event, MetaEvents

\* What the invariant says, of the states where nothing is between its commits.
LEMMA ToldFromTheTrail == MetaInv => TrailTellsWhatThereIs
<1> SUFFICES ASSUME MetaInv, NEW i \in MetaIds, Settled(i),
                    (i \in Values /\ ref[i] # NoRef) => Settled(ref[i])
             PROVE  i \in metaRows <=> (Told(i) /\ (i \in Values => Told(ref[i])))
  BY DEF TrailTellsWhatThereIs
<1>1. ASSUME NEW j \in MetaIds, Settled(j), NEW k \in {"Created", "Deleted"}
      PROVE  Event(k, j) \in WrittenEvents <=> Event(k, j) \in auditTrail
  <2>1. Event(k, j).id = j
    BY EventFields
  <2>2. Event(k, j) \notin silent
    BY <1>1, <2>1 DEF Settled
  <2>3. ASSUME NEW u \in Curators, editing[u].next = "audit" PROVE editing[u].does # Event(k, j)
    <3>1. editing[u] # NoEdit
      BY <2>3 DEF NoEdit
    <3> QED BY <1>1, <2>1, <3>1 DEF Settled
  <2> QED BY <2>2, <2>3 DEF WrittenEvents, Pending
<1>2. ref[i] \in MetaIds \cup {NoRef} /\ NoRef \notin MetaIds /\ MetaFields \subseteq MetaIds
  BY MetaAssumption DEF MetaInv, MetaShape, MetaIds
<1>3. CASE i \in metaRows
  <2>1. Told(i)
    BY <1>1, <1>3 DEF MetaInv, RowsAreTold, Told
  <2>2. ASSUME i \in Values PROVE Told(ref[i])
    <3>1. ref[i] \in MetaFields /\ ref[i] \in metaRows /\ ref[i] \in MetaIds /\ ref[i] # NoRef
      BY <1>2, <1>3, <2>2 DEF MetaInv, RowsAreTold
    <3>2. Settled(ref[i])
      BY <2>2, <3>1
    <3> QED BY <1>1, <3>1, <3>2 DEF MetaInv, RowsAreTold, Told
  <2> QED BY <1>3, <2>1, <2>2
<1>4. CASE i \notin metaRows
  <2> SUFFICES ASSUME Told(i), i \in Values => Told(ref[i]) PROVE FALSE
    BY <1>4
  <2>1. Event("Created", i) \in WrittenEvents /\ Event("Deleted", i) \notin WrittenEvents
    BY <1>1 DEF Told
  <2>2. i \in Values /\ ref[i] \in MetaFields /\ Event("Deleted", ref[i]) \in WrittenEvents
    BY <1>4, <2>1 DEF MetaInv, GoneIsTold
  <2>3. Settled(ref[i]) /\ ref[i] \in MetaIds
    BY <1>2, <2>2
  <2>4. Event("Deleted", ref[i]) \in auditTrail
    BY <1>1, <2>2, <2>3
  <2> QED BY <2>2, <2>4 DEF Told
<1> QED BY <1>3, <1>4

\* A step of one request, the others' pending events being what they were.
PendingBut(u) == {editing[v].does : v \in {w \in Curators \ {u} : editing[w].next = "audit"}}

LEMMA OneEdit ==
  ASSUME MetaShape, NEW u \in Curators, NEW x, editing' = [editing EXCEPT ![u] = x]
  PROVE  /\ editing'[u] = x /\ \A v \in Curators \ {u} : editing'[v] = editing[v]
         /\ Pending = PendingBut(u) \cup (IF editing[u].next = "audit" THEN {editing[u].does} ELSE {})
         /\ Pending' = PendingBut(u) \cup (IF x.next = "audit" THEN {x.does} ELSE {})
<1>1. editing'[u] = x /\ \A v \in Curators \ {u} : editing'[v] = editing[v]
  BY DEF MetaShape
<1>2. Pending = PendingBut(u) \cup (IF editing[u].next = "audit" THEN {editing[u].does} ELSE {})
  BY DEF Pending, PendingBut
<1>3. Pending' = PendingBut(u)' \cup (IF x.next = "audit" THEN {x.does} ELSE {})
  BY <1>1 DEF Pending, PendingBut
<1>4. PendingBut(u)' = PendingBut(u)
  BY <1>1 DEF PendingBut
<1> QED BY <1>1, <1>2, <1>3, <1>4

\* The fields of a request in progress.
LEMMA EditFields ==
  ASSUME MetaShape, NEW u \in Curators, Busy(u)
  PROVE  /\ editing[u] \in Edits /\ editing[u].does \in MetaEvents /\ editing[u].does.id \in MetaIds
         /\ editing[u].to \in MetaIds \cup {NoRef}
BY DEF MetaShape, Busy, Edits, MetaEvents

\* What a request does once its row is written changes no row: it ends, or goes on,
\* and no event is forgotten but one of a record that is gone.
LEMMA AfterTheRow ==
  ASSUME MetaInv, NEW u \in Curators, Busy(u), NEW x, x = NoEdit \/ x = [editing[u] EXCEPT !.next = "outbox"],
         editing' = [editing EXCEPT ![u] = x], UNCHANGED <<metaRows, ref>>,
         auditTrail' \subseteq MetaEvents, silent' \subseteq MetaEvents,
         WrittenEvents' \subseteq WrittenEvents,
         \A e \in WrittenEvents : e \in WrittenEvents' \/ (e.event # "Deleted" /\ e.id \notin metaRows)
  PROVE  MetaInv'
<1>1. /\ editing'[u] = x /\ \A v \in Curators \ {u} : editing'[v] = editing[v]
  BY OneEdit DEF MetaInv
<1>2. editing[u] \in Edits
  BY EditFields DEF MetaInv
<1>3. x \in Edits \cup {NoEdit} /\ x.next # "row" /\ (x # NoEdit => x.does = editing[u].does)
  BY <1>2 DEF Edits, NoEdit
<1>4. MetaShape'
  BY <1>3 DEF MetaInv, MetaShape
<1>5. RowsAreTold'
  <2> SUFFICES ASSUME NEW i \in metaRows
               PROVE  /\ Event("Created", i) \in WrittenEvents' /\ Event("Deleted", i) \notin WrittenEvents'
                      /\ i \in Values => ref[i] \in MetaFields \cap metaRows
    BY DEF RowsAreTold
  <2>1. i \in MetaIds
    BY DEF MetaInv, MetaShape
  <2>2. Event("Created", i).id = i
    BY <2>1, EventFields
  <2> QED BY <2>2 DEF MetaInv, RowsAreTold
<1>6. GoneIsTold'
  <2> SUFFICES ASSUME NEW i \in MetaIds \ metaRows, Event("Created", i) \in WrittenEvents'
               PROVE  \/ Event("Deleted", i) \in WrittenEvents'
                      \/ i \in Values /\ ref[i] \in MetaFields /\ Event("Deleted", ref[i]) \in WrittenEvents'
    BY DEF GoneIsTold
  <2>1. Event("Created", i) \in WrittenEvents
    OBVIOUS
  <2>2. \A j \in MetaIds : Event("Deleted", j).event = "Deleted"
    BY EventFields
  <2>3. MetaFields \subseteq MetaIds
    BY DEF MetaIds
  <2> QED BY <2>1, <2>2, <2>3 DEF MetaInv, GoneIsTold
<1>7. ASSUME NEW v \in Curators PROVE Alone(v)'
  <2>1. CASE v = u
    BY <1>1, <1>3, <2>1 DEF Alone
  <2>2. CASE v # u
    <3>1. editing'[v] = editing[v]
      BY <1>1, <2>2
    <3>2. \A w \in Curators : Busy(w)' => Busy(w) /\ editing'[w].does = editing[w].does
      BY <1>1, <1>3 DEF Busy
    <3>3. Alone(v)
      BY DEF MetaInv
    <3> QED BY <3>1, <3>2, <3>3 DEF Alone
  <2> QED BY <2>1, <2>2
<1> QED BY <1>4, <1>5, <1>6, <1>7 DEF MetaInv

\* A request begins: nothing is written, and it is alone with what it creates.
LEMMA TrailBeginKeeps ==
  ASSUME MetaInv, NEW u \in Curators, NEW k \in {"Created", "Updated", "Deleted"}, NEW i \in MetaIds,
         NEW to \in MetaIds \cup {NoRef}, BeginMetaCall(u, k, i, to),
         k = "Created" => i \notin Drawn, k = "Updated" => i \in metaRows, k = "Deleted" => i \in KnownRows,
         (i \in Values /\ k # "Deleted") => (to \in MetaFields /\ (k = "Updated" => to = ref[i]))
  PROVE  MetaInv'
<1>1. PICK x : x = [next |-> "row", does |-> Event(k, i), to |-> to,
                    loaded |-> IF i \in Objects THEN HeldBy(i) ELSE {}, hasLayouts |-> i \in laidOut]
  OBVIOUS
<1>2. /\ editing' = [editing EXCEPT ![u] = x] /\ editing[u] = NoEdit
      /\ UNCHANGED <<metaRows, ref, auditTrail, silent>>
  BY <1>1 DEF BeginMetaCall
<1>3. Event(k, i) \in MetaEvents /\ Event(k, i).event = k /\ Event(k, i).id = i
  BY EventFields
<1>4. x \in Edits
  <2>1. (IF i \in Objects THEN HeldBy(i) ELSE {}) \in SUBSET MetaEvents
    BY DEF HeldBy, MetaInv, MetaShape
  <2>2. (i \in laidOut) \in BOOLEAN
    OBVIOUS
  <2> QED BY <1>1, <1>3, <2>1, <2>2 DEF Edits
<1>5. x.next = "row" /\ x.does = Event(k, i) /\ x.to = to
  BY <1>1
<1>6. /\ editing'[u] = x /\ \A v \in Curators \ {u} : editing'[v] = editing[v]
      /\ Pending' = Pending
  <2>1. editing[u].next # "audit" /\ x.next # "audit"
    BY <1>2, <1>5 DEF NoEdit
  <2> QED BY <1>2, <2>1, OneEdit DEF MetaInv
<1>7. WrittenEvents' = WrittenEvents
  BY <1>2, <1>6 DEF WrittenEvents
<1>8. MetaShape'
  BY <1>2, <1>4 DEF MetaInv, MetaShape
<1>9. RowsAreTold' /\ GoneIsTold'
  BY <1>2, <1>7 DEF MetaInv, RowsAreTold, GoneIsTold
<1>10. k = "Created" =>
         /\ i \notin metaRows /\ \A e \in WrittenEvents : e.id # i
         /\ \A v \in Curators : Busy(v) => editing[v].does.id # i
  <2> SUFFICES ASSUME k = "Created"
               PROVE  /\ i \notin metaRows /\ \A e \in WrittenEvents : e.id # i
                      /\ \A v \in Curators : Busy(v) => editing[v].does.id # i
    OBVIOUS
  <2>1. i \notin Drawn
    OBVIOUS
  <2>2. i \notin metaRows /\ (\A e \in auditTrail \cup silent : e.id # i)
    BY <2>1 DEF Drawn
  <2>3. \A v \in Curators : Busy(v) => editing[v].does.id # i
    BY <2>1 DEF Drawn, Busy
  <2>4. \A e \in Pending : e.id # i
    <3>1. \A v \in Curators : editing[v].next = "audit" => Busy(v)
      BY DEF Busy, NoEdit
    <3> QED BY <2>3, <3>1 DEF Pending
  <2> QED BY <2>2, <2>3, <2>4 DEF WrittenEvents
<1>11. Alone(u)'
  <2>1. \A v \in Curators \ {u} : Busy(v)' => Busy(v)
    BY <1>6 DEF Busy
  <2> QED BY <1>2, <1>3, <1>5, <1>6, <1>7, <1>10, <2>1 DEF Alone
<1>12. ASSUME NEW v \in Curators \ {u} PROVE Alone(v)'
  <2>1. Alone(v)
    BY DEF MetaInv
  <2>2. ASSUME editing[v].next = "row", editing[v].does.event = "Created"
        PROVE  i # editing[v].does.id
    <3>1. Busy(v)
      BY <2>2 DEF Busy, NoEdit
    <3>2. /\ editing[v].does.id \notin metaRows /\ \A e \in WrittenEvents : e.id # editing[v].does.id
      BY <2>1, <2>2 DEF Alone
    <3>3. editing[v].does.id \notin KnownRows
      BY <3>2 DEF KnownRows, WrittenEvents
    <3>4. editing[v].does.id \in Drawn
      BY <3>1 DEF Drawn, Busy
    <3> QED BY <3>2, <3>3, <3>4
  <2> QED BY <1>2, <1>3, <1>5, <1>6, <1>7, <2>1, <2>2 DEF Alone, Busy
<1> QED BY <1>8, <1>9, <1>11, <1>12 DEF MetaInv

\* What a step that writes the row, or deletes it, does to the committed events.
LEMMA RowCommitted ==
  ASSUME MetaInv, NEW u \in Curators, editing[u].next = "row",
         editing' = [editing EXCEPT ![u].next = "audit"], silent' = silent, auditTrail' \subseteq auditTrail
  PROVE  /\ Busy(u) /\ editing'[u].next = "audit" /\ editing'[u].does = editing[u].does
         /\ \A v \in Curators \ {u} : editing'[v] = editing[v]
         /\ editing' \in [Curators -> Edits \cup {NoEdit}]
         /\ \A v \in Curators : Busy(v)' => Busy(v) /\ editing'[v].does = editing[v].does
         /\ editing[u].does \in WrittenEvents' /\ WrittenEvents' \subseteq WrittenEvents \cup {editing[u].does}
         /\ \A e \in WrittenEvents : e \in WrittenEvents' \/ (e \in auditTrail /\ e \notin auditTrail')
<1>1. Busy(u)
  BY DEF Busy, NoEdit
<1>2. editing[u] \in Edits
  BY <1>1, EditFields DEF MetaInv
<1>3. PICK x : x = [editing[u] EXCEPT !.next = "audit"]
  OBVIOUS
<1>4. x \in Edits /\ x.next = "audit" /\ x.does = editing[u].does
  BY <1>2, <1>3 DEF Edits
<1>5. editing' = [editing EXCEPT ![u] = x]
  BY <1>3
<1>6. /\ editing'[u] = x /\ \A v \in Curators \ {u} : editing'[v] = editing[v]
      /\ Pending = PendingBut(u) /\ Pending' = PendingBut(u) \cup {x.does}
  <2>1. editing[u].next # "audit"
    OBVIOUS
  <2>2. MetaShape
    BY DEF MetaInv
  <2>3. /\ editing'[u] = x /\ \A v \in Curators \ {u} : editing'[v] = editing[v]
        /\ Pending = PendingBut(u) \cup (IF editing[u].next = "audit" THEN {editing[u].does} ELSE {})
        /\ Pending' = PendingBut(u) \cup (IF x.next = "audit" THEN {x.does} ELSE {})
    BY <1>5, <2>2, OneEdit
  <2> QED BY <1>4, <2>1, <2>3
<1>7. editing' \in [Curators -> Edits \cup {NoEdit}]
  BY <1>4, <1>5 DEF MetaInv, MetaShape
<1>8. \A v \in Curators : Busy(v)' => Busy(v) /\ editing'[v].does = editing[v].does
  BY <1>1, <1>4, <1>6 DEF Busy
<1> QED BY <1>1, <1>4, <1>6, <1>7, <1>8 DEF WrittenEvents

LEMMA PutRowKeeps ==
  ASSUME MetaInv, NEW u \in Curators, PutRow(u)
  PROVE  MetaInv'
<1>1. PICK i : i = editing[u].does.id
  OBVIOUS
<1>2. PICK k : k = editing[u].does.event
  OBVIOUS
<1>3. PICK to : to = editing[u].to
  OBVIOUS
<1>4. /\ editing[u].next = "row" /\ k # "Deleted" /\ (k = "Updated" => i \in metaRows)
      /\ (to # NoRef => to \in metaRows) /\ metaRows' = metaRows \cup {i}
      /\ ref' = [ref EXCEPT ![i] = to] /\ editing' = [editing EXCEPT ![u].next = "audit"]
      /\ UNCHANGED <<auditTrail, silent>>
  BY <1>1, <1>2, <1>3 DEF PutRow, NextCommit
<1>5. /\ Busy(u) /\ editing'[u].next = "audit"
      /\ \A v \in Curators \ {u} : editing'[v] = editing[v]
      /\ editing' \in [Curators -> Edits \cup {NoEdit}]
      /\ \A v \in Curators : Busy(v)' => Busy(v) /\ editing'[v].does = editing[v].does
      /\ WrittenEvents' = WrittenEvents \cup {editing[u].does}
  BY <1>4, RowCommitted
<1>6. /\ i \in MetaIds /\ to \in MetaIds \cup {NoRef} /\ k \in {"Created", "Updated"}
      /\ editing[u].does = Event(k, i)
  BY <1>1, <1>2, <1>3, <1>4, <1>5, EditFields, EventIs DEF MetaInv, MetaEvents
<1>7. /\ k = "Created" => (i \notin metaRows /\ \A e \in WrittenEvents : e.id # i)
      /\ k = "Created" => \A v \in Curators \ {u} : Busy(v) => editing[v].does.id # i
      /\ i \in Values => (to \in MetaFields /\ (k = "Updated" => to = ref[i]))
  BY <1>1, <1>2, <1>3, <1>4 DEF MetaInv, Alone
<1>8. \A j \in MetaIds : ref'[j] = IF j = i THEN to ELSE ref[j]
  BY <1>4 DEF MetaInv, MetaShape
<1>9. MetaShape'
  BY <1>4, <1>5, <1>6 DEF MetaInv, MetaShape
<1>10. ASSUME NEW j \in metaRows'
       PROVE  /\ Event("Created", j) \in WrittenEvents' /\ Event("Deleted", j) \notin WrittenEvents'
              /\ j \in Values => ref'[j] \in MetaFields \cap metaRows'
  <2>0. j \in MetaIds /\ editing[u].does # Event("Deleted", j)
    BY <1>2, <1>4, <1>6, EventFields DEF MetaInv, MetaShape
  <2>1. CASE j = i
    <3>1. Event("Created", i) \in WrittenEvents'
      <4>1. CASE k = "Created"
        BY <1>5, <1>6, <4>1
      <4>2. CASE k = "Updated"
        BY <1>4, <1>5, <4>2 DEF MetaInv, RowsAreTold
      <4> QED BY <1>6, <4>1, <4>2
    <3>2. Event("Deleted", i) \notin WrittenEvents
      <4>1. CASE k = "Created"
        BY <1>6, <1>7, <4>1, EventFields
      <4>2. CASE k = "Updated"
        BY <1>4, <4>2 DEF MetaInv, RowsAreTold
      <4> QED BY <1>6, <4>1, <4>2
    <3>3. i \in Values => ref'[i] \in MetaFields \cap metaRows'
      BY <1>4, <1>6, <1>7, <1>8, MetaAssumption DEF MetaIds
    <3> QED BY <1>5, <2>0, <2>1, <3>1, <3>2, <3>3
  <2>2. CASE j # i
    <3>1. j \in metaRows /\ ref'[j] = ref[j]
      BY <1>4, <1>8, <2>0, <2>2
    <3> QED BY <1>4, <1>5, <2>0, <3>1 DEF MetaInv, RowsAreTold
  <2> QED BY <2>1, <2>2
<1>11. ASSUME NEW j \in MetaIds \ metaRows', Event("Created", j) \in WrittenEvents'
       PROVE  \/ Event("Deleted", j) \in WrittenEvents'
              \/ j \in Values /\ ref'[j] \in MetaFields /\ Event("Deleted", ref'[j]) \in WrittenEvents'
  <2>1. j # i /\ j \notin metaRows /\ ref'[j] = ref[j]
    BY <1>4, <1>8
  <2>2. Event("Created", j) # editing[u].does
    BY <1>1, <2>1, EventFields
  <2>3. Event("Created", j) \in WrittenEvents
    BY <1>5, <1>11, <2>2
  <2> QED BY <1>5, <2>1, <2>3 DEF MetaInv, GoneIsTold
<1>12. RowsAreTold' /\ GoneIsTold'
  BY <1>10, <1>11 DEF RowsAreTold, GoneIsTold
<1>13. ASSUME NEW v \in Curators PROVE Alone(v)'
  <2>1. CASE v = u
    BY <1>5, <2>1 DEF Alone
  <2>2. CASE v # u
    <3>1. Alone(v) /\ editing'[v] = editing[v]
      BY <1>5, <2>2 DEF MetaInv
    <3>2. ASSUME editing[v].next = "row"
          PROVE  /\ Busy(v) /\ editing[v].does.id \in MetaIds
                 /\ editing[v].does.event = "Created" => editing[v].does.id # i
      <4>1. Busy(v)
        BY <3>2 DEF Busy, NoEdit
      <4>2. editing[v].does.event = "Created" => editing[v].does.id # i
        BY <1>1, <1>5, <2>2, <3>1, <3>2 DEF Alone
      <4> QED BY <4>1, <4>2, EditFields DEF MetaInv
    <3>3. ASSUME editing[v].next = "row", editing[v].does.event = "Created"
          PROVE  /\ editing[v].does.id \notin metaRows'
                 /\ \A e \in WrittenEvents' : e.id # editing[v].does.id
                 /\ \A w \in Curators \ {v} : Busy(w)' => editing'[w].does.id # editing[v].does.id
      BY <1>1, <1>4, <1>5, <3>1, <3>2, <3>3 DEF Alone
    <3>4. ASSUME editing[v].next = "row", editing[v].does.id \in Values, editing[v].does.event # "Deleted"
          PROVE  /\ editing[v].to \in MetaFields
                 /\ editing[v].does.event = "Updated" => editing[v].to = ref'[editing[v].does.id]
      <4>1. /\ editing[v].to \in MetaFields
            /\ editing[v].does.event = "Updated" => editing[v].to = ref[editing[v].does.id]
        BY <3>1, <3>4 DEF Alone
      <4>2. CASE editing[v].does.id = i
        <5>1. k = "Updated" /\ to = ref[i]
          BY <1>6, <1>7, <2>2, <3>2, <3>4, <4>2
        <5> QED BY <1>6, <1>8, <4>1, <4>2, <5>1
      <4>3. CASE editing[v].does.id # i
        BY <1>8, <3>2, <3>4, <4>1, <4>3
      <4> QED BY <4>2, <4>3
    <3> QED BY <3>1, <3>3, <3>4 DEF Alone
  <2> QED BY <2>1, <2>2
<1> QED BY <1>9, <1>12, <1>13 DEF MetaInv

LEMMA DeleteRowKeeps ==
  ASSUME MetaInv, NEW u \in Curators, DeleteRow(u)
  PROVE  MetaInv'
<1>1. PICK i : i = editing[u].does.id
  OBVIOUS
<1>2. /\ editing[u].next = "row" /\ editing[u].does.event = "Deleted"
      /\ metaRows' = metaRows \ GoesWith(i)
      /\ ref' = [f \in MetaIds |-> IF f \in MetaFields /\ ref[f] = i THEN NoRef ELSE ref[f]]
      /\ auditTrail' \subseteq auditTrail
      /\ \A e \in auditTrail : e \in auditTrail' \/ (i \in Objects /\ e \in HeldBy(i))
      /\ editing' = [editing EXCEPT ![u].next = "audit"] /\ silent' = silent
  BY <1>1 DEF DeleteRow, NextCommit
<1>3. /\ Busy(u) /\ editing'[u].next = "audit"
      /\ \A v \in Curators \ {u} : editing'[v] = editing[v]
      /\ editing' \in [Curators -> Edits \cup {NoEdit}]
      /\ \A v \in Curators : Busy(v)' => Busy(v) /\ editing'[v].does = editing[v].does
      /\ editing[u].does \in WrittenEvents' /\ WrittenEvents' \subseteq WrittenEvents \cup {editing[u].does}
      /\ \A e \in WrittenEvents : e \in WrittenEvents' \/ (e \in auditTrail /\ e \notin auditTrail')
  BY <1>2, RowCommitted
<1>4. i \in MetaIds /\ editing[u].does = Event("Deleted", i)
  BY <1>1, <1>2, <1>3, EditFields, EventIs DEF MetaInv
<1>5. \A e \in WrittenEvents : (e.event = "Deleted" \/ e.id # i) => e \in WrittenEvents'
  BY <1>2, <1>3 DEF HeldBy
<1>6. \A j \in Values : j \in MetaIds /\ j \notin MetaFields /\ ref'[j] = ref[j]
  BY <1>2, MetaAssumption DEF MetaIds
<1>7. i \notin metaRows'
  BY <1>2 DEF GoesWith
<1>8. MetaShape'
  <2>1. ref' \in [MetaIds -> MetaIds \cup {NoRef}]
    BY <1>2 DEF MetaInv, MetaShape
  <2> QED BY <1>2, <1>3, <2>1 DEF MetaInv, MetaShape
<1>9. ASSUME NEW j \in metaRows'
      PROVE  /\ Event("Created", j) \in WrittenEvents' /\ Event("Deleted", j) \notin WrittenEvents'
             /\ j \in Values => ref'[j] \in MetaFields \cap metaRows'
  <2>1. j \in metaRows /\ j # i /\ j \in MetaIds
    BY <1>2, <1>7 DEF MetaInv, MetaShape
  <2>2. Event("Created", j).id = j /\ Event("Deleted", j) # editing[u].does
    BY <1>1, <2>1, EventFields
  <2>3. Event("Created", j) \in WrittenEvents' /\ Event("Deleted", j) \notin WrittenEvents'
    BY <1>3, <1>5, <2>1, <2>2 DEF MetaInv, RowsAreTold
  <2>4. ASSUME j \in Values PROVE ref'[j] \in MetaFields \cap metaRows'
    <3>1. ref[j] \in MetaFields \cap metaRows /\ ref'[j] = ref[j]
      BY <1>6, <2>1, <2>4 DEF MetaInv, RowsAreTold
    <3>2. ref[j] # i
      BY <1>2, <2>1, <2>4 DEF GoesWith
    <3>3. ref[j] \notin Values
      BY <3>1, MetaAssumption
    <3> QED BY <1>2, <3>1, <3>2, <3>3 DEF GoesWith
  <2> QED BY <2>3, <2>4
<1>10. ASSUME NEW j \in MetaIds \ metaRows', Event("Created", j) \in WrittenEvents'
       PROVE  \/ Event("Deleted", j) \in WrittenEvents'
              \/ j \in Values /\ ref'[j] \in MetaFields /\ Event("Deleted", ref'[j]) \in WrittenEvents'
  <2>1. CASE j = i
    BY <1>3, <1>4, <2>1
  <2>2. CASE j # i /\ j \in metaRows
    <3>1. j \in Values /\ ref[j] = i /\ ref[j] \in MetaFields
      BY <1>2, <2>2 DEF GoesWith, MetaInv, RowsAreTold
    <3> QED BY <1>3, <1>4, <1>6, <3>1
  <2>3. CASE j # i /\ j \notin metaRows
    <3>1. Event("Created", j) \in WrittenEvents
      BY <1>3, <1>10, <1>4, EventFields
    <3>2. \/ Event("Deleted", j) \in WrittenEvents
          \/ j \in Values /\ ref[j] \in MetaFields /\ Event("Deleted", ref[j]) \in WrittenEvents
      BY <2>3, <3>1 DEF MetaInv, GoneIsTold
    <3>3. MetaFields \subseteq MetaIds
      BY DEF MetaIds
    <3>4. \A x \in MetaIds : Event("Deleted", x) \in WrittenEvents => Event("Deleted", x) \in WrittenEvents'
      BY <1>5, EventFields
    <3> QED BY <1>6, <3>2, <3>3, <3>4
  <2> QED BY <2>1, <2>2, <2>3
<1>11. RowsAreTold' /\ GoneIsTold'
  BY <1>9, <1>10 DEF RowsAreTold, GoneIsTold
<1>12. ASSUME NEW v \in Curators PROVE Alone(v)'
  <2>1. CASE v = u
    BY <1>3, <2>1 DEF Alone
  <2>2. CASE v # u
    <3>1. Alone(v) /\ editing'[v] = editing[v]
      BY <1>3, <2>2 DEF MetaInv
    <3>2. ASSUME editing[v].next = "row", editing[v].does.event = "Created"
          PROVE  /\ editing[v].does.id \notin metaRows'
                 /\ \A e \in WrittenEvents' : e.id # editing[v].does.id
                 /\ \A w \in Curators \ {v} : Busy(w)' => editing'[w].does.id # editing[v].does.id
      BY <1>2, <1>3, <2>2, <3>1, <3>2 DEF Alone
    <3>3. \A j \in Values : ref'[j] = ref[j]
      BY <1>6
    <3> QED BY <3>1, <3>2, <3>3 DEF Alone
  <2> QED BY <2>1, <2>2
<1> QED BY <1>8, <1>11, <1>12 DEF MetaInv

LEMMA MetaStep == MetaInv /\ [MetaNext]_metaVars => MetaInv'
<1> SUFFICES ASSUME MetaInv, [MetaNext]_metaVars PROVE MetaInv'
  OBVIOUS
<1>0. Objects \subseteq MetaIds /\ MetaFields \subseteq MetaIds /\ Values \subseteq MetaIds
      /\ Picklists \subseteq MetaIds
  BY DEF MetaIds
<1>1. ASSUME UNCHANGED <<metaRows, ref, auditTrail, silent, editing>> PROVE MetaInv'
  BY <1>1 DEF MetaInv, MetaShape, RowsAreTold, GoneIsTold, Alone, WrittenEvents, Pending, Busy
<1>2. ASSUME NEW u \in Curators, NEW o \in Objects, CreateObject(u, o) \/ UpdateObject(u, o) \/ DeleteObject(u, o)
      PROVE  MetaInv'
  <2>1. o \notin Values
    BY MetaAssumption
  <2> QED BY <1>0, <1>2, <2>1, TrailBeginKeeps DEF CreateObject, UpdateObject, DeleteObject
<1>3. ASSUME NEW u \in Curators, NEW f \in MetaFields, DeleteField(u, f) PROVE MetaInv'
  BY <1>0, <1>3, TrailBeginKeeps DEF DeleteField
<1>4. ASSUME NEW u \in Curators, NEW f \in MetaFields, NEW l \in Picklists \cup {NoRef},
             CreateField(u, f, l) \/ UpdateField(u, f, l)
      PROVE  MetaInv'
  <2>1. f \notin Values /\ l \in MetaIds \cup {NoRef} /\ f \in MetaIds
    BY <1>0, MetaAssumption
  <2> QED BY <1>4, <2>1, TrailBeginKeeps DEF CreateField, UpdateField
<1>5. ASSUME NEW u \in Curators, NEW f \in MetaFields, NEW v \in Values, CreateValue(u, v, f) PROVE MetaInv'
  BY <1>0, <1>5, TrailBeginKeeps DEF CreateValue
<1>6. ASSUME NEW u \in Curators, NEW v \in Values, UpdateValue(u, v) PROVE MetaInv'
  <2>1. v \in metaRows /\ BeginMetaCall(u, "Updated", v, ref[v])
    BY <1>6 DEF UpdateValue
  <2>2. ref[v] \in MetaFields
    BY <2>1 DEF MetaInv, RowsAreTold
  <2> QED BY <1>0, <2>1, <2>2, TrailBeginKeeps
<1>7. ASSUME NEW u \in Curators, NEW v \in Values, DeleteValue(u, v) PROVE MetaInv'
  BY <1>0, <1>7, TrailBeginKeeps DEF DeleteValue
<1>8. ASSUME NEW u \in Curators, NEW l \in Picklists,
             CreatePicklist(u, l) \/ UpdatePicklist(u, l) \/ DeletePicklist(u, l)
      PROVE  MetaInv'
  <2>1. l \notin Values /\ (l \in metaRows => l \in KnownRows)
    BY MetaAssumption DEF KnownRows
  <2> QED BY <1>0, <1>8, <2>1, TrailBeginKeeps DEF CreatePicklist, UpdatePicklist, DeletePicklist
<1>9. ASSUME NEW u \in Curators, PutRow(u) PROVE MetaInv'
  BY <1>9, PutRowKeeps
<1>10. ASSUME NEW u \in Curators, DeleteRow(u) PROVE MetaInv'
  BY <1>10, DeleteRowKeeps
<1>11. ASSUME NEW u \in Curators, RefuseEdit(u) \/ WriteAudit(u) \/ WriteOutbox(u) \/ DieEditing(u) PROVE MetaInv'
  <2>1. Busy(u)
    BY <1>11 DEF RefuseEdit, WriteAudit, WriteOutbox, DieEditing, Busy, NoEdit
  <2>2. PICK y : y = [editing[u] EXCEPT !.next = "outbox"]
    OBVIOUS
  <2>3. PICK x \in {NoEdit, y} : editing' = [editing EXCEPT ![u] = x]
    BY <1>11, <2>2 DEF RefuseEdit, WriteAudit, WriteOutbox, DieEditing, EndEdit, NextCommit
  <2>4. editing[u] \in Edits /\ editing[u].does \in MetaEvents
    BY <2>1, EditFields DEF MetaInv
  <2>5. x.next # "audit"
    BY <2>2, <2>3, <2>4 DEF NoEdit, Edits
  <2>6. /\ Pending' = PendingBut(u)
        /\ Pending = PendingBut(u) \cup (IF editing[u].next = "audit" THEN {editing[u].does} ELSE {})
    <3>1. MetaShape
      BY DEF MetaInv
    <3>2. /\ Pending = PendingBut(u) \cup (IF editing[u].next = "audit" THEN {editing[u].does} ELSE {})
          /\ Pending' = PendingBut(u) \cup (IF x.next = "audit" THEN {x.does} ELSE {})
      BY <2>3, <3>1, OneEdit
    <3> QED BY <2>5, <3>2
  <2>7. /\ UNCHANGED <<metaRows, ref>>
        /\ auditTrail' \in {auditTrail, auditTrail \cup {editing[u].does}}
        /\ silent' \in {silent, silent \cup {editing[u].does}}
        /\ auditTrail' # auditTrail \/ silent' # silent => editing[u].next = "audit"
    BY <1>11 DEF RefuseEdit, WriteAudit, WriteOutbox, DieEditing
  <2>8. editing[u].next = "audit" =>
          \/ editing[u].does \in auditTrail' \cup silent'
          \/ editing[u].does.event # "Deleted" /\ editing[u].does.id \notin metaRows
    BY <1>11 DEF RefuseEdit, WriteAudit, WriteOutbox, DieEditing, HoldsObject
  <2>9. auditTrail' \subseteq MetaEvents /\ silent' \subseteq MetaEvents
    BY <2>4, <2>7 DEF MetaInv, MetaShape
  <2>10. WrittenEvents' \subseteq WrittenEvents
    BY <2>6, <2>7 DEF WrittenEvents
  <2>11. \A e \in WrittenEvents : e \in WrittenEvents' \/ (e.event # "Deleted" /\ e.id \notin metaRows)
    BY <2>6, <2>7, <2>8 DEF WrittenEvents
  <2> QED BY <2>1, <2>2, <2>3, <2>7, <2>9, <2>10, <2>11, AfterTheRow
<1>12. ASSUME NEW o \in Objects, LayOut(o) PROVE MetaInv'
  BY <1>1, <1>12 DEF LayOut
<1>13. CASE UNCHANGED metaVars
  BY <1>1, <1>13 DEF metaVars
<1> QED BY <1>2, <1>3, <1>4, <1>5, <1>6, <1>7, <1>8, <1>9, <1>10, <1>11, <1>12, <1>13 DEF MetaNext

\* Which records there are can be told from the audit trail alone, for every number
\* of records, users and requests.
THEOREM TrailTells == MetaSpec => []TrailTellsWhatThereIs
<1>1. MetaInit => MetaInv
  <2> SUFFICES ASSUME MetaInit PROVE MetaInv
    OBVIOUS
  <2>1. WrittenEvents = {}
    BY DEF MetaInit, WrittenEvents, Pending, NoEdit
  <2>2. \A u \in Curators : Alone(u)
    BY DEF MetaInit, Alone, NoEdit
  <2> QED BY <2>1, <2>2 DEF MetaInit, MetaInv, MetaShape, RowsAreTold, GoneIsTold
<1> QED BY <1>1, MetaStep, ToldFromTheTrail, PTL DEF MetaSpec

----------------------------------------------------------------------------
(***************************************************************************)
(* The layouts and the registry that caches them.                            *)
(***************************************************************************)

\* A request in progress: it is about a version there may be, writes a schema, and
\* inserts a copy inactive.
SoundChange(c) ==
  \/ c.kind = "none"
  \/ /\ c = [kind |-> c.kind, version |-> c.version, schema |-> c.schema, active |-> c.active,
              read |-> c.read]
     /\ c.version \in LayoutVersions
     /\ c.kind \in {"create", "insert", "copy", "write"} => (c.schema \in Schemas /\ c.active \in BOOLEAN)
     /\ c.kind = "copy" => ~ c.active

LayoutShape ==
  /\ layouts \in [LayoutVersions -> LayoutRows]
  /\ changing = [u \in Admins |-> changing[u]] /\ reading = [r \in Readers |-> reading[r]]
  /\ \A u \in Admins : SoundChange(changing[u])

\* What a reader holds is the active layout unless a commit crossed its look-up.
ReadersAreCurrent ==
  \A r \in Readers : (reading[r] # NoSchema /\ "crossed" \notin staleBy) => reading[r] \in ActiveSchema

LayoutInv == LayoutShape /\ ActiveIsKept /\ RegistryIsCurrent /\ ReadersAreCurrent

\* A commit of the rows that keeps them rows, and leaves the active ones unless it
\* says why or its request is about to drop the entry.
LEMMA CommitKeeps ==
  ASSUME LayoutInv, NEW table, NEW stale, NEW cause, NEW u \in Admins, CommitRows(table, stale, cause),
         table \in [LayoutVersions -> LayoutRows], UNCHANGED <<registry, reading>>,
         ActiveIn(table) = {} => (cause # {} \/ ActiveLayouts = {}),
         changing' = [v \in Admins |-> changing'[v]],
         \A v \in Admins \ {u} : changing'[v] = changing[v],
         SoundChange(changing[u])',
         \/ stale # {} \/ changing'[u].kind = "invalidate"
         \/ /\ {table[v].schema : v \in ActiveIn(table)} = ActiveSchema
            /\ changing[u].kind # "invalidate"
  PROVE  LayoutInv'
<1>1. layouts' = table /\ staleBy' = staleBy \cup stale \cup Crossing
      /\ lost' = (IF ActiveIn(table) # {} THEN {} ELSE lost \cup cause)
  BY DEF CommitRows
<1>2. ActiveLayouts' = ActiveIn(table) /\ ActiveSchema' = {table[v].schema : v \in ActiveIn(table)}
  BY <1>1 DEF ActiveLayouts, ActiveSchema, ActiveIn
<1>3. LayoutShape'
  <2>1. \A v \in Admins : SoundChange(changing[v])'
    BY DEF LayoutInv, LayoutShape, SoundChange
  <2> QED BY <1>1, <2>1 DEF LayoutInv, LayoutShape
<1>4. ActiveIsKept'
  BY <1>1, <1>2 DEF LayoutInv, ActiveIsKept
<1>5. ReadersAreCurrent'
  <2> SUFFICES ASSUME NEW r \in Readers, reading[r] # NoSchema PROVE "crossed" \in staleBy'
    BY DEF ReadersAreCurrent
  <2> QED BY <1>1 DEF Crossing
<1>6. RegistryIsCurrent'
  <2> SUFFICES ASSUME registry # NoSchema, staleBy' = {}, ~ \E v \in Admins : changing'[v].kind = "invalidate"
               PROVE  registry \in ActiveSchema'
    BY DEF RegistryIsCurrent
  <2>1. stale = {} /\ staleBy = {}
    BY <1>1
  <2>2. ActiveSchema' = ActiveSchema /\ changing[u].kind # "invalidate"
    BY <1>2, <2>1
  <2>3. ~ \E v \in Admins : changing[v].kind = "invalidate"
    BY <2>2
  <2> QED BY <2>1, <2>2, <2>3 DEF LayoutInv, RegistryIsCurrent
<1> QED BY <1>3, <1>4, <1>5, <1>6 DEF LayoutInv

\* A step that leaves the rows, and what readers hold, alone.
LEMMA ChangeKeeps ==
  ASSUME LayoutInv, NEW u \in Admins, NEW c, changing' = [changing EXCEPT ![u] = c],
         UNCHANGED <<layouts, registry, reading, lost>>, staleBy \subseteq staleBy',
         SoundChange(c),
         changing[u].kind = "invalidate" => staleBy' # {}
  PROVE  LayoutInv'
<1>1. /\ changing' = [v \in Admins |-> changing'[v]]
      /\ \A v \in Admins : changing'[v] = IF v = u THEN c ELSE changing[v]
  BY DEF LayoutInv, LayoutShape
<1>2. ActiveLayouts' = ActiveLayouts /\ ActiveSchema' = ActiveSchema
  BY DEF ActiveLayouts, ActiveSchema, ActiveIn
<1>3. LayoutShape' /\ ActiveIsKept' /\ ReadersAreCurrent'
  <2>1. \A v \in Admins : SoundChange(changing[v])'
    BY <1>1 DEF LayoutInv, LayoutShape, SoundChange
  <2> QED BY <1>1, <1>2, <2>1 DEF LayoutInv, LayoutShape, ActiveIsKept, ReadersAreCurrent
<1>4. RegistryIsCurrent'
  BY <1>1, <1>2 DEF LayoutInv, RegistryIsCurrent
<1> QED BY <1>3, <1>4 DEF LayoutInv

\* A request that goes on, or ends.
LEMMA GoesOn ==
  ASSUME LayoutInv, NEW u \in Admins, NEW k \in {"insert", "invalidate"},
         changing[u].kind \in {"create", "insert", "write", "delete"}, k = "insert" => changing[u].kind = "create"
  PROVE  LET c == [changing[u] EXCEPT !.kind = k] IN SoundChange(c) /\ c.kind = k
<1>1. SoundChange(changing[u]) /\ changing[u].kind # "none"
  BY DEF LayoutInv, LayoutShape
<1>2. [changing[u] EXCEPT !.kind = k] =
        [kind |-> k, version |-> changing[u].version, schema |-> changing[u].schema,
         active |-> changing[u].active, read |-> changing[u].read]
  BY <1>1 DEF SoundChange
<1> QED BY <1>1, <1>2 DEF SoundChange

LEMMA EndsSoundly == SoundChange(NoChange) /\ NoChange.kind = "none"
BY DEF SoundChange, NoChange

LEMMA BeginIsSound ==
  ASSUME LayoutInv, NEW u \in Admins, NEW k, NEW v \in LayoutVersions, NEW s, NEW a, BeginChange(u, k, v, s, a),
         k \in {"create", "insert", "copy", "write"} => (s \in Schemas /\ a \in BOOLEAN), k = "copy" => ~ a
  PROVE  LayoutInv'
<1>1. PICK c : c = [kind |-> k, version |-> v, schema |-> s, active |-> a, read |-> ActiveLayouts]
  OBVIOUS
<1>2. SoundChange(c)
  BY <1>1 DEF SoundChange
<1>3. /\ changing' = [changing EXCEPT ![u] = c] /\ changing[u] = NoChange
      /\ UNCHANGED <<layouts, registry, reading, lost, staleBy>>
  BY <1>1 DEF BeginChange
<1>4. changing[u].kind # "invalidate"
  BY <1>3 DEF NoChange
<1> QED BY <1>2, <1>3, <1>4, ChangeKeeps

LEMMA RowOfALayout ==
  ASSUME LayoutInv, NEW v \in KnownLayouts
  PROVE  v \in LayoutVersions /\ layouts[v] \in [active : BOOLEAN, schema : Schemas]
BY DEF LayoutInv, LayoutShape, KnownLayouts, LayoutRows

\* Rows whose active flag is cleared are rows.
LEMMA DeactivatedRows ==
  ASSUME LayoutInv, NEW read
  PROVE  Deactivated(read) \in [LayoutVersions -> LayoutRows]
<1> SUFFICES ASSUME NEW v \in LayoutVersions
             PROVE  [active |-> FALSE, schema |-> layouts[v].schema] \in LayoutRows
  BY DEF Deactivated, LayoutInv, LayoutShape
<1>1. layouts[v] \in LayoutRows
  BY DEF LayoutInv, LayoutShape
<1>2. CASE layouts[v] = NoLayout
  <2>1. layouts[v].schema = NoSchema
    BY <1>2 DEF NoLayout
  <2>2. [active |-> FALSE, schema |-> layouts[v].schema] = NoLayout
    BY <2>1 DEF NoLayout
  <2> QED BY <2>2 DEF LayoutRows
<1>3. CASE layouts[v] \in [active : BOOLEAN, schema : Schemas]
  BY <1>3 DEF LayoutRows
<1> QED BY <1>1, <1>2, <1>3 DEF LayoutRows

\* The two commits of a creation.
LEMMA DeactivateKeeps ==
  ASSUME LayoutInv, NEW u \in Admins, DeactivateLayouts(u)
  PROVE  LayoutInv'
<1>1. changing[u].kind = "create" /\ UNCHANGED <<registry, reading>>
  BY DEF DeactivateLayouts
<1>2. PICK c : c = [changing[u] EXCEPT !.kind = "insert"]
  OBVIOUS
<1>3. SoundChange(c) /\ c.kind = "insert"
  BY <1>1, <1>2, GoesOn
<1>4. CASE UNCHANGED <<layouts, staleBy, lost>>
  <2>1. changing' = [changing EXCEPT ![u] = c] \/ changing' = [changing EXCEPT ![u] = NoChange]
    BY <1>2 DEF DeactivateLayouts, GoOn, EndChange
  <2> QED BY <1>1, <1>3, <1>4, <2>1, ChangeKeeps, EndsSoundly
<1>5. CASE CommitRows(Deactivated(changing[u].read), {"deactivated"}, {"create"})
            /\ changing' = GoOn(u, "insert")
  <2>1. changing' = [v \in Admins |-> changing'[v]] /\ \A v \in Admins : changing'[v] = IF v = u THEN c ELSE changing[v]
    BY <1>2, <1>5 DEF GoOn, LayoutInv, LayoutShape
  <2>2. SoundChange(changing[u])'
    BY <1>3, <2>1 DEF SoundChange
  <2> QED BY <1>1, <1>5, <2>1, <2>2, DeactivatedRows, CommitKeeps
<1> QED BY <1>4, <1>5 DEF DeactivateLayouts

LEMMA InsertKeeps ==
  ASSUME LayoutInv, NEW u \in Admins, InsertLayout(u)
  PROVE  LayoutInv'
<1>1. PICK c : c = changing[u]
  OBVIOUS
<1>2. c.kind \in {"insert", "copy"} /\ UNCHANGED <<registry, reading>>
  BY <1>1 DEF InsertLayout
<1>3. SoundChange(c) /\ c.version \in LayoutVersions /\ c.schema \in Schemas /\ c.active \in BOOLEAN
      /\ (c.kind = "copy" => ~ c.active)
  <2>1. SoundChange(c)
    BY <1>1 DEF LayoutInv, LayoutShape
  <2> QED BY <1>2, <2>1 DEF SoundChange
<1>4. CASE UNCHANGED <<layouts, staleBy, lost>> /\ changing' = EndChange(u)
  BY <1>1, <1>2, <1>4, ChangeKeeps, EndsSoundly DEF EndChange
<1>5. CASE ~ InsertRefused(c)
  <2>1. PICK table : table = [layouts EXCEPT ![c.version] = [active |-> c.active, schema |-> c.schema]]
    OBVIOUS
  <2>2. CommitRows(table, {}, {}) /\ layouts[c.version] = NoLayout
    BY <1>1, <1>5, <2>1 DEF InsertLayout, InsertRefused
  <2>3. table \in [LayoutVersions -> LayoutRows]
    BY <1>3, <2>1 DEF LayoutInv, LayoutShape, LayoutRows
  <2>4. \A v \in LayoutVersions : table[v] = IF v = c.version THEN [active |-> c.active, schema |-> c.schema] ELSE layouts[v]
    BY <2>1 DEF LayoutInv, LayoutShape
  <2>5. \A v \in LayoutVersions : layouts[v].active => table[v].active
    BY <2>2, <2>4 DEF NoLayout
  <2>6. ActiveIn(table) = {} => ActiveLayouts = {}
    BY <2>5 DEF ActiveIn, ActiveLayouts
  <2>7. PICK d : d = IF c.kind = "insert" THEN [c EXCEPT !.kind = "invalidate"] ELSE NoChange
    OBVIOUS
  <2>8. changing' = [changing EXCEPT ![u] = d]
    BY <1>1, <1>5, <2>7 DEF InsertLayout, GoOn, EndChange
  <2>9. SoundChange(d) /\ (c.kind = "insert" => d.kind = "invalidate")
    BY <1>1, <1>2, <2>7, GoesOn, EndsSoundly
  <2>10. changing' = [v \in Admins |-> changing'[v]] /\ \A v \in Admins : changing'[v] = IF v = u THEN d ELSE changing[v]
    BY <2>8 DEF LayoutInv, LayoutShape
  <2>11. SoundChange(changing[u])'
    BY <2>9, <2>10 DEF SoundChange
  <2>12. c.kind = "copy" => {table[v].schema : v \in ActiveIn(table)} = ActiveSchema
    <3>1. c.kind = "copy" => ActiveIn(table) = ActiveLayouts
      BY <1>3, <2>2, <2>4 DEF ActiveIn, ActiveLayouts, NoLayout
    <3>2. c.kind = "copy" => \A v \in ActiveLayouts : table[v].schema = layouts[v].schema
      BY <2>2, <2>4 DEF ActiveIn, ActiveLayouts, NoLayout
    <3> QED BY <3>1, <3>2 DEF ActiveSchema
  <2>13. \/ {} # {} \/ changing'[u].kind = "invalidate"
         \/ {table[v].schema : v \in ActiveIn(table)} = ActiveSchema /\ changing[u].kind # "invalidate"
    BY <1>1, <1>2, <2>9, <2>10, <2>12
  <2> QED BY <1>2, <2>2, <2>3, <2>6, <2>10, <2>11, <2>13, CommitKeeps
<1> QED BY <1>1, <1>4, <1>5 DEF InsertLayout

\* A write or a deletion of one layout: one commit, the entry dropped next.
LEMMA WriteKeeps ==
  ASSUME LayoutInv, NEW u \in Admins, UpdateLayout(u) \/ DeleteLayout(u)
  PROVE  LayoutInv'
<1>1. PICK c : c = changing[u]
  OBVIOUS
<1>2. c.kind \in {"write", "delete"} /\ UNCHANGED <<registry, reading>>
  BY <1>1 DEF UpdateLayout, DeleteLayout
<1>3. SoundChange(c) /\ c.version \in LayoutVersions
      /\ (c.kind = "write" => c.schema \in Schemas /\ c.active \in BOOLEAN)
  <2>1. SoundChange(c)
    BY <1>1 DEF LayoutInv, LayoutShape
  <2> QED BY <1>2, <2>1 DEF SoundChange
<1>4. CASE UNCHANGED <<layouts, staleBy, lost>> /\ changing' = EndChange(u)
  BY <1>1, <1>2, <1>4, ChangeKeeps, EndsSoundly DEF EndChange
<1>5. ASSUME NEW table \in [LayoutVersions -> LayoutRows], CommitRows(table, {}, {"written"}),
             changing' = GoOn(u, "invalidate")
      PROVE  LayoutInv'
  <2>1. PICK d : d = [c EXCEPT !.kind = "invalidate"]
    OBVIOUS
  <2>2. SoundChange(d) /\ d.kind = "invalidate"
    BY <1>1, <1>2, <2>1, GoesOn
  <2>3. changing' = [v \in Admins |-> changing'[v]] /\ \A v \in Admins : changing'[v] = IF v = u THEN d ELSE changing[v]
    BY <1>1, <1>5, <2>1 DEF GoOn, LayoutInv, LayoutShape
  <2>4. SoundChange(changing[u])'
    BY <2>2, <2>3 DEF SoundChange
  <2> QED BY <1>2, <1>5, <2>2, <2>3, <2>4, CommitKeeps
<1>6. CASE UpdateLayout(u) /\ ~ (UNCHANGED <<layouts, staleBy, lost>> /\ changing' = EndChange(u))
  <2>1. c.kind = "write"
    BY <1>1, <1>6 DEF UpdateLayout
  <2>2. PICK active \in {c.active, layouts[c.version].active} :
          /\ layouts[c.version] # NoLayout
          /\ CommitRows([layouts EXCEPT ![c.version] = [active |-> active, schema |-> c.schema]], {}, {"written"})
          /\ changing' = GoOn(u, "invalidate")
    BY <1>1, <1>6 DEF UpdateLayout
  <2>3. active \in BOOLEAN
    BY <1>3, <2>1, <2>2, RowOfALayout DEF KnownLayouts
  <2>4. [layouts EXCEPT ![c.version] = [active |-> active, schema |-> c.schema]] \in [LayoutVersions -> LayoutRows]
    BY <1>3, <2>1, <2>3 DEF LayoutInv, LayoutShape, LayoutRows
  <2> QED BY <1>5, <2>2, <2>4
<1>7. CASE DeleteLayout(u) /\ ~ (UNCHANGED <<layouts, staleBy, lost>> /\ changing' = EndChange(u))
  <2>1. CommitRows([layouts EXCEPT ![c.version] = NoLayout], {}, {"written"}) /\ changing' = GoOn(u, "invalidate")
    BY <1>1, <1>7 DEF DeleteLayout
  <2>2. [layouts EXCEPT ![c.version] = NoLayout] \in [LayoutVersions -> LayoutRows]
    BY DEF LayoutInv, LayoutShape, LayoutRows
  <2> QED BY <1>5, <2>1, <2>2
<1> QED BY <1>4, <1>6, <1>7

LEMMA PublishKeeps ==
  ASSUME LayoutInv, NEW u \in Admins, PublishLayout(u)
  PROVE  LayoutInv'
<1>1. PICK c : c = changing[u]
  OBVIOUS
<1>2. c.kind = "publish" /\ changing' = [changing EXCEPT ![u] = NoChange] /\ UNCHANGED <<registry, reading>>
  BY <1>1 DEF PublishLayout, EndChange
<1>3. CASE UNCHANGED <<layouts, staleBy, lost>>
  BY <1>1, <1>2, <1>3, ChangeKeeps, EndsSoundly
<1>4. CASE c.version \in KnownLayouts /\ CommitRows(PublishedRows(c), {"published"}, {})
  <2>1. PICK table : table = PublishedRows(c)
    OBVIOUS
  <2>2. c.version \in LayoutVersions /\ layouts[c.version] \in [active : BOOLEAN, schema : Schemas]
    BY <1>4, RowOfALayout
  <2>3. PICK down : down = Deactivated(c.read)
    OBVIOUS
  <2>4. down \in [LayoutVersions -> LayoutRows] /\ down[c.version] \in [active : BOOLEAN, schema : Schemas]
    BY <2>2, <2>3, DeactivatedRows DEF Deactivated
  <2>5. table = [down EXCEPT ![c.version].active = TRUE]
    BY <2>1, <2>3 DEF PublishedRows
  <2>6. PICK r : r = [down[c.version] EXCEPT !.active = TRUE]
    OBVIOUS
  <2>7. r \in LayoutRows /\ r.active
    BY <2>4, <2>6 DEF LayoutRows
  <2>8. table = [down EXCEPT ![c.version] = r]
    BY <2>5, <2>6
  <2>9. table \in [LayoutVersions -> LayoutRows] /\ table[c.version].active
    BY <2>2, <2>4, <2>7, <2>8
  <2>10. ActiveIn(table) # {}
    BY <2>2, <2>9 DEF ActiveIn
  <2>11. changing' = [v \in Admins |-> changing'[v]] /\ \A v \in Admins : changing'[v] = IF v = u THEN NoChange ELSE changing[v]
    BY <1>2 DEF LayoutInv, LayoutShape
  <2>12. SoundChange(changing[u])'
    BY <2>11, EndsSoundly DEF SoundChange
  <2> QED BY <1>2, <1>4, <2>1, <2>9, <2>10, <2>11, <2>12, CommitKeeps
<1>5. UNCHANGED <<layouts, staleBy, lost>> \/ (c.version \in KnownLayouts /\ CommitRows(PublishedRows(c), {"published"}, {}))
  BY <1>1 DEF PublishLayout
<1> QED BY <1>3, <1>4, <1>5

LEMMA LayoutStep == LayoutInv /\ [LayoutNext]_layoutVars => LayoutInv'
<1> SUFFICES ASSUME LayoutInv, [LayoutNext]_layoutVars PROVE LayoutInv'
  OBVIOUS
<1>1. ASSUME NEW u \in Admins, NEW v \in LayoutVersions, NEW s \in Schemas, NEW a \in BOOLEAN,
             BeginCreateLayout(u, v, s, a) \/ BeginUpdateLayout(u, v, s, a)
      PROVE  LayoutInv'
  <2>1. CASE BeginCreateLayout(u, v, s, a)
    <3>1. PICK k \in {"create", "insert"} : BeginChange(u, k, v, s, a)
      BY <2>1 DEF BeginCreateLayout
    <3> QED BY <3>1, BeginIsSound
  <2>2. CASE BeginUpdateLayout(u, v, s, a)
    <3>1. BeginChange(u, "write", v, s, a)
      BY <2>2 DEF BeginUpdateLayout
    <3> QED BY <3>1, BeginIsSound
  <2> QED BY <1>1, <2>1, <2>2
<1>2. ASSUME NEW u \in Admins, NEW v \in LayoutVersions, BeginDeleteLayout(u, v) \/ BeginPublishLayout(u, v)
      PROVE  LayoutInv'
  BY <1>2, BeginIsSound DEF BeginDeleteLayout, BeginPublishLayout
<1>3. ASSUME NEW u \in Admins, NEW v \in LayoutVersions, BeginCopyLatest(u, v) \/ BeginRollback(u, v)
      PROVE  LayoutInv'
  <2>1. PICK n : n \in LayoutVersions /\ v \in KnownLayouts /\ BeginChange(u, "copy", n, layouts[v].schema, FALSE)
    BY <1>3 DEF BeginCopyLatest, BeginRollback, Copied
  <2>2. layouts[v].schema \in Schemas
    BY <2>1, RowOfALayout
  <2> QED BY <2>1, <2>2, BeginIsSound
<1>4. ASSUME NEW u \in Admins, DropEntry(u) PROVE LayoutInv'
  <2>1. /\ registry' = NoSchema /\ changing' = [changing EXCEPT ![u] = NoChange]
        /\ staleBy' = staleBy \cap {"crossed"} /\ UNCHANGED <<layouts, reading, lost>>
    BY <1>4 DEF DropEntry, EndChange
  <2>2. \A v \in Admins : SoundChange(changing[v])'
    BY <2>1, EndsSoundly DEF LayoutInv, LayoutShape, SoundChange
  <2>3. LayoutShape'
    BY <2>1, <2>2 DEF LayoutInv, LayoutShape
  <2> QED BY <2>1, <2>3 DEF LayoutInv, ActiveIsKept, RegistryIsCurrent, ReadersAreCurrent,
                             ActiveLayouts, ActiveSchema, ActiveIn
<1>5. ASSUME NEW u \in Admins, DieChanging(u) PROVE LayoutInv'
  <2>1. /\ changing' = [changing EXCEPT ![u] = NoChange] /\ UNCHANGED <<layouts, registry, reading, lost>>
        /\ staleBy \subseteq staleBy' /\ (changing[u].kind = "invalidate" => staleBy' # {})
    BY <1>5 DEF DieChanging, EndChange
  <2> QED BY <2>1, ChangeKeeps, EndsSoundly
<1>6. ASSUME NEW r \in Readers, ReadLayout(r) PROVE LayoutInv'
  <2>1. /\ \E s \in ActiveSchema : reading' = [reading EXCEPT ![r] = s]
        /\ UNCHANGED <<layouts, registry, changing, lost, staleBy>>
    BY <1>6 DEF ReadLayout
  <2>2. ActiveLayouts' = ActiveLayouts /\ ActiveSchema' = ActiveSchema
    BY <2>1 DEF ActiveLayouts, ActiveSchema, ActiveIn
  <2>3. reading' = [q \in Readers |-> reading'[q]] /\ ReadersAreCurrent'
    BY <2>1, <2>2 DEF LayoutInv, LayoutShape, ReadersAreCurrent
  <2>4. \A u \in Admins : SoundChange(changing[u])'
    BY <2>1 DEF LayoutInv, LayoutShape, SoundChange
  <2> QED BY <2>1, <2>2, <2>3, <2>4 DEF LayoutInv, LayoutShape, ActiveIsKept, RegistryIsCurrent
<1>7. ASSUME NEW r \in Readers, SetRegistry(r) PROVE LayoutInv'
  BY <1>7 DEF SetRegistry, LayoutInv, LayoutShape, SoundChange, ActiveIsKept, RegistryIsCurrent,
             ReadersAreCurrent, ActiveLayouts, ActiveSchema, ActiveIn
<1>8. CASE ExpireEntry
  BY <1>8 DEF ExpireEntry, LayoutInv, LayoutShape, SoundChange, ActiveIsKept, RegistryIsCurrent,
             ReadersAreCurrent, ActiveLayouts, ActiveSchema, ActiveIn
<1>9. CASE UNCHANGED layoutVars
  BY <1>9 DEF layoutVars, LayoutInv, LayoutShape, SoundChange, ActiveIsKept, RegistryIsCurrent,
             ReadersAreCurrent, ActiveLayouts, ActiveSchema, ActiveIn
<1> QED
  BY <1>1, <1>2, <1>3, <1>4, <1>5, <1>6, <1>7, <1>8, <1>9,
     DeactivateKeeps, InsertKeeps, WriteKeeps, PublishKeeps
  DEF LayoutNext, ChangeStep

\* Layouts are served as they were published, for every number of versions,
\* schemas, administrators and readers.
THEOREM LayoutsServed == LayoutSpec => []LayoutsAreServed
<1>1. LayoutInit => LayoutInv
  <2> SUFFICES ASSUME LayoutInit PROVE LayoutInv
    OBVIOUS
  <2>1. LayoutShape
    BY EndsSoundly DEF LayoutInit, LayoutShape, LayoutRows
  <2>2. ActiveIsKept
    BY LayoutAssumption DEF LayoutInit, ActiveIsKept, ActiveLayouts, ActiveIn
  <2> QED BY <2>1, <2>2 DEF LayoutInit, LayoutInv, RegistryIsCurrent, ReadersAreCurrent
<1> QED BY <1>1, LayoutStep, PTL DEF LayoutSpec, LayoutInv, LayoutsAreServed

----------------------------------------------------------------------------
(***************************************************************************)
(* The questionnaire templates.                                              *)
(***************************************************************************)

\* A finite set of numbers that is not empty has a highest one: the suffix of
\* the set that is contained in no smaller one starts with it.
LEMMA HighestOfSome ==
  ASSUME NEW S \in SUBSET Nat, IsFiniteSet(S), S # {}
  PROVE  Max(S) \in S /\ \A y \in S : Max(S) >= y
<1> DEFINE From(x) == {y \in S : y >= x}
           Suffixes == {From(x) : x \in S}
<1>1. Suffixes \subseteq FiniteSubsetsOf(S) /\ Suffixes # {}
  <2>1. ASSUME NEW x \in S PROVE From(x) \in FiniteSubsetsOf(S)
    <3>1. From(x) \in SUBSET S
      OBVIOUS
    <3>2. IsFiniteSet(From(x))
      BY <3>1, FS_Subset
    <3> QED BY <3>1, <3>2 DEF FiniteSubsetsOf
  <2>2. PICK x : x \in S
    OBVIOUS
  <2>3. From(x) \in Suffixes
    BY <2>2
  <2> QED BY <2>1, <2>3
<1>2. PICK b \in Suffixes : \A s \in Suffixes : ~(<<s, b>> \in StrictSubsetOrdering(S))
  BY <1>1, FS_StrictSubsetOrderingWellFounded, WFMin
<1>3. PICK x \in S : b = From(x)
  BY <1>2
<1>4. ASSUME NEW y \in S, ~ (x >= y) PROVE FALSE
  <2>1. From(y) \in Suffixes /\ From(y) \subseteq S /\ From(x) \subseteq S
    OBVIOUS
  <2>a. x \in Nat /\ y \in Nat /\ y > x
    BY <1>4
  <2>b. \A z \in S : z >= y => z >= x
    BY <2>a
  <2>2. From(y) \subseteq From(x) /\ x \in From(x) /\ x \notin From(y)
    <3>1. From(y) \subseteq From(x)
      BY <2>b
    <3>2. x >= x /\ ~ (x >= y)
      BY <2>a
    <3> QED BY <3>1, <3>2
  <2>3. <<From(y), b>> \in StrictSubsetOrdering(S)
    BY <1>3, <2>1, <2>2 DEF StrictSubsetOrdering
  <2> QED BY <1>2, <2>1, <2>3
<1> QED BY <1>4 DEF Max

Drafting == {"edit", "publish", "delete"}

\* A definition that was ever there belongs to the scope o as long as it is there.
Of(d, o) == defs[d] # NoDef /\ (d \in Stored => defs[d].owner = o)

\* A request is about definitions of its scope.
SoundRequest(r) ==
  /\ r \in AuthorRequests \cup {NoAuthoring}
  /\ r.kind \in Drafting =>
       /\ r.def \in Definitions /\ Of(r.def, r.owner)
       /\ \A d \in r.previous : Of(d, r.owner)
  /\ r.kind = "create" => r.version < authored

\* A request nothing was committed behind: its definition is a draft still, what it
\* is to deprecate is what is published, and no version is above the one it read.
FreshRequest(r) ==
  (r # NoAuthoring /\ r.fresh) =>
    /\ r.kind \in Drafting => (r.def \in Stored /\ defs[r.def].status = "draft")
    /\ r.kind = "publish" =>
         /\ defs[r.def].content # "none" /\ r.previous = With(r.owner, "published")
    /\ r.kind = "create" => \A d \in Stored : defs[d].owner = r.owner => defs[d].version <= r.version

\* A published or deprecated definition with these questions.
Holds(d, content) == d \in Stored /\ defs[d].status # "draft" /\ defs[d].content = content

AnswersHold ==
  races \cap {"edit", "delete"} = {} =>
    /\ \A u \in Authors : authoring[u].kind = "respond" => Holds(authoring[u].def, authoring[u].content)
    /\ response.scored # NoTemplate => Holds(response.scored, response.content)

OnePublished == "publish" \notin races => \A o \in Owners : \A d, e \in With(o, "published") : d = e

LibraryShape ==
  /\ defs \in [Definitions -> Defs \cup {NoDef, Gone}]
  /\ response \in Responses /\ authored \in Nat
  /\ authoring = [u \in Authors |-> authoring[u]]
  /\ \A d \in Stored : defs[d].version <= authored
  /\ \A u \in Authors : SoundRequest(authoring[u])

LibraryInv ==
  /\ LibraryShape /\ (\A u \in Authors : FreshRequest(authoring[u]))
  /\ AnswersHold /\ OnePublished /\ PublishedHasSections /\ VersionsAreDistinct

LEMMA StoredIsDef ==
  ASSUME LibraryShape, NEW d \in Stored
  PROVE  d \in Definitions /\ defs[d] \in Defs /\ defs[d] \notin {NoDef, Gone}
BY DEF LibraryShape, Stored

LEMMA LibraryHolds == LibraryInv => TemplatesAreSound
<1> SUFFICES ASSUME LibraryInv PROVE TemplatesAreSound
  OBVIOUS
<1>1. OnePublishedPerScope
  <2> SUFFICES ASSUME "publish" \notin races, NEW o \in Owners PROVE Cardinality(With(o, "published")) =< 1
    BY DEF OnePublishedPerScope
  <2>1. \A d, e \in With(o, "published") : d = e
    BY DEF LibraryInv, OnePublished
  <2>2. CASE With(o, "published") = {}
    <3>1. Cardinality(With(o, "published")) = 0
      BY <2>2, FS_EmptySet, Zenon
    <3> QED BY <3>1
  <2>3. CASE With(o, "published") # {}
    <3>1. PICK d : With(o, "published") = {d}
      BY <2>1, <2>3
    <3>2. Cardinality({d}) = 1
      BY FS_Singleton
    <3> QED BY <3>1, <3>2
  <2> QED BY <2>2, <2>3
<1>2. ScoreCanBeReproduced
  BY DEF LibraryInv, AnswersHold, Holds, ScoreCanBeReproduced
<1> QED BY <1>1, <1>2 DEF LibraryInv, TemplatesAreSound, ScopesAreInOrder

\* The highest version a request reads is above none of its scope.
LEMMA HighestRead ==
  ASSUME LibraryShape, NEW owner \in Owners, NEW h, h = Max(Versions(owner) \cup {0})
  PROVE  /\ h \in Nat /\ h <= authored
         /\ \A e \in Stored : defs[e].owner = owner => defs[e].version <= h
<1>2. PICK S : S = Versions(owner) \cup {0}
  OBVIOUS
<1>3. authored \in Nat /\ \A e \in Stored : defs[e].version \in Nat /\ defs[e].version <= authored
  BY StoredIsDef DEF LibraryShape, Defs
<1>4. S \subseteq 0 .. authored /\ S # {} /\ S \subseteq Nat
  BY <1>2, <1>3 DEF Versions
<1>5. IsFiniteSet(S)
  <2>1. IsFiniteSet(0 .. authored)
    BY <1>3, FS_Interval
  <2> QED BY <1>4, <2>1, FS_Subset
<1>6. h \in S /\ \A y \in S : h >= y
  BY <1>2, <1>4, <1>5, HighestOfSome
<1>7. \A e \in Stored : defs[e].owner = owner => defs[e].version \in S
  BY <1>2 DEF Versions
<1>8. h \in Nat /\ h <= authored
  BY <1>3, <1>4, <1>6
<1> QED BY <1>3, <1>6, <1>7, <1>8

\* What a request reads.
LEMMA RequestReads ==
  ASSUME LibraryShape, NEW kind \in {"edit", "publish", "delete", "respond"}, NEW d \in Definitions,
         NEW owner \in Owners, NEW content \in Contents, NEW submit \in BOOLEAN,
         NEW r, r = Request(kind, d, owner, content, submit)
  PROVE  /\ r \in AuthorRequests
         /\ r.kind = kind /\ r.def = d /\ r.owner = owner /\ r.content = content
         /\ r.previous = With(owner, "published") \ {d}
<1>1. PICK h : h = Max(Versions(owner) \cup {0})
  OBVIOUS
<1>2. h \in Nat
  BY <1>1, HighestRead
<1>3. r = [kind |-> kind, def |-> d, owner |-> owner, content |-> content, version |-> h,
           previous |-> With(owner, "published") \ {d}, submit |-> submit, read |-> response, fresh |-> TRUE]
  BY <1>1 DEF Request
<1>4. With(owner, "published") \ {d} \in SUBSET Definitions
  BY DEF With, Stored
<1>5. r \in AuthorRequests
  BY <1>2, <1>3, <1>4 DEF AuthorRequests, LibraryShape
<1> QED BY <1>3, <1>5

\* A request begins: nothing is stored.
LEMMA BeginsSoundly ==
  ASSUME LibraryInv, NEW u \in Authors, NEW r \in AuthorRequests, BeginRequest(u, r),
         r.kind \in Drafting =>
           /\ r.def \in Definitions /\ Of(r.def, r.owner)
           /\ \A d \in r.previous : Of(d, r.owner),
         r.kind = "create" => r.version <= authored,
         FreshRequest(r), r.kind = "respond" => Holds(r.def, r.content)
  PROVE  LibraryInv'
<1>1. /\ authored' = authored + 1 /\ authoring' = [authoring EXCEPT ![u] = r]
      /\ UNCHANGED <<defs, response, races>>
  BY DEF BeginRequest
<1>2. authored \in Nat /\ authored' \in Nat
  BY <1>1 DEF LibraryInv, LibraryShape
<1>3. Stored' = Stored /\ \A o, s : With(o, s)' = With(o, s)
  BY <1>1 DEF Stored, With
<1>4. /\ authoring' = [v \in Authors |-> authoring'[v]]
      /\ \A v \in Authors : authoring'[v] = IF v = u THEN r ELSE authoring[v]
  BY <1>1 DEF LibraryInv, LibraryShape
<1>5. \A x : SoundRequest(x) => SoundRequest(x)'
  <2> SUFFICES ASSUME NEW x, SoundRequest(x) PROVE SoundRequest(x)'
    OBVIOUS
  <2>1. x.kind = "create" => x.version \in Nat
    BY DEF SoundRequest, AuthorRequests, NoAuthoring
  <2>2. \A d, o : Of(d, o)' <=> Of(d, o)
    BY <1>1, <1>3 DEF Of
  <2>3. x.kind = "create" => x.version < authored'
    BY <1>1, <1>2, <2>1 DEF SoundRequest
  <2> QED BY <2>2, <2>3 DEF SoundRequest
<1>6. SoundRequest(r)'
  <2>1. r.version \in Nat
    BY DEF AuthorRequests
  <2>2. \A d, o : Of(d, o)' <=> Of(d, o)
    BY <1>1, <1>3 DEF Of
  <2>3. r.kind = "create" => r.version < authored'
    BY <1>1, <1>2, <2>1
  <2> QED BY <2>2, <2>3 DEF SoundRequest
<1>7. ASSUME NEW v \in Authors PROVE SoundRequest(authoring[v])' /\ FreshRequest(authoring[v])'
  <2>1. PICK x : x = authoring'[v]
    OBVIOUS
  <2>2. SoundRequest(x)' /\ FreshRequest(x)
    BY <1>4, <1>5, <1>6, <2>1 DEF LibraryInv, LibraryShape
  <2>3. FreshRequest(x)'
    BY <1>1, <1>3, <2>2 DEF FreshRequest
  <2> QED BY <2>1, <2>2, <2>3 DEF SoundRequest, FreshRequest
<1>8. \A d \in Stored' : defs'[d].version <= authored'
  <2>1. \A d \in Stored : defs[d].version \in Nat /\ defs[d].version <= authored
    BY StoredIsDef DEF LibraryInv, LibraryShape, Defs
  <2> QED BY <1>1, <1>2, <1>3, <2>1
<1>9. LibraryShape'
  BY <1>1, <1>2, <1>4, <1>7, <1>8 DEF LibraryInv, LibraryShape
<1>10. AnswersHold'
  BY <1>1, <1>3, <1>4 DEF LibraryInv, AnswersHold, Holds
<1>11. OnePublished' /\ PublishedHasSections' /\ VersionsAreDistinct'
  BY <1>1, <1>3 DEF LibraryInv, OnePublished, PublishedHasSections, VersionsAreDistinct
<1> QED BY <1>7, <1>9, <1>10, <1>11 DEF LibraryInv

\* What a commit does to the requests.
LEMMA EndsLeaves ==
  ASSUME LibraryShape, NEW u \in Authors, NEW d, NEW kinds, Ends(u, d, kinds), "none" \notin kinds
  PROVE  /\ authoring' = [v \in Authors |-> authoring'[v]] /\ authoring'[u] = NoAuthoring
         /\ \A v \in Authors : authoring'[v] \in AuthorRequests \cup {NoAuthoring}
         /\ \A v \in Authors \ {u} :
              LET r == authoring[v]  s == authoring'[v] IN
              /\ s.kind = r.kind /\ (s = NoAuthoring => r = NoAuthoring)
              /\ r # NoAuthoring =>
                   /\ s.def = r.def /\ s.owner = r.owner /\ s.content = r.content
                   /\ s.version = r.version /\ s.previous = r.previous
                   /\ s.fresh => /\ r.fresh
                                 /\ ~ (r.kind \in kinds /\
                                       ((d # NoTemplate /\ r.def = d) \/ r.owner = authoring[u].owner))
<1>1. authoring' = [v \in Authors |-> authoring'[v]] /\ authoring'[u] = NoAuthoring
  BY DEF Ends
<1>2. ASSUME NEW v \in Authors \ {u}
      PROVE  LET r == authoring[v]  s == authoring'[v] IN
              /\ s \in AuthorRequests \cup {NoAuthoring}
              /\ s.kind = r.kind /\ (s = NoAuthoring => r = NoAuthoring)
              /\ r # NoAuthoring =>
                   /\ s.def = r.def /\ s.owner = r.owner /\ s.content = r.content
                   /\ s.version = r.version /\ s.previous = r.previous
                   /\ s.fresh => /\ r.fresh
                                 /\ ~ (r.kind \in kinds /\
                                       ((d # NoTemplate /\ r.def = d) \/ r.owner = authoring[u].owner))
  <2>1. PICK r : r = authoring[v]
    OBVIOUS
  <2>2. r \in AuthorRequests \cup {NoAuthoring}
    BY <2>1 DEF LibraryShape, SoundRequest
  <2>3. CASE r.kind \in kinds /\ ((d # NoTemplate /\ r.def = d) \/ r.owner = authoring[u].owner)
    <3>1. r \in AuthorRequests /\ r # NoAuthoring
      BY <2>2, <2>3 DEF NoAuthoring
    <3>2. PICK s : s = [r EXCEPT !.fresh = FALSE]
      OBVIOUS
    <3>3. /\ s \in AuthorRequests /\ s.kind = r.kind /\ s.def = r.def /\ s.owner = r.owner /\ s.content = r.content
          /\ s.version = r.version /\ s.previous = r.previous /\ ~ s.fresh
      BY <3>1, <3>2 DEF AuthorRequests
    <3>4. s # NoAuthoring
      BY <3>3 DEF AuthorRequests, NoAuthoring
    <3>5. authoring'[v] = s
      BY <2>1, <2>3, <3>2 DEF Ends
    <3> QED BY <2>1, <3>3, <3>4, <3>5
  <2>4. CASE ~ (r.kind \in kinds /\ ((d # NoTemplate /\ r.def = d) \/ r.owner = authoring[u].owner))
    <3>1. authoring'[v] = r
      BY <2>1, <2>4 DEF Ends
    <3> QED BY <2>1, <2>2, <2>4, <3>1
  <2> QED BY <2>3, <2>4
<1> QED BY <1>1, <1>2

\* A request ends without writing a definition; the response it may have written
\* names the questions it was scored with.
LEMMA EndsOnly ==
  ASSUME LibraryInv, NEW u \in Authors, NEW d, Ends(u, d, {}), UNCHANGED <<defs, races, authored>>,
         response' \in Responses,
         (races \cap {"edit", "delete"} = {} /\ response'.scored # NoTemplate)
           => Holds(response'.scored, response'.content)
  PROVE  LibraryInv'
<1>1. /\ authoring' = [v \in Authors |-> authoring'[v]] /\ authoring'[u] = NoAuthoring
      /\ \A v \in Authors \ {u} : authoring'[v] = authoring[v]
  BY DEF Ends
<1>2. Stored' = Stored /\ \A o, s : With(o, s)' = With(o, s)
  BY DEF Stored, With
<1>3. SoundRequest(NoAuthoring)' /\ FreshRequest(NoAuthoring)'
  BY DEF SoundRequest, FreshRequest, NoAuthoring, Drafting
<1>4. ASSUME NEW v \in Authors PROVE SoundRequest(authoring[v])' /\ FreshRequest(authoring[v])'
  <2>1. CASE v = u
    BY <1>1, <1>3, <2>1 DEF SoundRequest, FreshRequest
  <2>2. CASE v # u
    <3>1. SoundRequest(authoring[v]) /\ FreshRequest(authoring[v]) /\ authoring'[v] = authoring[v]
      BY <1>1, <2>2 DEF LibraryInv, LibraryShape
    <3> QED BY <1>2, <3>1 DEF SoundRequest, FreshRequest, Of
  <2> QED BY <2>1, <2>2
<1>5. LibraryShape'
  BY <1>1, <1>2, <1>4 DEF LibraryInv, LibraryShape
<1>6. AnswersHold'
  BY <1>1, <1>2 DEF LibraryInv, AnswersHold, Holds, NoAuthoring
<1>7. OnePublished' /\ PublishedHasSections' /\ VersionsAreDistinct'
  BY <1>2 DEF LibraryInv, OnePublished, PublishedHasSections, VersionsAreDistinct
<1> QED BY <1>4, <1>5, <1>6, <1>7 DEF LibraryInv

\* A definition of the scope is written, and those of the scope that are to be
\* deprecated: no other scope is touched, no version changes, none is added.
LEMMA DraftingKeeps ==
  ASSUME LibraryInv, NEW u \in Authors, authoring[u].kind \in Drafting,
         Ends(u, authoring[u].def, Drafting), authored' = authored, response' = response, races \subseteq races',
         defs' \in [Definitions -> Defs \cup {NoDef, Gone}],
         \A d \in Definitions : defs[d] # NoDef => defs'[d] # NoDef,
         \A d \in Stored' : d \in Stored /\ defs'[d].owner = defs[d].owner /\ defs'[d].version = defs[d].version,
         \A d \in Stored : defs[d].owner # authoring[u].owner => defs'[d] = defs[d]
  PROVE  LibraryShape' /\ (\A v \in Authors : FreshRequest(authoring[v])') /\ VersionsAreDistinct'
<1>1. /\ authoring' = [v \in Authors |-> authoring'[v]] /\ authoring'[u] = NoAuthoring
      /\ \A v \in Authors : authoring'[v] \in AuthorRequests \cup {NoAuthoring}
      /\ \A v \in Authors \ {u} :
              LET r == authoring[v]  s == authoring'[v] IN
              /\ s.kind = r.kind /\ (s = NoAuthoring => r = NoAuthoring)
              /\ r # NoAuthoring =>
                   /\ s.def = r.def /\ s.owner = r.owner /\ s.content = r.content
                   /\ s.version = r.version /\ s.previous = r.previous
                   /\ s.fresh => /\ r.fresh
                                 /\ ~ (r.kind \in Drafting /\
                                       ((authoring[u].def # NoTemplate /\ r.def = authoring[u].def) \/ r.owner = authoring[u].owner))
  BY EndsLeaves DEF LibraryInv, Drafting
<1>2. SoundRequest(NoAuthoring)' /\ FreshRequest(NoAuthoring)'
  BY DEF SoundRequest, FreshRequest, NoAuthoring, Drafting
<1>3. \A d \in Definitions : \A o : Of(d, o) => Of(d, o)'
  BY DEF Of
<1>4. ASSUME NEW v \in Authors PROVE SoundRequest(authoring[v])' /\ FreshRequest(authoring[v])'
  <2>1. CASE v = u \/ authoring'[v] = NoAuthoring
    BY <1>1, <1>2, <2>1 DEF SoundRequest, FreshRequest
  <2>2. CASE v # u /\ authoring'[v] # NoAuthoring
    <3>1. PICK r : r = authoring[v]
      OBVIOUS
    <3>2. PICK s : s = authoring'[v]
      OBVIOUS
    <3>3. SoundRequest(r) /\ FreshRequest(r) /\ s \in AuthorRequests
      BY <1>1, <2>2, <3>1, <3>2 DEF LibraryInv, LibraryShape
    <3>4. r # NoAuthoring
      BY <1>1, <2>2, <3>1, <3>2 DEF NoAuthoring, AuthorRequests
    <3>5. /\ s.kind = r.kind /\ s.def = r.def /\ s.owner = r.owner /\ s.content = r.content
          /\ s.version = r.version /\ s.previous = r.previous
          /\ s.fresh => r.fresh /\ (r.kind \in Drafting => r.owner # authoring[u].owner)
      BY <1>1, <2>2, <3>1, <3>2, <3>4
    <3>6. s.previous \subseteq Definitions
      BY <3>3 DEF AuthorRequests
    <3>7. SoundRequest(s)'
      BY <1>3, <3>3, <3>5, <3>6 DEF SoundRequest
    <3>8. ASSUME s.fresh, s.kind \in Drafting
          PROVE  /\ s.def \in Stored' /\ defs'[s.def].status = "draft"
                 /\ s.kind = "publish" =>
                      /\ defs'[s.def].content # "none" /\ s.previous = With(s.owner, "published")'
      <4>1. r.fresh /\ r.kind \in Drafting /\ r.owner # authoring[u].owner
        BY <3>5, <3>8
      <4>2. /\ r.def \in Stored /\ defs[r.def].status = "draft" /\ defs[r.def].owner = r.owner
            /\ r.kind = "publish" => defs[r.def].content # "none" /\ r.previous = With(r.owner, "published")
        BY <3>3, <3>4, <4>1 DEF SoundRequest, FreshRequest, Of
      <4>3. \A d \in Stored : defs[d].owner = r.owner => (defs'[d] = defs[d] /\ d \in Stored')
        BY <4>1 DEF Stored
      <4>4. With(r.owner, "published")' = With(r.owner, "published")
        BY <4>3 DEF With
      <4> QED BY <3>5, <4>2, <4>3, <4>4
    <3>9. ASSUME s.fresh, s.kind = "create", NEW d \in Stored', defs'[d].owner = s.owner
          PROVE  defs'[d].version <= s.version
      <4>1. d \in Stored /\ defs[d].owner = r.owner /\ defs'[d].version = defs[d].version
        BY <3>5, <3>9
      <4> QED BY <3>3, <3>4, <3>5, <3>9, <4>1 DEF FreshRequest
    <3>10. FreshRequest(s)'
      BY <3>8, <3>9 DEF FreshRequest, Drafting
    <3> QED BY <3>2, <3>7, <3>10 DEF SoundRequest, FreshRequest
  <2> QED BY <2>1, <2>2
<1>5. \A d \in Stored' : defs'[d].version <= authored'
  BY DEF LibraryInv, LibraryShape
<1>6. LibraryShape'
  BY <1>1, <1>4, <1>5 DEF LibraryInv, LibraryShape
<1>7. VersionsAreDistinct'
  BY DEF LibraryInv, VersionsAreDistinct
<1> QED BY <1>4, <1>6, <1>7
\* The requests that begin.
LEMMA BeginningsKeep ==
  ASSUME LibraryInv, NEW u \in Authors,
         \/ \E owner \in Owners, c \in Contents : BeginCreate(u, owner, c)
         \/ \E d \in Definitions : BeginPublish(u, d) \/ BeginDelete(u, d)
         \/ \E d \in Definitions, c \in Contents : BeginUpdate(u, d, c)
         \/ \E d \in Definitions, s \in BOOLEAN : BeginRespond(u, d, s)
  PROVE  LibraryInv'
<1> USE DEF LibraryInv
<1>1. ASSUME NEW owner \in Owners, NEW c \in Contents, BeginCreate(u, owner, c) PROVE LibraryInv'
  <2>0. PICK h : h = Max(Versions(owner) \cup {0})
    OBVIOUS
  <2>1. PICK r : r = Request("create", NoTemplate, owner, c, FALSE)
    OBVIOUS
  <2>2. /\ r \in AuthorRequests /\ r.kind = "create" /\ r.owner = owner /\ r.version <= authored
        /\ \A e \in Stored : defs[e].owner = owner => defs[e].version <= r.version
    <3>1. h \in Nat /\ h <= authored /\ \A e \in Stored : defs[e].owner = owner => defs[e].version <= h
      BY <2>0, HighestRead
    <3>2. r = [kind |-> "create", def |-> NoTemplate, owner |-> owner, content |-> c, version |-> h,
               previous |-> With(owner, "published") \ {NoTemplate}, submit |-> FALSE, read |-> response,
               fresh |-> TRUE]
      BY <2>0, <2>1 DEF Request
    <3>3. With(owner, "published") \ {NoTemplate} \in SUBSET Definitions
      BY DEF With, Stored
    <3>4. r \in AuthorRequests
      BY <3>1, <3>2, <3>3 DEF AuthorRequests, LibraryShape
    <3> QED BY <3>1, <3>2, <3>4
  <2>3. FreshRequest(r)
    BY <2>2 DEF FreshRequest, Drafting
  <2>4. BeginRequest(u, r)
    BY <1>1, <2>1 DEF BeginCreate
  <2> QED BY <2>2, <2>3, <2>4, BeginsSoundly DEF Drafting
<1>2. ASSUME NEW d \in Definitions, NEW c \in Contents, NEW kind \in Drafting, Draft(d),
             kind = "publish" => defs[d].content # "none",
             BeginRequest(u, Request(kind, d, defs[d].owner, c, FALSE))
      PROVE  LibraryInv'
  <2>1. PICK r : r = Request(kind, d, defs[d].owner, c, FALSE)
    OBVIOUS
  <2>2. d \in Stored /\ defs[d] \in Defs /\ defs[d].owner \in Owners /\ defs[d].status = "draft" /\ defs[d] # NoDef
    <3>1. d \in Stored
      BY <1>2 DEF Draft, Stored, NoDef, Gone
    <3> QED BY <1>2, <3>1, StoredIsDef DEF Draft, Defs
  <2>3. /\ r \in AuthorRequests /\ r.kind = kind /\ r.def = d /\ r.owner = defs[d].owner
        /\ r.previous = With(r.owner, "published") \ {d}
    <3>1. PICK f \in BOOLEAN : f = FALSE
      OBVIOUS
    <3>2. PICK o \in Owners : o = defs[d].owner
      BY <2>2
    <3>3. r = Request(kind, d, o, c, f)
      BY <2>1, <3>1, <3>2
    <3> QED BY <3>2, <3>3, RequestReads DEF Drafting
  <2>4. d \notin With(r.owner, "published")
    BY <2>2 DEF With
  <2>5. FreshRequest(r)
    BY <1>2, <2>2, <2>3, <2>4 DEF FreshRequest, Drafting
  <2>6. \A e \in r.previous : Of(e, r.owner)
    BY <2>3 DEF With, Of, Stored
  <2>7. Of(d, r.owner)
    BY <2>2, <2>3 DEF Of
  <2> QED BY <1>2, <2>1, <2>3, <2>5, <2>6, <2>7, BeginsSoundly DEF Drafting
<1>3. ASSUME NEW d \in Definitions, NEW s \in BOOLEAN, BeginRespond(u, d, s) PROVE LibraryInv'
  <2>1. PICK r : r = Request("respond", d, defs[d].owner, defs[d].content, s)
    OBVIOUS
  <2>2. d \in Stored /\ defs[d].status = "published"
    BY <1>3 DEF BeginRespond, Effective, Highest, With
  <2>3. defs[d].owner \in Owners /\ defs[d].content \in Contents
    BY <2>2, StoredIsDef DEF Defs
  <2>4. r \in AuthorRequests /\ r.kind = "respond" /\ r.def = d /\ r.content = defs[d].content
    BY <2>1, <2>3, RequestReads
  <2>5. FreshRequest(r) /\ Holds(r.def, r.content)
    BY <2>2, <2>4 DEF FreshRequest, Drafting, Holds
  <2>6. BeginRequest(u, r)
    BY <1>3, <2>1 DEF BeginRespond
  <2> QED BY <2>4, <2>5, <2>6, BeginsSoundly DEF Drafting
<1>4. "none" \in Contents /\ "edit" \in Drafting /\ "publish" \in Drafting /\ "delete" \in Drafting
  BY DEF Contents, Drafting
<1>5. ASSUME NEW d \in Definitions, NEW c \in Contents, BeginUpdate(u, d, c) PROVE LibraryInv'
  BY <1>2, <1>4, <1>5 DEF BeginUpdate
<1>6. ASSUME NEW d \in Definitions, BeginPublish(u, d) PROVE LibraryInv'
  BY <1>2, <1>4, <1>6 DEF BeginPublish
<1>7. ASSUME NEW d \in Definitions, BeginDelete(u, d) PROVE LibraryInv'
  BY <1>2, <1>4, <1>7 DEF BeginDelete
<1> QED BY <1>1, <1>3, <1>5, <1>6, <1>7

\* What a request that answers commits: questions its template still has.
LEMMA CommitRespondKeeps ==
  ASSUME TemplateAssumption, LibraryInv, NEW u \in Authors, CommitRespond(u)
  PROVE  LibraryInv'
<1>1. PICK r : r = authoring[u]
  OBVIOUS
<1>2. r \in AuthorRequests /\ r.kind = "respond" /\ response \in Responses
  BY <1>1 DEF LibraryInv, LibraryShape, SoundRequest, CommitRespond, NoAuthoring
<1>3. Ends(u, NoTemplate, {}) /\ UNCHANGED <<defs, authored, races>>
  BY DEF CommitRespond
<1>4. races \cap {"edit", "delete"} = {} => Holds(r.def, r.content)
  BY <1>1, <1>2 DEF LibraryInv, AnswersHold
<1>5. PICK t : t = IF r.read.template = NoTemplate THEN r.def ELSE r.read.template
  OBVIOUS
<1>6. t \in Definitions \cup {NoTemplate} /\ "none" \in Contents
  BY <1>2, <1>5 DEF AuthorRequests, Responses, Contents
<1>7. \/ response' = response
      \/ response' = [template |-> t, scored |-> r.def, content |-> r.content]
      \/ response' = [template |-> t, scored |-> NoTemplate, content |-> "none"]
  BY <1>1, <1>5 DEF CommitRespond, NoResponse
<1>8. response' \in Responses
  BY <1>2, <1>6, <1>7 DEF AuthorRequests, Responses
<1>9. (races \cap {"edit", "delete"} = {} /\ response'.scored # NoTemplate)
           => Holds(response'.scored, response'.content)
  BY <1>4, <1>7 DEF LibraryInv, AnswersHold
<1> QED BY <1>3, <1>8, <1>9, EndsOnly
\* A draft is created: its version is above all of its scope unless another was
\* created meanwhile.
LEMMA CommitCreateKeeps ==
  ASSUME LibraryInv, NEW u \in Authors, NEW d \in Definitions, CommitCreate(u, d)
  PROVE  LibraryInv'
<1>1. PICK r : r = authoring[u]
  OBVIOUS
<1>2. /\ r \in AuthorRequests /\ r.kind = "create" /\ defs[d] = NoDef /\ response' = response /\ authored' = authored
      /\ Ends(u, NoTemplate, {"create"}) /\ r.version \in Nat /\ r.version < authored /\ authored \in Nat
      /\ FreshRequest(r) /\ r # NoAuthoring /\ LibraryShape
      /\ defs \in [Definitions -> Defs \cup {NoDef, Gone}]
  BY <1>1 DEF LibraryInv, LibraryShape, SoundRequest, CommitCreate, NoAuthoring, AuthorRequests
<1>3. PICK x : x = [status |-> "draft", owner |-> r.owner, version |-> r.version + 1, content |-> r.content]
  OBVIOUS
<1>4. /\ x \in Defs /\ x # NoDef /\ x # Gone /\ x.status = "draft" /\ x.owner = r.owner
      /\ x.version = r.version + 1 /\ x.version <= authored
  <2>1. r.version + 1 \in Nat \ {0} /\ r.version + 1 <= authored
    BY <1>2
  <2>2. r.owner \in Owners /\ r.content \in Contents
    BY <1>2 DEF AuthorRequests
  <2>3. x \in Defs
    BY <1>3, <2>1, <2>2 DEF Defs
  <2>4. x.status = "draft"
    BY <1>3
  <2>5. x # NoDef /\ x # Gone
    BY <2>4 DEF NoDef, Gone
  <2> QED BY <1>3, <2>1, <2>3, <2>4, <2>5
<1>5. /\ defs' \in [Definitions -> Defs \cup {NoDef, Gone}]
      /\ defs'[d] = x /\ \A e \in Definitions \ {d} : defs'[e] = defs[e]
  <2>1. defs' = [defs EXCEPT ![d] = x]
    BY <1>1, <1>3 DEF CommitCreate
  <2> QED BY <1>2, <1>4, <2>1
<1>6. d \notin Stored /\ Stored' = Stored \cup {d}
  BY <1>2, <1>4, <1>5 DEF Stored
<1>7. \A o : With(o, "published")' = With(o, "published")
  <2>1. \A e \in Stored : defs'[e] = defs[e]
    BY <1>5, <1>6 DEF Stored
  <2>2. defs'[d].status # "published"
    BY <1>4, <1>5
  <2>3. SUFFICES ASSUME NEW o PROVE With(o, "published")' = With(o, "published")
    OBVIOUS
  <2>4. ASSUME NEW e PROVE e \in With(o, "published")' <=> e \in With(o, "published")
    BY <1>6, <2>1, <2>2 DEF With
  <2> QED BY <2>4
<1>8. races' = IF r.fresh THEN races ELSE races \cup {"create"}
  BY <1>1, <1>2 DEF CommitCreate, Races
<1>9. /\ authoring' = [v \in Authors |-> authoring'[v]] /\ authoring'[u] = NoAuthoring
      /\ \A v \in Authors : authoring'[v] \in AuthorRequests \cup {NoAuthoring}
      /\ \A v \in Authors \ {u} :
              LET a == authoring[v]  s == authoring'[v] IN
              /\ s.kind = a.kind /\ (s = NoAuthoring => a = NoAuthoring)
              /\ a # NoAuthoring =>
                   /\ s.def = a.def /\ s.owner = a.owner /\ s.content = a.content
                   /\ s.version = a.version /\ s.previous = a.previous
                   /\ s.fresh => a.fresh /\ ~ (a.kind = "create" /\ a.owner = r.owner)
  <2>1. "none" \notin {"create"}
    OBVIOUS
  <2> QED BY <1>1, <1>2, <2>1, EndsLeaves
<1>10. SoundRequest(NoAuthoring)' /\ FreshRequest(NoAuthoring)'
  BY DEF SoundRequest, FreshRequest, NoAuthoring, Drafting
<1>11. \A e \in Definitions : \A o : Of(e, o) => Of(e, o)'
  BY <1>2, <1>5, <1>6 DEF Of
<1>12. ASSUME NEW v \in Authors PROVE SoundRequest(authoring[v])' /\ FreshRequest(authoring[v])'
  <2>1. CASE v = u \/ authoring'[v] = NoAuthoring
    BY <1>9, <1>10, <2>1 DEF SoundRequest, FreshRequest
  <2>2. CASE v # u /\ authoring'[v] # NoAuthoring
    <3>1. PICK a : a = authoring[v]
      OBVIOUS
    <3>2. PICK s : s = authoring'[v]
      OBVIOUS
    <3>3. SoundRequest(a) /\ FreshRequest(a) /\ s \in AuthorRequests
      BY <1>9, <2>2, <3>1, <3>2 DEF LibraryInv, LibraryShape
    <3>4. a # NoAuthoring
      BY <1>9, <2>2, <3>1, <3>2 DEF NoAuthoring, AuthorRequests
    <3>5. /\ s.kind = a.kind /\ s.def = a.def /\ s.owner = a.owner /\ s.content = a.content
          /\ s.version = a.version /\ s.previous = a.previous
          /\ s.fresh => a.fresh /\ ~ (a.kind = "create" /\ a.owner = r.owner)
      BY <1>9, <2>2, <3>1, <3>2, <3>4
    <3>6. s.previous \subseteq Definitions
      BY <3>3 DEF AuthorRequests
    <3>7. SoundRequest(s)'
      BY <1>2, <1>11, <3>3, <3>5, <3>6 DEF SoundRequest
    <3>8. ASSUME s.fresh, s.kind \in Drafting
          PROVE  /\ s.def \in Stored' /\ defs'[s.def].status = "draft"
                 /\ s.kind = "publish" =>
                      /\ defs'[s.def].content # "none" /\ s.previous = With(s.owner, "published")'
      <4>1. a.def \in Stored /\ defs[a.def].status = "draft" /\ a.def # d /\ a.def \in Definitions
        BY <1>6, <3>3, <3>4, <3>5, <3>8 DEF FreshRequest, Stored
      <4> QED BY <1>5, <1>6, <1>7, <3>3, <3>4, <3>5, <3>8, <4>1 DEF FreshRequest
    <3>9. ASSUME s.fresh, s.kind = "create", NEW e \in Stored', defs'[e].owner = s.owner
          PROVE  defs'[e].version <= s.version
      <4>1. e # d /\ e \in Stored /\ defs'[e] = defs[e]
        BY <1>4, <1>5, <1>6, <3>5, <3>9 DEF Stored
      <4> QED BY <3>3, <3>4, <3>5, <3>9, <4>1 DEF FreshRequest
    <3>10. FreshRequest(s)'
      BY <3>8, <3>9 DEF FreshRequest, Drafting
    <3> QED BY <3>2, <3>7, <3>10 DEF SoundRequest, FreshRequest
  <2> QED BY <2>1, <2>2
<1>13. \A e \in Stored' : defs'[e].version <= authored'
  BY <1>2, <1>4, <1>5, <1>6 DEF LibraryShape, Stored
<1>14. LibraryShape'
  BY <1>2, <1>5, <1>9, <1>12, <1>13 DEF LibraryShape
<1>15. \A e : \A c : Holds(e, c) => Holds(e, c)'
  BY <1>5, <1>6 DEF Holds, Stored
<1>16. AnswersHold'
  <2>1. \A v \in Authors : authoring'[v].kind = "respond" =>
            /\ authoring[v].kind = "respond" /\ authoring'[v].def = authoring[v].def
            /\ authoring'[v].content = authoring[v].content
    BY <1>9 DEF NoAuthoring
  <2> QED BY <1>2, <1>8, <1>15, <2>1 DEF LibraryInv, AnswersHold
<1>17. OnePublished' /\ PublishedHasSections'
  <2>1. OnePublished'
    BY <1>7, <1>8 DEF LibraryInv, OnePublished
  <2>2. PublishedHasSections'
    BY <1>4, <1>5, <1>6, <1>8 DEF LibraryInv, PublishedHasSections, Stored
  <2> QED BY <2>1, <2>2
<1>18. VersionsAreDistinct'
  <2>1. SUFFICES ASSUME "create" \notin races', NEW e \in Stored', NEW f \in Stored',
                        defs'[e].owner = defs'[f].owner, defs'[e].version = defs'[f].version
                 PROVE  e = f
    BY DEF VersionsAreDistinct
  <2>2. r.fresh /\ "create" \notin races
    BY <1>8, <2>1
  <2>3. \A y \in Stored : defs[y].version \in Nat /\ (defs[y].owner = r.owner => defs[y].version <= r.version)
    BY <1>2, <2>2, StoredIsDef DEF FreshRequest, Defs
  <2>4. \A y \in Stored : y # d /\ defs'[y] = defs[y]
    BY <1>5, <1>6 DEF Stored
  <2>5. \A y \in Stored : ~ (x.owner = defs'[y].owner /\ x.version = defs'[y].version)
    BY <1>2, <1>4, <2>3, <2>4
  <2>6. CASE e \in Stored /\ f \in Stored
    BY <2>1, <2>2, <2>4, <2>6 DEF LibraryInv, VersionsAreDistinct
  <2> QED BY <1>5, <1>6, <2>1, <2>5, <2>6
<1> QED BY <1>12, <1>14, <1>16, <1>17, <1>18 DEF LibraryInv
\* A commit that writes drafts its request had read; those of its scope published
\* when it read them, too, are deprecated.
LEMMA CommitDraftingKeeps ==
  ASSUME TemplateAssumption, LibraryInv, NEW u \in Authors, CommitUpdate(u) \/ CommitPublish(u) \/ CommitDelete(u)
  PROVE  LibraryInv'
<1>1. PICK r : r = authoring[u]
  OBVIOUS
<1>2. /\ r.kind \in Drafting /\ r \in AuthorRequests /\ r # NoAuthoring
      /\ response' = response /\ authored' = authored /\ response \in Responses
      /\ SoundRequest(r) /\ FreshRequest(r) /\ LibraryShape
      /\ r.def \in Definitions /\ Of(r.def, r.owner)
      /\ \A d \in r.previous : d \in Definitions /\ Of(d, r.owner)
      /\ defs \in [Definitions -> Defs \cup {NoDef, Gone}]
  <2>1. r.kind \in Drafting /\ response' = response /\ authored' = authored
    BY <1>1 DEF CommitUpdate, CommitPublish, CommitDelete, Drafting
  <2>2. SoundRequest(r) /\ FreshRequest(r) /\ LibraryShape /\ response \in Responses
    BY <1>1 DEF LibraryInv, LibraryShape
  <2>3. r \in AuthorRequests /\ r # NoAuthoring
    BY <2>1, <2>2 DEF SoundRequest, NoAuthoring, Drafting
  <2>4. r.previous \subseteq Definitions
    BY <2>3 DEF AuthorRequests
  <2> QED BY <2>1, <2>2, <2>3, <2>4 DEF SoundRequest, LibraryShape
<1>3. ASSUME Ends(u, r.def, {}), UNCHANGED <<defs, races>> PROVE LibraryInv'
  <2>1. (races \cap {"edit", "delete"} = {} /\ response'.scored # NoTemplate)
           => Holds(response'.scored, response'.content)
    BY <1>2 DEF LibraryInv, AnswersHold
  <2> QED BY <1>2, <1>3, <2>1, EndsOnly
<1>4. ASSUME Ends(u, r.def, Drafting), races' = (IF r.fresh THEN races ELSE races \cup {r.kind}),
             defs' \in [Definitions -> Defs \cup {NoDef, Gone}],
             \A d \in Definitions : defs[d] # NoDef => defs'[d] # NoDef,
             \A d \in Stored' : /\ d \in Stored /\ defs'[d].owner = defs[d].owner
                                /\ defs'[d].version = defs[d].version,
             \A d \in Stored : defs[d].owner # r.owner => defs'[d] = defs[d],
             races' \cap {"edit", "delete"} = {} => \A d, c : Holds(d, c) => Holds(d, c)',
             OnePublished', PublishedHasSections'
      PROVE  LibraryInv'
  <2>1. LibraryShape' /\ (\A v \in Authors : FreshRequest(authoring[v])') /\ VersionsAreDistinct'
    <3>1. races \subseteq races'
      BY <1>4
    <3> QED BY <1>1, <1>2, <1>4, <3>1, DraftingKeeps
  <2>2. \A v \in Authors : authoring'[v].kind = "respond" =>
            /\ authoring[v].kind = "respond" /\ authoring'[v].def = authoring[v].def
            /\ authoring'[v].content = authoring[v].content
    <3>1. /\ authoring'[u] = NoAuthoring
          /\ \A v \in Authors \ {u} :
              LET a == authoring[v]  s == authoring'[v] IN
              /\ s.kind = a.kind /\ (s = NoAuthoring => a = NoAuthoring)
              /\ a # NoAuthoring => /\ s.def = a.def /\ s.content = a.content
      BY <1>1, <1>2, <1>4, EndsLeaves DEF Drafting
    <3> QED BY <3>1 DEF NoAuthoring
  <2>3. AnswersHold'
    <3>1. SUFFICES ASSUME races' \cap {"edit", "delete"} = {} PROVE
             /\ \A v \in Authors : authoring'[v].kind = "respond" => Holds(authoring[v].def, authoring[v].content)'
             /\ response'.scored # NoTemplate => Holds(response.scored, response.content)'
      BY DEF AnswersHold
    <3>2. races \cap {"edit", "delete"} = {}
      BY <1>4, <3>1
    <3>3. \A d, c : Holds(d, c) => Holds(d, c)'
      BY <1>4, <3>1
    <3>4. ASSUME NEW v \in Authors, authoring'[v].kind = "respond"
          PROVE  Holds(authoring[v].def, authoring[v].content)'
      <4>1. Holds(authoring[v].def, authoring[v].content)
        BY <2>2, <3>2, <3>4 DEF LibraryInv, AnswersHold
      <4>2. PICK d, c : d = authoring[v].def /\ c = authoring[v].content
        OBVIOUS
      <4>3. Holds(d, c)' /\ authoring'[v].def = d /\ authoring'[v].content = c
        BY <2>2, <3>3, <3>4, <4>1, <4>2
      <4> QED BY <4>3 DEF Holds
    <3>5. ASSUME response'.scored # NoTemplate PROVE Holds(response.scored, response.content)'
      <4>1. Holds(response.scored, response.content)
        BY <1>2, <3>2, <3>5 DEF LibraryInv, AnswersHold
      <4>2. PICK d, c : d = response.scored /\ c = response.content
        OBVIOUS
      <4>3. Holds(d, c)' /\ response'.scored = d /\ response'.content = c
        BY <1>2, <3>3, <4>1, <4>2
      <4> QED BY <4>3 DEF Holds
    <3> QED BY <3>4, <3>5
  <2> QED BY <1>4, <2>1, <2>3 DEF LibraryInv
<1>5. \A d \in Stored : d \in Definitions /\ defs[d] \in Defs /\ defs[d] # NoDef /\ defs[d] # Gone
  BY <1>2, StoredIsDef
<1>6. r.fresh => r.def \in Stored /\ defs[r.def].status = "draft"
  BY <1>2 DEF FreshRequest
<1>7. OnePublished /\ PublishedHasSections
  BY DEF LibraryInv
<1>8. CASE CommitUpdate(u)
  <2> SUFFICES ASSUME r.def \in Stored PROVE LibraryInv'
    BY <1>1, <1>3, <1>8 DEF CommitUpdate
  <2>1. /\ Ends(u, r.def, Drafting) /\ races' = (IF r.fresh THEN races ELSE races \cup {"edit"}) /\ r.kind = "edit"
        /\ defs' = [defs EXCEPT ![r.def].content = r.content]
    BY <1>1, <1>8 DEF CommitUpdate, Races, Drafting
  <2>2. PICK x : x = [defs[r.def] EXCEPT !.content = r.content]
    OBVIOUS
  <2>3. /\ x \in Defs /\ x.status = defs[r.def].status /\ x.owner = defs[r.def].owner
        /\ x.version = defs[r.def].version /\ x # NoDef /\ x # Gone
    <3>1. defs[r.def] \in Defs /\ defs[r.def] # NoDef /\ defs[r.def] # Gone /\ r.content \in Contents
      BY <1>2, <1>5 DEF AuthorRequests
    <3>2. /\ x \in Defs /\ x.status = defs[r.def].status /\ x.owner = defs[r.def].owner
          /\ x.version = defs[r.def].version
      BY <2>2, <3>1 DEF Defs
    <3> QED BY <3>2 DEF Defs, NoDef, Gone
  <2>4. /\ defs' \in [Definitions -> Defs \cup {NoDef, Gone}]
        /\ defs'[r.def] = x /\ \A d \in Definitions \ {r.def} : defs'[d] = defs[d]
    BY <1>2, <2>1, <2>2, <2>3
  <2>5. Stored' = Stored
    BY <1>5, <2>3, <2>4 DEF Stored
  <2>6. \A d \in Stored : /\ defs'[d].owner = defs[d].owner /\ defs'[d].version = defs[d].version
                          /\ defs'[d].status = defs[d].status
    BY <1>5, <2>3, <2>4
  <2>7. \A o : With(o, "published")' = With(o, "published")
    BY <2>5, <2>6 DEF With
  <2>8. OnePublished'
    BY <1>7, <2>1, <2>7 DEF OnePublished
  <2>9. PublishedHasSections'
    BY <1>5, <1>6, <1>7, <2>1, <2>4, <2>5, <2>6 DEF PublishedHasSections
  <2>10. races' \cap {"edit", "delete"} = {} => \A d, c : Holds(d, c) => Holds(d, c)'
    BY <1>5, <1>6, <2>1, <2>4, <2>5 DEF Holds
  <2>11. \A d \in Stored : defs[d].owner # r.owner => defs'[d] = defs[d]
    BY <1>2, <1>5, <2>4 DEF Of
  <2>12. \A d \in Definitions : defs[d] # NoDef => defs'[d] # NoDef
    BY <2>3, <2>4
  <2> HIDE DEF Ends
  <2> QED BY <1>4, <2>1, <2>4, <2>5, <2>6, <2>8, <2>9, <2>10, <2>11, <2>12
<1>9. CASE CommitDelete(u)
  <2> SUFFICES ASSUME r.def \in Stored, response.template # r.def PROVE LibraryInv'
    BY <1>1, <1>3, <1>9 DEF CommitDelete
  <2>1. /\ Ends(u, r.def, Drafting) /\ races' = (IF r.fresh THEN races ELSE races \cup {"delete"})
        /\ r.kind = "delete" /\ defs' = [defs EXCEPT ![r.def] = Gone]
    BY <1>1, <1>9 DEF CommitDelete, Races, Drafting
  <2>2. /\ defs' \in [Definitions -> Defs \cup {NoDef, Gone}]
        /\ defs'[r.def] = Gone /\ \A d \in Definitions \ {r.def} : defs'[d] = defs[d]
    BY <1>2, <2>1
  <2>3. Stored' = Stored \ {r.def}
    BY <1>5, <2>2 DEF Stored
  <2>4. \A d \in Stored' : d \in Stored /\ defs'[d] = defs[d]
    BY <1>5, <2>2, <2>3
  <2>5. \A o : With(o, "published")' \subseteq With(o, "published")
    BY <2>4 DEF With
  <2>6. OnePublished'
    BY <1>7, <2>1, <2>5 DEF OnePublished
  <2>7. PublishedHasSections'
    BY <1>7, <2>1, <2>4 DEF PublishedHasSections
  <2>8. races' \cap {"edit", "delete"} = {} => \A d, c : Holds(d, c) => Holds(d, c)'
    BY <1>6, <2>1, <2>3, <2>4 DEF Holds
  <2>9. \A d \in Stored : defs[d].owner # r.owner => defs'[d] = defs[d]
    BY <1>2, <1>5, <2>2 DEF Of
  <2>10. \A d \in Definitions : defs[d] # NoDef => defs'[d] # NoDef
    BY <2>2 DEF NoDef, Gone
  <2> QED BY <1>4, <2>1, <2>2, <2>4, <2>6, <2>7, <2>8, <2>9, <2>10
<1>10. CASE CommitPublish(u)
  <2> SUFFICES ASSUME {r.def} \cup r.previous \subseteq Stored PROVE LibraryInv'
    BY <1>1, <1>3, <1>10 DEF CommitPublish
  <2>1. /\ Ends(u, r.def, Drafting) /\ races' = (IF r.fresh THEN races ELSE races \cup {"publish"})
        /\ r.kind = "publish" /\ defs' = Published(r)
    BY <1>1, <1>10 DEF CommitPublish, Races, Drafting
  <2>2. PICK x : x = [defs[r.def] EXCEPT !.status = "published"]
    OBVIOUS
  <2>3. /\ x \in Defs /\ x.status = "published" /\ x.owner = defs[r.def].owner
        /\ x.version = defs[r.def].version /\ x.content = defs[r.def].content
    BY <1>5, <2>2 DEF Defs
  <2>4. ASSUME NEW d \in r.previous
        PROVE  LET y == [defs[d] EXCEPT !.status = "deprecated"] IN
               /\ y \in Defs /\ y.status = "deprecated" /\ y.owner = defs[d].owner
               /\ y.version = defs[d].version /\ y.content = defs[d].content
    BY <1>5 DEF Defs
  <2>5. /\ defs' = [d \in Definitions |-> defs'[d]] /\ defs'[r.def] = x
        /\ \A d \in r.previous \ {r.def} : defs'[d] = [defs[d] EXCEPT !.status = "deprecated"]
        /\ \A d \in Definitions \ (r.previous \cup {r.def}) : defs'[d] = defs[d]
    BY <1>2, <2>1, <2>2 DEF Published
  <2>6. \A d \in {r.def} \cup r.previous :
            /\ defs'[d] \in Defs /\ defs'[d].status \in {"published", "deprecated"}
            /\ defs'[d].owner = defs[d].owner /\ defs'[d].owner = r.owner /\ defs'[d].version = defs[d].version
            /\ defs'[d].content = defs[d].content
            /\ defs'[d].status = "published" => d = r.def
    BY <1>2, <2>3, <2>4, <2>5 DEF Of
  <2>7. defs' \in [Definitions -> Defs \cup {NoDef, Gone}]
    <3>1. \A d \in Definitions : defs'[d] \in Defs \cup {NoDef, Gone}
      BY <1>2, <2>5, <2>6
    <3> QED BY <2>5, <3>1
  <2>8. \A d \in {r.def} \cup r.previous : defs'[d] # NoDef /\ defs'[d] # Gone
    BY <2>6 DEF NoDef, Gone
  <2>9. Stored' = Stored
    BY <1>2, <1>5, <2>5, <2>8 DEF Stored
  <2>10. \A d \in Stored : /\ defs'[d].owner = defs[d].owner /\ defs'[d].version = defs[d].version
                           /\ defs'[d].content = defs[d].content
                           /\ defs'[d].status # defs[d].status => d \in {r.def} \cup r.previous
                           /\ defs[d].status # "draft" => defs'[d].status # "draft"
    BY <1>5, <2>5, <2>6
  <2>11. \A d \in Stored : defs[d].owner # r.owner => defs'[d] = defs[d]
    BY <1>2, <1>5, <2>5 DEF Of
  <2>12. OnePublished'
    <3>1. SUFFICES ASSUME "publish" \notin races', NEW o \in Owners, NEW d \in With(o, "published")',
                          NEW e \in With(o, "published")'
                   PROVE  d = e
      BY DEF OnePublished
    <3>2. r.fresh /\ "publish" \notin races /\ r.previous = With(r.owner, "published")
      BY <1>2, <2>1, <3>1 DEF FreshRequest
    <3>3. /\ d \in Stored /\ defs'[d].status = "published" /\ defs'[d].owner = o
          /\ e \in Stored /\ defs'[e].status = "published" /\ defs'[e].owner = o
      BY <2>9 DEF With
    <3>4. CASE o = r.owner
      <4>1. \A y \in Stored : (defs'[y].owner = r.owner /\ defs'[y].status = "published") => y = r.def
        BY <2>6, <2>10, <3>2 DEF With
      <4> QED BY <3>3, <3>4, <4>1
    <3>5. CASE o # r.owner
      <4>1. defs'[d] = defs[d] /\ defs'[e] = defs[e]
        BY <2>10, <2>11, <3>3, <3>5
      <4>2. d \in With(o, "published") /\ e \in With(o, "published")
        BY <3>3, <4>1 DEF With
      <4> QED BY <1>7, <3>2, <4>2 DEF OnePublished
    <3> QED BY <3>4, <3>5
  <2>13. PublishedHasSections'
    <3>1. SUFFICES ASSUME races' \cap {"edit", "publish"} = {}, NEW d \in Stored, defs'[d].status # "draft"
                   PROVE  defs'[d].content # "none"
      BY <2>9 DEF PublishedHasSections
    <3>2. /\ r.fresh /\ races \cap {"edit", "publish"} = {} /\ r.previous = With(r.owner, "published")
          /\ defs[r.def].content # "none"
      BY <1>2, <2>1, <3>1 DEF FreshRequest
    <3>3. d = r.def \/ defs[d].status # "draft"
      BY <2>10, <3>1, <3>2 DEF With
    <3> QED BY <1>7, <2>10, <3>2, <3>3 DEF PublishedHasSections
  <2>14. races' \cap {"edit", "delete"} = {} => \A d, c : Holds(d, c) => Holds(d, c)'
    BY <2>9, <2>10 DEF Holds
  <2>15. \A d \in Definitions : defs[d] # NoDef => defs'[d] # NoDef
    BY <2>5, <2>8
  <2> QED BY <1>4, <2>1, <2>7, <2>9, <2>10, <2>11, <2>12, <2>13, <2>14, <2>15
<1> QED BY <1>8, <1>9, <1>10
LEMMA LibraryInvariant == TemplateSpec => []LibraryInv
<1> USE TemplateAssumption
<1>1. TemplateInit => LibraryInv
  <2> SUFFICES ASSUME TemplateInit PROVE LibraryInv
    OBVIOUS
  <2>1. Stored = {}
    BY DEF TemplateInit, Stored
  <2>2. /\ defs \in [Definitions -> Defs \cup {NoDef, Gone}] /\ response \in Responses /\ authored \in Nat
        /\ authoring = [u \in Authors |-> authoring[u]] /\ \A u \in Authors : authoring[u] = NoAuthoring
    BY DEF TemplateInit, Responses, NoResponse, Contents
  <2>3. SoundRequest(NoAuthoring) /\ FreshRequest(NoAuthoring)
    BY DEF SoundRequest, FreshRequest, NoAuthoring, Drafting
  <2>4. LibraryShape /\ \A u \in Authors : FreshRequest(authoring[u])
    BY <2>1, <2>2, <2>3 DEF LibraryShape
  <2>5. AnswersHold
    BY <2>2 DEF TemplateInit, AnswersHold, NoAuthoring, NoResponse
  <2>6. OnePublished /\ PublishedHasSections /\ VersionsAreDistinct
    BY <2>1 DEF OnePublished, With, PublishedHasSections, VersionsAreDistinct
  <2> QED BY <2>4, <2>5, <2>6 DEF LibraryInv
<1>2. LibraryInv /\ [TemplateNext]_templateVars => LibraryInv'
  <2>1. ASSUME LibraryInv, TemplateNext PROVE LibraryInv'
    <3>1. PICK u \in Authors :
            \/ \E owner \in Owners, c \in Contents : BeginCreate(u, owner, c)
            \/ \E d \in Definitions : BeginPublish(u, d) \/ BeginDelete(u, d) \/ CommitCreate(u, d)
            \/ \E d \in Definitions, c \in Contents : BeginUpdate(u, d, c)
            \/ \E d \in Definitions, s \in BOOLEAN : BeginRespond(u, d, s)
            \/ CommitUpdate(u) \/ CommitPublish(u) \/ CommitDelete(u) \/ CommitRespond(u)
      BY <2>1 DEF TemplateNext
    <3> QED BY <2>1, <3>1, BeginningsKeep, CommitCreateKeeps, CommitDraftingKeeps, CommitRespondKeeps
  <2>2. ASSUME LibraryInv, UNCHANGED templateVars PROVE LibraryInv'
    BY <2>2 DEF LibraryInv, LibraryShape, SoundRequest, FreshRequest, AnswersHold, Holds, OnePublished,
                PublishedHasSections, VersionsAreDistinct, With, Of, Stored, templateVars
  <2> QED BY <2>1, <2>2
<1> QED BY <1>1, <1>2, PTL DEF TemplateSpec

\* One version of a scope is published, versions are distinct, what was published
\* keeps its sections and what was answered keeps its questions, as long as no
\* request commits behind a change of what it had read (publish_template_definition,
\* update_draft_template_definition, delete_draft_template_definition,
\* create_template_definition, upsert_template_response).
THEOREM TemplatesSound == TemplateSpec => []TemplatesAreSound
BY LibraryInvariant, LibraryHolds, PTL

----------------------------------------------------------------------------
(***************************************************************************)
(* Budgets: what the orders and invoices take of one, and when it stays      *)
(* within its amount.                                                        *)
(***************************************************************************)

(* What a row of the orders and of the invoices is *)
OrderRows == [state : OrderStates, splits : SplitLists \cup {<< >>}]
Bills == [order : Orders, total : InvoiceTotals, splits : SplitLists, counted : BOOLEAN]

(* The sums of the model, over given orders os and invoices is *)
CountedIn(is, o) == {i \in DOMAIN is : is[i].order = o /\ is[i].counted}
BilledTo(is, o) == {i \in DOMAIN is : is[i].order = o}
InvoicedIn(is, o, a) ==
  SumFunctionOnSet([i \in DOMAIN is |-> OfAccount(is[i].splits, is[i].total, a)], CountedIn(is, o))
RestOf(splits, invoiced, a) ==
  SumFunctionOnSet([i \in DOMAIN splits |-> Max({0, Resolved(splits[i], LineTotal) - invoiced})],
                   SplitsOf(splits, a))
CommittedIn(os, is, a) ==
  SumFunctionOnSet([o \in Orders |-> RestOf(os[o].splits, InvoicedIn(is, o, a), a)],
                   {o \in Orders : os[o].state \in CommittedStates})
ActualIn(is, a) == SumFunctionOnSet([o \in Orders |-> InvoicedIn(is, o, a)], Orders)

(* What an order takes of a budget, and all orders together *)
UsedBy(ord, is, o, a) ==
  (IF ord.state \in CommittedStates THEN RestOf(ord.splits, InvoicedIn(is, o, a), a) ELSE 0)
    + InvoicedIn(is, o, a)
UsedIn(os, is, a) == SumFunctionOnSet([o \in Orders |-> UsedBy(os[o], is, o, a)], Orders)

LEMMA MaxOfTwo ==
  ASSUME NEW n \in Int, NEW m \in Int
  PROVE  Max({n, m}) = IF m <= n THEN n ELSE m
<1> DEFINE t == IF m <= n THEN n ELSE m
<1>1. t \in {n, m} /\ \A y \in {n, m} : t >= y
  OBVIOUS
<1>2. \A x \in {n, m} : (\A y \in {n, m} : x >= y) => x = t
  OBVIOUS
<1> HIDE DEF t
<1>3. Max({n, m}) = t
  BY <1>1, <1>2 DEF Max
<1> QED BY <1>3 DEF t

LEMMA ListsAreFinite ==
  ASSUME NEW splits \in SplitLists \cup {<< >>}
  PROVE  /\ IsFiniteSet(DOMAIN splits)
         /\ \A i \in DOMAIN splits : splits[i] \in Splits
         /\ \A a : SplitsOf(splits, a) \in SUBSET DOMAIN splits /\ IsFiniteSet(SplitsOf(splits, a))
<1>1. splits \in Seq(Splits)
  <2>1. CASE splits = << >>
    BY <2>1
  <2>2. CASE splits \in SplitLists
    BY <2>2, BudgetAssumption, Zenon
  <2> QED BY <2>1, <2>2
<1>2. DOMAIN splits = 1 .. Len(splits) /\ Len(splits) \in Nat
  BY <1>1
<1>3. IsFiniteSet(DOMAIN splits)
  BY <1>2, FS_Interval
<1>4. \A i \in DOMAIN splits : splits[i] \in Splits
  BY <1>1
<1>5. \A a : SplitsOf(splits, a) \in SUBSET DOMAIN splits
  BY DEF SplitsOf
<1> QED BY <1>3, <1>4, <1>5, FS_Subset

LEMMA ResolvedIsNat ==
  ASSUME NEW split \in Splits, NEW total \in Nat
  PROVE  Resolved(split, total) \in Nat
<1>1. split.share \in Nat /\ total * split.share \in Nat
  BY DEF Splits
<1>2. \A n \in Nat : n \div 2 \in Nat
  OBVIOUS
<1> QED BY <1>1, <1>2 DEF Resolved, Halves

LEMMA OfAccountIsNat ==
  ASSUME NEW splits \in SplitLists \cup {<< >>}, NEW total \in Nat, NEW a
  PROVE  OfAccount(splits, total, a) \in Nat
<1> DEFINE f == [i \in DOMAIN splits |-> Resolved(splits[i], total)]
<1>1. \A i \in SplitsOf(splits, a) : f[i] \in Nat
  BY ListsAreFinite, ResolvedIsNat
<1>2. SumFunctionOnSet(f, SplitsOf(splits, a)) \in Nat
  <2> HIDE DEF f
  <2> QED BY <1>1, ListsAreFinite, SumIsNat
<1> QED BY <1>2 DEF OfAccount

LEMMA BillsAreFinite ==
  ASSUME NEW is \in Seq(Bills), NEW o
  PROVE  /\ IsFiniteSet(DOMAIN is) /\ IsFiniteSet(CountedIn(is, o)) /\ IsFiniteSet(BilledTo(is, o))
         /\ CountedIn(is, o) \in SUBSET DOMAIN is /\ BilledTo(is, o) \in SUBSET DOMAIN is
         /\ CountedIn(is, o) \in SUBSET BilledTo(is, o)
         /\ \A i \in DOMAIN is : is[i] \in Bills /\ is[i].splits \in SplitLists \cup {<< >>}
                                   /\ is[i].total \in Nat
<1>1. DOMAIN is = 1 .. Len(is) /\ Len(is) \in Nat
  OBVIOUS
<1>2. IsFiniteSet(DOMAIN is)
  BY <1>1, FS_Interval
<1>3. CountedIn(is, o) \in SUBSET DOMAIN is /\ BilledTo(is, o) \in SUBSET DOMAIN is
      /\ CountedIn(is, o) \in SUBSET BilledTo(is, o)
  BY DEF CountedIn, BilledTo
<1>4. \A i \in DOMAIN is : is[i] \in Bills
  BY <1>1
<1>5. \A i \in DOMAIN is : is[i].splits \in SplitLists \cup {<< >>} /\ is[i].total \in Nat
  BY <1>4, BudgetAssumption DEF Bills
<1> QED BY <1>2, <1>3, <1>4, <1>5, FS_Subset

LEMMA InvoicedIsNat ==
  ASSUME NEW is \in Seq(Bills), NEW o, NEW a
  PROVE  InvoicedIn(is, o, a) \in Nat
<1> DEFINE f == [i \in DOMAIN is |-> OfAccount(is[i].splits, is[i].total, a)]
<1>1. \A i \in CountedIn(is, o) : f[i] \in Nat
  BY BillsAreFinite, OfAccountIsNat
<1>2. SumFunctionOnSet(f, CountedIn(is, o)) \in Nat
  <2> HIDE DEF f
  <2> QED BY <1>1, BillsAreFinite, SumIsNat
<1> QED BY <1>2 DEF InvoicedIn

LEMMA RestIsNat ==
  ASSUME NEW splits \in SplitLists \cup {<< >>}, NEW n \in Nat, NEW a
  PROVE  RestOf(splits, n, a) \in Nat
<1> DEFINE f == [i \in DOMAIN splits |-> Max({0, Resolved(splits[i], LineTotal) - n})]
<1>1. \A i \in SplitsOf(splits, a) : f[i] \in Nat
  <2> TAKE i \in SplitsOf(splits, a)
  <2>1. i \in DOMAIN splits /\ Resolved(splits[i], LineTotal) \in Nat
    BY ListsAreFinite, ResolvedIsNat, BudgetAssumption
  <2>2. Resolved(splits[i], LineTotal) - n \in Int /\ 0 \in Int
    BY <2>1
  <2>3. Max({0, Resolved(splits[i], LineTotal) - n}) \in Nat
    BY <2>2, MaxOfTwo
  <2> QED BY <2>1, <2>3
<1>2. SumFunctionOnSet(f, SplitsOf(splits, a)) \in Nat
  <2> HIDE DEF f
  <2> QED BY <1>1, ListsAreFinite, SumIsNat
<1> QED BY <1>2 DEF RestOf

LEMMA UsedIsNat ==
  ASSUME NEW ord \in OrderRows, NEW is \in Seq(Bills), NEW o, NEW a
  PROVE  UsedBy(ord, is, o, a) \in Nat
<1>1. InvoicedIn(is, o, a) \in Nat
  BY InvoicedIsNat
<1>2. ord.splits \in SplitLists \cup {<< >>}
  BY DEF OrderRows
<1>3. RestOf(ord.splits, InvoicedIn(is, o, a), a) \in Nat
  BY <1>1, <1>2, RestIsNat
<1> QED BY <1>1, <1>3 DEF UsedBy

(* What is used is what is committed and spent *)
LEMMA UsedIsBoth ==
  ASSUME NEW os \in [Orders -> OrderRows], NEW is \in Seq(Bills), NEW a
  PROVE  /\ UsedIn(os, is, a) = CommittedIn(os, is, a) + ActualIn(is, a)
         /\ CommittedIn(os, is, a) \in Nat /\ ActualIn(is, a) \in Nat
<1> DEFINE T == {o \in Orders : os[o].state \in CommittedStates}
           rest == [o \in Orders |-> RestOf(os[o].splits, InvoicedIn(is, o, a), a)]
           wanted == [o \in Orders |-> IF o \in T THEN rest[o] ELSE 0]
           spent == [o \in Orders |-> InvoicedIn(is, o, a)]
           used == [o \in Orders |-> UsedBy(os[o], is, o, a)]
<1>1. \A o \in Orders : rest[o] \in Nat /\ spent[o] \in Nat
  <2> TAKE o \in Orders
  <2>1. InvoicedIn(is, o, a) \in Nat /\ os[o].splits \in SplitLists \cup {<< >>}
    BY InvoicedIsNat DEF OrderRows
  <2>2. RestOf(os[o].splits, InvoicedIn(is, o, a), a) \in Nat
    BY <2>1, RestIsNat
  <2> QED BY <2>1, <2>2
<1>2. \A o \in Orders : used[o] = wanted[o] + spent[o]
  BY DEF UsedBy
<1>3. T \in SUBSET Orders /\ IsFiniteSet(Orders) /\ IsFiniteSet(T)
  BY BudgetAssumption, FS_Subset
<1>4. \A o \in Orders : wanted[o] \in Nat /\ (o \in T => wanted[o] = rest[o])
                          /\ (o \notin T => wanted[o] = 0)
  BY <1>1
<1> HIDE DEF T, rest, wanted, spent, used
<1>5. SumFunctionOnSet(used, Orders) = SumFunctionOnSet(wanted, Orders) + SumFunctionOnSet(spent, Orders)
  BY <1>1, <1>2, <1>3, <1>4, SumOfTwo
<1>6. SumFunctionOnSet(wanted, Orders) = SumFunctionOnSet(rest, T)
  BY <1>1, <1>3, <1>4, SumOfSome
<1>7. SumFunctionOnSet(rest, T) \in Nat /\ SumFunctionOnSet(spent, Orders) \in Nat
  BY <1>1, <1>3, SumIsNat
<1> QED BY <1>5, <1>6, <1>7 DEF T, rest, spent, used, UsedIn, CommittedIn, ActualIn

(* An order nobody has invoiced is counted for its splits *)
LEMMA WithoutInvoices ==
  ASSUME NEW splits \in SplitLists \cup {<< >>}, NEW a
  PROVE  RestOf(splits, 0, a) = OfAccount(splits, LineTotal, a)
<1> DEFINE f == [i \in DOMAIN splits |-> Resolved(splits[i], LineTotal)]
           g == [i \in DOMAIN splits |-> Max({0, Resolved(splits[i], LineTotal) - 0})]
<1>1. \A i \in SplitsOf(splits, a) : f[i] \in Nat /\ g[i] = f[i]
  <2> TAKE i \in SplitsOf(splits, a)
  <2> DEFINE r == Resolved(splits[i], LineTotal)
  <2>1. i \in DOMAIN splits /\ r \in Nat
    BY ListsAreFinite, ResolvedIsNat, BudgetAssumption
  <2> HIDE DEF r
  <2>2. Max({0, r - 0}) = r
    BY <2>1, MaxOfTwo
  <2> QED BY <2>1, <2>2 DEF r
<1> HIDE DEF f, g
<1>2. SumFunctionOnSet(g, SplitsOf(splits, a)) = SumFunctionOnSet(f, SplitsOf(splits, a))
  BY <1>1, ListsAreFinite, SumOfSame
<1> QED BY <1>2 DEF RestOf, OfAccount, f, g


LEMMA SumOfOne ==
  ASSUME NEW x, NEW f, f[x] \in Nat
  PROVE  SumFunctionOnSet(f, {x}) = f[x]
<1>1. IsFiniteSet({x}) /\ {x} \ {x} = {} /\ x \in {x} /\ \A y \in {x} : f[y] \in Nat
  BY FS_Singleton
<1>2. SumFunctionOnSet(f, {x}) = f[x] + SumFunctionOnSet(f, {})
  BY <1>1, SumOfOneMore
<1> QED BY <1>2, SumOfNone

(* What Irregular denies, of an order whose splits are these *)
RegularFor(splits, is, o) ==
  BilledTo(is, o) # {} =>
    /\ TakenBy(is, BilledTo(is, o)) <= LineTotal
    /\ \A i \in BilledTo(is, o) : is[i].splits = splits
    /\ \A i, j \in DOMAIN splits : splits[i].account = splits[j].account => i = j

(* The unit of a split's share: one part in two of a line, or one of its total *)
Whole(splits) == IF ByAmounts(splits) THEN LineTotal ELSE 2

ShareOf(splits, a) == SumFunctionOnSet([i \in DOMAIN splits |-> splits[i].share], SplitsOf(splits, a))

LEMMA ByHalves ==
  ASSUME NEW n \in Nat, NEW s \in Nat
  PROVE  /\ (n * s) \div 2 \in Nat
         /\ 2 * ((n * s) \div 2) <= s * n
         /\ \A m \in Nat : 2 * m <= s * n => m <= (n * s) \div 2
<1> DEFINE p == n * s
<1>1. p \in Nat /\ s * n = p
  OBVIOUS
<1> HIDE DEF p
<1>2. p \div 2 \in Nat /\ 2 * (p \div 2) <= p /\ \A m \in Nat : 2 * m <= p => m <= p \div 2
  BY <1>1
<1> QED BY <1>1, <1>2 DEF p

(* One method for a line: its splits are parts of its total, or amounts *)
LEMMA OneMethod ==
  ASSUME NEW splits \in SplitLists
  PROVE  /\ Shares(splits) = Whole(splits)
         /\ Whole(splits) \in Nat
         /\ \A i \in DOMAIN splits :
              splits[i].method = IF ByAmounts(splits) THEN "amount" ELSE "percentage"
<1>1. splits \in Seq(Splits) /\ ValidSplits(splits)
  BY BudgetAssumption, Zenon
<1>2. 1 \in DOMAIN splits
  <2>1. splits # << >>
    BY <1>1 DEF ValidSplits
  <2> QED BY <1>1, <2>1
<1>3. CASE (\A i \in DOMAIN splits : splits[i].method = "percentage") /\ Shares(splits) = Halves
  BY <1>3 DEF ByAmounts, Whole, Halves
<1>4. CASE (\A i \in DOMAIN splits : splits[i].method = "amount") /\ Shares(splits) = LineTotal
  BY <1>2, <1>4, BudgetAssumption DEF ByAmounts, Whole
<1> QED BY <1>1, <1>3, <1>4 DEF ValidSplits

LEMMA TakesIsNat ==
  ASSUME NEW splits \in SplitLists, NEW n \in Nat
  PROVE  Takes(splits, n) \in Nat /\ Takes(splits, LineTotal) = LineTotal
BY OneMethod, BudgetAssumption DEF Takes, Whole

(* A split gives its share of what is taken, and not less than that in whole numbers *)
LEMMA ResolvedByWhole ==
  ASSUME NEW splits \in SplitLists, NEW k \in DOMAIN splits, NEW n \in Nat
  PROVE  /\ splits[k].share \in Nat /\ Resolved(splits[k], n) \in Nat
         /\ Whole(splits) * Resolved(splits[k], n) <= splits[k].share * Takes(splits, n)
         /\ Whole(splits) # 0 =>
              \A m \in Nat : Whole(splits) * m <= splits[k].share * Takes(splits, n)
                                => m <= Resolved(splits[k], n)
<1> DEFINE s == splits[k].share
<1>1. s \in Nat
  BY ListsAreFinite DEF Splits
<1>2. CASE ByAmounts(splits)
  <2>1. Resolved(splits[k], n) = s /\ Takes(splits, n) = LineTotal /\ Whole(splits) = LineTotal
    BY <1>2, OneMethod DEF Resolved, Takes, Whole
  <2>2. LineTotal \in Nat
    BY BudgetAssumption
  <2> HIDE DEF s
  <2>3. LineTotal * s = s * LineTotal /\ LineTotal * s \in Nat
    BY <1>1, <2>2
  <2>4. \A m \in Nat : LineTotal # 0 /\ LineTotal * m <= LineTotal * s => m <= s
    BY <1>1, <2>2
  <2> QED BY <1>1, <2>1, <2>3, <2>4 DEF s
<1>3. CASE ~ ByAmounts(splits)
  <2>1. Resolved(splits[k], n) = (n * s) \div 2 /\ Takes(splits, n) = n /\ Whole(splits) = 2
    BY <1>3, OneMethod DEF Resolved, Takes, Whole, Halves
  <2> HIDE DEF s
  <2>2. /\ (n * s) \div 2 \in Nat /\ 2 * ((n * s) \div 2) <= s * n
        /\ \A m \in Nat : 2 * m <= s * n => m <= (n * s) \div 2
    BY <1>1, ByHalves
  <2> QED BY <1>1, <2>1, <2>2 DEF s
<1> QED BY <1>2, <1>3

(* A line of no amount, split by amount, gives nobody anything *)
LEMMA NothingToSplit ==
  ASSUME NEW splits \in SplitLists, Whole(splits) = 0
  PROVE  /\ \A k \in DOMAIN splits : \A n : Resolved(splits[k], n) = 0
         /\ \A n, a : OfAccount(splits, n, a) = 0
<1> DEFINE f == [i \in DOMAIN splits |-> splits[i].share]
<1>1. ByAmounts(splits) /\ SumFunctionOnSet(f, DOMAIN splits) = 0
  BY OneMethod DEF Whole, Shares
<1>2. IsFiniteSet(DOMAIN splits) /\ \A k \in DOMAIN splits : f[k] \in Nat
  BY ListsAreFinite DEF Splits
<1>3. ASSUME NEW k \in DOMAIN splits PROVE f[k] = 0
  <2> HIDE DEF f
  <2>1. f[k] <= SumFunctionOnSet(f, DOMAIN splits)
    BY <1>2, PartOfSum
  <2> QED BY <1>1, <1>2, <2>1
<1>4. \A k \in DOMAIN splits : \A n : Resolved(splits[k], n) = 0
  BY <1>1, <1>3, OneMethod DEF Resolved
<1>5. ASSUME NEW n, NEW a PROVE OfAccount(splits, n, a) = 0
  <2> DEFINE g == [i \in DOMAIN splits |-> Resolved(splits[i], n)]
  <2>1. \A i \in SplitsOf(splits, a) : g[i] = 0
    BY <1>4 DEF SplitsOf
  <2> HIDE DEF g
  <2>2. SumFunctionOnSet(g, SplitsOf(splits, a)) = 0
    BY <2>1, ListsAreFinite, SumOfZeros
  <2> QED BY <2>2 DEF OfAccount, g
<1> QED BY <1>4, <1>5

(* A regular order is counted for its splits, whatever was invoiced *)
LEMMA RegularIsItsSplits ==
  ASSUME NEW splits \in SplitLists \cup {<< >>}, NEW is \in Seq(Bills), NEW o \in Orders, NEW a,
         RegularFor(splits, is, o)
  PROVE  RestOf(splits, InvoicedIn(is, o, a), a) + InvoicedIn(is, o, a) = OfAccount(splits, LineTotal, a)
<1> DEFINE n == InvoicedIn(is, o, a)
           f == [i \in DOMAIN is |-> OfAccount(is[i].splits, is[i].total, a)]
           t == [i \in DOMAIN is |-> Takes(is[i].splits, is[i].total)]
<1>0. LineTotal \in Nat /\ OfAccount(splits, LineTotal, a) \in Nat /\ n \in Nat
  BY OfAccountIsNat, InvoicedIsNat, BudgetAssumption
<1>1. CASE BilledTo(is, o) = {}
  <2>1. CountedIn(is, o) = {}
    BY <1>1, BillsAreFinite
  <2>2. n = 0
    BY <2>1, SumOfNone DEF InvoicedIn
  <2>3. RestOf(splits, 0, a) = OfAccount(splits, LineTotal, a)
    BY WithoutInvoices
  <2> HIDE DEF n
  <2>4. RestOf(splits, n, a) + n = OfAccount(splits, LineTotal, a)
    BY <1>0, <2>2, <2>3
  <2> QED BY <2>4 DEF n
<1>2. CASE BilledTo(is, o) # {} /\ SplitsOf(splits, a) = {}
  <2>1. \A total : OfAccount(splits, total, a) = 0
    BY <1>2, SumOfNone DEF OfAccount
  <2>2. \A i \in CountedIn(is, o) : f[i] = 0
    <3> TAKE i \in CountedIn(is, o)
    <3>1. i \in DOMAIN is /\ is[i].splits = splits
      BY <1>2, BillsAreFinite DEF RegularFor
    <3> QED BY <2>1, <3>1
  <2>3. n = 0
    <3>1. SumFunctionOnSet(f, CountedIn(is, o)) = 0
      <4> HIDE DEF f
      <4> QED BY <2>2, BillsAreFinite, SumOfZeros
    <3> QED BY <3>1 DEF InvoicedIn
  <2>4. \A m : RestOf(splits, m, a) = 0
    BY <1>2, SumOfNone DEF RestOf
  <2> HIDE DEF n
  <2>5. RestOf(splits, n, a) + n = OfAccount(splits, LineTotal, a)
    BY <2>1, <2>3, <2>4
  <2> QED BY <2>5 DEF n
<1>3. CASE BilledTo(is, o) # {} /\ SplitsOf(splits, a) # {}
  <2>1. PICK k \in DOMAIN splits : SplitsOf(splits, a) = {k}
    <3>1. PICK k : k \in SplitsOf(splits, a)
      BY <1>3
    <3>2. k \in DOMAIN splits /\ SplitsOf(splits, a) = {k}
      BY <1>3, <3>1 DEF SplitsOf, RegularFor
    <3> QED BY <3>2
  <2> DEFINE s == splits[k].share
             w == Whole(splits)
             r == Resolved(splits[k], LineTotal)
  <2>2. splits \in SplitLists
    <3>1. splits # << >>
      OBVIOUS
    <3> QED BY <3>1
  <2>3. s \in Nat /\ w \in Nat
    BY <2>2, ResolvedByWhole, OneMethod, BudgetAssumption
  <2>4. \A m \in Nat : OfAccount(splits, m, a) = Resolved(splits[k], m)
    <3> TAKE m \in Nat
    <3> DEFINE h == [i \in DOMAIN splits |-> Resolved(splits[i], m)]
    <3>1. h[k] = Resolved(splits[k], m)
      OBVIOUS
    <3>2. h[k] \in Nat
      BY ListsAreFinite, ResolvedIsNat
    <3>3. SumFunctionOnSet(h, {k}) = h[k]
      <4> HIDE DEF h
      <4> QED BY <3>2, SumOfOne
    <3> QED BY <2>1, <3>1, <3>3 DEF OfAccount
  <2>5. \A i \in CountedIn(is, o) : f[i] \in Nat /\ t[i] \in Nat /\ w * f[i] <= s * t[i]
    <3> TAKE i \in CountedIn(is, o)
    <3>1. i \in DOMAIN is /\ is[i].splits = splits /\ is[i].total \in Nat
      BY <1>3, BillsAreFinite DEF RegularFor
    <3>2. f[i] = Resolved(splits[k], is[i].total) /\ t[i] = Takes(splits, is[i].total)
      BY <2>4, <3>1
    <3> HIDE DEF f, t
    <3> QED BY <2>2, <3>1, <3>2, ResolvedByWhole, TakesIsNat
  <2>6. w * n <= s * SumFunctionOnSet(t, CountedIn(is, o))
    <3>1. w * SumFunctionOnSet(f, CountedIn(is, o)) <= s * SumFunctionOnSet(t, CountedIn(is, o))
      <4>1. IsFiniteSet(CountedIn(is, o))
        BY BillsAreFinite
      <4> HIDE DEF f, t, s, w
      <4> QED BY <2>3, <2>5, <4>1, SumScaled
    <3> QED BY <3>1 DEF InvoicedIn
  <2> DEFINE T == SumFunctionOnSet(t, CountedIn(is, o))
  <2>7. T \in Nat /\ T <= LineTotal
    <3>1. \A i \in BilledTo(is, o) : t[i] \in Nat
      BY <1>3, <2>2, BillsAreFinite, TakesIsNat DEF RegularFor
    <3>2. SumFunctionOnSet(t, BilledTo(is, o)) <= LineTotal
      BY <1>3 DEF RegularFor, TakenBy
    <3>3. /\ IsFiniteSet(BilledTo(is, o)) /\ IsFiniteSet(CountedIn(is, o))
          /\ CountedIn(is, o) \in SUBSET BilledTo(is, o)
      BY BillsAreFinite
    <3> HIDE DEF t
    <3>4. SumFunctionOnSet(t, CountedIn(is, o)) <= SumFunctionOnSet(t, BilledTo(is, o))
      BY <3>1, <3>3, SumGrows
    <3>5. SumFunctionOnSet(t, CountedIn(is, o)) \in Nat /\ SumFunctionOnSet(t, BilledTo(is, o)) \in Nat
      BY <3>1, <3>3, SumIsNat
    <3> QED BY <1>0, <3>2, <3>4, <3>5
  <2>8. w * n <= s * LineTotal
    <3> HIDE DEF T, n, f, t, s, w
    <3>1. s * T <= s * LineTotal /\ s * T \in Nat /\ s * LineTotal \in Nat /\ w * n \in Nat
      BY <1>0, <2>3, <2>7
    <3>2. w * n <= s * T
      BY <2>6 DEF T
    <3> QED BY <3>1, <3>2
  <2>9. n <= r /\ r \in Nat
    <3>1. CASE w = 0
      <4>0. r = 0
        BY <2>2, <3>1, NothingToSplit
      <4>1. \A i \in CountedIn(is, o) : f[i] = 0
        <5> TAKE i \in CountedIn(is, o)
        <5>1. i \in DOMAIN is /\ is[i].splits = splits
          BY <1>3, BillsAreFinite DEF RegularFor
        <5> QED BY <2>2, <3>1, <5>1, NothingToSplit
      <4>2. SumFunctionOnSet(f, CountedIn(is, o)) = 0
        <5> HIDE DEF f
        <5> QED BY <4>1, BillsAreFinite, SumOfZeros
      <4> QED BY <4>0, <4>2 DEF InvoicedIn
    <3>2. CASE w # 0
      <4> HIDE DEF n
      <4> QED BY <1>0, <2>2, <2>8, <3>2, ResolvedByWhole, TakesIsNat
    <3> QED BY <3>1, <3>2
  <2> HIDE DEF T, n, f, t
  <2>10. RestOf(splits, n, a) = r - n
    <3> DEFINE g == [i \in DOMAIN splits |-> Max({0, Resolved(splits[i], LineTotal) - n})]
    <3>1. g[k] = Max({0, r - n})
      OBVIOUS
    <3> HIDE DEF r
    <3>2. Max({0, r - n}) = r - n /\ r - n \in Nat
      BY <1>0, <2>9, MaxOfTwo
    <3>3. SumFunctionOnSet(g, {k}) = r - n
      <4> HIDE DEF g
      <4> QED BY <3>1, <3>2, SumOfOne
    <3> QED BY <2>1, <3>3 DEF RestOf
  <2>11. OfAccount(splits, LineTotal, a) = r
    BY <1>0, <2>4
  <2> HIDE DEF r
  <2>12. RestOf(splits, n, a) + n = OfAccount(splits, LineTotal, a)
    BY <1>0, <2>9, <2>10, <2>11
  <2> QED BY <2>12 DEF n
<1> QED BY <1>1, <1>2, <1>3


(* What a request for an approval holds *)
Checks == [step : {"read", "checked"}, order : Orders, fresh : BOOLEAN, committed : [Accounts -> Nat]]

BudgetTypes ==
  /\ BudgetTypeOK
  /\ invoices \in Seq(Bills)
  /\ DOMAIN approval = Approvers
  /\ \A o \in Orders : orders[o].state # "none" => orders[o].splits \in SplitLists
  /\ \A u \in Approvers : approval[u] # NoApproval => orders[approval[u].order].state # "none"

LEMMA SumsOfTheState ==
  ASSUME BudgetTypes
  PROVE  /\ \A o, a : InvoicedFor(o, a) = InvoicedIn(invoices, o, a)
         /\ \A o, a : Remaining(o, a) = RestOf(orders[o].splits, InvoicedIn(invoices, o, a), a)
         /\ \A a : Committed(a) = CommittedIn(orders, invoices, a)
         /\ \A a : Actual(a) = ActualIn(invoices, a)
BY DEF InvoicedFor, InvoicedIn, Counted, CountedIn, Remaining, RestOf, Committed, CommittedIn,
       Actual, ActualIn

LEMMA BudgetTypesInit == BudgetInit => BudgetTypes
<1> SUFFICES ASSUME BudgetInit PROVE BudgetTypes
  OBVIOUS
<1> USE DEF BudgetInit
<1>1. orders \in [Orders -> [state : OrderStates, splits : SplitLists \cup {<< >>}]]
  BY DEF OrderStates
<1>2. invoices \in Seq(Bills) /\ Len(invoices) = 0 /\ DOMAIN invoices = {}
  OBVIOUS
<1>3. budget \in [Accounts -> [amount : BudgetAmounts, hard : BOOLEAN]]
  OBVIOUS
<1>4. /\ \A u \in Approvers : approval[u] = NoApproval
      /\ DOMAIN approval = Approvers
  OBVIOUS
<1>5. budgetCalls \in 0 .. MaxBudgetCalls /\ 0 <= MaxInvoices
  BY BudgetAssumption
<1>6. \A o \in Orders : orders[o].state = "none"
  OBVIOUS
<1> QED BY <1>1, <1>2, <1>3, <1>4, <1>5, <1>6 DEF BudgetTypes, BudgetTypeOK

LEMMA OutdatedTypes ==
  ASSUME BudgetTypes
  PROVE  /\ DOMAIN Outdated = Approvers
         /\ \A u \in Approvers :
              \/ Outdated[u] = NoApproval /\ approval[u] = NoApproval
              \/ Outdated[u] \in Checks /\ ~ Outdated[u].fresh /\ Outdated[u].order = approval[u].order
                 /\ approval[u] # NoApproval
<1>1. \A u \in Approvers : approval[u] = NoApproval \/ approval[u] \in Checks
  BY DEF BudgetTypes, BudgetTypeOK, Checks
<1>2. \A u \in Approvers : approval[u] \in Checks =>
        /\ [approval[u] EXCEPT !.fresh = FALSE] \in Checks
        /\ [approval[u] EXCEPT !.fresh = FALSE].order = approval[u].order
        /\ ~ [approval[u] EXCEPT !.fresh = FALSE].fresh
  BY DEF Checks
<1> QED BY <1>1, <1>2 DEF Outdated

LEMMA BudgetTypesStep == BudgetTypes /\ [BudgetNext]_budgetVars => BudgetTypes'
<1> SUFFICES ASSUME BudgetTypes, [BudgetNext]_budgetVars PROVE BudgetTypes'
  OBVIOUS
<1> DEFINE Rows == [state : OrderStates, splits : SplitLists \cup {<< >>}]
           Asking(ap) == DOMAIN ap = Approvers
                           /\ \A u \in Approvers : ap[u] = NoApproval \/ ap[u] \in Checks
           Live(ap, os) == \A u \in Approvers : ap[u] # NoApproval => os[ap[u].order].state # "none"
           Having(os) == os \in [Orders -> Rows]
                           /\ \A o \in Orders : os[o].state # "none" => os[o].splits \in SplitLists
           Billed(is) == is \in Seq(Bills) /\ Len(is) =< MaxInvoices
           Funds(b) == b \in [Accounts -> [amount : BudgetAmounts, hard : BOOLEAN]]
           Reasons(c) == c \in SUBSET {"auto", "splits", "budget", "race", "reopened", "irregular", "late"}
           Calls(n) == n \in 0 .. MaxBudgetCalls
<1>1. Having(orders) /\ Billed(invoices) /\ Asking(approval) /\ Funds(budget) /\ Reasons(causes)
        /\ Calls(budgetCalls)
  BY DEF BudgetTypes, BudgetTypeOK, Checks
<1>2. Asking(Outdated)
  BY OutdatedTypes
<1>0. Live(approval, orders) /\ Live(Outdated, orders)
  BY OutdatedTypes DEF BudgetTypes
<1>3. ASSUME BudgetCall PROVE Calls(budgetCalls')
  BY <1>1, <1>3, BudgetAssumption DEF BudgetCall
<1>4. ASSUME NEW o \in Orders, NEW st \in OrderStates, NEW splits \in SplitLists
      PROVE  Having([orders EXCEPT ![o] = [state |-> st, splits |-> splits]])
  BY <1>1
<1>5. ASSUME NEW o \in Orders, NEW st \in OrderStates, orders[o].state # "none"
      PROVE  Having([orders EXCEPT ![o].state = st])
  BY <1>1, <1>5
<1>6. ASSUME NEW o \in Orders, NEW splits \in SplitLists, orders[o].state # "none"
      PROVE  Having([orders EXCEPT ![o].splits = splits])
  BY <1>1, <1>6
<1> SUFFICES Having(orders') /\ Billed(invoices') /\ Asking(approval') /\ Funds(budget')
               /\ Reasons(causes') /\ Calls(budgetCalls') /\ Live(approval', orders')
  <2> SUFFICES ASSUME Having(orders') /\ Billed(invoices') /\ Asking(approval') /\ Funds(budget')
               /\ Reasons(causes') /\ Calls(budgetCalls') /\ Live(approval', orders')
               PROVE BudgetTypes'
    OBVIOUS
  <2>1. \A i \in DOMAIN invoices' : invoices'[i] \in Bills
    OBVIOUS
  <2> QED BY <2>1 DEF BudgetTypes, BudgetTypeOK, Bills, Checks
<1> HIDE DEF Having, Billed, Asking, Funds, Reasons, Calls
<1>8. ASSUME NEW ap, Asking(ap), Live(ap, orders),
             \A o \in Orders : orders[o].state # "none" => orders'[o].state # "none"
      PROVE  Live(ap, orders')
  BY <1>8 DEF Asking, Checks
<1> HIDE DEF Live
<1> USE DEF OrderStates
<1> DEFINE Kept == /\ Having(orders') /\ Billed(invoices') /\ Asking(approval') /\ Funds(budget')
                   /\ Reasons(causes') /\ Calls(budgetCalls') /\ Live(approval', orders')
<1>7. ASSUME NEW c, c \subseteq {"auto", "splits", "budget", "race", "reopened", "irregular", "late"}
      PROVE  Reasons(causes \cup c)
  BY <1>1, <1>7 DEF Reasons
<1>10. ASSUME NEW o \in Orders, NEW splits \in SplitLists, CreateOrder(o, splits) PROVE Kept
  <2>1. Having(orders')
    BY <1>4, <1>10 DEF CreateOrder
  <2>9. Live(approval', orders')
    <3>1. \A p \in Orders : orders[p].state # "none" => orders'[p].state # "none"
      BY <1>1, <1>10 DEF CreateOrder, Having
    <3> QED BY <1>0, <1>1, <1>8, <1>10, <3>1 DEF CreateOrder
  <2> QED BY <1>1, <1>3, <1>10, <2>1, <2>9 DEF CreateOrder
<1>11. ASSUME NEW o \in Orders, NEW splits \in SplitLists, AutoCreateOrder(o, splits) PROVE Kept
  <2>1. Having(orders')
    BY <1>4, <1>11 DEF AutoCreateOrder
  <2>2. Reasons(causes')
    BY <1>7, <1>11 DEF AutoCreateOrder
  <2>9. Live(approval', orders')
    <3>1. \A p \in Orders : orders[p].state # "none" => orders'[p].state # "none"
      BY <1>1, <1>11 DEF AutoCreateOrder, Having
    <3> QED BY <1>0, <1>2, <1>8, <1>11, <3>1 DEF AutoCreateOrder
  <2> QED BY <1>1, <1>2, <1>3, <1>11, <2>1, <2>2, <2>9 DEF AutoCreateOrder
<1>12. ASSUME NEW o \in Orders, NEW splits \in SplitLists, SetSplits(o, splits) PROVE Kept
  <2>1. Having(orders')
    BY <1>6, <1>12 DEF SetSplits
  <2>2. Reasons(causes')
    BY <1>1, <1>7, <1>12 DEF SetSplits
  <2>9. Live(approval', orders')
    <3>1. \A p \in Orders : orders[p].state # "none" => orders'[p].state # "none"
      BY <1>1, <1>12 DEF SetSplits, Having
    <3> QED BY <1>0, <1>2, <1>8, <1>12, <3>1 DEF SetSplits
  <2> QED BY <1>1, <1>2, <1>3, <1>12, <2>1, <2>2, <2>9 DEF SetSplits
<1>13. ASSUME NEW a \in Accounts, NEW n \in BudgetAmounts, NEW h \in BOOLEAN, SetBudget(a, n, h) PROVE Kept
  <2>1. Funds(budget')
    BY <1>1, <1>13 DEF SetBudget, Funds
  <2>2. Reasons(causes')
    BY <1>7, <1>13 DEF SetBudget
  <2>9. Live(approval', orders')
    <3>1. \A p \in Orders : orders[p].state # "none" => orders'[p].state # "none"
      BY <1>1, <1>13 DEF SetBudget, Having
    <3> QED BY <1>0, <1>2, <1>8, <1>13, <3>1 DEF SetBudget
  <2> QED BY <1>1, <1>2, <1>3, <1>13, <2>1, <2>2, <2>9 DEF SetBudget
<1>14. ASSUME NEW u \in Approvers, NEW o \in Orders, BeginApprove(u, o) PROVE Kept
  <2>1. \A a \in Accounts : Committed(a) \in Nat
    BY SumsOfTheState, UsedIsBoth DEF BudgetTypes, BudgetTypeOK, OrderRows
  <2>2. [a \in Accounts |-> Committed(a)] \in [Accounts -> Nat]
    BY <2>1
  <2> DEFINE w == [step |-> "read", order |-> o, fresh |-> TRUE,
                   committed |-> [a \in Accounts |-> Committed(a)]]
  <2>3. w \in Checks
    BY <2>2 DEF Checks
  <2>4. approval' = [approval EXCEPT ![u] = w]
    BY <1>14 DEF BeginApprove
  <2> HIDE DEF w
  <2>5. Asking(approval')
    BY <1>1, <2>3, <2>4 DEF Asking
  <2>9. Live(approval', orders')
    BY <1>0, <1>1, <1>14, <2>4 DEF BeginApprove, Live, Asking, w
  <2> QED BY <1>1, <1>3, <1>14, <2>5, <2>9 DEF BeginApprove
<1>15. ASSUME NEW u \in Approvers, CheckBudget(u) PROVE Kept
  <2> DEFINE w == approval[u]
  <2>1. w \in Checks
    BY <1>1, <1>15 DEF CheckBudget, NoApproval, Asking
  <2>2. [w EXCEPT !.step = "checked"] \in Checks
    BY <2>1 DEF Checks
  <2>3. \/ approval' = [approval EXCEPT ![u] = NoApproval]
        \/ approval' = [approval EXCEPT ![u] = [w EXCEPT !.step = "checked"]]
    BY <1>15 DEF CheckBudget
  <2> HIDE DEF w
  <2>4. Asking(approval')
    BY <1>1, <2>2, <2>3 DEF Asking
  <2>9. Live(approval', orders')
    <3>1. orders' = orders /\ w # NoApproval /\ [w EXCEPT !.step = "checked"].order = w.order
      BY <1>15, <2>1 DEF CheckBudget, NoApproval, Checks
    <3> QED BY <1>0, <1>1, <2>3, <3>1 DEF Live, Asking, w
  <2> QED BY <1>1, <1>15, <2>4, <2>9 DEF CheckBudget
<1>16. ASSUME NEW u \in Approvers, CommitApproval(u) PROVE Kept
  <2> DEFINE w == approval[u]
  <2>1. w \in Checks
    BY <1>1, <1>16 DEF CommitApproval, NoApproval, Asking
  <2>2. w.order \in Orders /\ orders[w.order].state # "none"
    BY <1>0, <1>16, <2>1 DEF Checks, CommitApproval, NoApproval, Live
  <2>3. Asking(approval')
    BY <1>2, <1>16 DEF CommitApproval, Asking
  <2>4. Reasons(causes')
    BY <1>1, <1>7, <1>16 DEF CommitApproval
  <2>5. orders' = [orders EXCEPT ![w.order].state = "open"]
    BY <1>16 DEF CommitApproval
  <2> HIDE DEF w
  <2>6. Having(orders')
    BY <1>5, <2>2, <2>5
  <2>9. Live(approval', orders')
    <3>1. \A p \in Orders : orders[p].state # "none" => orders'[p].state # "none"
      BY <1>1, <2>2, <2>5 DEF Having
    <3>2. approval' = [Outdated EXCEPT ![u] = NoApproval]
      BY <1>16 DEF CommitApproval
    <3>3. Live(approval', orders)
      BY <1>0, <1>2, <3>2 DEF Live, Asking
    <3> QED BY <1>8, <2>3, <3>1, <3>3
  <2> QED BY <1>1, <1>16, <2>3, <2>4, <2>6, <2>9 DEF CommitApproval
<1>17. ASSUME NEW o \in Orders, EndOrder(o) PROVE Kept
  <2>1. Having(orders')
    BY <1>5, <1>17 DEF EndOrder
  <2>9. Live(approval', orders')
    <3>1. \A p \in Orders : orders[p].state # "none" => orders'[p].state # "none"
      BY <1>1, <1>17 DEF EndOrder, Having
    <3> QED BY <1>0, <1>2, <1>8, <1>17, <3>1 DEF EndOrder
  <2> QED BY <1>1, <1>2, <1>3, <1>17, <2>1, <2>9 DEF EndOrder
<1>18. ASSUME NEW o \in Orders, ReopenOrder(o) PROVE Kept
  <2>1. Having(orders')
    BY <1>5, <1>18 DEF ReopenOrder
  <2>9. Live(approval', orders')
    <3>1. \A p \in Orders : orders[p].state # "none" => orders'[p].state # "none"
      BY <1>1, <1>18 DEF ReopenOrder, Having
    <3> QED BY <1>0, <1>1, <1>8, <1>18, <3>1 DEF ReopenOrder
  <2> QED BY <1>1, <1>2, <1>3, <1>18, <2>1, <2>9 DEF ReopenOrder
<1>19. ASSUME NEW o \in Orders, ResumeOrder(o) PROVE Kept
  <2>1. Having(orders')
    BY <1>5, <1>19 DEF ResumeOrder
  <2>2. Reasons(causes')
    BY <1>7, <1>19 DEF ResumeOrder
  <2>9. Live(approval', orders')
    <3>1. \A p \in Orders : orders[p].state # "none" => orders'[p].state # "none"
      BY <1>1, <1>19 DEF ResumeOrder, Having
    <3> QED BY <1>0, <1>2, <1>8, <1>19, <3>1 DEF ResumeOrder
  <2> QED BY <1>1, <1>2, <1>3, <1>19, <2>1, <2>2, <2>9 DEF ResumeOrder
<1>20. \A o, is : InvoiceCauses(o, is) \subseteq {"irregular", "late"}
  BY DEF InvoiceCauses
<1>21. ASSUME NEW o \in Orders, NEW n \in InvoiceTotals, NEW c \in BOOLEAN, CreateInvoice(o, n, c) PROVE Kept
  <2> DEFINE bill == [order |-> o, total |-> n, splits |-> orders[o].splits, counted |-> c]
  <2>1. bill \in Bills
    BY <1>1, <1>21 DEF CreateInvoice, Bills, Having
  <2>2. invoices' = Append(invoices, bill) /\ Len(invoices) < MaxInvoices
    BY <1>21 DEF CreateInvoice
  <2> HIDE DEF bill
  <2>3. Billed(invoices')
    <3>1. invoices \in Seq(Bills) /\ invoices' \in Seq(Bills) /\ Len(invoices') = Len(invoices) + 1
            /\ Len(invoices) \in Nat
      BY <1>1, <2>1, <2>2 DEF Billed
    <3> QED BY <2>2, <3>1, BudgetAssumption DEF Billed
  <2>4. Having(orders')
    BY <1>5, <1>21 DEF CreateInvoice
  <2>5. Reasons(causes')
    <3>1. PICK x : causes' = causes \cup x /\ x \subseteq {"irregular", "late"}
      BY <1>20, <1>21 DEF CreateInvoice
    <3> QED BY <1>7, <3>1
  <2>9. Live(approval', orders')
    <3>1. \A p \in Orders : orders[p].state # "none" => orders'[p].state # "none"
      BY <1>1, <1>21 DEF CreateInvoice, Having
    <3> QED BY <1>0, <1>2, <1>8, <1>21, <3>1 DEF CreateInvoice
  <2> QED BY <1>1, <1>2, <1>3, <1>21, <2>3, <2>4, <2>5, <2>9 DEF CreateInvoice
<1>22. ASSUME NEW i \in DOMAIN invoices, Rematch(i) PROVE Kept
  <2>1. invoices' = [invoices EXCEPT ![i].counted = ~ @]
    BY <1>22 DEF Rematch
  <2>2. Billed(invoices')
    <3>1. invoices \in Seq(Bills) /\ Len(invoices) =< MaxInvoices
      BY <1>1 DEF Billed
    <3>2. invoices[i] \in Bills
      BY <3>1
    <3>3. [invoices[i] EXCEPT !.counted = ~ @] \in Bills
      BY <3>2 DEF Bills
    <3>4. invoices' = [invoices EXCEPT ![i] = [invoices[i] EXCEPT !.counted = ~ @]]
      BY <2>1
    <3>5. invoices' \in Seq(Bills) /\ Len(invoices') = Len(invoices)
      BY <3>1, <3>3, <3>4
    <3> QED BY <3>1, <3>5 DEF Billed
  <2>3. Reasons(causes')
    <3>1. PICK x : causes' = causes \cup x /\ x \subseteq {"irregular", "late"}
      BY <1>20, <1>22 DEF Rematch
    <3> QED BY <1>7, <3>1
  <2>9. Live(approval', orders')
    <3>1. \A p \in Orders : orders[p].state # "none" => orders'[p].state # "none"
      BY <1>1, <1>22 DEF Rematch, Having
    <3> QED BY <1>0, <1>2, <1>8, <1>22, <3>1 DEF Rematch
  <2> QED BY <1>1, <1>2, <1>3, <1>22, <2>2, <2>3, <2>9 DEF Rematch
<1>23. ASSUME UNCHANGED budgetVars PROVE Kept
  BY <1>0, <1>1, <1>23 DEF budgetVars, Live
<1> QED
  BY <1>10, <1>11, <1>12, <1>13, <1>14, <1>15, <1>16, <1>17, <1>18, <1>19, <1>21, <1>22, <1>23
  DEF BudgetNext

(* What Irregular denies, in the state *)
LEMMA NotIrregular ==
  ASSUME BudgetTypes, NEW o \in Orders, NEW is \in Seq(Bills), ~ Irregular(o, is)
  PROVE  RegularFor(orders[o].splits, is, o)
<1> DEFINE mine == BilledTo(is, o)
           lists == {is[i].splits : i \in mine} \cup {orders[o].splits}
<1>1. /\ ~(TakenBy(is, mine) > LineTotal)
      /\ ~(Cardinality(lists) > 1)
      /\ \A list \in lists : \A i, j \in DOMAIN list : list[i].account = list[j].account => i = j
  BY DEF Irregular, BilledTo
<1>2. /\ IsFiniteSet(mine)
      /\ \A i \in mine : is[i].total \in Nat /\ Takes(is[i].splits, is[i].total) \in Nat
  BY BillsAreFinite, TakesIsNat DEF Bills, BilledTo
<1>3. TakenBy(is, mine) <= LineTotal
  <2> DEFINE t == [i \in DOMAIN is |-> Takes(is[i].splits, is[i].total)]
  <2>1. \A i \in mine : t[i] \in Nat
    BY <1>2 DEF BilledTo
  <2>2. SumFunctionOnSet(t, mine) \in Nat
    <3> HIDE DEF mine, t
    <3> QED BY <1>2, <2>1, SumIsNat
  <2> QED BY <1>1, <2>2, BudgetAssumption DEF TakenBy
<1>4. \A i \in mine : is[i].splits = orders[o].splits
  <2> SUFFICES ASSUME NEW i \in mine, is[i].splits # orders[o].splits PROVE FALSE
    OBVIOUS
  <2> DEFINE two == {is[i].splits, orders[o].splits}
  <2>1. IsFiniteSet(lists)
    <3>1. IsFiniteSet({is[j].splits : j \in mine})
      <4> DEFINE f == [j \in mine |-> is[j].splits]
                 T == {is[j].splits : j \in mine}
      <4>1. f \in Surjection(mine, T)
        <5>1. f \in [mine -> T] /\ \A t \in T : \E j \in mine : f[j] = t
          OBVIOUS
        <5> HIDE DEF f, T, mine
        <5> QED BY <5>1 DEF Surjection
      <4> HIDE DEF f, T, mine
      <4>2. IsFiniteSet(T)
        BY <1>2, <4>1, FS_Surjection
      <4> QED BY <4>2 DEF T
    <3>2. IsFiniteSet({orders[o].splits})
      BY FS_Singleton
    <3> QED BY <3>1, <3>2, FS_Union
  <2>2. two \in SUBSET lists
    OBVIOUS
  <2>3. Cardinality(two) = 2
    <3>1. IsFiniteSet({is[i].splits}) /\ Cardinality({is[i].splits}) = 1
      BY FS_Singleton
    <3>2. Cardinality({is[i].splits} \cup {orders[o].splits}) = 2
      <4>1. orders[o].splits \notin {is[i].splits}
        OBVIOUS
      <4>2. Cardinality({is[i].splits} \cup {orders[o].splits}) = Cardinality({is[i].splits}) + 1
        BY <3>1, <4>1, FS_AddElement, Zenon
      <4> QED BY <3>1, <4>2
    <3>3. two = {is[i].splits} \cup {orders[o].splits}
      OBVIOUS
    <3> QED BY <3>2, <3>3
  <2>4. Cardinality(two) <= Cardinality(lists) /\ Cardinality(lists) \in Nat
    BY <2>1, <2>2, FS_Subset, FS_CardinalityType
  <2> HIDE DEF two, lists
  <2> QED BY <1>1, <2>3, <2>4
<1> QED BY <1>1, <1>3, <1>4 DEF RegularFor

(* Invoices changed for one order only *)
OnlyFor(o, is, is2) ==
  \A p \in Orders \ {o} : /\ BilledTo(is2, p) = BilledTo(is, p)
                          /\ \A i \in BilledTo(is, p) : is2[i] = is[i]

LEMMA OthersKeepTheirs ==
  ASSUME NEW is \in Seq(Bills), NEW is2 \in Seq(Bills), NEW o, NEW p \in Orders \ {o},
         OnlyFor(o, is, is2)
  PROVE  /\ \A a : InvoicedIn(is2, p, a) = InvoicedIn(is, p, a)
         /\ \A splits : RegularFor(splits, is, p) => RegularFor(splits, is2, p)
<1>1. BilledTo(is2, p) = BilledTo(is, p) /\ \A i \in BilledTo(is, p) : is2[i] = is[i]
  BY DEF OnlyFor
<1>2. CountedIn(is2, p) = CountedIn(is, p) /\ CountedIn(is, p) \in SUBSET BilledTo(is, p)
  BY <1>1 DEF CountedIn, BilledTo
<1>3. ASSUME NEW a PROVE InvoicedIn(is2, p, a) = InvoicedIn(is, p, a)
  <2> DEFINE f == [i \in DOMAIN is |-> OfAccount(is[i].splits, is[i].total, a)]
             g == [i \in DOMAIN is2 |-> OfAccount(is2[i].splits, is2[i].total, a)]
  <2>1. \A i \in CountedIn(is, p) : f[i] \in Nat /\ g[i] = f[i]
    <3> TAKE i \in CountedIn(is, p)
    <3>1. i \in DOMAIN is /\ i \in DOMAIN is2 /\ is2[i] = is[i]
      BY <1>1, <1>2 DEF CountedIn
    <3>2. f[i] \in Nat
      BY <3>1, BillsAreFinite, OfAccountIsNat
    <3> QED BY <3>1, <3>2
  <2> HIDE DEF f, g
  <2>2. SumFunctionOnSet(g, CountedIn(is, p)) = SumFunctionOnSet(f, CountedIn(is, p))
    BY <2>1, BillsAreFinite, SumOfSame
  <2> QED BY <1>2, <2>2 DEF InvoicedIn, f, g
<1>4. TakenBy(is2, BilledTo(is2, p)) = TakenBy(is, BilledTo(is, p))
  <2> DEFINE f == [i \in DOMAIN is |-> Takes(is[i].splits, is[i].total)]
             g == [i \in DOMAIN is2 |-> Takes(is2[i].splits, is2[i].total)]
  <2>1. \A i \in BilledTo(is, p) : f[i] \in Nat /\ g[i] = f[i]
    <3> TAKE i \in BilledTo(is, p)
    <3>1. i \in DOMAIN is /\ i \in DOMAIN is2 /\ is2[i] = is[i]
      BY <1>1 DEF BilledTo
    <3>2. f[i] \in Nat
      BY <3>1, BillsAreFinite, TakesIsNat DEF Bills
    <3> QED BY <3>1, <3>2
  <2>2. IsFiniteSet(BilledTo(is, p))
    BY BillsAreFinite
  <2> HIDE DEF f, g
  <2>3. SumFunctionOnSet(g, BilledTo(is, p)) = SumFunctionOnSet(f, BilledTo(is, p))
    BY <2>1, <2>2, SumOfSame
  <2> QED BY <1>1, <2>3 DEF TakenBy, f, g
<1> QED BY <1>1, <1>3, <1>4 DEF RegularFor

LEMMA InvoicedForOne ==
  ASSUME BudgetTypes, BudgetTypes'
  PROVE  /\ \A o \in Orders, n \in InvoiceTotals, c \in BOOLEAN :
              CreateInvoice(o, n, c) =>
                 /\ OnlyFor(o, invoices, invoices')
                 /\ \A i \in DOMAIN invoices' :
                      \/ i \in DOMAIN invoices /\ invoices'[i] = invoices[i]
                      \/ invoices'[i].order = o /\ invoices'[i].splits = orders[o].splits
         /\ \A i \in DOMAIN invoices :
              Rematch(i) =>
                 /\ OnlyFor(invoices[i].order, invoices, invoices')
                 /\ DOMAIN invoices' = DOMAIN invoices
                 /\ \A j \in DOMAIN invoices : /\ invoices'[j].order = invoices[j].order
                                               /\ invoices'[j].splits = invoices[j].splits
<1>1. invoices \in Seq(Bills)
  BY DEF BudgetTypes
<1>2. ASSUME NEW o \in Orders, NEW n \in InvoiceTotals, NEW c \in BOOLEAN, CreateInvoice(o, n, c)
      PROVE  /\ OnlyFor(o, invoices, invoices')
             /\ \A i \in DOMAIN invoices' :
                  \/ i \in DOMAIN invoices /\ invoices'[i] = invoices[i]
                  \/ invoices'[i].order = o /\ invoices'[i].splits = orders[o].splits
  <2> DEFINE bill == [order |-> o, total |-> n, splits |-> orders[o].splits, counted |-> c]
  <2>1. invoices' = Append(invoices, bill) /\ bill.order = o /\ bill.splits = orders[o].splits
    BY <1>2 DEF CreateInvoice
  <2> HIDE DEF bill
  <2>2. /\ DOMAIN invoices' = DOMAIN invoices \cup {Len(invoices) + 1}
        /\ Len(invoices) + 1 \notin DOMAIN invoices
        /\ invoices'[Len(invoices) + 1] = bill
        /\ \A i \in DOMAIN invoices : invoices'[i] = invoices[i]
    BY <1>1, <2>1
  <2> QED BY <2>1, <2>2 DEF OnlyFor, BilledTo
<1>3. ASSUME NEW i \in DOMAIN invoices, Rematch(i)
      PROVE  /\ OnlyFor(invoices[i].order, invoices, invoices')
             /\ DOMAIN invoices' = DOMAIN invoices
             /\ \A j \in DOMAIN invoices : /\ invoices'[j].order = invoices[j].order
                                           /\ invoices'[j].splits = invoices[j].splits
  <2>1. invoices' = [invoices EXCEPT ![i].counted = ~ @]
    BY <1>3 DEF Rematch
  <2>2. invoices[i] \in Bills /\ DOMAIN invoices' = DOMAIN invoices
    BY <1>1, <2>1
  <2>3. /\ invoices'[i].order = invoices[i].order /\ invoices'[i].splits = invoices[i].splits
        /\ \A j \in DOMAIN invoices \ {i} : invoices'[j] = invoices[j]
    BY <2>1, <2>2 DEF Bills
  <2> QED BY <2>2, <2>3 DEF OnlyFor, BilledTo
<1> QED BY <1>2, <1>3

(* Uses that fall make the sum of them fall *)
LEMMA UsedFalls ==
  ASSUME NEW os \in [Orders -> OrderRows], NEW os2 \in [Orders -> OrderRows],
         NEW is \in Seq(Bills), NEW is2 \in Seq(Bills), NEW a,
         \A o \in Orders : UsedBy(os2[o], is2, o, a) <= UsedBy(os[o], is, o, a)
  PROVE  UsedIn(os2, is2, a) <= UsedIn(os, is, a)
<1> DEFINE f == [o \in Orders |-> UsedBy(os2[o], is2, o, a)]
           g == [o \in Orders |-> UsedBy(os[o], is, o, a)]
<1>1. \A o \in Orders : f[o] \in Nat /\ g[o] \in Nat /\ f[o] <= g[o]
  BY UsedIsNat
<1> HIDE DEF f, g
<1>2. SumFunctionOnSet(f, Orders) <= SumFunctionOnSet(g, Orders)
  BY <1>1, SumGrows, BudgetAssumption
<1> QED BY <1>2 DEF UsedIn, f, g

LEMMA EndedUsesLess ==
  ASSUME NEW ord \in OrderRows, NEW ord2, NEW is \in Seq(Bills), NEW o, NEW a,
         ord2.state \notin CommittedStates \/ ord2 = ord
  PROVE  UsedBy(ord2, is, o, a) <= UsedBy(ord, is, o, a)
<1>1. UsedBy(ord, is, o, a) \in Nat
  BY UsedIsNat
<1>2. CASE ord2 = ord
  BY <1>1, <1>2
<1>3. CASE ord2.state \notin CommittedStates
  <2>1. InvoicedIn(is, o, a) \in Nat /\ ord.splits \in SplitLists \cup {<< >>}
    BY InvoicedIsNat DEF OrderRows
  <2>2. RestOf(ord.splits, InvoicedIn(is, o, a), a) \in Nat
    BY <2>1, RestIsNat
  <2> QED BY <1>3, <2>1, <2>2 DEF UsedBy
<1> QED BY <1>2, <1>3

(* No order is invoiced before it left "pending" *)
NotYetBilled ==
  \A o \in Orders : orders[o].state \in {"none", "pending"} => BilledTo(invoices, o) = {}

(* Without a cause every order was invoiced regularly *)
StillRegular == causes = {} => \A o \in Orders : RegularFor(orders[o].splits, invoices, o)

(* Who checks a budget that nobody touched holds its sums, and then its verdict *)
ChecksHold ==
  \A u \in Approvers :
    approval[u] # NoApproval /\ approval[u].fresh =>
      /\ orders[approval[u].order].state = "pending"
      /\ \A a \in Accounts : approval[u].committed[a] = CommittedIn(orders, invoices, a)
      /\ approval[u].step = "checked" => Blocked(approval[u].order, approval[u].committed) = {}

(* An invoice has the splits of its order, unless these were set again *)
SplitsCopied ==
  "splits" \notin causes =>
    \A i \in DOMAIN invoices : invoices[i].splits = orders[invoices[i].order].splits

(* A hard budget holds, as a bound on what is used *)
WithinBudget ==
  causes = {} => \A a \in Accounts : budget[a].hard => UsedIn(orders, invoices, a) <= budget[a].amount

BudgetInv ==
  BudgetTypes /\ NotYetBilled /\ StillRegular /\ ChecksHold /\ SplitsCopied /\ WithinBudget

LEMMA BudgetInvInit == BudgetInit => BudgetInv
<1> SUFFICES ASSUME BudgetInit PROVE BudgetInv
  OBVIOUS
<1>1. BudgetTypes
  BY BudgetTypesInit
<1>2. DOMAIN invoices = {} /\ \A o : BilledTo(invoices, o) = {} /\ CountedIn(invoices, o) = {}
  BY DEF BudgetInit, BilledTo, CountedIn
<1>3. \A a : UsedIn(orders, invoices, a) = 0
  <2> TAKE a
  <2> DEFINE used == [o \in Orders |-> UsedBy(orders[o], invoices, o, a)]
  <2>1. \A o \in Orders : InvoicedIn(invoices, o, a) = 0 /\ orders[o].state \notin CommittedStates
    BY <1>2, SumOfNone DEF InvoicedIn, BudgetInit, CommittedStates
  <2>2. \A o \in Orders : used[o] = 0
    BY <2>1 DEF UsedBy
  <2> HIDE DEF used
  <2>3. SumFunctionOnSet(used, Orders) = 0
    BY <2>2, SumOfZeros, BudgetAssumption
  <2> QED BY <2>3 DEF used, UsedIn
<1>4. \A a \in Accounts : budget[a].amount \in Nat
  BY <1>1, BudgetAssumption DEF BudgetTypes, BudgetTypeOK
<1>5. NotYetBilled /\ StillRegular /\ SplitsCopied
  BY <1>2 DEF NotYetBilled, StillRegular, RegularFor, SplitsCopied
<1>6. ChecksHold
  BY DEF BudgetInit, ChecksHold
<1>7. WithinBudget
  BY <1>3, <1>4 DEF WithinBudget
<1> QED BY <1>1, <1>5, <1>6, <1>7 DEF BudgetInv

LEMMA NotYetBilledStep ==
  ASSUME BudgetTypes, BudgetTypes', NotYetBilled, BudgetNext
  PROVE  NotYetBilled'
<1> USE DEF NotYetBilled
<1>0. /\ orders \in [Orders -> OrderRows] /\ invoices \in Seq(Bills)
      /\ orders' \in [Orders -> OrderRows]
  BY DEF BudgetTypes, BudgetTypeOK, OrderRows
<1>1. ASSUME invoices' = invoices,
             \A p \in Orders : orders'[p].state \in {"none", "pending"} => orders[p].state \in {"none", "pending"}
      PROVE  NotYetBilled'
  BY <1>1
<1>2. ASSUME NEW o \in Orders, NEW splits \in SplitLists,
             CreateOrder(o, splits) \/ AutoCreateOrder(o, splits) \/ SetSplits(o, splits)
      PROVE  NotYetBilled'
  BY <1>0, <1>1, <1>2 DEF CreateOrder, AutoCreateOrder, SetSplits, OrderRows
<1>3. ASSUME NEW a \in Accounts, NEW n \in BudgetAmounts, NEW h \in BOOLEAN, SetBudget(a, n, h)
      PROVE  NotYetBilled'
  BY <1>1, <1>3 DEF SetBudget
<1>4. ASSUME NEW u \in Approvers,
             (\E o \in Orders : BeginApprove(u, o)) \/ CheckBudget(u)
      PROVE  NotYetBilled'
  BY <1>1, <1>4 DEF BeginApprove, CheckBudget
<1>5. ASSUME NEW u \in Approvers, CommitApproval(u)
      PROVE  NotYetBilled'
  <2>1. PICK o : orders' = [orders EXCEPT ![o].state = "open"] /\ invoices' = invoices
    BY <1>5 DEF CommitApproval
  <2> QED BY <1>0, <1>1, <2>1 DEF OrderRows
<1>6. ASSUME NEW o \in Orders, EndOrder(o) \/ ReopenOrder(o) \/ ResumeOrder(o)
      PROVE  NotYetBilled'
  BY <1>0, <1>1, <1>6 DEF EndOrder, ReopenOrder, ResumeOrder, OrderRows
<1>7. ASSUME NEW o \in Orders, NEW n \in InvoiceTotals, NEW c \in BOOLEAN, CreateInvoice(o, n, c)
      PROVE  NotYetBilled'
  <2>1. orders' = [orders EXCEPT ![o].state = "invoiced"] /\ OnlyFor(o, invoices, invoices')
    BY <1>7, InvoicedForOne DEF CreateInvoice
  <2>2. orders'[o].state = "invoiced" /\ \A p \in Orders \ {o} : orders'[p] = orders[p]
    BY <1>0, <2>1 DEF OrderRows
  <2> QED BY <2>1, <2>2 DEF OnlyFor
<1>8. ASSUME NEW i \in DOMAIN invoices, Rematch(i)
      PROVE  NotYetBilled'
  <2>1. orders' = orders /\ OnlyFor(invoices[i].order, invoices, invoices') /\ invoices[i].order \in Orders
    <3>1. invoices[i] \in Bills
      BY <1>0
    <3>2. OnlyFor(invoices[i].order, invoices, invoices')
      BY <1>8, InvoicedForOne
    <3> QED BY <1>8, <3>1, <3>2 DEF Rematch, Bills
  <2>2. i \in BilledTo(invoices, invoices[i].order)
    BY DEF BilledTo
  <2> QED BY <2>1, <2>2 DEF OnlyFor
<1> QED BY <1>2, <1>3, <1>4, <1>5, <1>6, <1>7, <1>8 DEF BudgetNext

LEMMA SplitsCopiedStep ==
  ASSUME BudgetTypes, BudgetTypes', NotYetBilled, SplitsCopied, BudgetNext
  PROVE  SplitsCopied'
<1> USE DEF SplitsCopied
<1>0. /\ orders \in [Orders -> OrderRows] /\ invoices \in Seq(Bills)
      /\ \A i \in DOMAIN invoices : invoices[i].order \in Orders
                                      /\ i \in BilledTo(invoices, invoices[i].order)
      /\ causes \subseteq causes'
  <2>1. orders \in [Orders -> OrderRows] /\ invoices \in Seq(Bills)
    BY DEF BudgetTypes, BudgetTypeOK, OrderRows
  <2>2. \A i \in DOMAIN invoices : invoices[i] \in Bills
    BY <2>1
  <2>3. causes \subseteq causes'
    BY DEF BudgetNext, CreateOrder, AutoCreateOrder, SetSplits, SetBudget, BeginApprove, CheckBudget,
           CommitApproval, EndOrder, ReopenOrder, ResumeOrder, CreateInvoice, Rematch
  <2> QED BY <2>1, <2>2, <2>3 DEF Bills, BilledTo
<1>1. ASSUME invoices' = invoices,
             \A p \in Orders : BilledTo(invoices, p) # {} => orders'[p].splits = orders[p].splits
      PROVE  SplitsCopied'
  BY <1>0, <1>1
<1>2. ASSUME NEW o \in Orders, NEW splits \in SplitLists,
             CreateOrder(o, splits) \/ AutoCreateOrder(o, splits)
      PROVE  SplitsCopied'
  <2>1. BilledTo(invoices, o) = {}
    BY <1>2 DEF CreateOrder, AutoCreateOrder, NotYetBilled
  <2> QED BY <1>0, <1>1, <1>2, <2>1 DEF CreateOrder, AutoCreateOrder
<1>9. ASSUME NEW o \in Orders, NEW splits \in SplitLists, SetSplits(o, splits)
      PROVE  SplitsCopied'
  <2>1. CASE orders[o].state = "pending"
    <3>1. BilledTo(invoices, o) = {}
      BY <2>1 DEF NotYetBilled
    <3> QED BY <1>0, <1>1, <1>9, <3>1 DEF SetSplits
  <2>2. CASE orders[o].state # "pending"
    BY <1>9, <2>2 DEF SetSplits
  <2> QED BY <2>1, <2>2
<1>3. ASSUME NEW a \in Accounts, NEW n \in BudgetAmounts, NEW h \in BOOLEAN, SetBudget(a, n, h)
      PROVE  SplitsCopied'
  BY <1>1, <1>3 DEF SetBudget
<1>4. ASSUME NEW u \in Approvers,
             (\E o \in Orders : BeginApprove(u, o)) \/ CheckBudget(u)
      PROVE  SplitsCopied'
  BY <1>1, <1>4 DEF BeginApprove, CheckBudget
<1>5. ASSUME NEW u \in Approvers, CommitApproval(u)
      PROVE  SplitsCopied'
  <2>1. PICK o : orders' = [orders EXCEPT ![o].state = "open"] /\ invoices' = invoices
    BY <1>5 DEF CommitApproval
  <2>2. \A p \in Orders : orders'[p].splits = orders[p].splits
    BY <1>0, <2>1 DEF OrderRows
  <2> QED BY <1>1, <2>1, <2>2
<1>6. ASSUME NEW o \in Orders, EndOrder(o) \/ ReopenOrder(o) \/ ResumeOrder(o)
      PROVE  SplitsCopied'
  <2>1. \A p \in Orders : orders'[p].splits = orders[p].splits
    BY <1>0, <1>6 DEF EndOrder, ReopenOrder, ResumeOrder, OrderRows
  <2> QED BY <1>1, <1>6, <2>1 DEF EndOrder, ReopenOrder, ResumeOrder
<1>7. ASSUME NEW o \in Orders, NEW n \in InvoiceTotals, NEW c \in BOOLEAN, CreateInvoice(o, n, c)
      PROVE  SplitsCopied'
  <2>1. \A p \in Orders : orders'[p].splits = orders[p].splits
    BY <1>0, <1>7 DEF CreateInvoice, OrderRows
  <2>2. \A i \in DOMAIN invoices' :
          \/ i \in DOMAIN invoices /\ invoices'[i] = invoices[i]
          \/ invoices'[i].order = o /\ invoices'[i].splits = orders[o].splits
    BY <1>7, InvoicedForOne
  <2> QED BY <1>0, <2>1, <2>2
<1>8. ASSUME NEW i \in DOMAIN invoices, Rematch(i)
      PROVE  SplitsCopied'
  <2>1. /\ orders' = orders /\ DOMAIN invoices' = DOMAIN invoices
        /\ \A j \in DOMAIN invoices : /\ invoices'[j].order = invoices[j].order
                                      /\ invoices'[j].splits = invoices[j].splits
    BY <1>8, InvoicedForOne DEF Rematch
  <2> QED BY <1>0, <2>1
<1> QED BY <1>2, <1>3, <1>4, <1>5, <1>6, <1>7, <1>8, <1>9 DEF BudgetNext

LEMMA NoInvoiceCause ==
  ASSUME NEW o, NEW is, InvoiceCauses(o, is) = {}
  PROVE  ~ Irregular(o, is) /\ orders[o].state \in CommittedStates
BY DEF InvoiceCauses

LEMMA StillRegularStep ==
  ASSUME BudgetTypes, BudgetTypes', NotYetBilled, StillRegular, BudgetNext
  PROVE  StillRegular'
<1> USE DEF StillRegular
<1>0. /\ orders \in [Orders -> OrderRows] /\ invoices \in Seq(Bills) /\ invoices' \in Seq(Bills)
      /\ causes \subseteq causes'
  <2>1. orders \in [Orders -> OrderRows] /\ invoices \in Seq(Bills) /\ invoices' \in Seq(Bills)
    BY DEF BudgetTypes, BudgetTypeOK, OrderRows
  <2>2. causes \subseteq causes'
    BY DEF BudgetNext, CreateOrder, AutoCreateOrder, SetSplits, SetBudget, BeginApprove, CheckBudget,
           CommitApproval, EndOrder, ReopenOrder, ResumeOrder, CreateInvoice, Rematch
  <2> QED BY <2>1, <2>2
<1>1. ASSUME invoices' = invoices,
             \A p \in Orders : BilledTo(invoices, p) # {} => orders'[p].splits = orders[p].splits
      PROVE  StillRegular'
  <2> SUFFICES ASSUME causes' = {}, NEW p \in Orders
               PROVE  RegularFor(orders'[p].splits, invoices, p)
    BY <1>1
  <2>1. RegularFor(orders[p].splits, invoices, p)
    BY <1>0
  <2> QED BY <1>1, <2>1 DEF RegularFor
<1>2. ASSUME NEW o \in Orders, NEW splits \in SplitLists,
             CreateOrder(o, splits) \/ AutoCreateOrder(o, splits)
      PROVE  StillRegular'
  <2>1. BilledTo(invoices, o) = {}
    BY <1>2 DEF CreateOrder, AutoCreateOrder, NotYetBilled
  <2> QED BY <1>0, <1>1, <1>2, <2>1 DEF CreateOrder, AutoCreateOrder
<1>9. ASSUME NEW o \in Orders, NEW splits \in SplitLists, SetSplits(o, splits)
      PROVE  StillRegular'
  <2>1. CASE orders[o].state = "pending"
    <3>1. BilledTo(invoices, o) = {}
      BY <2>1 DEF NotYetBilled
    <3> QED BY <1>0, <1>1, <1>9, <3>1 DEF SetSplits
  <2>2. CASE orders[o].state # "pending"
    BY <1>9, <2>2 DEF SetSplits
  <2> QED BY <2>1, <2>2
<1>3. ASSUME NEW a \in Accounts, NEW n \in BudgetAmounts, NEW h \in BOOLEAN, SetBudget(a, n, h)
      PROVE  StillRegular'
  BY <1>1, <1>3 DEF SetBudget
<1>4. ASSUME NEW u \in Approvers,
             (\E o \in Orders : BeginApprove(u, o)) \/ CheckBudget(u)
      PROVE  StillRegular'
  BY <1>1, <1>4 DEF BeginApprove, CheckBudget
<1>5. ASSUME NEW u \in Approvers, CommitApproval(u)
      PROVE  StillRegular'
  <2>1. PICK o : orders' = [orders EXCEPT ![o].state = "open"] /\ invoices' = invoices
    BY <1>5 DEF CommitApproval
  <2>2. \A p \in Orders : orders'[p].splits = orders[p].splits
    BY <1>0, <2>1 DEF OrderRows
  <2> QED BY <1>1, <2>1, <2>2
<1>6. ASSUME NEW o \in Orders, EndOrder(o) \/ ReopenOrder(o) \/ ResumeOrder(o)
      PROVE  StillRegular'
  <2>1. \A p \in Orders : orders'[p].splits = orders[p].splits
    BY <1>0, <1>6 DEF EndOrder, ReopenOrder, ResumeOrder, OrderRows
  <2> QED BY <1>1, <1>6, <2>1 DEF EndOrder, ReopenOrder, ResumeOrder
<1>7. ASSUME NEW o \in Orders, OnlyFor(o, invoices, invoices'),
             \A p \in Orders : orders'[p].splits = orders[p].splits,
             causes' = causes \cup InvoiceCauses(o, invoices')
      PROVE  StillRegular'
  <2> SUFFICES ASSUME causes' = {}, NEW p \in Orders
               PROVE  RegularFor(orders'[p].splits, invoices', p)
    OBVIOUS
  <2>1. CASE p = o
    <3>1. ~ Irregular(o, invoices')
      BY <1>7, NoInvoiceCause
    <3>2. RegularFor(orders[o].splits, invoices', o)
      BY <1>0, <3>1, NotIrregular
    <3> QED BY <1>7, <2>1, <3>2
  <2>2. CASE p # o
    <3>1. RegularFor(orders[p].splits, invoices, p)
      BY <1>0
    <3>2. RegularFor(orders[p].splits, invoices', p)
      BY <1>0, <1>7, <2>2, <3>1, OthersKeepTheirs
    <3> QED BY <1>7, <3>2
  <2> QED BY <2>1, <2>2
<1>8. ASSUME NEW o \in Orders, NEW n \in InvoiceTotals, NEW c \in BOOLEAN, CreateInvoice(o, n, c)
      PROVE  StillRegular'
  <2>1. \A p \in Orders : orders'[p].splits = orders[p].splits
    BY <1>0, <1>8 DEF CreateInvoice, OrderRows
  <2>2. causes' = causes \cup InvoiceCauses(o, invoices')
    BY <1>8 DEF CreateInvoice
  <2>3. OnlyFor(o, invoices, invoices')
    BY <1>8, InvoicedForOne
  <2> QED BY <1>7, <2>1, <2>2, <2>3
<1>10. ASSUME NEW i \in DOMAIN invoices, Rematch(i)
      PROVE  StillRegular'
  <2>1. orders' = orders /\ causes' = causes \cup InvoiceCauses(invoices[i].order, invoices')
    BY <1>10 DEF Rematch
  <2>2. invoices[i].order \in Orders
    <3>1. invoices[i] \in Bills
      BY <1>0
    <3> QED BY <3>1 DEF Bills
  <2>3. OnlyFor(invoices[i].order, invoices, invoices')
    BY <1>10, InvoicedForOne
  <2> QED BY <1>7, <2>1, <2>2, <2>3
<1> QED BY <1>2, <1>3, <1>4, <1>5, <1>6, <1>8, <1>9, <1>10 DEF BudgetNext

(* Only committed orders count as committed *)
LEMMA SameCommitted ==
  ASSUME NEW os \in [Orders -> OrderRows], NEW os2 \in [Orders -> OrderRows], NEW is \in Seq(Bills),
         \A o \in Orders : \/ os2[o] = os[o]
                           \/ os[o].state \notin CommittedStates /\ os2[o].state \notin CommittedStates
  PROVE  \A a : CommittedIn(os2, is, a) = CommittedIn(os, is, a)
<1> TAKE a
<1> DEFINE T == {o \in Orders : os[o].state \in CommittedStates}
           f == [o \in Orders |-> RestOf(os[o].splits, InvoicedIn(is, o, a), a)]
           g == [o \in Orders |-> RestOf(os2[o].splits, InvoicedIn(is, o, a), a)]
<1>1. {o \in Orders : os2[o].state \in CommittedStates} = T
  OBVIOUS
<1>2. \A o \in T : f[o] \in Nat /\ g[o] = f[o]
  <2> TAKE o \in T
  <2>1. os2[o] = os[o] /\ o \in Orders
    OBVIOUS
  <2>2. os[o].splits \in SplitLists \cup {<< >>} /\ InvoicedIn(is, o, a) \in Nat
    BY <2>1, InvoicedIsNat DEF OrderRows
  <2> QED BY <2>1, <2>2, RestIsNat
<1>3. IsFiniteSet(T)
  BY BudgetAssumption, FS_Subset
<1> HIDE DEF T, f, g
<1>4. SumFunctionOnSet(g, T) = SumFunctionOnSet(f, T)
  BY <1>2, <1>3, SumOfSame
<1> QED BY <1>1, <1>4 DEF CommittedIn, T, f, g

LEMMA ChecksHoldStep ==
  ASSUME BudgetTypes, BudgetTypes', ChecksHold, BudgetNext
  PROVE  ChecksHold'
<1> USE DEF ChecksHold
<1>0. /\ orders \in [Orders -> OrderRows] /\ orders' \in [Orders -> OrderRows] /\ invoices \in Seq(Bills)
      /\ \A u \in Approvers : approval[u] = NoApproval \/ approval[u] \in Checks
      /\ DOMAIN approval = Approvers
  BY DEF BudgetTypes, BudgetTypeOK, OrderRows, Checks
<1>1. ASSUME NEW v, approval' = Outdated \/ approval' = [Outdated EXCEPT ![v] = NoApproval]
      PROVE  ChecksHold'
  <2>1. \A u \in Approvers : approval'[u] = NoApproval \/ ~ approval'[u].fresh
    BY <1>1, OutdatedTypes
  <2> QED BY <2>1
<1>2. ASSUME NEW o \in Orders, invoices' = invoices, budget' = budget, approval' = approval,
             orders[o].state # "pending", orders'[o].state \notin CommittedStates,
             orders[o].state \notin CommittedStates,
             \A p \in Orders \ {o} : orders'[p] = orders[p]
      PROVE  ChecksHold'
  <2> SUFFICES ASSUME NEW u \in Approvers, approval[u] # NoApproval, approval[u].fresh
               PROVE  /\ orders'[approval[u].order].state = "pending"
                      /\ \A a \in Accounts : approval[u].committed[a] = CommittedIn(orders', invoices, a)
                      /\ approval[u].step = "checked" =>
                           Blocked(approval[u].order, approval[u].committed)' = {}
    BY <1>2
  <2> DEFINE w == approval[u]
  <2>1. w \in Checks /\ w.order \in Orders /\ orders[w.order].state = "pending"
    BY <1>0 DEF Checks
  <2>2. orders'[w.order] = orders[w.order]
    BY <1>2, <2>1
  <2>3. \A a : CommittedIn(orders', invoices, a) = CommittedIn(orders, invoices, a)
    <3>1. \A p \in Orders : \/ orders'[p] = orders[p]
                            \/ orders[p].state \notin CommittedStates /\ orders'[p].state \notin CommittedStates
      BY <1>2
    <3> QED BY <1>0, <3>1, SameCommitted
  <2>4. Blocked(w.order, w.committed)' = Blocked(w.order, w.committed)
    <3>1. \A a : Actual(a)' = Actual(a)
      BY <1>2 DEF Actual, InvoicedFor, Counted
    <3> HIDE DEF w
    <3>2. (w.order)' = w.order /\ (w.committed)' = w.committed
      BY <1>2 DEF w
    <3> QED BY <1>2, <2>2, <3>1, <3>2 DEF Blocked
  <2> QED BY <1>2, <2>1, <2>2, <2>3, <2>4
<1>3. ASSUME NEW o \in Orders, NEW splits \in SplitLists, CreateOrder(o, splits)
      PROVE  ChecksHold'
  <2>1. /\ orders[o].state = "none" /\ orders'[o].state = "pending"
        /\ \A p \in Orders \ {o} : orders'[p] = orders[p]
    BY <1>0, <1>3 DEF CreateOrder
  <2> QED BY <1>2, <1>3, <2>1 DEF CreateOrder, CommittedStates
<1>4. ASSUME NEW o \in Orders, ReopenOrder(o)
      PROVE  ChecksHold'
  <2>1. /\ orders[o].state = "done" /\ orders'[o].state = "reopened"
        /\ \A p \in Orders \ {o} : orders'[p] = orders[p]
    BY <1>0, <1>4 DEF ReopenOrder, OrderRows
  <2> QED BY <1>2, <1>4, <2>1 DEF ReopenOrder, CommittedStates
<1>5. ASSUME NEW v \in Approvers, NEW o \in Orders, BeginApprove(v, o)
      PROVE  ChecksHold'
  <2>1. /\ orders' = orders /\ invoices' = invoices /\ budget' = budget /\ orders[o].state = "pending"
        /\ approval' = [approval EXCEPT ![v] = [step |-> "read", order |-> o, fresh |-> TRUE,
                                               committed |-> [a \in Accounts |-> Committed(a)]]]
    BY <1>5 DEF BeginApprove
  <2>2. \A a \in Accounts : Committed(a) = CommittedIn(orders, invoices, a)
    BY SumsOfTheState
  <2> DEFINE w == approval'[v]
  <2>3. /\ w.step = "read" /\ w.order = o
        /\ \A a \in Accounts : w.committed[a] = CommittedIn(orders, invoices, a)
    BY <1>0, <2>1, <2>2
  <2>4. \A u \in Approvers \ {v} : approval'[u] = approval[u]
    BY <1>0, <2>1
  <2>5. \A x, y : Blocked(x, y)' = Blocked(x, y)
    BY <2>1 DEF Blocked, Actual, InvoicedFor, Counted
  <2> SUFFICES ASSUME NEW u \in Approvers, approval'[u] # NoApproval, approval'[u].fresh
               PROVE  /\ orders[approval'[u].order].state = "pending"
                      /\ \A a \in Accounts : approval'[u].committed[a] = CommittedIn(orders, invoices, a)
                      /\ approval'[u].step = "checked" =>
                           Blocked(approval[u].order, approval[u].committed)' = {}
    BY <2>1
  <2>6. CASE u = v
    BY <2>1, <2>3, <2>6
  <2>7. CASE u # v
    <3>1. approval'[u] = approval[u]
      BY <2>4, <2>7
    <3> QED BY <2>1, <2>5, <3>1
  <2> QED BY <2>6, <2>7
<1>6. ASSUME NEW v \in Approvers, CheckBudget(v)
      PROVE  ChecksHold'
  <2> DEFINE w == approval[v]
  <2>1. /\ orders' = orders /\ invoices' = invoices /\ budget' = budget /\ w.step = "read"
        /\ approval' = [approval EXCEPT ![v] = IF Blocked(w.order, w.committed) # {} THEN NoApproval
                                               ELSE [w EXCEPT !.step = "checked"]]
    BY <1>6 DEF CheckBudget
  <2>2. w \in Checks
    BY <1>0, <2>1 DEF NoApproval
  <2>3. \/ approval'[v] = NoApproval
        \/ /\ Blocked(w.order, w.committed) = {}
           /\ approval'[v] = [w EXCEPT !.step = "checked"]
    BY <1>0, <2>1
  <2>4. \A u \in Approvers \ {v} : approval'[u] = approval[u]
    BY <1>0, <2>1
  <2>5. \A x, y : Blocked(x, y)' = Blocked(x, y)
    BY <2>1 DEF Blocked, Actual, InvoicedFor, Counted
  <2> SUFFICES ASSUME NEW u \in Approvers, approval'[u] # NoApproval, approval'[u].fresh
               PROVE  /\ orders[approval'[u].order].state = "pending"
                      /\ \A a \in Accounts : approval'[u].committed[a] = CommittedIn(orders, invoices, a)
                      /\ approval'[u].step = "checked" =>
                           Blocked(approval[u].order, approval[u].committed)' = {}
    BY <2>1
  <2>6. CASE u = v
    <3>1. /\ approval'[v].order = w.order /\ approval'[v].committed = w.committed
          /\ approval'[v].fresh = w.fresh /\ Blocked(w.order, w.committed) = {} /\ w # NoApproval
      BY <2>1, <2>2, <2>3, <2>6 DEF Checks, NoApproval
    <3> QED BY <2>1, <2>5, <2>6, <3>1
  <2>7. CASE u # v
    <3>1. approval'[u] = approval[u]
      BY <2>4, <2>7
    <3> QED BY <2>1, <2>5, <3>1
  <2> QED BY <2>6, <2>7
<1>7. ASSUME NEW o \in Orders, NEW splits \in SplitLists, AutoCreateOrder(o, splits) \/ SetSplits(o, splits)
      PROVE  ChecksHold'
  BY <1>1, <1>7 DEF AutoCreateOrder, SetSplits
<1>8. ASSUME NEW a \in Accounts, NEW n \in BudgetAmounts, NEW h \in BOOLEAN, SetBudget(a, n, h)
      PROVE  ChecksHold'
  BY <1>1, <1>8 DEF SetBudget
<1>9. ASSUME NEW v \in Approvers, CommitApproval(v)
      PROVE  ChecksHold'
  BY <1>1, <1>9 DEF CommitApproval
<1>10. ASSUME NEW o \in Orders, EndOrder(o) \/ ResumeOrder(o)
      PROVE  ChecksHold'
  BY <1>1, <1>10 DEF EndOrder, ResumeOrder
<1>11. ASSUME NEW o \in Orders, NEW n \in InvoiceTotals, NEW c \in BOOLEAN, CreateInvoice(o, n, c)
      PROVE  ChecksHold'
  BY <1>1, <1>11 DEF CreateInvoice
<1>12. ASSUME NEW i \in DOMAIN invoices, Rematch(i)
      PROVE  ChecksHold'
  BY <1>1, <1>12 DEF Rematch
<1> QED BY <1>3, <1>4, <1>5, <1>6, <1>7, <1>8, <1>9, <1>10, <1>11, <1>12 DEF BudgetNext

LEMMA WithinBudgetStep ==
  ASSUME BudgetTypes, BudgetTypes', NotYetBilled, StillRegular, StillRegular', ChecksHold,
         WithinBudget, BudgetNext
  PROVE  WithinBudget'
<1>0. /\ orders \in [Orders -> OrderRows] /\ orders' \in [Orders -> OrderRows]
      /\ invoices \in Seq(Bills) /\ invoices' \in Seq(Bills)
      /\ causes \subseteq causes'
      /\ \A a \in Accounts : budget[a].amount \in Nat
  <2>1. /\ orders \in [Orders -> OrderRows] /\ orders' \in [Orders -> OrderRows]
        /\ invoices \in Seq(Bills) /\ invoices' \in Seq(Bills)
    BY DEF BudgetTypes, BudgetTypeOK, OrderRows
  <2>2. causes \subseteq causes'
    BY DEF BudgetNext, CreateOrder, AutoCreateOrder, SetSplits, SetBudget, BeginApprove, CheckBudget,
           CommitApproval, EndOrder, ReopenOrder, ResumeOrder, CreateInvoice, Rematch
  <2>3. \A a \in Accounts : budget[a].amount \in Nat
    BY BudgetAssumption DEF BudgetTypes, BudgetTypeOK
  <2> QED BY <2>1, <2>2, <2>3
<1>1. ASSUME budget' = budget,
             causes' = {} => \A a \in Accounts, p \in Orders :
                               UsedBy(orders'[p], invoices', p, a) <= UsedBy(orders[p], invoices, p, a)
      PROVE  WithinBudget'
  <2> SUFFICES ASSUME causes' = {}, NEW a \in Accounts, budget[a].hard
               PROVE  UsedIn(orders', invoices', a) <= budget[a].amount
    BY <1>1 DEF WithinBudget
  <2>1. UsedIn(orders', invoices', a) <= UsedIn(orders, invoices, a)
    BY <1>0, <1>1, UsedFalls
  <2>2. UsedIn(orders, invoices, a) <= budget[a].amount
    BY <1>0 DEF WithinBudget
  <2>3. UsedIn(orders, invoices, a) \in Int /\ UsedIn(orders', invoices', a) \in Int
    BY <1>0, UsedIsBoth
  <2> QED BY <1>0, <2>1, <2>2, <2>3
<1>2. ASSUME invoices' = invoices, budget' = budget,
             \A p \in Orders : orders'[p].state \notin CommittedStates \/ orders'[p] = orders[p]
      PROVE  WithinBudget'
  <2>1. \A a \in Accounts, p \in Orders :
          UsedBy(orders'[p], invoices', p, a) <= UsedBy(orders[p], invoices, p, a)
    <3> TAKE a \in Accounts, p \in Orders
    <3>1. orders[p] \in OrderRows
      BY <1>0
    <3> QED BY <1>0, <1>2, <3>1, EndedUsesLess
  <2> QED BY <1>1, <1>2, <2>1
<1>3. ASSUME causes' # {} PROVE WithinBudget'
  BY <1>3 DEF WithinBudget
<1>4. ASSUME NEW o \in Orders, budget' = budget, OnlyFor(o, invoices, invoices'),
             orders'[o].state \in CommittedStates, orders'[o].splits = orders[o].splits,
             \A p \in Orders \ {o} : orders'[p] = orders[p],
             causes' = causes \cup InvoiceCauses(o, invoices')
      PROVE  WithinBudget'
  <2> SUFFICES ASSUME causes' = {} PROVE WithinBudget'
    BY <1>3
  <2>1. \A a \in Accounts, p \in Orders :
          UsedBy(orders'[p], invoices', p, a) <= UsedBy(orders[p], invoices, p, a)
    <3> TAKE a \in Accounts, p \in Orders
    <3>1. UsedBy(orders[p], invoices, p, a) \in Nat
      BY <1>0, UsedIsNat
    <3>2. CASE p # o
      <4>1. orders'[p] = orders[p] /\ InvoicedIn(invoices', p, a) = InvoicedIn(invoices, p, a)
        BY <1>0, <1>4, <3>2, OthersKeepTheirs
      <4>2. UsedBy(orders'[p], invoices', p, a) = UsedBy(orders[p], invoices, p, a)
        BY <4>1 DEF UsedBy
      <4> QED BY <3>1, <4>2
    <3>3. CASE p = o
      <4> DEFINE splits == orders[o].splits
      <4>1. orders[o].state \in CommittedStates
        BY <1>4, NoInvoiceCause
      <4>2. RegularFor(splits, invoices, o) /\ RegularFor(splits, invoices', o)
        BY <1>0, <1>4 DEF StillRegular
      <4>3. splits \in SplitLists \cup {<< >>}
        BY <1>0 DEF OrderRows
      <4> HIDE DEF splits
      <4>4. /\ RestOf(splits, InvoicedIn(invoices, o, a), a) + InvoicedIn(invoices, o, a)
                 = OfAccount(splits, LineTotal, a)
            /\ RestOf(splits, InvoicedIn(invoices', o, a), a) + InvoicedIn(invoices', o, a)
                 = OfAccount(splits, LineTotal, a)
        BY <1>0, <4>2, <4>3, RegularIsItsSplits
      <4>5. UsedBy(orders'[o], invoices', o, a) = UsedBy(orders[o], invoices, o, a)
        BY <1>4, <4>1, <4>4 DEF UsedBy, splits
      <4> QED BY <3>1, <3>3, <4>5
    <3> QED BY <3>2, <3>3
  <2> QED BY <1>1, <1>4, <2>1
<1>5. ASSUME NEW o \in Orders, NEW splits \in SplitLists, CreateOrder(o, splits) PROVE WithinBudget'
  <2>1. orders'[o].state = "pending" /\ \A p \in Orders \ {o} : orders'[p] = orders[p]
    BY <1>0, <1>5 DEF CreateOrder
  <2> QED BY <1>2, <1>5, <2>1 DEF CreateOrder, CommittedStates
<1>6. ASSUME NEW o \in Orders, NEW splits \in SplitLists, AutoCreateOrder(o, splits) PROVE WithinBudget'
  BY <1>3, <1>6 DEF AutoCreateOrder
<1>7. ASSUME NEW o \in Orders, NEW splits \in SplitLists, SetSplits(o, splits) PROVE WithinBudget'
  <2>1. CASE orders[o].state = "pending"
    <3>1. orders'[o].state = "pending" /\ \A p \in Orders \ {o} : orders'[p] = orders[p]
      BY <1>0, <1>7, <2>1 DEF SetSplits, OrderRows
    <3> QED BY <1>2, <1>7, <3>1 DEF SetSplits, CommittedStates
  <2>2. CASE orders[o].state # "pending"
    BY <1>3, <1>7, <2>2 DEF SetSplits
  <2> QED BY <2>1, <2>2
<1>8. ASSUME NEW a \in Accounts, NEW n \in BudgetAmounts, NEW h \in BOOLEAN, SetBudget(a, n, h)
      PROVE  WithinBudget'
  BY <1>3, <1>8 DEF SetBudget
<1>9. ASSUME NEW u \in Approvers, (\E o \in Orders : BeginApprove(u, o)) \/ CheckBudget(u)
      PROVE  WithinBudget'
  BY <1>2, <1>9 DEF BeginApprove, CheckBudget
<1>10. ASSUME NEW u \in Approvers, CommitApproval(u) PROVE WithinBudget'
  <2> DEFINE w == approval[u]
             o == w.order
             splits == orders[o].splits
  <2>1. /\ w.step = "checked" /\ invoices' = invoices /\ budget' = budget
        /\ orders' = [orders EXCEPT ![o].state = "open"]
        /\ ~ w.fresh => causes' # {}
    BY <1>10 DEF CommitApproval
  <2>2. w \in Checks /\ o \in Orders
    <3>1. w = NoApproval \/ w \in Checks
      BY DEF BudgetTypes, BudgetTypeOK, Checks
    <3> QED BY <2>1, <3>1 DEF NoApproval, Checks
  <2> SUFFICES ASSUME w.fresh, causes' = {}, NEW a \in Accounts, budget[a].hard
               PROVE  UsedIn(orders', invoices, a) <= budget[a].amount
    <3>1. CASE w.fresh /\ causes' = {}
      BY <2>1, <3>1 DEF WithinBudget
    <3>2. CASE ~ (w.fresh /\ causes' = {})
      BY <1>3, <2>1, <3>2
    <3> QED BY <3>1, <3>2
  <2>3. /\ orders[o].state = "pending" /\ w.committed[a] = CommittedIn(orders, invoices, a)
        /\ Blocked(o, w.committed) = {}
    <3>1. w # NoApproval
      BY <2>1 DEF NoApproval
    <3> QED BY <2>1, <3>1 DEF ChecksHold
  <2>4. InvoicedIn(invoices, o, a) = 0
    <3>1. CountedIn(invoices, o) = {}
      BY <2>2, <2>3 DEF NotYetBilled, CountedIn, BilledTo
    <3> QED BY <3>1, SumOfNone DEF InvoicedIn
  <2>5. splits \in SplitLists \cup {<< >>}
    BY <1>0, <2>2 DEF OrderRows
  <2> DEFINE more == OfAccount(splits, LineTotal, a)
  <2>6. UsedBy(orders[o], invoices, o, a) = 0
    BY <2>3, <2>4 DEF UsedBy, CommittedStates
  <2>7. more \in Nat
    BY <2>5, OfAccountIsNat, BudgetAssumption
  <2>8. UsedBy(orders'[o], invoices, o, a) = more
    <3>1. orders'[o].state = "open" /\ orders'[o].splits = splits
      BY <1>0, <2>1, <2>2 DEF OrderRows
    <3>2. RestOf(splits, 0, a) = more
      BY <2>5, WithoutInvoices
    <3> HIDE DEF w, o, splits, more
    <3> QED BY <2>4, <2>7, <3>1, <3>2 DEF UsedBy, CommittedStates
  <2>9. \A p \in Orders \ {o} : orders'[p] = orders[p]
    BY <1>0, <2>1
  <2>10. UsedIn(orders', invoices, a) = UsedIn(orders, invoices, a) + more
    <3> DEFINE f == [p \in Orders |-> UsedBy(orders[p], invoices, p, a)]
               g == [p \in Orders |-> UsedBy(orders'[p], invoices, p, a)]
    <3>1. \A p \in Orders : f[p] \in Nat /\ g[p] \in Nat
      BY <1>0, UsedIsNat
    <3>2. \A p \in Orders \ {o} : g[p] = f[p]
      BY <2>9
    <3>3. f[o] = 0 /\ g[o] = more
      BY <2>2, <2>6, <2>8
    <3> HIDE DEF f, g, w, o, splits, more
    <3>4. SumFunctionOnSet(g, Orders) = SumFunctionOnSet(f, Orders) - f[o] + g[o]
      <4>1. o \in Orders /\ IsFiniteSet(Orders)
        BY <2>2, BudgetAssumption
      <4>2. ASSUME NEW x \in Orders, \A p \in Orders \ {x} : g[p] = f[p]
            PROVE  SumFunctionOnSet(g, Orders) = SumFunctionOnSet(f, Orders) - f[x] + g[x]
        BY <3>1, <4>1, <4>2, SumOfChange
      <4> QED BY <3>2, <4>1, <4>2
    <3>5. SumFunctionOnSet(f, Orders) \in Nat
      BY <3>1, SumIsNat, BudgetAssumption
    <3>6. SumFunctionOnSet(g, Orders) = SumFunctionOnSet(f, Orders) + more
      BY <2>7, <3>3, <3>4, <3>5
    <3> QED BY <3>6 DEF UsedIn, f, g
  <2>11. /\ UsedIn(orders, invoices, a) = CommittedIn(orders, invoices, a) + ActualIn(invoices, a)
         /\ CommittedIn(orders, invoices, a) \in Nat /\ ActualIn(invoices, a) \in Nat
    BY <1>0, UsedIsBoth
  <2>12. UsedIn(orders, invoices, a) <= budget[a].amount
    BY <1>0 DEF WithinBudget
  <2>13. CASE \E i \in DOMAIN splits : splits[i].account = a
    <3>1. ~(more > budget[a].amount - w.committed[a] - Actual(a))
      BY <2>3, <2>13 DEF Blocked
    <3>2. Actual(a) = ActualIn(invoices, a)
      BY SumsOfTheState
    <3> HIDE DEF w, o, splits, more
    <3> QED BY <1>0, <2>3, <2>7, <2>10, <2>11, <3>1, <3>2
  <2>14. CASE ~ \E i \in DOMAIN splits : splits[i].account = a
    <3>1. SplitsOf(splits, a) = {}
      BY <2>14 DEF SplitsOf
    <3>2. more = 0
      BY <3>1, SumOfNone DEF OfAccount
    <3> HIDE DEF w, o, splits, more
    <3> QED BY <2>10, <2>11, <2>12, <3>2
  <2> QED BY <2>13, <2>14
<1>11. ASSUME NEW o \in Orders, EndOrder(o) \/ ReopenOrder(o) PROVE WithinBudget'
  <2>1. orders'[o].state \in {"done", "reopened"} /\ \A p \in Orders \ {o} : orders'[p] = orders[p]
    BY <1>0, <1>11 DEF EndOrder, ReopenOrder, OrderRows
  <2> QED BY <1>2, <1>11, <2>1 DEF EndOrder, ReopenOrder, CommittedStates
<1>12. ASSUME NEW o \in Orders, ResumeOrder(o) PROVE WithinBudget'
  BY <1>3, <1>12 DEF ResumeOrder
<1>13. ASSUME NEW o \in Orders, NEW n \in InvoiceTotals, NEW c \in BOOLEAN, CreateInvoice(o, n, c)
       PROVE  WithinBudget'
  <2>1. /\ orders'[o].state = "invoiced" /\ orders'[o].splits = orders[o].splits
        /\ \A p \in Orders \ {o} : orders'[p] = orders[p]
    BY <1>0, <1>13 DEF CreateInvoice, OrderRows
  <2>2. causes' = causes \cup InvoiceCauses(o, invoices') /\ budget' = budget
    BY <1>13 DEF CreateInvoice
  <2>3. OnlyFor(o, invoices, invoices')
    BY <1>13, InvoicedForOne
  <2> QED BY <1>4, <2>1, <2>2, <2>3 DEF CommittedStates
<1>14. ASSUME NEW i \in DOMAIN invoices, Rematch(i) PROVE WithinBudget'
  <2> DEFINE o == invoices[i].order
  <2>1. orders' = orders /\ budget' = budget /\ causes' = causes \cup InvoiceCauses(o, invoices')
    BY <1>14 DEF Rematch
  <2>2. o \in Orders
    <3>1. invoices[i] \in Bills
      BY <1>0
    <3> QED BY <3>1 DEF Bills
  <2>3. OnlyFor(o, invoices, invoices')
    BY <1>14, InvoicedForOne
  <2>4. CASE causes' # {}
    BY <1>3, <2>4
  <2>5. CASE causes' = {}
    <3>1. orders[o].state \in CommittedStates
      BY <2>1, <2>5, NoInvoiceCause
    <3> HIDE DEF o
    <3> QED BY <1>4, <2>1, <2>2, <2>3, <3>1
  <2> QED BY <2>4, <2>5
<1> QED BY <1>5, <1>6, <1>7, <1>8, <1>9, <1>10, <1>11, <1>12, <1>13, <1>14 DEF BudgetNext

LEMMA ShareIsNat ==
  ASSUME NEW splits \in SplitLists \cup {<< >>}, NEW a
  PROVE  ShareOf(splits, a) \in Nat
<1> DEFINE f == [i \in DOMAIN splits |-> splits[i].share]
<1>1. \A i \in SplitsOf(splits, a) : f[i] \in Nat
  BY ListsAreFinite DEF Splits
<1>2. IsFiniteSet(SplitsOf(splits, a))
  BY ListsAreFinite
<1> HIDE DEF f
<1>3. SumFunctionOnSet(f, SplitsOf(splits, a)) \in Nat
  BY <1>1, <1>2, SumIsNat
<1> QED BY <1>3 DEF ShareOf, f

(* All shares of a line together are the line *)
LEMMA SharesAreWhole ==
  ASSUME NEW splits \in SplitLists
  PROVE  SumFunctionOnSet([a \in Accounts |-> ShareOf(splits, a)], Accounts) = Whole(splits)
<1> DEFINE S == DOMAIN splits
           f == [i \in S |-> splits[i].share]
           g == [a \in Accounts |-> ShareOf(splits, a)]
           kind == [i \in S |-> splits[i].account]
<1>1. SumFunctionOnSet(f, S) = Whole(splits)
  BY OneMethod DEF Shares
<1>2. \A i \in S : splits[i] \in Splits
  BY ListsAreFinite
<1>3. IsFiniteSet(S) /\ IsFiniteSet(Accounts)
  BY ListsAreFinite, BudgetAssumption
<1>4. \A i \in S : f[i] \in Nat
  BY <1>2 DEF Splits
<1>5. \A i \in S : kind[i] \in Accounts
  BY <1>2 DEF Splits
<1>6. \A a \in Accounts : g[a] = SumFunctionOnSet(f, {i \in S : kind[i] = a})
  <2> TAKE a \in Accounts
  <2>1. {i \in S : kind[i] = a} = SplitsOf(splits, a)
    BY DEF SplitsOf
  <2> QED BY <2>1 DEF ShareOf
<1> HIDE DEF f, g, kind, S
<1>7. ASSUME NEW of, \A i \in S : of[i] \in Accounts,
             NEW sums, \A a \in Accounts : sums[a] = SumFunctionOnSet(f, {i \in S : of[i] = a})
      PROVE  SumFunctionOnSet(sums, Accounts) = SumFunctionOnSet(f, S)
  BY <1>3, <1>4, <1>7, SumByKind
<1>8. SumFunctionOnSet(g, Accounts) = SumFunctionOnSet(f, S)
  BY <1>5, <1>6, <1>7, SMTT(60)
<1> QED BY <1>1, <1>8 DEF g

(* An account gets its share of what is taken at most *)
LEMMA AtMostTheShare ==
  ASSUME NEW splits \in SplitLists, NEW n \in Nat, NEW a
  PROVE  Whole(splits) * OfAccount(splits, n, a) <= Takes(splits, n) * ShareOf(splits, a)
<1> DEFINE f == [i \in DOMAIN splits |-> Resolved(splits[i], n)]
           g == [i \in DOMAIN splits |-> splits[i].share]
           w == Whole(splits)
           t == Takes(splits, n)
<1>0. w \in Nat /\ t \in Nat
  BY OneMethod, TakesIsNat
<1>1. \A i \in SplitsOf(splits, a) : f[i] \in Nat /\ g[i] \in Nat /\ w * f[i] <= t * g[i]
  <2> TAKE i \in SplitsOf(splits, a)
  <2>1. i \in DOMAIN splits
    BY DEF SplitsOf
  <2>2. f[i] = Resolved(splits[i], n) /\ g[i] = splits[i].share
    BY <2>1
  <2>3. f[i] \in Nat /\ g[i] \in Nat /\ w * f[i] <= g[i] * t
    <3> HIDE DEF f, g
    <3> QED BY <2>1, <2>2, ResolvedByWhole
  <2> HIDE DEF f, g, w, t
  <2>4. g[i] * t = t * g[i]
    BY <1>0, <2>3
  <2> QED BY <2>3, <2>4
<1>2. IsFiniteSet(SplitsOf(splits, a))
  BY ListsAreFinite
<1> HIDE DEF f, g, w, t
<1>3. w * SumFunctionOnSet(f, SplitsOf(splits, a)) <= t * SumFunctionOnSet(g, SplitsOf(splits, a))
  BY <1>0, <1>1, <1>2, SumScaled
<1> QED BY <1>3 DEF OfAccount, ShareOf, f, g, w, t

LEMMA InvoicedAtMostTheShare ==
  ASSUME NEW splits \in SplitLists, NEW is \in Seq(Bills), NEW o,
         \A i \in CountedIn(is, o) : is[i].splits = splits, NEW a
  PROVE  Whole(splits) * InvoicedIn(is, o, a) <= ShareOf(splits, a) * TakenBy(is, CountedIn(is, o))
<1> DEFINE f == [i \in DOMAIN is |-> OfAccount(is[i].splits, is[i].total, a)]
           g == [i \in DOMAIN is |-> Takes(is[i].splits, is[i].total)]
           S == CountedIn(is, o)
           s == ShareOf(splits, a)
           w == Whole(splits)
<1>1. s \in Nat /\ w \in Nat
  BY ShareIsNat, OneMethod
<1>2. \A i \in S : f[i] \in Nat /\ g[i] \in Nat /\ w * f[i] <= s * g[i]
  <2> TAKE i \in S
  <2> DEFINE n == is[i].total
  <2>1. i \in DOMAIN is /\ n \in Nat /\ is[i].splits = splits
    BY BillsAreFinite
  <2>2. f[i] = OfAccount(splits, n, a) /\ g[i] = Takes(splits, n)
    BY <2>1
  <2> HIDE DEF f, g, s, w, n, S
  <2>3. w * f[i] <= g[i] * s /\ f[i] \in Nat /\ g[i] \in Nat
    BY <2>1, <2>2, AtMostTheShare, OfAccountIsNat, TakesIsNat DEF s, w
  <2>4. g[i] * s = s * g[i]
    BY <1>1, <2>3
  <2> QED BY <2>3, <2>4
<1>3. IsFiniteSet(S)
  BY BillsAreFinite
<1> HIDE DEF f, g, s, S, w
<1>4. w * SumFunctionOnSet(f, S) <= s * SumFunctionOnSet(g, S)
  BY <1>1, <1>2, <1>3, SumScaled
<1> QED BY <1>4 DEF InvoicedIn, TakenBy, f, g, s, S, w

(* With what is left of an order, an account is counted for the larger of the two *)
LEMMA LeftOrInvoiced ==
  ASSUME NEW splits \in SplitLists, NEW n \in Nat, NEW a
  PROVE  RestOf(splits, n, a) + n <= OfAccount(splits, LineTotal, a) \/ RestOf(splits, n, a) = 0
<1> DEFINE f == [i \in DOMAIN splits |-> Resolved(splits[i], LineTotal)]
           g == [i \in DOMAIN splits |-> Max({0, Resolved(splits[i], LineTotal) - n})]
           S == SplitsOf(splits, a)
<1>1. IsFiniteSet(S)
  BY ListsAreFinite
<1>2. \A i \in S : f[i] \in Nat /\ g[i] = IF f[i] <= n THEN 0 ELSE f[i] - n
  <2> TAKE i \in S
  <2>1. i \in DOMAIN splits /\ f[i] \in Nat
    BY ListsAreFinite, ResolvedIsNat, BudgetAssumption
  <2>2. g[i] = Max({0, f[i] - n})
    BY <2>1
  <2> HIDE DEF f, g
  <2>3. f[i] - n \in Int /\ Max({0, f[i] - n}) = IF f[i] - n <= 0 THEN 0 ELSE f[i] - n
    BY <2>1, MaxOfTwo
  <2> QED BY <2>1, <2>2, <2>3
<1> HIDE DEF f, g, S
<1>3. CASE \A i \in S : f[i] <= n
  <2>1. \A i \in S : g[i] = 0
    BY <1>2, <1>3
  <2>2. SumFunctionOnSet(g, S) = 0
    BY <1>1, <2>1, SumOfZeros
  <2> QED BY <2>2 DEF RestOf, g, S
<1>4. CASE \E j \in S : ~(f[j] <= n)
  <2>1. PICK j \in S : ~(f[j] <= n)
    BY <1>4
  <2>2. \A i \in S : g[i] \in Nat /\ g[i] <= f[i] /\ f[i] \in Nat
    BY <1>2
  <2>3. /\ SumFunctionOnSet(g, S) = g[j] + SumFunctionOnSet(g, S \ {j})
        /\ SumFunctionOnSet(f, S) = f[j] + SumFunctionOnSet(f, S \ {j})
    BY <1>1, <2>2, SumOfOneMore
  <2>4. IsFiniteSet(S \ {j})
    BY <1>1, FS_Subset
  <2>5. SumFunctionOnSet(g, S \ {j}) <= SumFunctionOnSet(f, S \ {j})
    BY <2>2, <2>4, SumGrows
  <2>6. SumFunctionOnSet(g, S \ {j}) \in Nat /\ SumFunctionOnSet(f, S \ {j}) \in Nat
    BY <2>2, <2>4, SumIsNat
  <2>7. g[j] = f[j] - n /\ f[j] \in Nat
    BY <1>2, <2>1
  <2>8. SumFunctionOnSet(g, S) + n <= SumFunctionOnSet(f, S)
    BY <2>3, <2>5, <2>6, <2>7
  <2> QED BY <2>8 DEF RestOf, OfAccount, f, g, S
<1> QED BY <1>3, <1>4

(* An order counts once, in a state *)
LEMMA CountedOnce ==
  ASSUME NEW splits \in SplitLists, NEW is \in Seq(Bills), NEW o,
         \A i \in CountedIn(is, o) : is[i].splits = splits
  PROVE  SumFunctionOnSet([a \in Accounts |-> RestOf(splits, InvoicedIn(is, o, a), a) + InvoicedIn(is, o, a)],
                          Accounts)
           <= Max({LineTotal, TakenBy(is, CountedIn(is, o))})
<1> DEFINE T == TakenBy(is, CountedIn(is, o))
           m == Max({LineTotal, T})
           f == [a \in Accounts |-> RestOf(splits, InvoicedIn(is, o, a), a) + InvoicedIn(is, o, a)]
           g == [a \in Accounts |-> ShareOf(splits, a)]
           w == Whole(splits)
<1>1. T \in Nat /\ w \in Nat
  <2> DEFINE t == [i \in DOMAIN is |-> Takes(is[i].splits, is[i].total)]
  <2>1. IsFiniteSet(CountedIn(is, o)) /\ \A i \in CountedIn(is, o) : t[i] \in Nat
    BY BillsAreFinite, TakesIsNat
  <2> HIDE DEF t
  <2>2. SumFunctionOnSet(t, CountedIn(is, o)) \in Nat
    BY <2>1, SumIsNat
  <2> QED BY <2>2, OneMethod DEF TakenBy, t
<1>2. m \in Nat /\ LineTotal <= m /\ T <= m /\ LineTotal \in Nat
  <2> HIDE DEF T
  <2>1. LineTotal \in Nat
    BY BudgetAssumption
  <2>2. m = IF T <= LineTotal THEN LineTotal ELSE T
    BY <1>1, <2>1, MaxOfTwo
  <2> HIDE DEF m
  <2> QED BY <1>1, <2>1, <2>2
<1> HIDE DEF m
<1>3. ASSUME NEW a \in Accounts
      PROVE  /\ f[a] \in Nat /\ g[a] \in Nat /\ w * f[a] <= m * g[a]
             /\ w = 0 => f[a] = 0
  <2> DEFINE n == InvoicedIn(is, o, a)
             s == ShareOf(splits, a)
             r == RestOf(splits, n, a)
             l == OfAccount(splits, LineTotal, a)
  <2>1. n \in Nat /\ s \in Nat /\ l \in Nat
    BY <1>2, InvoicedIsNat, ShareIsNat, OfAccountIsNat
  <2>2. r \in Nat
    <3> HIDE DEF n
    <3> QED BY <2>1, RestIsNat
  <2>3. r + n <= l \/ r = 0
    <3> HIDE DEF n
    <3> QED BY <2>1, LeftOrInvoiced
  <2>4. w * l <= LineTotal * s
    BY <1>2, AtMostTheShare, TakesIsNat
  <2>5. w * n <= s * T
    BY InvoicedAtMostTheShare
  <2>6. f[a] = r + n /\ g[a] = s
    OBVIOUS
  <2>7. w = 0 => l = 0 /\ n = 0
    <3> SUFFICES ASSUME w = 0 PROVE l = 0 /\ n = 0
      OBVIOUS
    <3> DEFINE h == [i \in DOMAIN is |-> OfAccount(is[i].splits, is[i].total, a)]
    <3>1. l = 0 /\ \A i \in CountedIn(is, o) : h[i] = 0
      BY NothingToSplit, BillsAreFinite
    <3>2. SumFunctionOnSet(h, CountedIn(is, o)) = 0
      <4> HIDE DEF h
      <4> QED BY <3>1, BillsAreFinite, SumOfZeros
    <3> QED BY <3>1, <3>2 DEF InvoicedIn
  <2> HIDE DEF f, g, n, s, r, l, T, w
  <2>8. LineTotal * s <= m * s /\ s * T <= m * s /\ m * s \in Nat /\ LineTotal * s \in Nat /\ s * T \in Nat
    <3>1. \A p, q \in Nat : p <= q => p * s <= q * s /\ p * s \in Nat /\ q * s \in Nat
      BY <2>1
    <3>2. s * T = T * s
      BY <1>1, <2>1
    <3> QED BY <1>1, <1>2, <3>1, <3>2
  <2>9. r + n <= l \/ r + n = n
    BY <2>1, <2>2, <2>3
  <2>10. w * (r + n) <= m * s
    <3>1. w * l <= m * s /\ w * n <= m * s
      <4>1. w * l \in Nat /\ w * n \in Nat
        BY <1>1, <2>1
      <4> QED BY <2>4, <2>5, <2>8, <4>1
    <3>2. \A p, q \in Nat : p <= q => w * p <= w * q /\ w * p \in Nat /\ w * q \in Nat
      BY <1>1
    <3>3. CASE r + n <= l
      <4>1. w * (r + n) <= w * l /\ w * (r + n) \in Nat /\ w * l \in Nat
        BY <2>1, <2>2, <3>2, <3>3
      <4> QED BY <2>8, <3>1, <4>1
    <3>4. CASE r + n = n
      BY <3>1, <3>4
    <3> QED BY <2>9, <3>3, <3>4
  <2> QED BY <2>1, <2>2, <2>3, <2>6, <2>7, <2>10
<1>4. SumFunctionOnSet(g, Accounts) = w
  BY SharesAreWhole
<1>5. IsFiniteSet(Accounts)
  BY BudgetAssumption
<1> HIDE DEF f, g, T, w
<1>6. w * SumFunctionOnSet(f, Accounts) <= m * SumFunctionOnSet(g, Accounts)
  BY <1>1, <1>2, <1>3, <1>5, SumScaled
<1>7. SumFunctionOnSet(f, Accounts) \in Nat
  BY <1>3, <1>5, SumIsNat
<1>8. SumFunctionOnSet(f, Accounts) <= m
  <2>1. CASE w = 0
    <3>1. SumFunctionOnSet(f, Accounts) = 0
      BY <1>3, <1>5, <2>1, SumOfZeros
    <3> QED BY <1>2, <3>1
  <2>2. CASE w # 0
    <3> DEFINE u == SumFunctionOnSet(f, Accounts)
    <3>1. u \in Nat /\ w * u <= m * w
      BY <1>4, <1>6, <1>7
    <3> HIDE DEF u
    <3>2. \A p, q \in Nat : w * p <= q * w => p <= q
      BY <1>1, <2>2
    <3>3. u <= m
      BY <1>2, <3>1, <3>2
    <3> QED BY <3>3 DEF u
  <2> QED BY <2>1, <2>2
<1> QED BY <1>8 DEF f, m, T

LEMMA BudgetInvIsInvariant == BudgetSpec => []BudgetInv
<1>1. BudgetInv /\ [BudgetNext]_budgetVars => BudgetInv'
  <2> SUFFICES ASSUME BudgetInv, [BudgetNext]_budgetVars PROVE BudgetInv'
    OBVIOUS
  <2>1. BudgetTypes'
    BY BudgetTypesStep DEF BudgetInv
  <2>2. CASE BudgetNext
    <3>1. NotYetBilled' /\ SplitsCopied' /\ StillRegular' /\ ChecksHold'
      BY <2>1, <2>2, NotYetBilledStep, SplitsCopiedStep, StillRegularStep, ChecksHoldStep DEF BudgetInv
    <3>2. WithinBudget'
      BY <2>1, <2>2, <3>1, WithinBudgetStep DEF BudgetInv
    <3> QED BY <2>1, <3>1, <3>2 DEF BudgetInv
  <2>3. CASE UNCHANGED budgetVars
    <3>1. /\ orders' = orders /\ invoices' = invoices /\ budget' = budget
          /\ approval' = approval /\ causes' = causes
      BY <2>3 DEF budgetVars
    <3>2. \A x, y : Blocked(x, y)' = Blocked(x, y)
      BY <3>1 DEF Blocked, Actual, InvoicedFor, Counted
    <3>3. ChecksHold'
      BY <3>1, <3>2 DEF BudgetInv, ChecksHold
    <3>4. NotYetBilled' /\ SplitsCopied' /\ StillRegular' /\ WithinBudget'
      BY <3>1 DEF BudgetInv, NotYetBilled, SplitsCopied, StillRegular, WithinBudget
    <3> QED BY <2>1, <3>3, <3>4 DEF BudgetInv
  <2> QED BY <2>2, <2>3
<1> QED BY BudgetInvInit, <1>1, PTL DEF BudgetSpec

(* Every variable of BudgetControl keeps its type. *)
THEOREM BudgetTypeCorrect == BudgetSpec => []BudgetTypeOK
<1>1. BudgetInv => BudgetTypeOK
  BY DEF BudgetInv, BudgetTypes
<1> QED BY <1>1, BudgetInvIsInvariant, PTL

(* What is committed and spent on an account stays within its hard budget but for the
   causes named, however approvals, invoices, closings and cancellations interleave. *)
THEOREM HardBudgetsHold == BudgetSpec => []HardBudgetHolds
<1>1. BudgetInv => HardBudgetHolds
  <2> SUFFICES ASSUME BudgetInv, causes = {}, NEW a \in Accounts, budget[a].hard
               PROVE  Committed(a) + Actual(a) <= budget[a].amount
    BY DEF HardBudgetHolds
  <2>1. UsedIn(orders, invoices, a) <= budget[a].amount
    BY DEF BudgetInv, WithinBudget
  <2>2. /\ orders \in [Orders -> OrderRows] /\ invoices \in Seq(Bills) /\ BudgetTypes
    BY DEF BudgetInv, BudgetTypes, BudgetTypeOK, OrderRows
  <2>3. UsedIn(orders, invoices, a) = CommittedIn(orders, invoices, a) + ActualIn(invoices, a)
    BY <2>2, UsedIsBoth
  <2>4. Committed(a) = CommittedIn(orders, invoices, a) /\ Actual(a) = ActualIn(invoices, a)
    BY <2>2, SumsOfTheState
  <2> QED BY <2>1, <2>3, <2>4
<1> QED BY <1>1, BudgetInvIsInvariant, PTL

(* Hard budgets hold, and what is committed of an order goes down with what is spent of it,
   however its line is split: an order is counted for its own total or for what its counted
   invoices take, whichever is more. *)
THEOREM BudgetsStand == BudgetSpec => []BudgetsHold
<1>1. BudgetInv => CommittedOrSpent
  <2> SUFFICES ASSUME BudgetInv, "splits" \notin causes, NEW o \in Orders,
                      orders[o].state \in CommittedStates
               PROVE  CountedFor(o) <= Max({LineTotal, TakenBy(invoices, Counted(o))})
    BY DEF CommittedOrSpent
  <2> DEFINE splits == orders[o].splits
  <2>1. BudgetTypes /\ invoices \in Seq(Bills) /\ splits \in SplitLists
    BY DEF BudgetInv, BudgetTypes, CommittedStates
  <2>2. \A i \in CountedIn(invoices, o) : invoices[i].splits = splits
    BY DEF BudgetInv, SplitsCopied, CountedIn
  <2>3. \A a : /\ Remaining(o, a) = RestOf(splits, InvoicedIn(invoices, o, a), a)
               /\ InvoicedFor(o, a) = InvoicedIn(invoices, o, a)
    BY <2>1, SumsOfTheState
  <2>4. Counted(o) = CountedIn(invoices, o)
    BY DEF Counted, CountedIn
  <2> HIDE DEF splits
  <2>5. SumFunctionOnSet([a \in Accounts |-> RestOf(splits, InvoicedIn(invoices, o, a), a)
                                               + InvoicedIn(invoices, o, a)], Accounts)
          <= Max({LineTotal, TakenBy(invoices, CountedIn(invoices, o))})
    BY <2>1, <2>2, CountedOnce
  <2>6. [a \in Accounts |-> Remaining(o, a) + InvoicedFor(o, a)]
          = [a \in Accounts |-> RestOf(splits, InvoicedIn(invoices, o, a), a) + InvoicedIn(invoices, o, a)]
    BY <2>3
  <2> QED BY <2>4, <2>5, <2>6 DEF CountedFor
<1> QED BY <1>1, HardBudgetsHold, BudgetInvIsInvariant, PTL DEF BudgetsHold

----------------------------------------------------------------------------
(***************************************************************************)
(* The search for circular dependencies: a depth-first search over edges in  *)
(* any order, with the path from its root on a stack.                       *)
(***************************************************************************)

\* The stack is a path of the graph and has no node twice.
ScanRows ==
  /\ listed \subseteq Nodes /\ edges \subseteq Nodes \X Nodes /\ visited \subseteq Nodes
  /\ path \in Seq([node : Nodes, left : SUBSET edges])
  /\ \A k \in DOMAIN path : path[k].node \in visited /\ path[k].left \subseteq Outgoing(path[k].node)
  /\ \A j, k \in DOMAIN path : path[j].node = path[k].node => j = k
  /\ \A k \in 1 .. Len(path) - 1 : <<path[k].node, path[k + 1].node>> \in edges

CyclesAreCycles ==
  \A c \in cycles : /\ c[1] = c[Len(c)]
                    /\ \A k \in 1 .. Len(c) - 1 : <<c[k], c[k + 1]>> \in edges

\* The nodes the search is through with.  As long as it has reported nothing, their edges
\* lead to their like and no circle is among them; and an edge that a node of the stack
\* has left behind leads to one of them or to the next node of the stack.
ThroughWith == visited \ OnPath

AllSearched ==
  /\ \A n \in ThroughWith, m \in Nodes : <<n, m>> \in edges => m \in ThroughWith
  /\ \A k \in DOMAIN path, m \in Nodes :
       <<path[k].node, m>> \in edges =>
         \/ <<path[k].node, m>> \in path[k].left
         \/ m \in ThroughWith
         \/ k + 1 \in DOMAIN path /\ m = path[k + 1].node
  /\ \A S \in SUBSET ThroughWith : Circular(S) => S = {}

NothingMissed == cycles = {} => AllSearched

ScanInv == ScanRows /\ CyclesAreCycles /\ NothingMissed

LEMMA ScanInvInit == ScanInit => ScanInv
<1> SUFFICES ASSUME ScanInit PROVE ScanInv
  OBVIOUS
<1>1. visited = {} /\ path = << >> /\ cycles = {} /\ DOMAIN path = {} /\ Len(path) = 0
  BY DEF ScanInit
<1>2. ScanRows
  BY <1>1 DEF ScanInit, ScanRows
<1> QED BY <1>1, <1>2 DEF ScanInv, CyclesAreCycles, NothingMissed, AllSearched, ThroughWith, OnPath

LEMMA VisitStep == ASSUME ScanInv, NEW n \in Nodes, Visit(n) PROVE ScanInv'
<1> DEFINE F == [node : Nodes, left : SUBSET edges]
<1>1. /\ path = << >> /\ n \notin visited /\ visited' = visited \cup {n} /\ path' = <<Frame(n)>>
      /\ listed' = listed /\ edges' = edges /\ cycles' = cycles
  BY DEF Visit
<1>2. Frame(n) \in F /\ Frame(n).node = n /\ Frame(n).left = Outgoing(n)
  BY DEF Frame, Outgoing
<1>3. /\ path' \in Seq(F) /\ Len(path') = 1 /\ DOMAIN path' = {1}
      /\ path'[1].node = n /\ path'[1].left = Outgoing(n)
  BY <1>1, <1>2
<1>4. ScanRows'
  BY <1>1, <1>3 DEF ScanInv, ScanRows, Outgoing
<1>5. CyclesAreCycles'
  BY <1>1 DEF ScanInv, CyclesAreCycles
<1>6. ThroughWith' = ThroughWith
  <2>1. OnPath = {} /\ OnPath' = {n}
    BY <1>1, <1>3 DEF OnPath
  <2> QED BY <1>1, <2>1 DEF ThroughWith
<1>7. NothingMissed'
  <2> SUFFICES ASSUME cycles = {}, AllSearched PROVE AllSearched'
    BY <1>1 DEF NothingMissed, ScanInv
  <2>1. \A m \in Nodes : <<n, m>> \in edges => <<n, m>> \in Outgoing(n)
    BY DEF Outgoing
  <2>2. (\A q \in ThroughWith, m \in Nodes : <<q, m>> \in edges => m \in ThroughWith)'
    BY <1>1, <1>6 DEF AllSearched
  <2>3. \A k \in DOMAIN path' : k = 1
    BY <1>3
  <2>4. \A k \in DOMAIN path', m \in Nodes :
          <<path'[k].node, m>> \in edges' => <<path'[k].node, m>> \in path'[k].left
    BY <1>1, <1>3, <2>1, <2>3
  <2>5. (\A S \in SUBSET ThroughWith : Circular(S) => S = {})'
    BY <1>1, <1>6 DEF AllSearched, Circular
  <2> QED BY <2>2, <2>4, <2>5 DEF AllSearched
<1> QED BY <1>4, <1>5, <1>7 DEF ScanInv

\* The stack after an edge of its last node was taken.
LEMMA EdgeTaken ==
  ASSUME ScanInv, NEW e \in edges, Follow(e), NEW rest,
         rest = [path EXCEPT ![Len(path)].left = @ \ {e}]
  PROVE  /\ Len(path) \in Nat \ {0} /\ DOMAIN path = 1 .. Len(path)
         /\ rest \in Seq([node : Nodes, left : SUBSET edges])
         /\ Len(rest) = Len(path) /\ DOMAIN rest = DOMAIN path
         /\ \A k \in DOMAIN path : rest[k].node = path[k].node /\ rest[k].left \subseteq path[k].left
         /\ \A k \in DOMAIN path : \A f \in path[k].left : f \in rest[k].left \/ (f = e /\ k = Len(path))
         /\ e = <<path[Len(path)].node, e[2]>> /\ e[2] \in Nodes
<1> DEFINE F == [node : Nodes, left : SUBSET edges]
           n == Len(path)
<1>1. path \in Seq(F) /\ path # << >> /\ e \in path[n].left /\ edges \subseteq Nodes \X Nodes
  BY DEF Follow, Top, ScanInv, ScanRows
<1>2. n \in Nat \ {0} /\ DOMAIN path = 1 .. n /\ n \in DOMAIN path
  BY <1>1
<1>3. path[n] \in F
  <2> HIDE DEF F
  <2> QED BY <1>1, <1>2, ElementOfSeq
<1> DEFINE top == [path[n] EXCEPT !.left = path[n].left \ {e}]
<1>4. top \in F /\ top.node = path[n].node /\ top.left = path[n].left \ {e}
  BY <1>3
<1>5. rest = [path EXCEPT ![n] = top]
  OBVIOUS
<1> HIDE DEF top, n
<1>6. rest \in Seq(F) /\ Len(rest) = n /\ DOMAIN rest = DOMAIN path
  <2>1. n \in 1 .. Len(path)
    BY <1>2 DEF n
  <2> QED BY <1>1, <1>4, <1>5, <2>1, ExceptSeq DEF n
<1>7. \A k \in DOMAIN path : rest[k] = IF k = n THEN top ELSE path[k]
  BY <1>1, <1>2, <1>5
<1>8. e = <<path[n].node, e[2]>> /\ e[2] \in Nodes
  <2>1. path[n].left \subseteq Outgoing(path[n].node)
    BY <1>2 DEF ScanInv, ScanRows
  <2> QED BY <1>1, <2>1 DEF Outgoing
<1> QED BY <1>2, <1>4, <1>6, <1>7, <1>8 DEF n

LEMMA FollowIs ==
  ASSUME ScanInv, NEW e \in edges, Follow(e)
  PROVE  LET n == Len(path)
             rest == [path EXCEPT ![n].left = @ \ {e}]
         IN  /\ listed' = listed /\ edges' = edges
             /\ \/ /\ path' = rest /\ visited' = visited
                   /\ \E first \in DOMAIN path :
                        /\ path[first].node = e[2]
                        /\ cycles' = cycles \cup
                             {[k \in 1 .. n - first + 1 |-> path[first + k - 1].node] \o <<e[2]>>}
                \/ /\ e[2] \notin visited /\ e[2] \notin OnPath /\ cycles' = cycles
                   /\ path' = Append(rest, Frame(e[2])) /\ visited' = visited \cup {e[2]}
                \/ e[2] \in ThroughWith /\ path' = rest /\ visited' = visited /\ cycles' = cycles
<1> DEFINE n == Len(path)
           rest == [path EXCEPT ![n].left = @ \ {e}]
           first == CHOOSE k \in DOMAIN path : path[k].node = e[2]
<1>1. listed' = listed /\ edges' = edges
  BY DEF Follow
<1>2. CASE e[2] \in OnPath
  <2>1. first \in DOMAIN path /\ path[first].node = e[2]
    BY <1>2 DEF OnPath
  <2>2. /\ path' = rest /\ visited' = visited
        /\ cycles' = cycles \cup {[k \in 1 .. n - first + 1 |-> path[first + k - 1].node] \o <<e[2]>>}
    BY <1>2 DEF Follow
  <2> HIDE DEF first, rest, n
  <2> QED BY <1>1, <2>1, <2>2 DEF rest, n
<1>3. CASE e[2] \notin OnPath /\ e[2] \notin visited
  BY <1>1, <1>3 DEF Follow
<1>4. CASE e[2] \notin OnPath /\ e[2] \in visited
  BY <1>1, <1>4 DEF Follow, ThroughWith
<1> QED BY <1>2, <1>3, <1>4

\* What is reported runs along the stack and back to where it began.
Reported(at, first, n) == [k \in 1 .. n - first + 1 |-> at[first + k - 1]] \o <<at[first]>>

LEMMA CycleReported ==
  ASSUME NEW n \in Nat, NEW at \in [1 .. n -> Nodes], NEW first \in 1 .. n,
         \A k \in 1 .. n - 1 : <<at[k], at[k + 1]>> \in edges, <<at[n], at[first]>> \in edges,
         NEW c, c = Reported(at, first, n)
  PROVE  /\ c[1] = c[Len(c)]
         /\ \A k \in 1 .. Len(c) - 1 : <<c[k], c[k + 1]>> \in edges
<1> DEFINE m == n - first + 1
           run == [k \in 1 .. m |-> at[first + k - 1]]
<1>1. m \in Nat \ {0} /\ \A k \in 1 .. m : first + k - 1 \in 1 .. n
  OBVIOUS
<1>2. run \in Seq(Nodes) /\ Len(run) = m /\ \A k \in 1 .. m : run[k] = at[first + k - 1]
  <2>1. \A k \in 1 .. m : at[first + k - 1] \in Nodes
    BY <1>1
  <2> HIDE DEF m
  <2>2. run \in [1 .. m -> Nodes]
    BY <2>1
  <2>3. \A k \in 1 .. m : run[k] = at[first + k - 1]
    OBVIOUS
  <2> HIDE DEF run
  <2> QED BY <1>1, <2>2, <2>3
<1> HIDE DEF run
<1>3. at[first] \in Nodes /\ c = run \o <<at[first]>>
  BY DEF run, Reported
<1>4. Len(c) = m + 1 /\ (\A k \in 1 .. m : c[k] = run[k]) /\ c[m + 1] = at[first]
  <2> HIDE DEF m
  <2>1. <<at[first]>> \in Seq(Nodes) /\ Len(<<at[first]>>) = 1
    BY <1>3
  <2> QED BY <1>1, <1>2, <1>3, <2>1
<1>5. c[1] = at[first]
  <2>1. 1 \in 1 .. m /\ first + 1 - 1 = first
    BY <1>1
  <2> HIDE DEF m
  <2> QED BY <1>2, <1>4, <2>1
<1>6. ASSUME NEW k \in 1 .. m PROVE <<c[k], c[k + 1]>> \in edges
  <2>1. c[k] = at[first + k - 1]
    BY <1>2, <1>4
  <2>2. CASE k = m
    <3>1. first + k - 1 = n
      BY <2>2
    <3>2. c[k + 1] = at[first]
      BY <1>4, <2>2
    <3> QED BY <2>1, <3>1, <3>2
  <2>3. CASE k # m
    <3>1. k + 1 \in 1 .. m /\ first + k - 1 \in 1 .. n - 1 /\ first + (k + 1) - 1 = (first + k - 1) + 1
      BY <1>1, <2>3
    <3>2. c[k + 1] = at[(first + k - 1) + 1]
      BY <1>2, <1>4, <3>1
    <3> QED BY <2>1, <3>1, <3>2
  <2> QED BY <2>2, <2>3
<1>7. Len(c) - 1 = m
  BY <1>1, <1>4
<1> QED BY <1>4, <1>5, <1>6, <1>7

LEMMA FollowStep == ASSUME ScanInv, NEW e \in edges, Follow(e) PROVE ScanInv'
<1> DEFINE F == [node : Nodes, left : SUBSET edges]
           n == Len(path)
           rest == [path EXCEPT ![n].left = @ \ {e}]
           last == path[n].node
<1>1. /\ n \in Nat \ {0} /\ DOMAIN path = 1 .. n
      /\ rest \in Seq(F) /\ Len(rest) = n /\ DOMAIN rest = 1 .. n
      /\ \A k \in 1 .. n : rest[k].node = path[k].node /\ rest[k].left \subseteq path[k].left
      /\ \A k \in 1 .. n : \A f \in path[k].left : f \in rest[k].left \/ (f = e /\ k = n)
      /\ e = <<last, e[2]>> /\ e[2] \in Nodes
  BY EdgeTaken
<1>2. /\ listed \subseteq Nodes /\ edges \subseteq Nodes \X Nodes /\ visited \subseteq Nodes
      /\ \A k \in 1 .. n : path[k].node \in Nodes /\ path[k].node \in visited
                           /\ path[k].left \subseteq Outgoing(path[k].node)
      /\ \A j, k \in 1 .. n : path[j].node = path[k].node => j = k
      /\ \A k \in 1 .. n - 1 : <<path[k].node, path[k + 1].node>> \in edges
  BY <1>1 DEF ScanInv, ScanRows
<1>3. listed' = listed /\ edges' = edges
  BY FollowIs
<1> HIDE DEF rest, n
<1>a. ASSUME path' = rest, visited' = visited PROVE ScanRows'
  <2>1. \A k \in 1 .. n : path'[k].node = path[k].node /\ path'[k].left \subseteq path[k].left
    BY <1>1, <1>a
  <2>2. /\ listed' \subseteq Nodes /\ edges' \subseteq Nodes \X Nodes /\ visited' \subseteq Nodes
        /\ path' \in Seq([node : Nodes, left : SUBSET edges']) /\ DOMAIN path' = 1 .. n /\ Len(path') = n
    BY <1>1, <1>2, <1>3, <1>a
  <2>3. \A k \in DOMAIN path' : path'[k].node \in visited' /\ path'[k].left \subseteq {f \in edges : f[1] = path'[k].node}
    BY <1>2, <1>a, <2>1, <2>2 DEF Outgoing
  <2>4. \A j, k \in DOMAIN path' : path'[j].node = path'[k].node => j = k
    BY <1>2, <2>1, <2>2
  <2>5. \A k \in 1 .. Len(path') - 1 : <<path'[k].node, path'[k + 1].node>> \in edges'
    <3> SUFFICES ASSUME NEW k \in 1 .. n - 1 PROVE <<path'[k].node, path'[k + 1].node>> \in edges
      BY <1>3, <2>2
    <3>1. k \in 1 .. n /\ k + 1 \in 1 .. n
      BY <1>1
    <3> QED BY <1>2, <2>1, <3>1
  <2> QED BY <1>3, <2>2, <2>3, <2>4, <2>5 DEF ScanRows, Outgoing
<1>4. CASE /\ path' = rest /\ visited' = visited
           /\ \E first \in DOMAIN path :
                /\ path[first].node = e[2]
                /\ cycles' = cycles \cup
                     {[k \in 1 .. n - first + 1 |-> path[first + k - 1].node] \o <<e[2]>>}
  <2>1. ScanRows'
    BY <1>4, <1>a
  <2>2. PICK first \in 1 .. n :
          /\ path[first].node = e[2]
          /\ cycles' = cycles \cup {[k \in 1 .. n - first + 1 |-> path[first + k - 1].node] \o <<e[2]>>}
    BY <1>1, <1>4
  <2> DEFINE at == [k \in 1 .. n |-> path[k].node]
             c == [k \in 1 .. n - first + 1 |-> path[first + k - 1].node] \o <<e[2]>>
  <2>3. c = Reported(at, first, n)
    <3>1. \A k \in 1 .. n - first + 1 : first + k - 1 \in 1 .. n
      BY <1>1
    <3>2. \A k \in 1 .. n - first + 1 : at[first + k - 1] = path[first + k - 1].node
      BY <3>1
    <3>3. at[first] = e[2]
      BY <2>2
    <3> HIDE DEF at
    <3> QED BY <3>2, <3>3 DEF Reported
  <2>4. at \in [1 .. n -> Nodes] /\ <<at[n], at[first]>> \in edges
        /\ \A k \in 1 .. n - 1 : <<at[k], at[k + 1]>> \in edges
    <3>1. at \in [1 .. n -> Nodes]
      BY <1>2
    <3>2. at[n] = last /\ at[first] = e[2]
      BY <1>1, <2>2
    <3>3. \A k \in 1 .. n - 1 : at[k] = path[k].node /\ at[k + 1] = path[k + 1].node
      BY <1>1
    <3> HIDE DEF at
    <3>4. <<at[n], at[first]>> \in edges
      BY <1>1, <3>2
    <3>5. \A k \in 1 .. n - 1 : <<at[k], at[k + 1]>> \in edges
      BY <1>2, <3>3
    <3> QED BY <3>1, <3>4, <3>5
  <2> HIDE DEF c, at
  <2>5. c[1] = c[Len(c)] /\ \A k \in 1 .. Len(c) - 1 : <<c[k], c[k + 1]>> \in edges
    <3>1. n \in Nat
      BY <1>1
    <3> QED BY ONLY <2>3, <2>4, <3>1, CycleReported
  <2>6. cycles' = cycles \cup {c}
    BY <2>2 DEF c
  <2>7. CyclesAreCycles'
    BY <1>3, <2>5, <2>6 DEF ScanInv, CyclesAreCycles
  <2>8. NothingMissed'
    BY <2>6 DEF NothingMissed
  <2> QED BY <2>1, <2>7, <2>8 DEF ScanInv
<1>5. CASE /\ e[2] \notin visited /\ e[2] \notin OnPath /\ cycles' = cycles
           /\ path' = Append(rest, Frame(e[2])) /\ visited' = visited \cup {e[2]}
  <2> DEFINE top == Frame(e[2])
  <2>1. top \in F /\ top.node = e[2] /\ top.left = Outgoing(e[2])
    BY <1>1 DEF Frame, Outgoing
  <2> HIDE DEF top
  <2>2. /\ path' \in Seq(F) /\ Len(path') = n + 1 /\ DOMAIN path' = 1 .. n + 1
        /\ path'[n + 1] = top /\ \A k \in 1 .. n : path'[k] = rest[k]
    <3> HIDE DEF F
    <3>1. path' = Append(rest, top)
      BY <1>5 DEF top
    <3> QED BY <1>1, <2>1, <3>1
  <2>3. \A k \in 1 .. n + 1 : k \in 1 .. n \/ k = n + 1
    BY <1>1
  <2>4. ScanRows'
    <3>1. /\ listed' \subseteq Nodes /\ edges' \subseteq Nodes \X Nodes /\ visited' \subseteq Nodes
          /\ path' \in Seq([node : Nodes, left : SUBSET edges'])
      BY <1>1, <1>2, <1>3, <1>5, <2>2
    <3>2. \A k \in DOMAIN path' : path'[k].node \in visited' /\ path'[k].left \subseteq {f \in edges : f[1] = path'[k].node}
      <4> SUFFICES ASSUME NEW k \in 1 .. n + 1
                   PROVE  path'[k].node \in visited' /\ path'[k].left \subseteq {f \in edges : f[1] = path'[k].node}
        BY <2>2
      <4>1. CASE k \in 1 .. n
        BY <1>1, <1>2, <1>5, <2>2, <4>1 DEF Outgoing
      <4>2. CASE k = n + 1
        BY <1>5, <2>1, <2>2, <4>2 DEF Outgoing
      <4> QED BY <2>3, <4>1, <4>2
    <3>3. \A j, k \in DOMAIN path' : path'[j].node = path'[k].node => j = k
      <4>1. \A k \in 1 .. n : path'[k].node = path[k].node /\ path'[k].node # e[2]
        BY <1>1, <1>2, <1>5, <2>2
      <4>2. path'[n + 1].node = e[2]
        BY <2>1, <2>2
      <4> QED BY <1>2, <2>2, <2>3, <4>1, <4>2
    <3>4. \A k \in 1 .. Len(path') - 1 : <<path'[k].node, path'[k + 1].node>> \in edges'
      <4> SUFFICES ASSUME NEW k \in 1 .. n PROVE <<path'[k].node, path'[k + 1].node>> \in edges
        BY <1>1, <1>3, <2>2
      <4>1. path'[k].node = path[k].node
        BY <1>1, <2>2
      <4>2. CASE k = n
        BY <1>1, <2>1, <2>2, <4>1, <4>2
      <4>3. CASE k # n
        <5>1. k \in 1 .. n - 1 /\ k + 1 \in 1 .. n
          BY <1>1, <4>3
        <5>2. path'[k + 1].node = path[k + 1].node
          BY <1>1, <2>2, <5>1
        <5> QED BY <1>2, <4>1, <5>1, <5>2
      <4> QED BY <4>2, <4>3
    <3> QED BY <1>3, <3>1, <3>2, <3>3, <3>4 DEF ScanRows, Outgoing
  <2>5. CyclesAreCycles'
    BY <1>3, <1>5 DEF ScanInv, CyclesAreCycles
  <2>6. ThroughWith' = ThroughWith
    <3>1. OnPath' = OnPath \cup {e[2]}
      <4>1. \A k \in 1 .. n : path'[k].node = path[k].node
        BY <1>1, <2>2
      <4>2. path'[n + 1].node = e[2]
        BY <2>1, <2>2
      <4>3. n + 1 \in 1 .. n + 1 /\ \A k \in 1 .. n : k \in 1 .. n + 1
        BY <1>1
      <4> QED BY <1>1, <2>2, <2>3, <4>1, <4>2, <4>3 DEF OnPath
    <3> QED BY <1>5, <3>1 DEF ThroughWith
  <2>7. NothingMissed'
    <3> SUFFICES ASSUME cycles = {}, AllSearched PROVE AllSearched'
      BY <1>5 DEF NothingMissed, ScanInv
    <3>1. ASSUME NEW k \in DOMAIN path', NEW m \in Nodes, <<path'[k].node, m>> \in edges
          PROVE  \/ <<path'[k].node, m>> \in path'[k].left \/ m \in ThroughWith
                 \/ k + 1 \in DOMAIN path' /\ m = path'[k + 1].node
      <4>1. CASE k = n + 1
        BY <2>1, <2>2, <3>1, <4>1 DEF Outgoing
      <4>2. CASE k \in 1 .. n
        <5>1. path'[k].node = path[k].node /\ path'[k].left = rest[k].left
          BY <1>1, <2>2, <4>2
        <5>2. \/ <<path[k].node, m>> \in path[k].left \/ m \in ThroughWith
              \/ k + 1 \in 1 .. n /\ m = path[k + 1].node
          BY <1>1, <3>1, <4>2, <5>1 DEF AllSearched
        <5>3. CASE <<path[k].node, m>> \in path[k].left
          <6>1. <<path[k].node, m>> \in rest[k].left \/ (<<path[k].node, m>> = e /\ k = n)
            BY <1>1, <4>2, <5>3
          <6>2. <<path[k].node, m>> = e => m = e[2]
            OBVIOUS
          <6>3. k = n /\ m = e[2] => k + 1 \in DOMAIN path' /\ m = path'[k + 1].node
            BY <1>1, <2>1, <2>2
          <6> QED BY <5>1, <6>1, <6>2, <6>3
        <5>4. CASE k + 1 \in 1 .. n /\ m = path[k + 1].node
          <6>1. path'[k + 1].node = path[k + 1].node /\ k + 1 \in DOMAIN path'
            BY <1>1, <2>2, <5>4
          <6> QED BY <5>4, <6>1
        <5> QED BY <5>2, <5>3, <5>4
      <4> QED BY <2>2, <2>3, <4>1, <4>2
    <3>2. (\A q \in ThroughWith, m \in Nodes : <<q, m>> \in edges => m \in ThroughWith)'
      BY <1>3, <2>6 DEF AllSearched
    <3>3. (\A S \in SUBSET ThroughWith : Circular(S) => S = {})'
      BY <1>3, <2>6 DEF AllSearched, Circular
    <3> QED BY <1>3, <2>6, <3>1, <3>2, <3>3 DEF AllSearched
  <2> QED BY <2>4, <2>5, <2>7 DEF ScanInv
<1>6. CASE e[2] \in ThroughWith /\ path' = rest /\ visited' = visited /\ cycles' = cycles
  <2>1. ScanRows'
    BY <1>6, <1>a
  <2>2. CyclesAreCycles'
    BY <1>3, <1>6 DEF ScanInv, CyclesAreCycles
  <2>3. ThroughWith' = ThroughWith
    <3>1. OnPath' = OnPath
      BY <1>1, <1>6 DEF OnPath
    <3> QED BY <1>6, <3>1 DEF ThroughWith
  <2>4. NothingMissed'
    <3> SUFFICES ASSUME cycles = {}, AllSearched PROVE AllSearched'
      BY <1>6 DEF NothingMissed, ScanInv
    <3>1. ASSUME NEW k \in 1 .. n, NEW m \in Nodes, <<path[k].node, m>> \in edges
          PROVE  \/ <<path[k].node, m>> \in rest[k].left \/ m \in ThroughWith
                 \/ k + 1 \in 1 .. n /\ m = path[k + 1].node
      <4>1. \/ <<path[k].node, m>> \in path[k].left \/ m \in ThroughWith
            \/ k + 1 \in 1 .. n /\ m = path[k + 1].node
        BY <1>1, <3>1 DEF AllSearched
      <4>2. <<path[k].node, m>> = e => m \in ThroughWith
        BY <1>6
      <4> QED BY <1>1, <4>1, <4>2
    <3>2. (\A q \in ThroughWith, m \in Nodes : <<q, m>> \in edges => m \in ThroughWith)'
      BY <1>3, <2>3 DEF AllSearched
    <3>3. (\A S \in SUBSET ThroughWith : Circular(S) => S = {})'
      BY <1>3, <2>3 DEF AllSearched, Circular
    <3>4. \A k \in 1 .. n : k + 1 \in 1 .. n => rest[k + 1].node = path[k + 1].node
      BY <1>1
    <3>5. \A k \in DOMAIN path', m \in Nodes : <<path'[k].node, m>> \in edges =>
             \/ <<path'[k].node, m>> \in path'[k].left \/ m \in ThroughWith
             \/ k + 1 \in DOMAIN path' /\ m = path'[k + 1].node
      BY <1>1, <1>6, <3>1, <3>4
    <3> QED BY <1>3, <2>3, <3>2, <3>3, <3>5 DEF AllSearched
  <2> QED BY <2>1, <2>2, <2>4 DEF ScanInv
<1> QED BY <1>4, <1>5, <1>6, FollowIs DEF n, rest

\* A node that returns has left all its edges: it is through with, and closes no circle.
LEMMA ReturnStep == ASSUME ScanInv, Return PROVE ScanInv'
<1> DEFINE F == [node : Nodes, left : SUBSET edges]
           n == Len(path)
           last == path[n].node
<1>1. /\ path \in Seq(F) /\ path # << >> /\ path[n].left = {} /\ path' = SubSeq(path, 1, n - 1)
      /\ listed' = listed /\ edges' = edges /\ visited' = visited /\ cycles' = cycles
  BY DEF Return, Top, ScanInv, ScanRows
<1>2. n \in Nat \ {0} /\ DOMAIN path = 1 .. n
  BY <1>1
<1>3. /\ path' \in Seq(F) /\ Len(path') = n - 1 /\ DOMAIN path' = 1 .. n - 1
      /\ \A k \in 1 .. n - 1 : path'[k] = path[k]
  <2> HIDE DEF F
  <2>1. 1 \in 1 .. Len(path) + 1 /\ n - 1 \in 0 .. Len(path)
    BY <1>2
  <2> QED BY <1>1, <1>2, <2>1, SubSeqProperties
<1>4. /\ listed \subseteq Nodes /\ edges \subseteq Nodes \X Nodes /\ visited \subseteq Nodes
      /\ \A k \in 1 .. n : path[k].node \in visited /\ path[k].left \subseteq Outgoing(path[k].node)
      /\ \A j, k \in 1 .. n : path[j].node = path[k].node => j = k
      /\ \A k \in 1 .. n - 1 : <<path[k].node, path[k + 1].node>> \in edges
  BY <1>2 DEF ScanInv, ScanRows
<1> HIDE DEF n
<1>5. \A k \in 1 .. n : k \in 1 .. n - 1 \/ k = n
  BY <1>2
<1>6. ScanRows'
  <2>1. \A k \in DOMAIN path' :
          path'[k].node \in visited' /\ path'[k].left \subseteq {f \in edges : f[1] = path'[k].node}
    BY <1>1, <1>2, <1>3, <1>4 DEF Outgoing
  <2>2. \A j, k \in DOMAIN path' : path'[j].node = path'[k].node => j = k
    BY <1>2, <1>3, <1>4
  <2>3. \A k \in 1 .. Len(path') - 1 : <<path'[k].node, path'[k + 1].node>> \in edges'
    <3> DEFINE end == Len(path') - 1
    <3>1. end = n - 2
      BY <1>2, <1>3
    <3> HIDE DEF end
    <3>2. \A k \in 1 .. end : k \in 1 .. n - 1 /\ k + 1 \in 1 .. n - 1
      BY <1>2, <3>1
    <3>3. \A k \in 1 .. end : <<path'[k].node, path'[k + 1].node>> \in edges
      BY <1>3, <1>4, <3>2
    <3> QED BY <1>1, <3>3 DEF end
  <2> QED BY <1>1, <1>3, <1>4, <2>1, <2>2, <2>3 DEF ScanRows, Outgoing
<1>7. CyclesAreCycles'
  BY <1>1 DEF ScanInv, CyclesAreCycles
<1>8. last \in Nodes /\ last \notin ThroughWith /\ ThroughWith' = ThroughWith \cup {last}
  <2>1. n \in 1 .. n
    BY <1>2
  <2>2. OnPath = OnPath' \cup {last}
    BY <1>2, <1>3, <1>5, <2>1 DEF OnPath
  <2>3. last \notin OnPath'
    <3> SUFFICES ASSUME NEW k \in 1 .. n - 1, path[k].node = last PROVE FALSE
      BY <1>3 DEF OnPath
    <3>1. k \in 1 .. n /\ k # n
      BY <1>2
    <3> QED BY <1>4, <2>1, <3>1
  <2>4. last \in visited
    BY <1>4, <2>1
  <2> QED BY <1>1, <1>4, <2>2, <2>3, <2>4 DEF ThroughWith
<1>9. NothingMissed'
  <2> SUFFICES ASSUME cycles = {}, AllSearched PROVE AllSearched'
    BY <1>1 DEF NothingMissed, ScanInv
  <2>1. \A m \in Nodes : <<last, m>> \in edges => m \in ThroughWith
    <3>1. n \in DOMAIN path /\ n + 1 \notin DOMAIN path
      BY <1>2
    <3> QED BY <1>1, <3>1 DEF AllSearched
  <2>2. \A q \in ThroughWith', m \in Nodes : <<q, m>> \in edges => m \in ThroughWith'
    BY <1>8, <2>1 DEF AllSearched
  <2>3. ASSUME NEW k \in 1 .. n - 1, NEW m \in Nodes, <<path[k].node, m>> \in edges
        PROVE  \/ <<path[k].node, m>> \in path[k].left \/ m \in ThroughWith'
               \/ k + 1 \in 1 .. n - 1 /\ m = path[k + 1].node
    <3>1. k \in DOMAIN path /\ (k + 1 \in 1 .. n - 1 \/ k + 1 = n)
      BY <1>2
    <3>2. \/ <<path[k].node, m>> \in path[k].left \/ m \in ThroughWith
          \/ k + 1 \in DOMAIN path /\ m = path[k + 1].node
      BY <2>3, <3>1 DEF AllSearched
    <3>3. k + 1 = n /\ m = path[k + 1].node => m \in ThroughWith'
      BY <1>8
    <3> QED BY <1>8, <3>1, <3>2, <3>3
  <2>4. \A k \in DOMAIN path', m \in Nodes : <<path'[k].node, m>> \in edges =>
           \/ <<path'[k].node, m>> \in path'[k].left \/ m \in ThroughWith'
           \/ k + 1 \in DOMAIN path' /\ m = path'[k + 1].node
    BY <1>3, <2>3
  <2>5. ASSUME NEW S \in SUBSET (ThroughWith'), \A q \in S : \E m \in S : <<q, m>> \in edges PROVE S = {}
    <3> DEFINE T == S \ {last}
    <3>1. T \subseteq ThroughWith /\ \A q \in S : \E m \in T : <<q, m>> \in edges
      <4>1. T \subseteq ThroughWith
        BY <1>8
      <4>2. ASSUME NEW q \in S PROVE \E m \in T : <<q, m>> \in edges
        <5>1. PICK m \in S : <<q, m>> \in edges
          BY <2>5
        <5>2. m \in ThroughWith
          BY <1>4, <1>8, <2>1, <5>1 DEF AllSearched
        <5> QED BY <1>8, <5>1, <5>2
      <4> QED BY <4>1, <4>2
    <3>2. Circular(T)
      BY <3>1 DEF Circular
    <3>3. T = {}
      BY <3>1, <3>2 DEF AllSearched
    <3> QED BY <3>1, <3>3
  <2>6. (\A S \in SUBSET ThroughWith : Circular(S) => S = {})'
    BY <1>1, <2>5 DEF Circular
  <2> QED BY <1>1, <2>2, <2>4, <2>6 DEF AllSearched
<1> QED BY <1>6, <1>7, <1>9 DEF ScanInv

LEMMA ScanInvStep == ScanInv /\ [ScanNext]_scanVars => ScanInv'
<1> SUFFICES ASSUME ScanInv, [ScanNext]_scanVars PROVE ScanInv'
  OBVIOUS
<1>1. CASE UNCHANGED scanVars
  <2>1. listed' = listed /\ edges' = edges /\ visited' = visited /\ path' = path /\ cycles' = cycles
    BY <1>1 DEF scanVars
  <2>2. ScanRows' /\ CyclesAreCycles'
    BY <2>1 DEF ScanInv, ScanRows, CyclesAreCycles, Outgoing
  <2>3. ThroughWith' = ThroughWith
    BY <2>1 DEF ThroughWith, OnPath
  <2>4. NothingMissed'
    BY <2>1, <2>3 DEF ScanInv, NothingMissed, AllSearched, Circular
  <2> QED BY <2>2, <2>4 DEF ScanInv
<1> QED BY <1>1, VisitStep, FollowStep, ReturnStep DEF ScanNext

\* When the search is through, it is through with every node a listed one leads to.
LEMMA CirclesReported == ScanInv => CyclesAreFound
<1> SUFFICES ASSUME ScanInv, path = << >>, listed \subseteq visited,
                    NEW S \in SUBSET Nodes, Circular(S), S \cap listed # {}, cycles = {}
             PROVE  FALSE
  BY DEF CyclesAreFound, ScanInv, CyclesAreCycles
<1> DEFINE T == S \cap ThroughWith
<1>1. ThroughWith = visited
  BY DEF ThroughWith, OnPath
<1>2. AllSearched
  BY DEF ScanInv, NothingMissed
<1>3. T # {} /\ T \subseteq ThroughWith
  BY <1>1
<1>4. Circular(T)
  BY <1>2 DEF AllSearched, Circular
<1> QED BY <1>2, <1>3, <1>4 DEF AllSearched

\* A reported cycle is one, and a search that is through with a graph in which a listed
\* node leads into a circle has reported one, in whatever order it took nodes and edges
\* (detect_circular_dependencies).
THEOREM CirclesAreFound == ScanSpec => []CyclesAreFound
BY ScanInvInit, ScanInvStep, CirclesReported, PTL DEF ScanSpec

----------------------------------------------------------------------------
(***************************************************************************)
(* What components promise together.                                        *)
(***************************************************************************)

\* The corporate tree has no cycle, its roll-ups visit it all, and one address or
\* account of a supplier is preferred, with the exceptions each part names
\* (set_supplier_parent, the hierarchy roll-up, set_default_supplier_address).
THEOREM SuppliersSound == (HierarchySpec /\ FlagSpec) => []SuppliersAreSound
<1>1. (HierarchyIsSound /\ AtMostOnePreferred) => SuppliersAreSound
  BY DEF SuppliersAreSound
<1> QED BY <1>1, HierarchySound, OnePreferred, PTL

\* The winning bid of an awarded event is the one it was awarded to, and the rows of
\* a contract tell the transitions it made (award_sourcing_event, transition_contract_lifecycle, renew_contract).
THEOREM DealsSound == (SourcingSpec /\ ContractSpec) => []DealsAreSound
<1>1. (AwardAgrees /\ RowsTellWhatHappened) => DealsAreSound
  BY DEF DealsAreSound
<1> QED BY <1>1, AwardsAgree, ContractRowsAgree, PTL

\* A layout is served as it was published, the audit trail tells which metadata there
\* are, and circular dependencies are reported (MetadataSchemaRegistry, MetadataService,
\* VersionService, ImpactAnalysisService).
THEOREM MetadataKept == (LayoutSpec /\ MetaSpec /\ ScanSpec) => []MetadataIsKept
<1>1. (LayoutsAreServed /\ TrailTellsWhatThereIs /\ CyclesAreFound) => MetadataIsKept
  BY DEF MetadataIsKept
<1> QED BY <1>1, LayoutsServed, TrailTells, CirclesAreFound, PTL

=============================================================================
