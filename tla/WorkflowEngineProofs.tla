------------------------ MODULE WorkflowEngineProofs ------------------------
(***************************************************************************)
(* Proofs about WorkflowEngine, for every definition the schema accepts     *)
(* whose routes go forward: type correctness, that answered rows are never  *)
(* reopened, that the run never passes an approval nobody signed, that each *)
(* effect happens once, and that the engine implements ApprovalContract.    *)
(* The last three have a premise that the schema does not enforce.           *)
(***************************************************************************)
EXTENDS WorkflowEngine, FiniteSetTheorems, TLAPS

RowTable == [Index -> [Slots -> TaskStatus]]

(* Between two tables: no row disappears, and an answered one keeps its answer *)
Kept(old, new) ==
  \A k \in Index, s \in Slots :
    /\ old[k][s] # "none" => new[k][s] # "none"
    /\ old[k][s] \notin {"none", "pending"} => new[k][s] = old[k][s]

(* An escalation row exists only in place of an escalated one *)
EscalatedOnce(rows) ==
  \A k \in Index, u \in Users :
    rows[k][<<u, "escalation">>] # "none" => rows[k][<<u, "original">>] = "escalated"

-----------------------------------------------------------------------------
(* Operators *)

LEMMA StepFacts ==
  ASSUME NEW k \in Index
  PROVE  /\ k \in 0 .. NumSteps /\ k < NumSteps /\ NumSteps \in Nat
         /\ Step[k] \in StepRecord(k)
         /\ Step[k].approvers \subseteq Users
         /\ Step[k].required \in Nat
         /\ Step[k].role \in Roles \cup {NoRole}
  BY StepsAssumption DEF StepRecord, Index

(* Where a run resumes after step k is an index of the definition or its end *)
LEMMA ContinueType ==
  ASSUME NEW k \in Index
  PROVE  ContinueAfter(k) \in 0 .. NumSteps
<1>1. Step[k].next \in Target(k)
  BY StepFacts DEF StepRecord
<1>2. CASE Step[k].next # Absent
  BY <1>1, <1>2, StepFacts DEF ContinueAfter, Target, Absent, Index
<1>3. CASE Step[k].next = Absent
  BY <1>3, StepFacts DEF ContinueAfter, Clip, Index
<1> QED BY <1>2, <1>3

LEMMA SlotsFinite == IsFiniteSet(Slots)
<1>1. IsFiniteSet(Users)
  BY StepsAssumption
<1>2. {"original", "escalation"} = {"original"} \cup {"escalation"}
  OBVIOUS
<1>3. IsFiniteSet({"original"}) /\ IsFiniteSet({"escalation"})
  BY FS_Singleton
<1>4. IsFiniteSet({"original", "escalation"})
  BY <1>2, <1>3, FS_Union, Zenon
<1> QED BY <1>1, <1>4, FS_Product DEF Slots

(* A step that has its approvals keeps them, and keeps its rows *)
LEMMA KeptSatisfied ==
  ASSUME NEW old, NEW new, Kept(old, new), NEW k \in Index
  PROVE  /\ Satisfied(k, old) => Satisfied(k, new)
         /\ Rows(k, old) \subseteq Rows(k, new)
<1>1. Approvals(k, old) \subseteq Approvals(k, new)
  BY DEF Approvals, Kept
<1>2. Rows(k, old) \subseteq Rows(k, new)
  BY DEF Rows, Kept
<1>3. IsFiniteSet(Approvals(k, new)) /\ IsFiniteSet(Approvals(k, old))
  BY SlotsFinite, FS_Subset DEF Approvals
<1>4. Cardinality(Approvals(k, old)) <= Cardinality(Approvals(k, new))
  BY <1>1, <1>3, FS_Subset
<1>5. /\ Cardinality(Approvals(k, old)) \in Nat
      /\ Cardinality(Approvals(k, new)) \in Nat
  BY <1>3, FS_CardinalityType
<1>6. Step[k].required \in Nat
  BY StepFacts
<1> QED BY <1>2, <1>4, <1>5, <1>6 DEF Satisfied

LEMMA KeptTransitive ==
  ASSUME NEW a, NEW b, NEW c, Kept(a, b), Kept(b, c)
  PROVE  Kept(a, c)
  BY DEF Kept

LEMMA CancelKeeps ==
  ASSUME NEW rows \in RowTable, NEW S
  PROVE  Cancel(S, rows) \in RowTable /\ Kept(rows, Cancel(S, rows))
  BY DEF Cancel, RowTable, Kept, TaskStatus

LEMMA AnswerKeeps ==
  ASSUME NEW rows \in RowTable, NEW k \in Index, NEW s \in Slots,
         rows[k][s] = "pending", NEW answer \in {"approved", "rejected"}
  PROVE  /\ [rows EXCEPT ![k][s] = answer] \in RowTable
         /\ Kept(rows, [rows EXCEPT ![k][s] = answer])
  BY DEF RowTable, Kept, TaskStatus

(* Rows are opened only on steps that have none *)
LEMMA OpenKeeps ==
  ASSUME NEW rows \in RowTable, NEW stop \in 0 .. NumSteps, NEW drop
  PROVE  /\ Open(Opened(stop, rows, drop), rows, drop) \in RowTable
         /\ Kept(rows, Open(Opened(stop, rows, drop), rows, drop))
<1>1. ASSUME NEW k \in Index, NEW s \in Slots, k \in Opened(stop, rows, drop)
      PROVE  rows[k][s] = "none"
  <2>1. stop # NumSteps /\ Fresh(stop, rows)
    BY <1>1 DEF Opened
  <2>2. CASE InGroup(stop)
    <3>1. k \in Members(stop) /\ ~Activated(stop, rows)
      BY <1>1, <2>1, <2>2 DEF Opened, Signers, Fresh
    <3> QED BY <3>1 DEF Activated, Rows
  <2>3. CASE ~InGroup(stop)
    <3>1. k = stop /\ Rows(stop, rows) = {}
      BY <1>1, <2>1, <2>3 DEF Opened, Fresh
    <3> QED BY <3>1 DEF Rows
  <2> QED BY <2>2, <2>3
<1>2. Open(Opened(stop, rows, drop), rows, drop) \in RowTable
  BY DEF Open, RowTable, TaskStatus
<1> QED BY <1>1, <1>2 DEF Open, Kept, RowTable

(* What the loop of _run_from_step returns with *)
LEMMA RunFacts ==
  ASSUME NEW from \in 0 .. NumSteps, NEW rows, NEW drop, NEW run \in Runs(from, rows, drop)
  PROVE  /\ run.stop \in from .. NumSteps /\ run.path \subseteq from .. run.stop
         /\ run.path \subseteq 0 .. NumSteps
         /\ IsRun(run.path, from, run.stop, rows, drop)
<1> DEFINE passing == {k \in from .. NumSteps - 1 : Passes(k, rows, drop)}
<1>1. PICK P \in SUBSET passing, stop \in (from .. NumSteps) \ passing :
        run = [path |-> P \cup {stop}, stop |-> stop]
  <2> HIDE DEF passing
  <2> QED BY DEF Runs, passing
<1>2. IsRun(run.path, from, run.stop, rows, drop)
  BY DEF Runs
<1>3. run.path \subseteq from .. run.stop
  BY <1>2 DEF IsRun
<1> QED BY <1>1, <1>2, <1>3, StepsAssumption

-----------------------------------------------------------------------------
(* Type correctness *)

(* What a run of _run_from_step leaves is again well typed, and it only adds *)
(* to the history and opens rows where there was none                       *)
LEMMA RunType ==
  ASSUME TypeOK, NEW from \in 0 .. NumSteps, NEW rows \in RowTable, NEW drop,
         NEW done \in SUBSET Index, RunFrom(from, rows, drop, done)
  PROVE  /\ status' \in InstanceStatus /\ current' \in 0 .. NumSteps
         /\ task' \in RowTable /\ Kept(rows, task')
         /\ EscalatedOnce(rows) => EscalatedOnce(task')
         /\ waived' \subseteq Index /\ passed' \subseteq Index
         /\ hookRuns' \in Nat /\ fired' \in [Index -> 0 .. 2]
<1>1. PICK run \in Runs(from, rows, drop) :
        /\ status' = StatusAt(run.stop, rows, drop)
        /\ current' = run.stop
        /\ task' = Open(Opened(run.stop, rows, drop), rows, drop)
        /\ waived' = waived \cup {m \in Entered(run.path, run.stop, rows) :
                                    SignsOff(m) /\ SelfOnly(m, drop)}
        /\ passed' = passed \cup done \cup (run.path \ {run.stop})
        /\ hookRuns' = IF run.stop = NumSteps THEN hookRuns + 1 ELSE hookRuns
        /\ fired' = [m \in Index |->
             IF m \in Entered(run.path, run.stop, rows) /\ Fires(m) /\ fired[m] < 2
             THEN fired[m] + 1 ELSE fired[m]]
  BY DEF RunFrom
<1>2. /\ run.path \in SUBSET (0 .. NumSteps)
      /\ run.stop \in from .. NumSteps
      /\ IsRun(run.path, from, run.stop, rows, drop)
  BY <1>1, RunFacts
<1>3. run.stop \in 0 .. NumSteps
  BY <1>2, StepsAssumption
<1>4. run.path \ {run.stop} \subseteq Index
  BY <1>2, StepsAssumption DEF IsRun, Index
<1>5. Entered(run.path, run.stop, rows) \subseteq Index
  BY DEF Entered
<1>6. status' \in InstanceStatus
  BY <1>1 DEF StatusAt, InstanceStatus
<1>7. task' \in RowTable /\ Kept(rows, task')
  BY <1>1, <1>3, OpenKeeps
<1>8. fired' \in [Index -> 0 .. 2]
  BY <1>1 DEF TypeOK
<1>9. hookRuns' \in Nat
  BY <1>1 DEF TypeOK
<1>10. ASSUME EscalatedOnce(rows)  PROVE EscalatedOnce(task')
  <2>1. ASSUME NEW k \in Index, NEW u \in Users
        PROVE  task'[k][<<u, "escalation">>] = rows[k][<<u, "escalation">>]
    BY <1>1 DEF Open, Slots
  <2> QED BY <1>7, <1>10, <2>1 DEF EscalatedOnce, Kept, Slots
<1> QED BY <1>1, <1>3, <1>4, <1>5, <1>6, <1>7, <1>8, <1>9, <1>10 DEF TypeOK

(* One step of the engine: what every request does to the rows *)
StepInv == TypeOK /\ EscalatedOnce(task)

LEMMA InitStepInv == Init => StepInv
<1> SUFFICES ASSUME Init PROVE StepInv
  OBVIOUS
<1>1. task \in [Index -> [Slots -> TaskStatus]]
  BY DEF Init, NoRows, TaskStatus
<1>2. roster \in [Roles -> SUBSET Users]
  BY StepsAssumption DEF Init
<1>3. EscalatedOnce(task)
  BY DEF Init, NoRows, EscalatedOnce, Slots
<1>4. active \in BOOLEAN /\ verdict \in [Index -> BOOLEAN] /\ late \in BOOLEAN
  BY DEF Init
<1>5. status \in InstanceStatus /\ current \in 0 .. NumSteps /\ waived \subseteq Index /\ passed \subseteq Index
  BY StepsAssumption DEF Init, InstanceStatus
<1>6. hookRuns \in Nat /\ fired \in [Index -> 0 .. 2]
  BY DEF Init
<1> QED BY <1>1, <1>2, <1>3, <1>4, <1>5, <1>6 DEF StepInv, TypeOK

LEMMA ApproveKeeps ==
  ASSUME StepInv, NEW k \in Index, NEW s \in Slots, NEW a, Approve(k, s, a)
  PROVE  StepInv' /\ Kept(task, task')
<1> DEFINE rows == [task EXCEPT ![k][s] = "approved"]
           next == IF InGroup(k) THEN k ELSE ContinueAfter(k)
           done == IF InGroup(k) THEN {} ELSE {k}
<1>1. /\ task[k][s] = "pending"
      /\ UNCHANGED <<active, roster, verdict>>
      /\ late' \in BOOLEAN
  BY DEF Approve, Late, StepInv, TypeOK
<1>2. rows \in RowTable /\ Kept(task, rows)
  BY <1>1, AnswerKeeps DEF StepInv, TypeOK, RowTable
<1>3. EscalatedOnce(rows)
  BY <1>1 DEF StepInv, TypeOK, EscalatedOnce, Slots
<1>4. next \in 0 .. NumSteps /\ done \in SUBSET Index
  BY ContinueType, StepFacts
<1>5. CASE RunFrom(next, rows, {}, done)
  <2> HIDE DEF rows, next, done
  <2>1. /\ status' \in InstanceStatus /\ current' \in 0 .. NumSteps
        /\ task' \in RowTable /\ Kept(rows, task') /\ EscalatedOnce(task')
        /\ waived' \subseteq Index /\ passed' \subseteq Index
        /\ hookRuns' \in Nat /\ fired' \in [Index -> 0 .. 2]
    BY <1>2, <1>3, <1>4, <1>5, RunType DEF StepInv
  <2> QED BY <1>1, <1>2, <2>1, KeptTransitive DEF StepInv, TypeOK, RowTable
<1>6. CASE /\ task' = rows
           /\ UNCHANGED <<status, current, waived, passed, hookRuns, fired>>
  BY <1>1, <1>2, <1>3, <1>6 DEF StepInv, TypeOK, RowTable, EscalatedOnce
<1> QED BY <1>5, <1>6 DEF Approve

LEMMA RejectKeeps ==
  ASSUME StepInv, NEW k \in Index, NEW s \in Slots, NEW a, Reject(k, s, a)
  PROVE  StepInv' /\ Kept(task, task')
<1> DEFINE rows == [task EXCEPT ![k][s] = "rejected"]
           S == Here(k)
<1>1. rows \in RowTable /\ Kept(task, rows)
  BY AnswerKeeps DEF Reject, StepInv, TypeOK, RowTable
<1>2. Cancel(S, rows) \in RowTable /\ Kept(rows, Cancel(S, rows))
  BY <1>1, CancelKeeps
<1>3. task' = Cancel(S, rows) /\ status' = "rejected" /\ late' \in BOOLEAN
  BY DEF Reject, Late, StepInv, TypeOK
<1>4. EscalatedOnce(rows)
  BY DEF Reject, StepInv, TypeOK, EscalatedOnce, Slots
<1>5. EscalatedOnce(Cancel(S, rows))
  BY <1>1, <1>4 DEF Cancel, EscalatedOnce, Slots, RowTable
<1>6. Kept(task, task')
  BY <1>1, <1>2, <1>3, KeptTransitive
<1> HIDE DEF rows, S
<1> QED BY <1>2, <1>3, <1>5, <1>6 DEF Reject, StepInv, TypeOK, InstanceStatus, RowTable

LEMMA EscalateKeeps ==
  ASSUME StepInv, NEW D, EscalateOverdueTasks(D)
  PROVE  StepInv' /\ Kept(task, task')
<1>1. task' \in RowTable
  BY DEF EscalateOverdueTasks, StepInv, TypeOK, RowTable, TaskStatus
<1>2. ASSUME NEW k \in Index, NEW s \in Slots
      PROVE  /\ task[k][s] # "none" => task'[k][s] # "none"
             /\ task[k][s] \notin {"none", "pending"} => task'[k][s] = task[k][s]
  <2>1. CASE Overdue(k, s, D)
    BY <2>1 DEF EscalateOverdueTasks, Overdue
  <2>2. CASE s[2] = "escalation" /\ Overdue(k, <<s[1], "original">>, D)
    <3>1. PICK u \in Users : s = <<u, "escalation">>
      BY <2>2 DEF Slots
    <3>2. task[k][<<u, "original">>] = "pending"
      BY <2>2, <3>1 DEF Overdue
    <3> QED BY <2>2, <3>1, <3>2 DEF StepInv, EscalatedOnce
  <2> QED BY <2>1, <2>2 DEF EscalateOverdueTasks
<1>3. ASSUME NEW k \in Index, NEW u \in Users, task'[k][<<u, "escalation">>] # "none"
      PROVE  task'[k][<<u, "original">>] = "escalated"
  <2>1. <<u, "original">> \in Slots /\ <<u, "escalation">> \in Slots
    BY DEF Slots
  <2>2. CASE Overdue(k, <<u, "original">>, D)
    BY <2>1, <2>2 DEF EscalateOverdueTasks
  <2>3. CASE ~Overdue(k, <<u, "original">>, D)
    <3>1. task'[k][<<u, "escalation">>] = task[k][<<u, "escalation">>]
      BY <2>1, <2>3 DEF EscalateOverdueTasks, Overdue
    <3> QED BY <1>2, <1>3, <2>1, <3>1 DEF StepInv, EscalatedOnce
  <2> QED BY <2>2, <2>3
<1> QED BY <1>1, <1>2, <1>3
        DEF EscalateOverdueTasks, StepInv, TypeOK, Kept, EscalatedOnce, RowTable

LEMMA RetryKeeps ==
  ASSUME StepInv, RetryInstance
  PROVE  StepInv' /\ Kept(task, task')
<1> DEFINE rows == IF status = "blocked" THEN Cancel(Index, task) ELSE task
<1>1. rows \in RowTable /\ Kept(task, rows)
  BY CancelKeeps DEF StepInv, TypeOK, RowTable, Kept
<1>2. EscalatedOnce(rows)
  BY <1>1 DEF StepInv, TypeOK, EscalatedOnce, Cancel, Slots, RowTable
<1>3. current \in 0 .. NumSteps /\ RunFrom(current, rows, {}, {})
  BY DEF RetryInstance, StepInv, TypeOK
<1> HIDE DEF rows
<1>4. /\ status' \in InstanceStatus /\ current' \in 0 .. NumSteps
      /\ task' \in RowTable /\ Kept(rows, task') /\ EscalatedOnce(task')
      /\ waived' \subseteq Index /\ passed' \subseteq Index
      /\ hookRuns' \in Nat /\ fired' \in [Index -> 0 .. 2]
  BY <1>1, <1>2, <1>3, RunType DEF StepInv
<1>5. UNCHANGED <<active, roster, verdict, late>>
  BY DEF RetryInstance
<1> QED BY <1>1, <1>4, <1>5, KeptTransitive DEF StepInv, TypeOK, RowTable

LEMMA StartKeeps ==
  ASSUME StepInv, NEW drop, StartInstance(drop)
  PROVE  StepInv' /\ Kept(task, task')
<1>1. task \in RowTable /\ 0 \in 0 .. NumSteps /\ RunFrom(0, task, drop, {})
  BY StepsAssumption DEF StepInv, TypeOK, RowTable, StartInstance
<1>2. /\ status' \in InstanceStatus /\ current' \in 0 .. NumSteps
      /\ task' \in RowTable /\ Kept(task, task') /\ EscalatedOnce(task')
      /\ waived' \subseteq Index /\ passed' \subseteq Index
      /\ hookRuns' \in Nat /\ fired' \in [Index -> 0 .. 2]
  BY <1>1, RunType DEF StepInv
<1>3. UNCHANGED <<active, roster, verdict, late>>
  BY DEF StartInstance
<1> QED BY <1>2, <1>3 DEF StepInv, TypeOK, RowTable

LEMMA NextKeeps ==
  ASSUME StepInv, [Next]_vars
  PROVE  StepInv' /\ Kept(task, task')
<1>1. CASE \E p \in BOOLEAN : SetDefinitionStatus(p)
  BY <1>1 DEF SetDefinitionStatus, StepInv, TypeOK, Kept, instanceVars
<1>2. CASE \E r \in Roles, H \in Rosters : ChangeRoster(r, H)
  BY <1>2, StepsAssumption DEF ChangeRoster, StepInv, TypeOK, Kept, instanceVars
<1>3. CASE \E drop \in {{}, RequestedBy} : StartInstance(drop)
  BY <1>3, StartKeeps
<1>4. CASE \E k \in Index, s \in Slots, a \in Users : Approve(k, s, a)
  BY <1>4, ApproveKeeps
<1>5. CASE \E k \in Index, s \in Slots, a \in Users : Reject(k, s, a)
  BY <1>5, RejectKeeps
<1>6. CASE \E k \in Index, s \in Slots, a \in Users : AdminRemoveTask(k, s, a)
  BY <1>6, ApproveKeeps DEF AdminRemoveTask
<1>7. CASE \E D \in SUBSET Index : EscalateOverdueTasks(D)
  BY <1>7, EscalateKeeps
<1>8. CASE RetryInstance
  BY <1>8, RetryKeeps
<1>9. CASE UNCHANGED vars
  BY <1>9 DEF vars, instanceVars, StepInv, TypeOK, Kept, EscalatedOnce
<1> QED BY <1>1, <1>2, <1>3, <1>4, <1>5, <1>6, <1>7, <1>8, <1>9 DEF Next

(* The variables of the engine keep their domains, for every definition.    *)
THEOREM TypeCorrect == Spec => []TypeOK
<1>1. Init => StepInv
  BY InitStepInv
<1>2. StepInv /\ [Next]_vars => StepInv'
  BY NextKeeps
<1>3. StepInv => TypeOK
  BY DEF StepInv
<1> QED BY <1>1, <1>2, <1>3, PTL DEF Spec

(* No request reopens or changes a task row that was answered, escalated or  *)
(* cancelled (complete_task, the sweep, retry and the runs they start).      *)
THEOREM DecisionsStand == Spec => DecisionsAreFinal
<1>1. Init => StepInv
  BY InitStepInv
<1>2. StepInv /\ [Next]_vars => StepInv'
  BY NextKeeps
<1>3. StepInv /\ [Next]_vars =>
        [\A k \in Index, s \in Slots :
           task[k][s] \notin {"none", "pending"} => task'[k][s] = task[k][s]]_vars
  BY NextKeeps DEF Kept
<1> QED BY <1>1, <1>2, <1>3, PTL DEF Spec, DecisionsAreFinal

-----------------------------------------------------------------------------
(* No silent approval *)

(* Once a group has rows, every approval in it has rows or was waived *)
GroupsOpened(rows, wv) ==
  \A k \in Index : InGroup(k) /\ Activated(k, rows) =>
    \A m \in Signers(k) : Rows(m, rows) # {} \/ m \in wv

LEMMA GateIndex == ASSUME NEW k \in Index PROVE Gate(k) \subseteq Index
  BY DEF Gate, Signers, Members

(* Passing a step means that its approvals are there, or nobody else could   *)
(* have given them                                                           *)
LEMMA PassingSigned ==
  ASSUME NEW k \in Index, NEW rows, NEW drop, NEW wv, Passes(k, rows, drop),
         GroupsOpened(rows, wv), NEW m \in Gate(k)
  PROVE  Satisfied(m, rows) \/ m \in wv \/ (Fresh(k, rows) /\ SelfOnly(m, drop))
<1>1. CASE InGroup(k)
  <2>1. m \in Signers(k) /\ m \in Members(k) /\ m \in Index
    BY <1>1 DEF Gate, Signers, Members
  <2>2. CASE Activated(k, rows)
    BY <1>1, <2>1, <2>2 DEF Passes, GroupComplete, GroupsOpened
  <2>3. CASE ~Activated(k, rows)
    BY <1>1, <2>1, <2>3 DEF Passes, Fresh
  <2> QED BY <2>2, <2>3
<1>2. CASE ~InGroup(k)
  BY <1>2 DEF Gate, Passes, Fresh
<1> QED BY <1>1, <1>2

(* What is already signed stays so when rows are kept and waivers only grow *)
SignedIn(ps, rows, wv) ==
  \A k \in ps : \A m \in Gate(k) : Satisfied(m, rows) \/ m \in wv

LEMMA SignedKept ==
  ASSUME NEW old, NEW new, Kept(old, new), NEW wv, NEW more, wv \subseteq more,
         NEW ps \in SUBSET Index, SignedIn(ps, old, wv)
  PROVE  SignedIn(ps, new, more)
  BY KeptSatisfied, GateIndex DEF SignedIn

LEMMA SameGroup ==
  ASSUME NEW k \in Index, NEW m \in Members(k)
  PROVE  /\ m \in Index
         /\ InGroup(m) <=> InGroup(k)
         /\ Members(m) = Members(k)
         /\ Signers(m) = Signers(k)
  BY DEF Members, InGroup, Signers

(* A run that starts from signed-off steps ends with signed-off steps *)
LEMMA RunSigned ==
  ASSUME ResolvableBranches, TypeOK, SignedIn(passed, task, waived),
         NEW from \in 0 .. NumSteps, NEW rows \in RowTable, Kept(task, rows),
         GroupsOpened(rows, waived),
         NEW drop \in {{}, RequestedBy}, NEW done \in SUBSET Index,
         SignedIn(done, rows, waived),
         RunFrom(from, rows, drop, done)
  PROVE  SignedIn(passed', task', waived') /\ GroupsOpened(task', waived')
<1>1. PICK run \in Runs(from, rows, drop) :
        /\ task' = Open(Opened(run.stop, rows, drop), rows, drop)
        /\ waived' = waived \cup {m \in Entered(run.path, run.stop, rows) :
                                    SignsOff(m) /\ SelfOnly(m, drop)}
        /\ passed' = passed \cup done \cup (run.path \ {run.stop})
  BY DEF RunFrom
<1> DEFINE path == run.path
           stop == run.stop
<1>2. /\ path \in SUBSET (0 .. NumSteps)
      /\ stop \in from .. NumSteps
      /\ IsRun(path, from, stop, rows, drop)
  BY <1>1, RunFacts
<1>3. stop \in 0 .. NumSteps /\ stop \in path
  BY <1>2, StepsAssumption DEF IsRun
<1>4. path \ {stop} \subseteq Index /\ path \ {NumSteps} \subseteq Index
  BY <1>2, StepsAssumption DEF IsRun, Index
<1>5. Kept(rows, task') /\ Kept(task, task')
  BY <1>1, <1>3, OpenKeeps, KeptTransitive
<1>6. passed \in SUBSET Index /\ waived \subseteq waived'
  BY <1>1 DEF TypeOK
<1>7. SignedIn(passed, task', waived') /\ SignedIn(done, task', waived')
  BY <1>5, <1>6, SignedKept
<1>8. SignedIn(path \ {stop}, task', waived')
  <2>1. SUFFICES ASSUME NEW k \in path \ {stop}, NEW m \in Gate(k)
                 PROVE  Satisfied(m, task') \/ m \in waived'
    BY DEF SignedIn
  <2>2. k \in Index /\ m \in Index /\ SignsOff(m) /\ Passes(k, rows, drop)
    BY <1>2, <1>4, <2>1, GateIndex DEF IsRun, Gate, Signers
  <2>3. Satisfied(m, rows) \/ m \in waived \/ (Fresh(k, rows) /\ SelfOnly(m, drop))
    BY <2>1, <2>2, PassingSigned
  <2>4. Satisfied(m, rows) => Satisfied(m, task')
    BY <1>5, <2>2, KeptSatisfied
  <2>5. ASSUME Fresh(k, rows), SelfOnly(m, drop)  PROVE m \in waived'
    <3>1. k \in path \ {NumSteps} /\ k # stop
      BY <2>1, <2>2, StepFacts
    <3>2. InGroup(k) => m \in Members(k)
      BY <2>1 DEF Gate, Signers
    <3>3. ~InGroup(k) => m = k
      BY <2>1 DEF Gate
    <3>4. m \in Entered(path, stop, rows)
      BY <2>2, <2>5, <3>1, <3>2, <3>3 DEF Entered
    <3> QED BY <1>1, <2>2, <2>5, <3>4
  <2> QED BY <1>6, <2>3, <2>4, <2>5
<1>9. SignedIn(passed', task', waived')
  BY <1>1, <1>7, <1>8 DEF SignedIn
<1>10. ASSUME NEW k \in Index, InGroup(k), Activated(k, task'), NEW m \in Signers(k)
       PROVE  Rows(m, task') # {} \/ m \in waived'
  <2>1. m \in Index /\ m \in Members(k) /\ SignsOff(m)
    BY <1>10 DEF Signers, Members
  <2>2. CASE Activated(k, rows)
    <3>1. Rows(m, rows) # {} \/ m \in waived
      BY <1>10, <2>2 DEF GroupsOpened
    <3> QED BY <1>5, <1>6, <2>1, <3>1, KeptSatisfied
  <2>3. CASE ~Activated(k, rows)
    <3>1. PICK o \in Members(k), s \in Slots : task'[o][s] # "none"
      BY <1>10 DEF Activated, Rows
    <3>2. rows[o][s] = "none"
      BY <2>3, <3>1 DEF Activated, Rows
    <3>3. o \in Index /\ InGroup(o) /\ Members(o) = Members(k)
      BY <1>10, <3>1, SameGroup
    <3>4. o \in Opened(stop, rows, drop)
      BY <1>1, <3>1, <3>2, <3>3 DEF Open
    <3>5. stop # NumSteps /\ Fresh(stop, rows) /\ stop \in Index
      BY <1>3, <1>4, <3>4 DEF Opened
    <3>6. InGroup(stop) /\ o \in Signers(stop)
      BY <3>3, <3>4, <3>5 DEF Opened
    <3>7. Members(stop) = Members(k) /\ Signers(stop) = Signers(k)
      BY <3>1, <3>5, <3>6, <1>10, SameGroup DEF Signers
    <3>8. Step[m].type = "approval" /\ Step[m].approvers \ RequestedBy # {}
      <4>1. InGroup(m)
        BY <1>10, <2>1, SameGroup
      <4>2. Step[m].type \in {"approval", "notification", "auto"}
        BY <2>1, <4>1, SchemaAssumption
      <4>3. Step[m].type = "approval"
        BY <2>1, <4>2 DEF SignsOff
      <4> QED BY <2>1, <4>1, <4>3 DEF ResolvableBranches
    <3>9. Candidates(m, drop) # {} /\ Candidates(m, drop) \subseteq Users
      BY <2>1, <3>8, StepFacts DEF Candidates, Explicit
    <3>10. CASE Assignees(m, drop) # {}
      <4>1. PICK u \in Users : u \in Assignees(m, drop)
        BY <3>9, <3>10 DEF Assignees
      <4>2. m \in Opened(stop, rows, drop)
        BY <1>10, <3>5, <3>6, <3>7, <3>10 DEF Opened
      <4>3. <<u, "original">> \in Slots
        BY DEF Slots
      <4>4. task'[m][<<u, "original">>] = "pending"
        BY <1>1, <2>1, <4>1, <4>2, <4>3 DEF Open
      <4> QED BY <4>3, <4>4 DEF Rows
    <3>11. CASE Assignees(m, drop) = {}
      <4>1. SelfOnly(m, drop)
        BY <3>9, <3>11 DEF SelfOnly
      <4>2. m \in Entered(path, stop, rows)
        BY <1>3, <2>1, <3>5, <3>6, <3>7 DEF Entered
      <4> QED BY <1>1, <2>1, <4>1, <4>2
    <3> QED BY <3>10, <3>11
  <2> QED BY <2>2, <2>3
<1> QED BY <1>9, <1>10 DEF GroupsOpened

SignOffInvariant == StepInv /\ SignedIn(passed, task, waived) /\ GroupsOpened(task, waived)

LEMMA KeptGroups ==
  ASSUME NEW old, NEW new, Kept(old, new), NEW wv, GroupsOpened(old, wv),
         \A k \in Index : Rows(k, old) = {} => Rows(k, new) = {}
  PROVE  GroupsOpened(new, wv)
<1> SUFFICES ASSUME NEW k \in Index, InGroup(k), Activated(k, new), NEW m \in Signers(k)
             PROVE  Rows(m, new) # {} \/ m \in wv
  BY DEF GroupsOpened
<1>1. m \in Index
  BY DEF Signers, Members
<1>2. Activated(k, old)
  BY SameGroup DEF Activated
<1>3. Rows(m, old) # {} \/ m \in wv
  BY <1>2 DEF GroupsOpened
<1> QED BY <1>1, <1>3, KeptSatisfied

(* Answering, cancelling and escalating rows opens no step *)
LEMMA AnswerOpensNothing ==
  ASSUME NEW rows \in RowTable, NEW k \in Index, NEW s \in Slots, rows[k][s] = "pending",
         NEW answer, NEW S
  PROVE  LET answered == [rows EXCEPT ![k][s] = answer]
         IN  \A j \in Index :
               /\ Rows(j, rows) = {} => Rows(j, answered) = {}
               /\ Rows(j, rows) = {} => Rows(j, Cancel(S, answered)) = {}
  BY DEF Rows, RowTable, Cancel

LEMMA InitSigned == Init => SignOffInvariant
<1> SUFFICES ASSUME Init PROVE SignOffInvariant
  OBVIOUS
<1>1. SignedIn(passed, task, waived)
  BY DEF Init, SignedIn
<1>2. \A k \in Index : Rows(k, task) = {}
  BY DEF Init, NoRows, Rows
<1>3. GroupsOpened(task, waived)
  BY <1>2, SameGroup DEF GroupsOpened, Activated
<1> QED BY <1>1, <1>3, InitStepInv DEF SignOffInvariant

LEMMA ApproveSigned ==
  ASSUME ResolvableBranches, SignOffInvariant,
         NEW k \in Index, NEW s \in Slots, NEW a, Approve(k, s, a)
  PROVE  SignedIn(passed', task', waived') /\ GroupsOpened(task', waived')
<1> DEFINE rows == [task EXCEPT ![k][s] = "approved"]
           next == IF InGroup(k) THEN k ELSE ContinueAfter(k)
           done == IF InGroup(k) THEN {} ELSE {k}
<1>1. task[k][s] = "pending" /\ task \in RowTable
  BY DEF Approve, SignOffInvariant, StepInv, TypeOK, RowTable
<1>2. rows \in RowTable /\ Kept(task, rows)
  BY <1>1, AnswerKeeps
<1>3. GroupsOpened(rows, waived)
  BY <1>1, <1>2, AnswerOpensNothing, KeptGroups DEF SignOffInvariant
<1>4. next \in 0 .. NumSteps /\ done \in SUBSET Index
  BY ContinueType, StepFacts
<1>5. CASE Satisfied(k, rows) /\ RunFrom(next, rows, {}, done)
  <2>1. SignedIn(done, rows, waived)
    BY <1>5 DEF SignedIn, Gate
  <2> HIDE DEF rows, next, done
  <2> QED BY <1>2, <1>3, <1>4, <1>5, <2>1, RunSigned DEF SignOffInvariant, StepInv
<1>6. CASE task' = rows /\ UNCHANGED <<waived, passed>>
  <2>1. passed \in SUBSET Index
    BY DEF SignOffInvariant, StepInv, TypeOK
  <2>2. SignedIn(passed, rows, waived)
    BY <1>2, <2>1, SignedKept DEF SignOffInvariant
  <2> QED BY <1>3, <1>6, <2>2
<1> QED BY <1>5, <1>6 DEF Approve

LEMMA RejectSigned ==
  ASSUME SignOffInvariant, NEW k \in Index, NEW s \in Slots, NEW a, Reject(k, s, a)
  PROVE  SignedIn(passed', task', waived') /\ GroupsOpened(task', waived')
<1>1. task[k][s] = "pending" /\ task \in RowTable /\ passed \in SUBSET Index
  BY DEF Reject, SignOffInvariant, StepInv, TypeOK, RowTable
<1>2. \A j \in Index : Rows(j, task) = {} => Rows(j, task') = {}
  BY <1>1, AnswerOpensNothing DEF Reject
<1>3. Kept(task, task') /\ waived' = waived /\ passed' = passed
  BY RejectKeeps DEF Reject, SignOffInvariant
<1> QED BY <1>1, <1>2, <1>3, KeptGroups, SignedKept DEF SignOffInvariant

LEMMA EscalateSigned ==
  ASSUME SignOffInvariant, NEW D, EscalateOverdueTasks(D)
  PROVE  SignedIn(passed', task', waived') /\ GroupsOpened(task', waived')
<1>1. passed \in SUBSET Index
  BY DEF SignOffInvariant, StepInv, TypeOK
<1>2. ASSUME NEW j \in Index, NEW s \in Slots, task'[j][s] # "none"
      PROVE  \E t \in Slots : task[j][t] # "none"
  <2>1. CASE s[2] = "escalation" /\ Overdue(j, <<s[1], "original">>, D)
    <3>1. <<s[1], "original">> \in Slots
      BY DEF Slots
    <3> QED BY <2>1, <3>1 DEF Overdue
  <2>2. CASE ~(s[2] = "escalation" /\ Overdue(j, <<s[1], "original">>, D))
    <3>1. task[j][s] # "none"
      BY <1>2, <2>2 DEF EscalateOverdueTasks, Overdue
    <3> QED BY <3>1
  <2> QED BY <2>1, <2>2
<1>3. \A j \in Index : Rows(j, task) = {} => Rows(j, task') = {}
  BY <1>2 DEF Rows
<1>4. Kept(task, task') /\ waived' = waived /\ passed' = passed
  BY EscalateKeeps DEF EscalateOverdueTasks, SignOffInvariant
<1> QED BY <1>1, <1>3, <1>4, KeptGroups, SignedKept DEF SignOffInvariant

LEMMA RetrySigned ==
  ASSUME ResolvableBranches, SignOffInvariant, RetryInstance
  PROVE  SignedIn(passed', task', waived') /\ GroupsOpened(task', waived')
<1> DEFINE rows == IF status = "blocked" THEN Cancel(Index, task) ELSE task
<1>1. rows \in RowTable /\ Kept(task, rows)
  BY CancelKeeps DEF SignOffInvariant, StepInv, TypeOK, RowTable, Kept
<1>2. \A j \in Index : Rows(j, task) = {} => Rows(j, rows) = {}
  BY DEF Rows, Cancel
<1>3. GroupsOpened(rows, waived)
  BY <1>1, <1>2, KeptGroups DEF SignOffInvariant
<1>4. current \in 0 .. NumSteps /\ RunFrom(current, rows, {}, {})
  BY DEF RetryInstance, SignOffInvariant, StepInv, TypeOK
<1>5. SignedIn({}, rows, waived)
  BY DEF SignedIn
<1> HIDE DEF rows
<1> QED BY <1>1, <1>3, <1>4, <1>5, RunSigned DEF SignOffInvariant, StepInv

LEMMA StartSigned ==
  ASSUME ResolvableBranches, SignOffInvariant,
         NEW drop \in {{}, RequestedBy}, StartInstance(drop)
  PROVE  SignedIn(passed', task', waived') /\ GroupsOpened(task', waived')
<1>1. task \in RowTable /\ Kept(task, task)
  BY DEF SignOffInvariant, StepInv, TypeOK, RowTable, Kept
<1>2. 0 \in 0 .. NumSteps /\ RunFrom(0, task, drop, {})
  BY StepsAssumption DEF StartInstance
<1>3. SignedIn({}, task, waived)
  BY DEF SignedIn
<1> QED BY <1>1, <1>2, <1>3, RunSigned DEF SignOffInvariant, StepInv

(* The context snapshot, and with it every gate, never changes *)
LEMMA VerdictFixed == ASSUME [Next]_vars PROVE verdict' = verdict
  BY DEF Next, vars, SetDefinitionStatus, ChangeRoster, StartInstance, Approve, Reject,
         AdminRemoveTask, EscalateOverdueTasks, RetryInstance

LEMMA NextSigned ==
  ASSUME ResolvableBranches, SignOffInvariant, [Next]_vars
  PROVE  SignOffInvariant'
<1>1. StepInv'
  BY NextKeeps DEF SignOffInvariant
<1>2. SignedIn(passed', task', waived') /\ GroupsOpened(task', waived')
  <2>1. CASE UNCHANGED <<task, waived, passed>>
    BY <2>1 DEF SignOffInvariant
  <2>2. CASE \E p \in BOOLEAN : SetDefinitionStatus(p)
    BY <2>1, <2>2 DEF SetDefinitionStatus, instanceVars
  <2>3. CASE \E r \in Roles, H \in Rosters : ChangeRoster(r, H)
    BY <2>1, <2>3 DEF ChangeRoster, instanceVars
  <2>4. CASE \E drop \in {{}, RequestedBy} : StartInstance(drop)
    BY <2>4, StartSigned
  <2>5. CASE \E k \in Index, s \in Slots, a \in Users : Approve(k, s, a)
    BY <2>5, ApproveSigned
  <2>6. CASE \E k \in Index, s \in Slots, a \in Users : Reject(k, s, a)
    BY <2>6, RejectSigned
  <2>7. CASE \E k \in Index, s \in Slots, a \in Users : AdminRemoveTask(k, s, a)
    BY <2>7, ApproveSigned DEF AdminRemoveTask
  <2>8. CASE \E D \in SUBSET Index : EscalateOverdueTasks(D)
    BY <2>8, EscalateSigned
  <2>9. CASE RetryInstance
    BY <2>9, RetrySigned
  <2>10. CASE UNCHANGED vars
    BY <2>1, <2>10 DEF vars, instanceVars
  <2> QED BY <2>2, <2>3, <2>4, <2>5, <2>6, <2>7, <2>8, <2>9, <2>10 DEF Next
<1>3. SignedIn(passed, task, waived)' /\ GroupsOpened(task, waived)'
  BY <1>2, VerdictFixed DEF SignedIn, GroupsOpened, Gate, Signers, SignsOff,
     Members, InGroup, Satisfied, Approvals, Rows, Activated
<1> QED BY <1>1, <1>3 DEF SignOffInvariant

(* If every approval in a parallel group names an approver other than the    *)
(* requester, the engine never goes past an approval that was not given: the  *)
(* "silent auto-approval" that the blocked status of _run_from_step is for.  *)
THEOREM NoSilentApproval ==
  ASSUME ResolvableBranches
  PROVE  Spec => []PassedIsSignedOff
<1>1. Init => SignOffInvariant
  BY InitSigned
<1>2. SignOffInvariant /\ [Next]_vars => SignOffInvariant'
  BY NextSigned
<1>3. SignOffInvariant => PassedIsSignedOff
  BY DEF SignOffInvariant, SignedIn, PassedIsSignedOff
<1> QED BY <1>1, <1>2, <1>3, PTL DEF Spec

-----------------------------------------------------------------------------
(* Effects once, and the contract *)

LEMMA HereFacts ==
  ASSUME NEW c \in 0 .. NumSteps
  PROVE  /\ Here(c) \subseteq Index
         /\ c # NumSteps => c \in Index /\ c \in Here(c)
         /\ \A m \in Here(c) : Here(m) = Here(c) /\ (InGroup(m) <=> InGroup(c))
<1>1. CASE c = NumSteps
  BY <1>1, StepsAssumption DEF Here, Index
<1>2. CASE c # NumSteps
  <2>1. c \in Index
    BY <1>2, StepsAssumption DEF Index
  <2>2. CASE InGroup(c)
    <3>1. Here(c) = Members(c) /\ c \in Members(c)
      BY <1>2, <2>1, <2>2 DEF Here, Members
    <3>2. \A m \in Members(c) : m \in Index /\ m # NumSteps /\ InGroup(m) /\ Members(m) = Members(c)
      BY <2>1, <2>2, SameGroup, StepFacts
    <3> QED BY <2>1, <2>2, <3>1, <3>2 DEF Here
  <2>3. CASE ~InGroup(c)
    BY <1>2, <2>1, <2>3 DEF Here
  <2> QED BY <2>2, <2>3
<1> QED BY <1>1, <1>2

(* A set of step indices has a greatest one *)
LEMMA GreatestOf ==
  ASSUME NEW S \in SUBSET Index, S # {}
  PROVE  Greatest(S) \in S /\ \A x \in S : x <= Greatest(S)
<1> DEFINE T == {NumSteps - x : x \in S}
<1>1. T \subseteq Nat /\ T # {}
  <2>1. \A x \in S : NumSteps - x \in Nat
    BY StepsAssumption DEF Index
  <2> QED BY <2>1
<1>2. PICK t \in T : \A y \in T : ~(<<y, t>> \in OpToRel(<, Nat))
  <2> HIDE DEF T
  <2> QED BY <1>1, NatLessThanWellFounded, WFMin
<1>3. \A y \in T : ~(y < t)
  BY <1>1, <1>2 DEF OpToRel
<1>4. PICK x \in S : t = NumSteps - x
  BY <1>2
<1>5. \A y \in S : y <= x
  <2>1. ASSUME NEW y \in S PROVE y <= x
    <3>1. ~(NumSteps - y < NumSteps - x)
      BY <1>3, <1>4
    <3> QED BY <3>1, <1>4, StepsAssumption DEF Index
  <2> QED BY <2>1
<1> QED BY <1>4, <1>5 DEF Greatest

(* Routes go forward, past the whole of a group *)
LEMMA SuccessorAhead ==
  ASSUME NEW k \in Index
  PROVE  /\ Successor(k) \in 1 .. NumSteps
         /\ \A m \in Here(k) : m < Successor(k)
         /\ \A m \in Here(k) : InGroup(k) => Successor(m) = Successor(k)
<1>1. CASE InGroup(k)
  <2>1. Here(k) = Members(k) /\ Members(k) \subseteq Index /\ k \in Members(k)
    BY <1>1, StepFacts DEF Here, Members
  <2>2. \A m \in Members(k) : InGroup(m) /\ Members(m) = Members(k) /\ Step[m].groupNext = Step[k].groupNext
    BY <1>1, SameGroup, SchemaAssumption
  <2>3. CASE Step[k].groupNext # Absent
    <3>1. Successor(k) = Step[k].groupNext
      BY <1>1, <2>3 DEF Successor
    <3>2. \A m \in Members(k) : Step[k].groupNext > m
      BY <1>1, <2>3, SchemaAssumption
    <3>3. Step[k].groupNext \in Target(k)
      BY StepFacts DEF StepRecord
    <3>4. \A m \in Members(k) : Successor(m) = Successor(k)
      BY <1>1, <2>2, <2>3, <3>1 DEF Successor
    <3> QED BY <2>1, <2>3, <3>1, <3>2, <3>3, <3>4, StepFacts DEF Target, Index
  <2>4. CASE Step[k].groupNext = Absent
    <3>1. Successor(k) = Greatest(Members(k)) + 1
      BY <1>1, <2>4 DEF Successor
    <3>2. Greatest(Members(k)) \in Members(k) /\ \A x \in Members(k) : x <= Greatest(Members(k))
      BY <2>1, GreatestOf
    <3>3. \A m \in Members(k) : Successor(m) = Successor(k)
      BY <1>1, <2>2, <2>4, <3>1 DEF Successor
    <3>4. Greatest(Members(k)) \in Index
      BY <2>1, <3>2
    <3>5. \A m \in Members(k) : m \in Int /\ m < Successor(k)
      BY <2>1, <3>1, <3>2, <3>4 DEF Index
    <3> QED BY <2>1, <3>1, <3>3, <3>4, <3>5, StepsAssumption DEF Index
  <2> QED BY <2>3, <2>4
<1>2. CASE ~InGroup(k)
  <2>1. Here(k) = {k}
    BY <1>2, StepFacts DEF Here
  <2>2. Step[k].next \in Target(k) /\ Step[k].onTrue \in Target(k) /\ Step[k].onFalse \in Target(k)
    BY StepFacts DEF StepRecord
  <2>3. CASE Step[k].type = "condition"
    BY <1>2, <2>1, <2>2, <2>3, StepsAssumption DEF Successor, Target, Absent, Index
  <2>4. CASE Step[k].type # "condition"
    <3>1. Successor(k) = ContinueAfter(k)
      BY <1>2, <2>4 DEF Successor
    <3>2. CASE Step[k].next # Absent
      BY <1>2, <2>1, <2>2, <3>1, <3>2, StepsAssumption DEF ContinueAfter, Target, Absent, Index
    <3>3. CASE Step[k].next = Absent
      BY <1>2, <2>1, <3>1, <3>3, StepsAssumption DEF ContinueAfter, Clip, Index
    <3> QED BY <3>2, <3>3
  <2> QED BY <2>3, <2>4
<1> QED BY <1>1, <1>2

(* The places of a run lie one after the other *)
LEMMA PlaceFacts ==
  ASSUME NEW c \in Index
  PROVE  /\ c \in Nat /\ c \in Here(c) /\ Here(c) \subseteq Index
         /\ Successor(c) \in Nat /\ c < Successor(c)
         /\ \A m \in Here(c) : /\ m \in Nat /\ m < Successor(c)
                               /\ Here(m) = Here(c) /\ Successor(m) = Successor(c)
                               /\ InGroup(m) <=> InGroup(c)
<1>1. c \in 0 .. NumSteps /\ c # NumSteps /\ c \in Nat
  BY StepFacts DEF Index
<1>2. /\ c \in Here(c) /\ Here(c) \subseteq Index
      /\ \A m \in Here(c) : Here(m) = Here(c) /\ (InGroup(m) <=> InGroup(c))
  BY <1>1, HereFacts
<1>3. Successor(c) \in Nat /\ \A m \in Here(c) : m < Successor(c)
  BY SuccessorAhead
<1>4. \A m \in Here(c) : Successor(m) = Successor(c)
  <2>1. CASE InGroup(c)
    BY <2>1, SuccessorAhead
  <2>2. CASE ~InGroup(c)
    BY <1>1, <2>2 DEF Here
  <2> QED BY <2>1, <2>2
<1> QED BY <1>1, <1>2, <1>3, <1>4 DEF Index


(* Where a run may start from: the place it stopped at, or one further on *)
ResumesAt(from, c) == c \in Index /\ (from \in Here(c) \/ from >= Successor(c))

(* The loop only goes forward: whatever it visits is where it resumed or lies *)
(* beyond it.                                                               *)
LEMMA RunAhead ==
  ASSUME NEW rows, NEW drop, NEW from \in 0 .. NumSteps, NEW run \in Runs(from, rows, drop),
         NEW c \in Index, ResumesAt(from, c)
  PROVE  /\ \A k \in run.path : k \in Here(c) \/ k >= Successor(c)
         /\ run.stop \in Here(c) \/ run.stop >= Successor(c)
<1> DEFINE path == run.path
           stop == run.stop
<1>1. /\ stop \in from .. NumSteps /\ path \subseteq from .. stop
      /\ from \in path /\ stop \in path /\ path \subseteq 0 .. NumSteps
      /\ \A k \in path \ {stop} : Successor(k) \in path /\ \A j \in path : j > k => j >= Successor(k)
  BY RunFacts DEF IsRun
<1> HIDE DEF path, stop
<1>2. ASSUME NEW k \in path PROVE k \in Here(c) \/ k >= Successor(c)
  <2>1. CASE k = from
    BY <2>1 DEF ResumesAt
  <2>2. CASE k # from
    <3>1. from # stop /\ k > from /\ from \in Index /\ k \in Nat
      BY <1>1, <2>2, StepsAssumption DEF Index
    <3>2. k >= Successor(from)
      BY <1>1, <3>1
    <3>3. Successor(from) \in Nat /\ from < Successor(from) /\ Successor(c) \in Nat /\ from \in Nat
      BY <3>1, PlaceFacts
    <3>4. CASE from \in Here(c)
      BY <3>2, <3>4, PlaceFacts
    <3>5. CASE from >= Successor(c)
      BY <3>1, <3>2, <3>3, <3>5
    <3> QED BY <3>4, <3>5 DEF ResumesAt
  <2> QED BY <2>1, <2>2
<1> QED BY <1>1, <1>2 DEF path, stop

(* Step m has had its effect, and a run that resumes at c does not come back *)
SpentAt(m, c, rows) ==
  /\ \A x \in Here(m) : x < Successor(c)
  /\ m \in Here(c) => InGroup(c) /\ Activated(c, rows)

FiredOnce(times, c, rows) ==
  \A m \in Index : times[m] > 0 => times[m] = 1 /\ (c # NumSteps => SpentAt(m, c, rows))

LEMMA RunFiresOnce ==
  ASSUME TypeOK, NEW drop, NEW done, NEW rows, NEW from \in 0 .. NumSteps,
         \A m \in Index : fired[m] > 0 =>
           fired[m] = 1 /\ ResumesAt(from, current) /\ SpentAt(m, current, rows),
         RunFrom(from, rows, drop, done),
         Kept(rows, task'),
         current' # NumSteps /\ InGroup(current') => Activated(current', task')
  PROVE  FiredOnce(fired', current', task')
<1>1. PICK run \in Runs(from, rows, drop) :
        /\ current' = run.stop
        /\ fired' = [m \in Index |->
             IF m \in Entered(run.path, run.stop, rows) /\ Fires(m) /\ fired[m] < 2
             THEN fired[m] + 1 ELSE fired[m]]
  BY DEF RunFrom
<1> DEFINE path == run.path
           stop == run.stop
<1>2. /\ stop \in from .. NumSteps /\ path \subseteq from .. stop
      /\ from \in path /\ stop \in path
      /\ \A k \in path \ {stop} : Successor(k) \in path /\ \A j \in path : j > k => j >= Successor(k)
  BY <1>1, RunFacts DEF IsRun
<1>3. stop \in 0 .. NumSteps /\ path \subseteq 0 .. NumSteps /\ from \in Nat
  BY <1>2, StepsAssumption
<1> HIDE DEF path, stop
<1>4. ASSUME NEW k \in path, k # stop
      PROVE  k \in Index /\ Successor(k) <= stop /\ stop > k
  <2>1. stop > k /\ k \in Index
    BY <1>2, <1>3, <1>4, StepsAssumption DEF Index
  <2> QED BY <1>2, <1>3, <1>4, <2>1
<1>6. ASSUME NEW m \in Entered(path, stop, rows), stop # NumSteps
      PROVE  SpentAt(m, stop, task')
  <2>0. stop \in Index
    BY <1>3, <1>6, StepsAssumption DEF Index
  <2>1. PICK k \in path \ {NumSteps} : (InGroup(k) /\ m \in Members(k)) \/ (~InGroup(k) /\ m = k /\ k # stop)
    BY DEF Entered
  <2>2. k \in Index /\ m \in Index /\ m \in Here(k) /\ Here(m) = Here(k)
    <3>1. k \in Index /\ m \in Index
      BY <1>3, <2>1, StepsAssumption DEF Entered, Index
    <3>2. m \in Here(k)
      BY <2>1, <3>1 DEF Here
    <3> QED BY <3>1, <3>2, PlaceFacts
  <2>3. CASE k = stop
    <3>1. InGroup(stop) /\ Here(m) = Here(stop)
      BY <2>1, <2>2, <2>3
    <3> QED BY <1>1, <1>6, <2>0, <3>1, SuccessorAhead DEF SpentAt, stop
  <2>4. CASE k # stop
    <3>1. Successor(k) <= stop /\ Successor(k) \in Nat /\ stop < Successor(stop) /\ Successor(stop) \in Nat
      BY <1>4, <1>6, <2>0, <2>2, <2>4, PlaceFacts
    <3>2. \A x \in Here(m) : x \in Nat /\ x < Successor(k)
      BY <2>2, PlaceFacts
    <3>3. \A x \in Here(m) : x < Successor(stop)
      BY <1>3, <3>1, <3>2
    <3>4. m \notin Here(stop)
      <4>1. SUFFICES ASSUME m \in Here(stop) PROVE FALSE
        OBVIOUS
      <4>2. stop \in Here(m)
        BY <1>3, <1>6, <4>1, HereFacts
      <4> QED BY <1>3, <3>1, <3>2, <4>2
    <3> QED BY <3>3, <3>4 DEF SpentAt
  <2> QED BY <2>3, <2>4
<1>7. ASSUME NEW m \in Index, fired[m] > 0
      PROVE  m \notin Entered(path, stop, rows) /\ (stop # NumSteps => SpentAt(m, stop, task'))
  <2>1. /\ ResumesAt(from, current) /\ SpentAt(m, current, rows) /\ current \in Index
        /\ Successor(current) \in Nat
    BY <1>7, SuccessorAhead DEF ResumesAt
  <2>2. ASSUME NEW k \in path, k # NumSteps
        PROVE  /\ k \in Index
               /\ k \in Here(current) \/ k >= Successor(current)
    <3>1. k \in Index
      BY <1>3, <2>2, StepsAssumption DEF Index
    <3>2. \A j \in run.path : j \in Here(current) \/ j >= Successor(current)
      BY <1>1, <2>1, RunAhead
    <3> QED BY <2>2, <3>1, <3>2 DEF path
  <2>3. ASSUME NEW k \in path, k # NumSteps, m \in Here(k)
        PROVE  k \in Here(current) /\ Here(k) = Here(current) /\ m \in Here(current)
    <3>1. k \in Index /\ k \in Here(m) /\ k \in Nat
      <4>1. k \in Index
        BY <2>2, <2>3
      <4>2. k \in Nat /\ k \in Here(k) /\ Here(m) = Here(k)
        BY <2>3, <4>1, PlaceFacts
      <4> QED BY <4>1, <4>2
    <3>2. k < Successor(current)
      BY <2>1, <3>1 DEF SpentAt
    <3>3. k \in Here(current)
      BY <2>1, <2>2, <2>3, <3>1, <3>2
    <3>4. Here(k) = Here(current)
      BY <2>1, <3>3, PlaceFacts
    <3> QED BY <2>3, <3>3, <3>4
  <2>4. m \notin Entered(path, stop, rows)
    <3>1. SUFFICES ASSUME NEW k \in path \ {NumSteps}, Fresh(k, rows),
                          (InGroup(k) /\ m \in Members(k)) \/ (~InGroup(k) /\ m = k)
                   PROVE  FALSE
      BY DEF Entered
    <3>2. m \in Here(k)
      BY <2>2, <3>1 DEF Here
    <3>3. k \in Here(current) /\ m \in Here(current)
      BY <2>3, <3>2
    <3>4. InGroup(current) /\ Activated(current, rows)
      BY <2>1, <3>3 DEF SpentAt
    <3>5. k \in Members(current) /\ InGroup(k) /\ Members(k) = Members(current)
      BY <2>1, <3>3, <3>4, StepFacts, SameGroup DEF Here
    <3> QED BY <3>1, <3>4, <3>5 DEF Fresh, Activated
  <2>5. ASSUME stop # NumSteps PROVE SpentAt(m, stop, task')
    <3>1. stop \in Index /\ (stop \in Here(current) \/ stop >= Successor(current))
      BY <1>2, <2>2, <2>5
    <3>2. stop < Successor(stop) /\ Successor(stop) \in Nat /\ stop \in Nat
      BY <3>1, PlaceFacts
    <3>3. stop \in Here(current) => Successor(stop) = Successor(current)
      BY <2>1, PlaceFacts
    <3>4. \A x \in Here(m) : x \in Nat /\ x < Successor(stop)
      <4>1. \A x \in Here(m) : x \in Nat /\ x < Successor(current)
        BY <2>1, PlaceFacts DEF SpentAt
      <4> QED BY <2>1, <3>1, <3>2, <3>3, <4>1
    <3>5. ASSUME m \in Here(stop) PROVE InGroup(stop) /\ Activated(stop, task')
      <4>1. m \in Here(current) /\ Here(stop) = Here(current) /\ stop \in Here(current)
        BY <1>2, <2>3, <2>5, <3>5
      <4>2. InGroup(current) /\ Activated(current, rows)
        BY <2>1, <4>1 DEF SpentAt
      <4>3. InGroup(stop)
        BY <2>1, <4>1, <4>2, PlaceFacts
      <4> QED BY <1>1, <2>5, <4>3 DEF stop
    <3> QED BY <3>4, <3>5 DEF SpentAt
  <2> QED BY <2>4, <2>5
<1>8. ASSUME NEW m \in Index, fired'[m] > 0
      PROVE  fired'[m] = 1 /\ (current' # NumSteps => SpentAt(m, current', task'))
  <2>1. fired[m] \in 0 .. 2 /\ (fired[m] > 0 => fired[m] = 1)
    BY DEF TypeOK
  <2>2. CASE m \in Entered(path, stop, rows)
    <3>1. fired[m] = 0
      BY <1>7, <2>1, <2>2
    <3> QED BY <1>1, <1>6, <1>8, <2>1, <2>2, <3>1 DEF stop, path
  <2>3. CASE m \notin Entered(path, stop, rows)
    <3>1. fired'[m] = fired[m]
      BY <1>1, <2>3 DEF stop, path
    <3> QED BY <1>1, <1>7, <1>8, <2>1, <3>1 DEF stop
  <2> QED BY <2>2, <2>3
<1> QED BY <1>8 DEF FiredOnce

(***************************************************************************)
(* The inductive invariant, until somebody answers late                     *)
(***************************************************************************)
(* Only steps that have to be signed have rows, and a run that resumes at    *)
(* `at` has them behind it, or stands at them                                *)
Behind(rows, at) ==
  \A m \in Index : Rows(m, rows) # {} =>
    SignsOff(m) /\ (at # NumSteps => \A x \in Here(m) : x < Successor(at))

Standing(rows, at, st, hooks, times) ==
  /\ Behind(rows, at)
  /\ st = "none" => at = 0
  /\ st = "completed" <=> at = NumSteps
  /\ hooks = IF st = "completed" THEN 1 ELSE 0
  /\ st # "in_progress" => Outstanding(rows, at) = {}
  /\ FiredOnce(times, at, rows)

EngineInv == StepInv /\ (~late => Standing(task, current, status, hookRuns, fired))

ClosedIn(rows, at) == {k \in Index : Rows(k, rows) # {}} \ Outstanding(rows, at)

(* Opening rows where the loop stops keeps them behind, and asks nobody again *)
LEMMA OpenBehind ==
  ASSUME NEW rows \in RowTable, NEW drop \in {{}, RequestedBy}, NEW c \in Index, Behind(rows, c),
         NEW stop \in 0 .. NumSteps, stop \in Here(c) \/ stop >= Successor(c),
         stop # NumSteps => SignsOff(stop) \/ InGroup(stop)
  PROVE  LET opened == Open(Opened(stop, rows, drop), rows, drop)
         IN  /\ Behind(opened, stop)
             /\ \A k \in ClosedIn(rows, c) : k \notin Outstanding(opened, stop)
<1> DEFINE S == Opened(stop, rows, drop)
           opened == Open(S, rows, drop)
<1>1. opened \in RowTable /\ Kept(rows, opened)
  BY OpenKeeps
<1>2. \A k \in Index, s \in Slots : opened[k][s] = "none" \/ k \in S \/ opened[k][s] = rows[k][s]
  BY DEF Open
<1>3. ASSUME NEW k \in S
      PROVE  stop \in Index /\ k \in Index /\ k \in Here(stop) /\ SignsOff(k) /\ Rows(k, rows) = {}
  <2>1. stop # NumSteps /\ Fresh(stop, rows) /\ stop \in Index
    BY <1>3, StepsAssumption DEF Opened, Index
  <2>2. CASE InGroup(stop)
    <3>1. k \in Members(stop) /\ SignsOff(k) /\ ~Activated(stop, rows)
      BY <1>3, <2>1, <2>2 DEF Opened, Signers, Fresh
    <3> QED BY <2>1, <2>2, <3>1 DEF Activated, Here, Members
  <2>3. CASE ~InGroup(stop)
    BY <1>3, <2>1, <2>3 DEF Opened, Fresh, Here
  <2> QED BY <2>1, <2>2, <2>3
<1> HIDE DEF S, opened
<1>4. ASSUME NEW m \in Index, Rows(m, rows) # {}, stop # NumSteps
      PROVE  \A x \in Here(m) : x < Successor(stop)
  <2>1. stop \in Index /\ stop \in Nat /\ stop < Successor(stop) /\ Successor(stop) \in Nat
    BY <1>4, StepsAssumption, PlaceFacts DEF Index
  <2>2. \A x \in Here(m) : x \in Nat /\ x < Successor(c)
    BY <1>4, PlaceFacts, StepFacts DEF Behind
  <2>3. Successor(c) \in Nat /\ Successor(c) <= Successor(stop)
    <3>1. CASE stop \in Here(c)
      BY <2>1, <3>1, PlaceFacts
    <3>2. CASE stop >= Successor(c)
      BY <2>1, <3>2, PlaceFacts
    <3> QED BY <3>1, <3>2
  <2> QED BY <2>1, <2>2, <2>3
<1>5. Behind(opened, stop)
  <2>1. SUFFICES ASSUME NEW m \in Index, Rows(m, opened) # {}
                 PROVE  SignsOff(m) /\ (stop # NumSteps => \A x \in Here(m) : x < Successor(stop))
    BY DEF Behind
  <2>2. CASE m \in S
    BY <1>3, <2>2, PlaceFacts
  <2>3. CASE m \notin S
    <3>1. Rows(m, rows) # {}
      BY <1>2, <2>1, <2>3 DEF Rows
    <3> QED BY <1>4, <2>1, <3>1 DEF Behind
  <2> QED BY <2>2, <2>3
<1>6. ASSUME NEW k \in ClosedIn(rows, c), k \in Outstanding(opened, stop) PROVE FALSE
  <2>1. k \in Index /\ Rows(k, rows) # {} /\ k \notin Outstanding(rows, c) /\ k \notin S
    BY <1>3, <1>6 DEF ClosedIn
  <2>2. k \in Here(stop) /\ \E s \in Slots : rows[k][s] = "pending"
    BY <1>2, <1>6, <2>1 DEF Outstanding
  <2>3. stop \in Index /\ Here(k) = Here(stop) /\ stop \in Here(k) /\ stop \in Nat
    <3>1. stop \in Index
      BY <2>2 DEF Here
    <3> QED BY <2>2, <3>1, PlaceFacts
  <2>4. k \notin Here(c)
    BY <2>1, <2>2 DEF Outstanding
  <2>5. stop >= Successor(c)
    <3>1. stop \notin Here(c)
      BY <2>2, <2>4, PlaceFacts
    <3> QED BY <3>1
  <2>6. c # NumSteps /\ Successor(c) \in Nat
    BY StepFacts, PlaceFacts
  <2>7. stop < Successor(c)
    BY <2>1, <2>3, <2>6 DEF Behind
  <2> QED BY <2>3, <2>5, <2>6, <2>7
<1> QED BY <1>5, <1>6 DEF opened, S

(* Where the loop stops in a group, a branch has been opened *)
LEMMA GroupOpens ==
  ASSUME ResolvableBranches, NEW drop \in {{}, RequestedBy}, NEW rows \in RowTable,
         NEW stop \in Index, InGroup(stop), ~Passes(stop, rows, drop)
  PROVE  /\ ~Blocks(stop, rows, drop)
         /\ Activated(stop, Open(Opened(stop, rows, drop), rows, drop))
<1> DEFINE opened == Open(Opened(stop, rows, drop), rows, drop)
<1>1. ASSUME NEW m \in Signers(stop)
      PROVE  m \in Index /\ m \in Members(stop) /\ Candidates(m, drop) # {}
                /\ Assignees(m, drop) \subseteq Users
  <2>1. m \in Index /\ m \in Members(stop) /\ SignsOff(m) /\ InGroup(m)
    BY <1>1, SameGroup DEF Signers
  <2>2. Step[m].type = "approval"
    BY <2>1, SchemaAssumption DEF SignsOff
  <2>3. Candidates(m, drop) = Step[m].approvers \ drop /\ Candidates(m, drop) # {}
    BY <2>1, <2>2 DEF ResolvableBranches, Candidates, Explicit
  <2> QED BY <2>1, <2>3, StepFacts DEF Assignees
<1>2. ~Blocks(stop, rows, drop)
  BY <1>1 DEF Blocks
<1>3. CASE Activated(stop, rows)
  <2>1. PICK m \in Members(stop) : Rows(m, rows) # {}
    BY <1>3 DEF Activated
  <2>2. m \in Index /\ Kept(rows, opened)
    BY <2>1, OpenKeeps, StepFacts DEF Members
  <2>3. Rows(m, opened) # {}
    BY <2>1, <2>2, KeptSatisfied
  <2>4. Activated(stop, opened)
    <3> HIDE DEF opened
    <3> QED BY <2>1, <2>3 DEF Activated
  <2> QED BY <2>4, <1>2
<1>4. CASE ~Activated(stop, rows)
  <2>1. PICK m \in Signers(stop) : ~SelfOnly(m, drop)
    BY <1>4 DEF Passes
  <2>2. PICK u \in Users : u \in Assignees(m, drop)
    BY <1>1, <2>1 DEF SelfOnly
  <2>3. m \in Opened(stop, rows, drop) /\ m \in Index /\ m \in Members(stop)
    BY <1>1, <1>4, <2>1, <2>2, StepFacts DEF Opened, Fresh
  <2>4. <<u, "original">> \in Slots
    BY DEF Slots
  <2>5. opened[m][<<u, "original">>] = "pending"
    BY <2>2, <2>3, <2>4 DEF Open
  <2>6. Rows(m, opened) # {}
    <3> HIDE DEF opened
    <3> QED BY <2>4, <2>5 DEF Rows
  <2>7. Activated(stop, opened)
    <3> HIDE DEF opened
    <3> QED BY <2>3, <2>6 DEF Activated
  <2> QED BY <2>7, <1>2
<1> QED BY <1>2, <1>3, <1>4

LEMMA KeptActivated ==
  ASSUME NEW old, NEW new, Kept(old, new), NEW c \in Index, Activated(c, old)
  PROVE  Activated(c, new)
<1>1. PICK m \in Members(c) : Rows(m, old) # {}
  BY DEF Activated
<1>2. m \in Index
  BY <1>1 DEF Members
<1> QED BY <1>1, <1>2, KeptSatisfied DEF Activated

LEMMA FiredKept ==
  ASSUME NEW times, NEW c \in 0 .. NumSteps, NEW old, NEW new, Kept(old, new),
         FiredOnce(times, c, old)
  PROVE  FiredOnce(times, c, new)
<1>1. c # NumSteps => c \in Index
  BY StepsAssumption DEF Index
<1> QED BY <1>1, KeptActivated DEF FiredOnce, SpentAt

LEMMA SameBehind ==
  ASSUME NEW old, NEW new, NEW at, Behind(old, at),
         \A m \in Index : Rows(m, old) = {} => Rows(m, new) = {}
  PROVE  Behind(new, at)
  BY DEF Behind

(* Which step of the contract a request is *)
LEMMA Moves ==
  ASSUME status \in {"none", "in_progress", "blocked"},
         status' \in {"in_progress", "blocked", "completed"},
         Kept(task, task'),
         \A k \in ClosedIn(task, current) : k \notin Outstanding(task', current'),
         status' # "in_progress" => Outstanding(task', current') = {}
  PROVE  Contract!Next
<1>1. /\ ClosedIn(task, current) \subseteq ClosedIn(task', current')
      /\ Outstanding(task, current) \ Outstanding(task', current') \subseteq ClosedIn(task', current')
  <2>1. ASSUME NEW k \in Index, Rows(k, task) # {} PROVE Rows(k, task') # {}
    BY <2>1, KeptSatisfied
  <2>2. ASSUME NEW k \in Outstanding(task, current) PROVE k \in Index /\ Rows(k, task) # {}
    BY DEF Outstanding, Rows, Here, Members
  <2> QED BY <2>1, <2>2 DEF ClosedIn
<1>2. /\ Outstanding(task', current') \cap ClosedIn(task', current') = {}
      /\ ClosedIn(task', current') \subseteq Index
  BY DEF ClosedIn
<1>3. Contract!Close
  BY <1>1, <1>2 DEF Contract!Close, ClosedIn, Outstanding, Rows
<1>4. Contract!Live
  BY DEF Contract!Live
<1>5. Outstanding(task', current') \subseteq Index
  BY DEF Outstanding, Here, Members
<1>6. Outstanding(task, current)' = Outstanding(task', current')
  BY DEF Outstanding
<1>7. CASE status' = "in_progress" /\ Outstanding(task', current') # {}
  BY <1>3, <1>4, <1>5, <1>6, <1>7 DEF Contract!Next, Contract!Ask
<1>8. CASE Outstanding(task', current') = {} /\ status' \in {"in_progress", "blocked"}
  BY <1>3, <1>4, <1>6, <1>8 DEF Contract!Next, Contract!Stall
<1>9. CASE Outstanding(task', current') = {} /\ status' = "completed"
  BY <1>3, <1>4, <1>6, <1>9 DEF Contract!Next, Contract!Grant
<1> QED BY <1>7, <1>8, <1>9

(* What a step has to establish of the next state's rows *)
Established == Standing(task', current', status', hookRuns', fired')

(* Every run, whatever request started it *)
LEMMA RunEstablishes ==
  ASSUME ResolvableBranches, EngineInv, ~late,
         status \in {"none", "in_progress", "blocked"},
         NEW drop \in {{}, RequestedBy}, NEW done \in SUBSET Index,
         NEW rows \in RowTable, Kept(task, rows),
         \A k \in Index : Rows(k, task) = {} => Rows(k, rows) = {},
         \A k \in Index, s \in Slots : rows[k][s] = "pending" => task[k][s] = "pending",
         NEW from \in 0 .. NumSteps, ResumesAt(from, current),
         RunFrom(from, rows, drop, done)
  PROVE  Established /\ Contract!Next
<1>0. /\ TypeOK /\ current \in Index /\ task \in RowTable /\ current \in 0 .. NumSteps
      /\ Standing(task, current, status, hookRuns, fired)
  BY StepFacts DEF EngineInv, StepInv, TypeOK, RowTable, ResumesAt
<1>1. PICK run \in Runs(from, rows, drop) :
        /\ status' = StatusAt(run.stop, rows, drop)
        /\ current' = run.stop
        /\ task' = Open(Opened(run.stop, rows, drop), rows, drop)
        /\ hookRuns' = IF run.stop = NumSteps THEN hookRuns + 1 ELSE hookRuns
  BY DEF RunFrom
<1> DEFINE stop == run.stop
<1>2. /\ stop \in 0 .. NumSteps /\ (stop # NumSteps => stop \in Index)
      /\ stop # NumSteps => ~Passes(stop, rows, drop)
  BY RunFacts, StepsAssumption DEF IsRun, Index
<1>3. stop # NumSteps => SignsOff(stop) \/ InGroup(stop)
  BY <1>2 DEF Passes
<1>4. stop \in Here(current) \/ stop >= Successor(current)
  BY <1>0, RunAhead
<1>5. Behind(rows, current)
  BY <1>0, SameBehind DEF Standing
<1> HIDE DEF stop
<1>6. /\ Behind(task', current')
      /\ \A k \in ClosedIn(rows, current) : k \notin Outstanding(task', current')
  BY <1>0, <1>1, <1>2, <1>3, <1>4, <1>5, OpenBehind DEF stop
<1>7. Kept(rows, task') /\ Kept(task, task')
  BY <1>1, <1>2, OpenKeeps, KeptTransitive DEF stop
<1>8. \A k \in ClosedIn(task, current) : k \notin Outstanding(task', current')
  <2>1. ClosedIn(task, current) \subseteq ClosedIn(rows, current)
    <3>1. Outstanding(rows, current) \subseteq Outstanding(task, current)
      <4>1. Here(current) \subseteq Index
        BY <1>0, PlaceFacts
      <4> QED BY <4>1 DEF Outstanding
    <3>2. \A k \in Index : Rows(k, task) # {} => Rows(k, rows) # {}
      BY KeptSatisfied
    <3> QED BY <3>1, <3>2 DEF ClosedIn
  <2> QED BY <1>6, <2>1
<1>9. status' # "in_progress" => Outstanding(task', current') = {}
  <2>1. CASE stop = NumSteps
    <3>1. Here(stop) = {}
      BY <2>1, StepsAssumption DEF Here, Index
    <3> QED BY <1>1, <3>1 DEF Outstanding, stop
  <2>2. CASE stop # NumSteps
    <3>1. SUFFICES ASSUME Blocks(stop, rows, drop) PROVE Outstanding(task', current') = {}
      BY <1>1, <2>2 DEF StatusAt, stop
    <3>2. ~InGroup(stop)
      BY <1>2, <2>2, <3>1, GroupOpens
    <3>3. Rows(stop, rows) = {} /\ Assignees(stop, drop) = {} /\ Here(stop) = {stop}
      BY <1>2, <2>2, <3>1, <3>2 DEF Blocks, Fresh, Here
    <3>4. stop \notin Opened(stop, rows, drop)
      BY <2>2, <3>2, <3>3 DEF Opened
    <3>5. \A s \in Slots : task'[stop][s] = "none"
      BY <1>1, <1>2, <2>2, <3>3, <3>4 DEF Open, Rows, stop
    <3> QED BY <1>1, <3>3, <3>5 DEF Outstanding, stop
  <2> QED BY <2>1, <2>2
<1>10. /\ status' \in {"in_progress", "blocked", "completed"}
       /\ status' = "completed" <=> current' = NumSteps
       /\ hookRuns' = IF status' = "completed" THEN 1 ELSE 0
  BY <1>0, <1>1 DEF StatusAt, Standing
<1>11. FiredOnce(fired', current', task')
  <2>1. \A m \in Index : fired[m] > 0 =>
          fired[m] = 1 /\ ResumesAt(from, current) /\ SpentAt(m, current, rows)
    <3>1. FiredOnce(fired, current, rows) /\ current # NumSteps
      BY <1>0, FiredKept, StepFacts DEF Standing
    <3> QED BY <3>1 DEF FiredOnce
  <2>2. current' # NumSteps /\ InGroup(current') => Activated(current', task')
    BY <1>1, <1>2, GroupOpens DEF stop
  <2> QED BY <1>0, <1>7, <2>1, <2>2, RunFiresOnce
<1>12. Established
  BY <1>6, <1>9, <1>10, <1>11 DEF Established, Standing
<1> QED BY <1>7, <1>8, <1>9, <1>10, <1>12, Moves

LEMMA StartEstablishes ==
  ASSUME ResolvableBranches, EngineInv, ~late,
         NEW drop \in {{}, RequestedBy}, StartInstance(drop)
  PROVE  Established /\ Contract!Next
<1>1. /\ status = "none" /\ current = 0 /\ RunFrom(0, task, drop, {})
      /\ 0 \in 0 .. NumSteps /\ 0 \in Index
  BY StepsAssumption DEF StartInstance, Index, EngineInv, Standing
<1>2. Kept(task, task) /\ task \in RowTable
  BY DEF Kept, EngineInv, StepInv, TypeOK, RowTable
<1>3. ResumesAt(0, current)
  BY <1>1, PlaceFacts DEF ResumesAt
<1> QED BY <1>1, <1>2, <1>3, RunEstablishes

LEMMA RetryEstablishes ==
  ASSUME ResolvableBranches, EngineInv, ~late, RetryInstance
  PROVE  Established /\ Contract!Next
<1> DEFINE rows == IF status = "blocked" THEN Cancel(Index, task) ELSE task
<1>1. status \in {"blocked", "in_progress"} /\ RunFrom(current, rows, {}, {})
  BY DEF RetryInstance
<1>2. current \in Index /\ current \in 0 .. NumSteps
  BY <1>1, StepsAssumption DEF EngineInv, Standing, StepInv, TypeOK, Index
<1>3. task \in RowTable
  BY DEF EngineInv, StepInv, TypeOK, RowTable
<1>4. /\ rows \in RowTable /\ Kept(task, rows)
      /\ \A k \in Index : Rows(k, task) = {} => Rows(k, rows) = {}
      /\ \A k \in Index, s \in Slots : rows[k][s] = "pending" => task[k][s] = "pending"
  <2>1. Kept(task, task)
    BY DEF Kept
  <2> QED BY <1>3, <2>1, CancelKeeps DEF Cancel, Rows
<1>5. ResumesAt(current, current)
  BY <1>2, PlaceFacts DEF ResumesAt
<1> HIDE DEF rows
<1> QED BY <1>1, <1>2, <1>4, <1>5, RunEstablishes

(* An answer that is not late is one that the run stands and waits for *)
LEMMA AnswerIsHere ==
  ASSUME EngineInv, ~late, NEW k \in Index, NEW s \in Slots, task[k][s] = "pending",
         k \in Here(current)
  PROVE  /\ status = "in_progress" /\ current \in Index /\ SignsOff(k)
         /\ Here(k) = Here(current) /\ Successor(k) = Successor(current)
         /\ k \in Outstanding(task, current)
         /\ Standing(task, current, status, hookRuns, fired)
<1>1. Standing(task, current, status, hookRuns, fired)
  BY DEF EngineInv
<1>2. k \in Outstanding(task, current)
  BY DEF Outstanding
<1>3. status = "in_progress"
  BY <1>1, <1>2 DEF Standing
<1>4. current \in Index
  BY DEF Here
<1>5. SignsOff(k)
  BY <1>1 DEF Standing, Behind, Rows
<1> QED BY <1>1, <1>2, <1>3, <1>4, <1>5, PlaceFacts

LEMMA ApproveEstablishes ==
  ASSUME ResolvableBranches, EngineInv, ~late', NEW k \in Index, NEW s \in Slots, NEW a,
         Approve(k, s, a)
  PROVE  Established /\ Contract!Next
<1> DEFINE rows == [task EXCEPT ![k][s] = "approved"]
           next == IF InGroup(k) THEN k ELSE ContinueAfter(k)
           done == IF InGroup(k) THEN {} ELSE {k}
<1>1. /\ task[k][s] = "pending" /\ ~late /\ k \in Here(current)
      /\ \/ RunFrom(next, rows, {}, done)
         \/ task' = rows /\ UNCHANGED <<status, current, hookRuns, fired>>
  BY DEF Approve, Late
<1>2. /\ status = "in_progress" /\ current \in Index /\ SignsOff(k)
      /\ Here(k) = Here(current) /\ Successor(k) = Successor(current)
      /\ Standing(task, current, status, hookRuns, fired)
  BY <1>1, AnswerIsHere
<1>3. task \in RowTable /\ current \in 0 .. NumSteps
  BY DEF EngineInv, StepInv, TypeOK, RowTable
<1>4. /\ rows \in RowTable /\ Kept(task, rows)
      /\ \A j \in Index : Rows(j, task) = {} => Rows(j, rows) = {}
      /\ \A j \in Index, t \in Slots : rows[j][t] = "pending" => task[j][t] = "pending"
  BY <1>1, <1>3, AnswerKeeps, AnswerOpensNothing DEF RowTable
<1>5. next \in 0 .. NumSteps /\ done \in SUBSET Index
  BY ContinueType, StepFacts
<1>6. CASE RunFrom(next, rows, {}, done)
  <2>1. ResumesAt(next, current)
    <3>1. CASE InGroup(k)
      BY <1>1, <1>2, <3>1 DEF ResumesAt
    <3>2. CASE ~InGroup(k)
      <4>1. Successor(k) = ContinueAfter(k) /\ Successor(k) \in Nat
        BY <1>2, <3>2, PlaceFacts DEF Successor, SignsOff
      <4> QED BY <1>2, <3>2, <4>1 DEF ResumesAt
    <3> QED BY <3>1, <3>2
  <2> HIDE DEF rows, next, done
  <2> QED BY <1>1, <1>2, <1>4, <1>5, <1>6, <2>1, RunEstablishes
<1> HIDE DEF rows
<1>7. CASE task' = rows /\ UNCHANGED <<status, current, hookRuns, fired>>
  <2>1. Behind(task', current') /\ FiredOnce(fired', current', task')
    BY <1>2, <1>3, <1>4, <1>7, SameBehind, FiredKept DEF Standing
  <2>2. Established
    BY <1>2, <1>7, <2>1 DEF Established, Standing
  <2>3. \A j \in ClosedIn(task, current) : j \notin Outstanding(task', current')
    BY <1>4, <1>7 DEF ClosedIn, Outstanding
  <2> QED BY <1>2, <1>4, <1>7, <2>2, <2>3, Moves
<1> QED BY <1>1, <1>6, <1>7

LEMMA RejectEstablishes ==
  ASSUME EngineInv, ~late', NEW k \in Index, NEW s \in Slots, NEW a, Reject(k, s, a)
  PROVE  Established /\ Contract!Next
<1>1. /\ task[k][s] = "pending" /\ ~late /\ k \in Here(current)
      /\ task' = Cancel(Here(k), [task EXCEPT ![k][s] = "rejected"])
      /\ status' = "rejected" /\ UNCHANGED <<current, hookRuns, fired>>
  BY DEF Reject, Late
<1>2. /\ status = "in_progress" /\ current \in Index
      /\ Here(k) = Here(current) /\ k \in Outstanding(task, current)
      /\ Standing(task, current, status, hookRuns, fired)
  BY <1>1, AnswerIsHere
<1>3. Kept(task, task') /\ task \in RowTable /\ current \in 0 .. NumSteps
  BY RejectKeeps DEF EngineInv, StepInv, TypeOK, RowTable
<1>4. \A j \in Index : Rows(j, task) = {} => Rows(j, task') = {}
  BY <1>1, <1>3, AnswerOpensNothing
<1>5. Outstanding(task', current') = {}
  <2>1. ASSUME NEW j \in Here(current), NEW t \in Slots PROVE task'[j][t] # "pending"
    <3>1. j \in Index
      BY <1>2, PlaceFacts
    <3> QED BY <1>1, <1>2, <1>3, <3>1 DEF Cancel, RowTable
  <2> QED BY <1>1, <2>1 DEF Outstanding
<1>6. Behind(task', current') /\ FiredOnce(fired', current', task')
  <2>1. current' = current /\ fired' = fired
    BY <1>1
  <2>2. Behind(task, current) /\ FiredOnce(fired, current, task)
    BY <1>2 DEF Standing
  <2> QED BY <1>3, <1>4, <2>1, <2>2, SameBehind, FiredKept
<1>7. Established
  BY <1>1, <1>2, <1>5, <1>6 DEF Established, Standing
<1>8. Contract!Close
  <2>1. \A j \in Index : Rows(j, task) # {} => Rows(j, task') # {}
    BY <1>3, KeptSatisfied
  <2>2. \A j \in Outstanding(task, current) : j \in Index /\ Rows(j, task) # {}
    BY DEF Outstanding, Rows, Here, Members
  <2> QED BY <1>5, <2>1, <2>2 DEF Contract!Close, Outstanding, Rows
<1>9. Contract!Decline
  BY <1>1, <1>2, <1>5, <1>8 DEF Contract!Decline, Outstanding
<1> QED BY <1>7, <1>9 DEF Contract!Next

(* The sweep changes whom a step asks, never whether it still asks *)
LEMMA EscalateEstablishes ==
  ASSUME EngineInv, ~late, NEW D, EscalateOverdueTasks(D)
  PROVE  Established /\ UNCHANGED Contract!cvars
<1>1. /\ UNCHANGED <<status, current, hookRuns, fired>>
      /\ \A j \in Index, t \in Slots :
           task'[j][t] = IF Overdue(j, t, D) THEN "escalated"
                         ELSE IF t[2] = "escalation" /\ Overdue(j, <<t[1], "original">>, D) THEN "pending"
                         ELSE task[j][t]
  BY DEF EscalateOverdueTasks
<1>2. /\ Kept(task, task') /\ current \in 0 .. NumSteps
      /\ Standing(task, current, status, hookRuns, fired)
  BY EscalateKeeps DEF EngineInv, StepInv, TypeOK
<1>3. /\ \A u \in Users : <<u, "original">> \in Slots /\ <<u, "escalation">> \in Slots
      /\ \A t \in Slots : t[1] \in Users /\ (t = <<t[1], "original">> \/ t = <<t[1], "escalation">>)
  BY DEF Slots
<1>4. ASSUME NEW j \in Index
      PROVE  /\ (\E t \in Slots : task'[j][t] = "pending") <=> (\E t \in Slots : task[j][t] = "pending")
             /\ Rows(j, task') = {} <=> Rows(j, task) = {}
  <2>1. ASSUME NEW t \in Slots, task'[j][t] = "pending"
        PROVE  \E r \in Slots : task[j][r] = "pending"
    BY <1>1, <1>3, <2>1 DEF Overdue
  <2>2. ASSUME NEW t \in Slots, task[j][t] = "pending"
        PROVE  \E r \in Slots : task'[j][r] = "pending"
    <3>1. CASE Overdue(j, t, D)
      <4>1. t = <<t[1], "original">> /\ <<t[1], "escalation">> \in Slots
        BY <1>3, <3>1 DEF Overdue
      <4>2. ~Overdue(j, <<t[1], "escalation">>, D)
        BY DEF Overdue
      <4>3. task'[j][<<t[1], "escalation">>] = "pending"
        BY <1>1, <3>1, <4>1, <4>2
      <4> QED BY <4>1, <4>3
    <3>2. CASE ~Overdue(j, t, D)
      <4>1. task'[j][t] = "pending"
        BY <1>1, <2>2, <3>2
      <4> QED BY <4>1
    <3> QED BY <3>1, <3>2
  <2>3. ASSUME NEW t \in Slots, task'[j][t] # "none"
        PROVE  \E r \in Slots : task[j][r] # "none"
    BY <1>1, <1>3, <2>3 DEF Overdue
  <2>4. ASSUME NEW t \in Slots, task[j][t] # "none" PROVE task'[j][t] # "none"
    BY <1>2, <2>4 DEF Kept
  <2> QED BY <2>1, <2>2, <2>3, <2>4 DEF Rows
<1>5. Here(current) \subseteq Index
  BY DEF Here, Members
<1>6. Outstanding(task', current) = Outstanding(task, current)
  BY <1>4, <1>5 DEF Outstanding
<1>7. Behind(task', current') /\ FiredOnce(fired', current', task')
  BY <1>1, <1>2, <1>4, SameBehind, FiredKept DEF Standing
<1>8. Established
  BY <1>1, <1>2, <1>6, <1>7 DEF Established, Standing
<1>9. /\ Outstanding(task, current)' = Outstanding(task, current)
      /\ {k \in Index : Rows(k, task) # {}}' = {k \in Index : Rows(k, task) # {}}
  <2>1. Outstanding(task, current)' = Outstanding(task', current)
    BY <1>1 DEF Outstanding
  <2>2. {k \in Index : Rows(k, task) # {}}' = {k \in Index : Rows(k, task') # {}}
    BY DEF Rows
  <2> QED BY <1>4, <1>6, <2>1, <2>2
<1>10. UNCHANGED Contract!cvars
  BY <1>1, <1>9 DEF Contract!cvars
<1> QED BY <1>8, <1>10

LEMMA InitEngine == Init => EngineInv /\ Contract!Init
<1> SUFFICES ASSUME Init PROVE EngineInv /\ Contract!Init
  OBVIOUS
<1>1. StepInv
  BY InitStepInv
<1>2. \A k \in Index, s \in Slots : task[k][s] = "none"
  BY DEF Init, NoRows
<1>3. Outstanding(task, current) = {} /\ \A k \in Index : Rows(k, task) = {}
  <2>1. Here(current) \subseteq Index
    BY DEF Here, Members
  <2> QED BY <1>2, <2>1 DEF Outstanding, Rows
<1>4. FiredOnce(fired, current, task) /\ Behind(task, current)
  BY <1>3 DEF Init, FiredOnce, Behind
<1>5. Standing(task, current, status, hookRuns, fired)
  BY <1>3, <1>4, StepsAssumption DEF Standing, Init
<1>6. Contract!Init
  BY <1>3 DEF Contract!Init, Init
<1> QED BY <1>1, <1>5, <1>6 DEF EngineInv

LEMMA NextEstablishes ==
  ASSUME ResolvableBranches, EngineInv, [Next]_vars
  PROVE  EngineInv' /\ [Contract!Next \/ late']_(Contract!cvars)
<1>1. StepInv'
  BY NextKeeps DEF EngineInv
<1>2. ASSUME Established PROVE EngineInv'
  BY <1>1, <1>2, VerdictFixed
  DEF EngineInv, Established, Standing, Behind, SignsOff, FiredOnce, SpentAt, Successor,
      Outstanding, Activated, Rows, Here, Members, InGroup
<1>3. CASE late'
  BY <1>1, <1>3 DEF EngineInv
<1>4. CASE ~late' /\ UNCHANGED instanceVars
  <2>1. Established /\ UNCHANGED Contract!cvars
    BY <1>4 DEF instanceVars, EngineInv, Established, Contract!cvars, Outstanding, Rows
  <2> QED BY <1>2, <2>1
<1>5. CASE ~late' /\ Next
  <2>1. CASE \E p \in BOOLEAN \ {active} : SetDefinitionStatus(p)
    BY <1>4, <1>5, <2>1 DEF SetDefinitionStatus
  <2>2. CASE \E r \in Roles : \E H \in Rosters \ {roster[r]} : ChangeRoster(r, H)
    BY <1>4, <1>5, <2>2 DEF ChangeRoster
  <2>3. CASE \E drop \in {{}, RequestedBy} : StartInstance(drop)
    BY <1>2, <1>5, <2>3, StartEstablishes DEF StartInstance
  <2>4. CASE \E k \in Index, s \in Slots, a \in Users : Approve(k, s, a)
    BY <1>2, <1>5, <2>4, ApproveEstablishes
  <2>5. CASE \E k \in Index, s \in Slots, a \in Users : Reject(k, s, a)
    BY <1>2, <1>5, <2>5, RejectEstablishes
  <2>6. CASE \E k \in Index, s \in Slots, a \in Users : AdminRemoveTask(k, s, a)
    BY <1>2, <1>5, <2>6, ApproveEstablishes DEF AdminRemoveTask
  <2>7. CASE \E D \in SUBSET {k \in Index : Step[k].dated} : EscalateOverdueTasks(D)
    BY <1>2, <1>5, <2>7, EscalateEstablishes DEF EscalateOverdueTasks
  <2>8. CASE RetryInstance
    BY <1>2, <1>5, <2>8, RetryEstablishes DEF RetryInstance
  <2> QED BY <1>5, <2>1, <2>2, <2>3, <2>4, <2>5, <2>6, <2>7, <2>8 DEF Next
<1> QED BY <1>3, <1>4, <1>5 DEF vars

(* Whatever a step requires of those it asks: until somebody answers a row    *)
(* that the run has left behind, completion (the order, the supplier, ...)   *)
(* and every notification and auto step happen once at most; no answer,      *)
(* sweep or retry takes _run_from_step past a step a second time.            *)
THEOREM EffectsHappenOnce ==
  ASSUME ResolvableBranches
  PROVE  Spec => []EffectsOnce
<1>1. Init => EngineInv
  BY InitEngine
<1>2. EngineInv /\ [Next]_vars => EngineInv'
  BY NextEstablishes
<1>3. EngineInv => EffectsOnce
  <2>1. SUFFICES ASSUME EngineInv, ~late PROVE hookRuns <= 1 /\ \A k \in Index : fired[k] <= 1
    BY DEF EffectsOnce
  <2>2. Standing(task, current, status, hookRuns, fired) /\ TypeOK
    BY <2>1 DEF EngineInv, StepInv
  <2>3. hookRuns <= 1
    BY <2>2 DEF Standing
  <2>4. \A k \in Index : fired[k] <= 1
    BY <2>2 DEF Standing, FiredOnce, TypeOK
  <2> QED BY <2>3, <2>4
<1> QED BY <1>1, <1>2, <1>3, PTL DEF Spec

(* For every quorum the engine is what the documents take it for, as long as  *)
(* nobody answers late: it asks, stalls, grants or declines, and never asks   *)
(* again what has been answered (start_workflow_instance to retry_instance    *)
(* implement the contract).                                                 *)
THEOREM EngineImplementsContract ==
  ASSUME ResolvableBranches
  PROVE  Spec => ImplementsContract
<1>1. Init => EngineInv /\ Contract!Init
  BY InitEngine
<1>2. EngineInv /\ [Next]_vars => EngineInv' /\ [Contract!Next \/ late']_(Contract!cvars)
  BY NextEstablishes
<1> QED BY <1>1, <1>2, PTL DEF Spec, ImplementsContract

=============================================================================
