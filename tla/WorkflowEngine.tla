--------------------------- MODULE WorkflowEngine ---------------------------
(***************************************************************************)
(* The workflow engine of backend/app/crud/workflow.py: one instance of a   *)
(* published definition, the task rows it opens, and the requests that move *)
(* it (start, approve, reject, escalate, retry).                            *)
(*                                                                          *)
(* Every request runs in one database transaction, so one request is one    *)
(* action.  The while loop of _run_from_step is given by the set of step    *)
(* indices it visits (IsRun): routes only go forward, so that set fixes the *)
(* run, and no recursion is needed.                                         *)
(***************************************************************************)
EXTENDS Integers, FiniteSets

CONSTANTS
  NumSteps,      \* len(definition.steps)
  Step,          \* the steps, indexed from 0 as in the code
  Users,
  Roles,         \* role codes of ApproverSeed
  Rosters,       \* bound: the sets of users a role can resolve to
  StartedBy,     \* instance.started_by
  RequestedBy    \* {requisition.requested_by}, or {} for any other entity

Absent == -1     \* a missing next_step, on_true_next_step, ...
NoGroup == ""
NoRole == ""

Index == 0 .. NumSteps - 1
StepTypes == {"approval", "condition", "notification", "auto", "ai"}
Target(k) == {Absent} \cup (k + 1 .. NumSteps)

(* Step records as the schema accepts them.  Forward targets are a          *)
(* restriction of the model: the schema does not check them.                *)
StepRecord(k) ==
  [type      : StepTypes,
   approvers : SUBSET Users,
   role      : Roles \cup {NoRole},
   required  : Nat \ {0},
   escalate  : SUBSET Users,      \* {escalate_to}, or {} when it is unset
   dated     : BOOLEAN,           \* an SLA policy or escalate_after_hours
   next      : Target(k),
   onTrue    : Target(k),
   onFalse   : Target(k),
   group     : STRING,
   groupNext : Target(k)]

InGroup(k) == Step[k].group # NoGroup
Members(k) == {m \in Index : Step[m].group = Step[k].group}

(* Where a run that has stopped at index c stands: at a step, or at a whole group *)
Here(c) == IF c \notin Index THEN {} ELSE IF InGroup(c) THEN Members(c) ELSE {c}

ASSUME StepsAssumption ==
  /\ NumSteps \in Nat \ {0}
  /\ NoRole \notin Roles
  /\ IsFiniteSet(Users)
  /\ StartedBy \in Users
  /\ RequestedBy \subseteq Users
  /\ Rosters \subseteq SUBSET Users
  /\ DOMAIN Step = Index
  /\ \A k \in Index : Step[k] \in StepRecord(k)

ASSUME SchemaAssumption ==
  \A k \in Index :
    /\ Step[k].type = "approval" => Step[k].approvers # {} \/ Step[k].role # NoRole
    /\ InGroup(k) =>
         /\ Step[k].type \in {"approval", "notification", "auto"}
         /\ Cardinality(Members(k)) >= 2
         /\ \A m \in Members(k) :
              /\ Step[m].groupNext = Step[k].groupNext
              /\ Step[k].groupNext = Absent \/ Step[k].groupNext > m

VARIABLES
  active,        \* definition.is_active
  roster,        \* resolve_approvers_for_context, per role
  verdict,       \* what the context snapshot decides at condition and ai steps
  status,        \* instance.status, "none" before the instance exists
  current,       \* instance.current_step_index
  task,          \* task rows: step, then assignee and kind of row
  waived,        \* history: steps passed because only the starter could approve
  passed,        \* history: steps the run went past
  hookRuns,      \* history: how often the completion branch ran
  fired,         \* history: how often a step without task rows had its effect
  late           \* history: somebody answered a row of a step the run had left

instanceVars == <<status, current, task, waived, passed, hookRuns, fired, late>>
vars == <<active, roster, verdict, instanceVars>>

TaskStatus == {"none", "pending", "approved", "rejected", "escalated", "cancelled"}
InstanceStatus == {"none", "in_progress", "blocked", "completed", "rejected"}

(* A row opened for an approver, or the row an escalation opens in its place *)
Slots == Users \X {"original", "escalation"}

-----------------------------------------------------------------------------
(***************************************************************************)
(* Routing                                                                  *)
(***************************************************************************)
Smallest(S) == CHOOSE x \in S : \A y \in S : x <= y
Greatest(S) == CHOOSE x \in S : \A y \in S : y <= x

(* An index past the last step means the same as NumSteps: completed *)
Clip(k) == IF k > NumSteps THEN NumSteps ELSE k

(* The conditions that have step k as one of their two arms *)
Diamonds(k) ==
  {c \in Index :
     /\ Step[c].type = "condition"
     /\ Step[c].onTrue # Absent /\ Step[c].onFalse # Absent
     /\ Step[c].onTrue # Step[c].onFalse
     /\ k \in {Step[c].onTrue, Step[c].onFalse}}

EntersSibling(k) ==
  /\ Diamonds(k) # {}
  /\ LET c == Smallest(Diamonds(k))
     IN  {k, k + 1} = {Step[c].onTrue, Step[c].onFalse}

ContinueAfter(k) ==
  IF Step[k].next # Absent THEN Step[k].next
  ELSE Clip(IF EntersSibling(k) THEN k + 2 ELSE k + 1)

Successor(k) ==
  IF InGroup(k) THEN
    IF Step[k].groupNext # Absent THEN Step[k].groupNext ELSE Greatest(Members(k)) + 1
  ELSE IF Step[k].type = "condition" THEN
    LET target == IF verdict[k] THEN Step[k].onTrue ELSE Step[k].onFalse
    IN  IF target # Absent THEN target ELSE k + 1
  ELSE ContinueAfter(k)

-----------------------------------------------------------------------------
(***************************************************************************)
(* Approvers and task rows.  `drop` is what _filter_requisition_approvers   *)
(* takes out of the explicit approvers: the run that starts a requisition's *)
(* instance uses filtered steps, every later run the stored definition.     *)
(***************************************************************************)
SignsOff(k) == Step[k].type = "approval" \/ (Step[k].type = "ai" /\ ~verdict[k])

Explicit(k, drop) == IF Step[k].type = "approval" THEN Step[k].approvers \ drop ELSE {}

Candidates(k, drop) ==
  IF Explicit(k, drop) # {} THEN Explicit(k, drop)
  ELSE IF Step[k].role # NoRole THEN roster[Step[k].role]
  ELSE {}

Assignees(k, drop) == Candidates(k, drop) \ {StartedBy}
SelfOnly(k, drop) == Candidates(k, drop) # {} /\ Assignees(k, drop) = {}

Rows(k, rows) == {s \in Slots : rows[k][s] # "none"}
Approvals(k, rows) == {s \in Slots : rows[k][s] = "approved"}
Satisfied(k, rows) == Cardinality(Approvals(k, rows)) >= Step[k].required

(* Steps in S get one pending row per assignee *)
Open(S, rows, drop) ==
  [k \in Index |-> [s \in Slots |->
     IF k \in S /\ s[1] \in Assignees(k, drop) /\ s[2] = "original" THEN "pending"
     ELSE rows[k][s]]]

(* Pending rows of the steps in S are cancelled *)
Cancel(S, rows) ==
  [k \in Index |-> [s \in Slots |->
     IF k \in S /\ rows[k][s] = "pending" THEN "cancelled" ELSE rows[k][s]]]

-----------------------------------------------------------------------------
(***************************************************************************)
(* _run_from_step                                                           *)
(***************************************************************************)
Signers(k) == {m \in Members(k) : SignsOff(m)}
(* mutant: only pending rows count, so an answered group is opened again *)
ActivatedByPending(k, rows) == \E m \in Members(k) : \E s \in Slots : rows[m][s] = "pending"

Activated(k, rows) == \E m \in Members(k) : Rows(m, rows) # {}
(* mutants: one branch is enough; members that have no rows are waited for *)
GroupCompleteByOne(k, rows) == \E m \in Members(k) : Satisfied(m, rows)
GroupCompleteByAll(k, rows) == \A m \in Members(k) : Satisfied(m, rows)

GroupComplete(k, rows) ==
  \A m \in Members(k) : Rows(m, rows) # {} => Satisfied(m, rows)

(* The loop goes on past step k *)
Passes(k, rows, drop) ==
  \/ /\ InGroup(k)
     /\ IF Activated(k, rows) THEN GroupComplete(k, rows)
        ELSE \A m \in Signers(k) : SelfOnly(m, drop)
  \/ ~InGroup(k) /\ ~SignsOff(k)
  \/ /\ ~InGroup(k) /\ SignsOff(k)
     /\ IF Rows(k, rows) # {} THEN Satisfied(k, rows)
        ELSE SelfOnly(k, drop) /\ ContinueAfter(k) < NumSteps

(* `path` is the chain of indices visited from `from` until the loop returns: *)
(* after each of them comes its successor                                   *)
IsRun(path, from, stop, rows, drop) ==
  /\ {from, stop} \subseteq path /\ path \subseteq from .. stop
  /\ \A k \in path \ {stop} :
       /\ Successor(k) \in path
       /\ \A j \in path : j > k => j >= Successor(k)
       /\ Passes(k, rows, drop)
  /\ stop # NumSteps => ~Passes(stop, rows, drop)

Runs(from, rows, drop) ==
  LET passing == {k \in from .. NumSteps - 1 : Passes(k, rows, drop)}
  IN  {run \in {[path |-> P \cup {stop}, stop |-> stop] :
                   P \in SUBSET passing, stop \in (from .. NumSteps) \ passing} :
         IsRun(run.path, from, run.stop, rows, drop)}

(* Step k is reached for the first time as far as its task rows tell *)
Fresh(k, rows) == IF InGroup(k) THEN ~Activated(k, rows) ELSE Rows(k, rows) = {}

(* The steps that take effect in a run: those passed, and every member of a  *)
(* parallel group the run reaches before the group has any row               *)
Entered(path, stop, rows) ==
  {m \in Index : \E k \in path \ {NumSteps} :
     /\ Fresh(k, rows)
     /\ \/ InGroup(k) /\ m \in Members(k)
        \/ ~InGroup(k) /\ m = k /\ k # stop}

(* The steps that get task rows when the run returns at `stop` *)
Opened(stop, rows, drop) ==
  IF stop = NumSteps \/ ~Fresh(stop, rows) THEN {}
  ELSE {m \in IF InGroup(stop) THEN Signers(stop) ELSE {stop} : Assignees(m, drop) # {}}

(* No approver resolves for step `stop` or for a member of its group.  A     *)
(* lone step that only the starter could approve blocks too when it is last. *)
Blocks(stop, rows, drop) ==
  /\ Fresh(stop, rows)
  /\ IF InGroup(stop) THEN \E m \in Signers(stop) : Candidates(m, drop) = {}
     ELSE Assignees(stop, drop) = {}

StatusAt(stop, rows, drop) ==
  IF stop = NumSteps THEN "completed"
  ELSE IF Blocks(stop, rows, drop) THEN "blocked"
  ELSE "in_progress"

Fires(m) == Step[m].type \in {"notification", "auto"} \/ (Step[m].type = "ai" /\ verdict[m])

(* `done` is the step whose approval started this run, if any *)
RunFrom(from, rows, drop, done) ==
  \E run \in Runs(from, rows, drop) :
    LET path == run.path
        stop == run.stop
    IN
    /\ status' = StatusAt(stop, rows, drop)
    /\ current' = stop
    /\ task' = Open(Opened(stop, rows, drop), rows, drop)
    /\ waived' = waived \cup
         {m \in Entered(path, stop, rows) : SignsOff(m) /\ SelfOnly(m, drop)}
    /\ passed' = passed \cup done \cup (path \ {stop})
    /\ hookRuns' = IF stop = NumSteps THEN hookRuns + 1 ELSE hookRuns
    /\ fired' = [m \in Index |->
         IF m \in Entered(path, stop, rows) /\ Fires(m) /\ fired[m] < 2
         THEN fired[m] + 1 ELSE fired[m]]

-----------------------------------------------------------------------------
(***************************************************************************)
(* Requests                                                                 *)
(***************************************************************************)
NoRows == [k \in Index |-> [s \in Slots |-> "none"]]

Init ==
  /\ active = TRUE
  /\ roster \in [Roles -> Rosters]
  /\ verdict \in {v \in [Index -> BOOLEAN] :
                    \A k \in Index : v[k] => Step[k].type \in {"condition", "ai"}}
  /\ status = "none"
  /\ current = 0
  /\ task = NoRows
  /\ waived = {} /\ passed = {}
  /\ hookRuns = 0
  /\ fired = [k \in Index |-> 0]
  /\ late = FALSE

(* PATCH of a definition's status, or a new version that archives it *)
SetDefinitionStatus(published) ==
  /\ active' = published
  /\ UNCHANGED <<roster, verdict, instanceVars>>

(* Approver master data changes, or a delegation window opens or ends *)
ChangeRoster(r, H) ==
  /\ roster' = [roster EXCEPT ![r] = H]
  /\ UNCHANGED <<active, verdict, instanceVars>>

StartInstance(drop) ==
  /\ status = "none"
  /\ active
  /\ RunFrom(0, task, drop, {})
  /\ UNCHANGED <<active, roster, verdict, late>>

(* The run has gone on, or ended, and left the row behind: its step has its  *)
(* approvals from others who were asked                                     *)
Late(k) == late' = (late \/ k \notin Here(current))

(* complete_task with decision "approve", by whoever sends the request; the  *)
(* creator of a requisition is refused and the request rolled back           *)
Approve(k, s, actor) ==
  LET rows == [task EXCEPT ![k][s] = "approved"]
      next == IF InGroup(k) THEN k ELSE ContinueAfter(k)
  IN  /\ task[k][s] = "pending"
      /\ actor \notin RequestedBy
      /\ Late(k)
      /\ UNCHANGED <<active, roster, verdict>>
      /\ \/ /\ Satisfied(k, rows)
            /\ RunFrom(next, rows, {}, IF InGroup(k) THEN {} ELSE {k})
         \/ /\ ~Satisfied(k, rows)
            /\ task' = rows
            /\ UNCHANGED <<status, current, waived, passed, hookRuns, fired>>

(* mutant: the other rows of the step and of its siblings stay open *)
RejectAlone(k, s, actor) ==
  /\ task[k][s] = "pending"
  /\ actor \notin RequestedBy
  /\ status' = "rejected"
  /\ task' = [task EXCEPT ![k][s] = "rejected"]
  /\ Late(k)
  /\ UNCHANGED <<active, roster, verdict, current, waived, passed, hookRuns, fired>>

(* complete_task with decision "reject" *)
Reject(k, s, actor) ==
  LET rows == [task EXCEPT ![k][s] = "rejected"]
  IN  /\ task[k][s] = "pending"
      /\ actor \notin RequestedBy
      /\ status' = "rejected"
      /\ task' = Cancel(Here(k), rows)
      /\ Late(k)
      /\ UNCHANGED <<active, roster, verdict, current, waived, passed, hookRuns, fired>>

(* admin_remove_task: the approve path, whoever the assignee is *)
AdminRemoveTask(k, s, admin) == Approve(k, s, admin)

(* escalate_overdue_tasks: the sweep, at a time when the rows of the steps   *)
(* in D are past due.  Rows opened by an escalation have no due date.        *)
Overdue(k, s, D) ==
  /\ k \in D /\ Step[k].dated /\ Step[k].escalate # {}
  /\ s[2] = "original" /\ task[k][s] = "pending"

EscalateOverdueTasks(D) ==
  /\ \E k \in Index, s \in Slots : Overdue(k, s, D)
  /\ task' = [k \in Index |-> [s \in Slots |->
       IF Overdue(k, s, D) THEN "escalated"
       ELSE IF s[2] = "escalation" /\ Overdue(k, <<s[1], "original">>, D) THEN "pending"
       ELSE task[k][s]]]
  /\ UNCHANGED <<active, roster, verdict, status, current, waived, passed, hookRuns, fired, late>>

RetryInstance ==
  /\ \/ status = "blocked"
     \/ /\ status = "in_progress"
        /\ \A k \in Index, s \in Slots : task[k][s] \notin {"pending", "escalated"}
  /\ RunFrom(current, IF status = "blocked" THEN Cancel(Index, task) ELSE task, {}, {})
  /\ UNCHANGED <<active, roster, verdict, late>>

(* Who holds row s of step k: the approver, or the one it was escalated to *)
Holders(k, s) == IF s[2] = "original" THEN {s[1]} ELSE Step[k].escalate

Decide(k, s) == \E holder \in Holders(k, s) : Reject(k, s, holder) \/ Approve(k, s, holder)

Next ==
  \/ \E p \in BOOLEAN \ {active} : SetDefinitionStatus(p)
  \/ \E r \in Roles : \E H \in Rosters \ {roster[r]} : ChangeRoster(r, H)
  \/ \E drop \in {{}, RequestedBy} : StartInstance(drop)
  \/ \E k \in Index, s \in Slots, a \in Users : Approve(k, s, a)
  \/ \E k \in Index, s \in Slots, a \in Users : Reject(k, s, a)
  \/ \E k \in Index, s \in Slots, a \in Users : AdminRemoveTask(k, s, a)
  \/ \E D \in SUBSET {k \in Index : Step[k].dated} : EscalateOverdueTasks(D)
  \/ RetryInstance

Spec == Init /\ [][Next]_vars

(* Nothing in the code schedules a decision: this is what the people who use *)
(* it are assumed to do, answer each task they hold.                         *)
Fairness == \A k \in Index, s \in Slots : WF_vars(Decide(k, s))
FairSpec == Spec /\ Fairness

-----------------------------------------------------------------------------
(***************************************************************************)
(* The premise of what is proved: nothing in the schema asks for it         *)
(***************************************************************************)
(* Each approval of a parallel group names an approver other than the one    *)
(* whose request it is, so a branch can always be opened or waived.          *)
ResolvableBranches ==
  \A k \in Index :
    InGroup(k) /\ Step[k].type = "approval" => Step[k].approvers \ RequestedBy # {}

-----------------------------------------------------------------------------
(***************************************************************************)
(* Properties                                                               *)
(***************************************************************************)
(* Every variable stays in its domain: the task rows keep the statuses of    *)
(* VALID_TASK_STATUSES, the instance those of VALID_INSTANCE_STATUSES.       *)
TypeOK ==
  /\ active \in BOOLEAN
  /\ roster \in [Roles -> SUBSET Users]
  /\ verdict \in [Index -> BOOLEAN]
  /\ status \in InstanceStatus
  /\ current \in 0 .. NumSteps
  /\ task \in [Index -> [Slots -> TaskStatus]]
  /\ waived \subseteq Index
  /\ passed \subseteq Index
  /\ hookRuns \in Nat
  /\ fired \in [Index -> 0 .. 2]
  /\ late \in BOOLEAN

(* The approval steps that have to be answered before the run may pass k *)
Gate(k) == IF InGroup(k) THEN Signers(k) ELSE IF SignsOff(k) THEN {k} ELSE {}

(* No silent approval: the run of _run_from_step never goes past an approval *)
(* step, or a parallel group, one of whose approvals has fewer approved rows *)
(* than it requires -- unless the starter was the only possible approver.    *)
PassedIsSignedOff ==
  \A k \in passed : \A m \in Gate(k) : Satisfied(m, task) \/ m \in waived

(* The effects of completion (auto PO, supplier creation, ...) and of every  *)
(* notification and auto step happen at most once for an instance, unless    *)
(* somebody answers a row that a quorum has left behind: that takes the run   *)
(* on again from a step it had left.                                        *)
EffectsOnce == late \/ (hookRuns <= 1 /\ \A k \in Index : fired[k] <= 1)

(* A row that has been answered, escalated or cancelled keeps that status:   *)
(* neither retry nor a later run opens it again.                             *)
DecisionsAreFinal ==
  [][\A k \in Index, s \in Slots :
       task[k][s] \notin {"none", "pending"} => task'[k][s] = task[k][s]]_vars

(* If every approver answers, the instance reaches an end or blocks - unless  *)
(* somebody brings an instance that has ended back by a late answer.         *)
Answered == status = "in_progress" ~> (status # "in_progress" \/ late)

(* The steps that the run stands at and that still ask somebody *)
Outstanding(rows, at) == {k \in Here(at) : \E s \in Slots : rows[k][s] = "pending"}

(* The engine as a document under approval sees it; an instance in progress   *)
(* in which nobody is left to answer has stalled.                            *)
Contract == INSTANCE ApprovalContract WITH
  Gates <- Index,
  phase <- [none |-> "absent",
            in_progress |-> IF Outstanding(task, current) = {} THEN "stalled" ELSE "open",
            blocked |-> "stalled", completed |-> "approved", rejected |-> "declined"][status],
  outstanding <- Outstanding(task, current),
  closed <- {k \in Index : Rows(k, task) # {}} \ Outstanding(task, current)

(* The engine implements the contract until somebody answers late: a step     *)
(* asked and answered is never asked again, only somebody who is asked        *)
(* declines, and an end is an end.                                          *)
ImplementsContract == Contract!Init /\ [][Contract!Next \/ late']_(Contract!cvars)

=============================================================================
