-------------------------- MODULE MCWorkflowEngine --------------------------
(***************************************************************************)
(* Definitions of workflows for TLC.  The designer's defaults, then one      *)
(* sequence of steps for each question asked of the engine.                  *)
(***************************************************************************)
EXTENDS WorkflowEngine, Sequences

CONSTANTS alice, bob, cora      \* cora starts the instance

(* Step sequences are written as sequences; the engine indexes from zero *)
FromZero(steps) == [k \in 0 .. Len(steps) - 1 |-> steps[k + 1]]

Plain(type) ==
  [type |-> type, approvers |-> {}, role |-> NoRole, required |-> 1,
   escalate |-> {}, dated |-> FALSE, next |-> Absent, onTrue |-> Absent,
   onFalse |-> Absent, group |-> NoGroup, groupNext |-> Absent]

ApprovalBy(people, n) == [Plain("approval") EXCEPT !.approvers = people, !.required = n]
ApprovalByRole(r) == [Plain("approval") EXCEPT !.role = r]
Branch(yes, no) == [Plain("condition") EXCEPT !.onTrue = yes, !.onFalse = no]
Due(step, target) == [step EXCEPT !.dated = TRUE, !.escalate = {target}]
Parallel(step) == [step EXCEPT !.group = "g"]

MCUsers == {alice, bob, cora}

(* Amount tiers: a yes/no diamond, one arm signed by a role and the other by *)
(* one of two people, a notification, then three branches side by side, one of *)
(* them signed by two.                                                       *)
TieredSteps == FromZero(
  <<Branch(1, 2),
    ApprovalByRole("MGR"),
    Due(ApprovalBy({alice, bob}, 1), alice),
    Plain("notification"),
    Parallel(ApprovalBy({alice, bob}, 2)),
    Parallel(Due(ApprovalBy({bob, cora}, 1), alice)),
    Parallel(Plain("notification"))>>)
SingleRosters == {{}, {bob}, {cora}}

(* The definition meets the premise of the proofs *)
ASSUME PremiseAssumption == ResolvableBranches

=============================================================================
