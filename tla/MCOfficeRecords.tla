---------------------------- MODULE MCOfficeRecords ---------------------------
(***************************************************************************)
(* Instances of what the office keeps: templates, budgets, answers to one    *)
(* approval step, metadata, master data and workflow definitions.  They       *)
(* share no state, so one model runs them side by side: the scene, chosen at   *)
(* the start, says which of them moves.                                     *)
(***************************************************************************)
EXTENDS TemplateLibrary, BudgetControl, StepAnswers, MetadataService,
        MasterDataImport, WorkflowDesigner, Expressions, TLC

CONSTANTS g1, g2, key1, key2, name1, name2

VARIABLE scene

\* Accounting splits: two accounts, by share; one by amount, as a line gets it
\* when nobody enters any.
Part(a, method, n) == [account |-> a, method |-> method, share |-> n]
ByShare == {<<Part(g1, "percentage", 1), Part(g2, "percentage", 1)>>}
ByAmount == {<<Part(g1, "amount", LineTotal)>>}
EitherWay == ByShare \cup ByAmount

\* Files to upload: one row, two, one key twice, a row with its name only and
\* one with its key only.  One of the keys is a supplier, both names accounts.
Line(k, t, f) == [key |-> k, text |-> t, flag |-> f]
SomeFiles ==
  {<<Line(key1, name1, "yes")>>,
   <<Line(key1, name2, "blank"), Line(key2, name1, "no")>>,
   <<Line(key1, name1, "yes"), Line(key1, name2, "no")>>,
   <<Line(Blank, name1, "blank")>>,
   <<Line(key2, Blank, "odd")>>}
Starter == <<Line(key1, name2, "blank"), Line(key2, name2, "blank")>>

\* Workflow definitions of three steps: conditions over one threshold, approvals and a
\* parallel group, with every target; those the schema accepts are read only.  One of
\* four steps, a condition with two arms behind an approval, and one with a group that ends
\* the workflow are edited as well.
Operand(f, n) == [form |-> f, of |-> n]
FewOperands == {Operand("digits", 5), Operand("number", 6), Operand("word", 1)}
Approval(t) == [NewStep("approval") EXCEPT !.next = t, !.who = "role"]
Threshold(t, f) ==
  [NewStep("condition") EXCEPT !.onTrue = t, !.onFalse = f,
     !.rule = [op |-> "gte", value |-> Operand("digits", 5)]]
BranchOf(g, t) == [Branch(g) EXCEPT !.groupNext = t, !.who = "users"]
EditedFlow == 0 :> Approval(Unset) @@ 1 :> Threshold(2, 3) @@ 2 :> Approval(Unset) @@ 3 :> Approval(Unset)
GroupedFlow == 0 :> BranchOf("g", 3) @@ 1 :> BranchOf("g", 3) @@ 2 :> Approval(Unset)
ShortFlow == 0 :> Approval(Unset)
OneFlow == {ShortFlow}
SomeFlows ==
  {EditedFlow, GroupedFlow, ShortFlow} \cup
  {d \in [0 .. 2 -> {Approval(t) : t \in Targets(3)} \cup {Threshold(t, f) : t, f \in 0 .. 3}
                      \cup {BranchOf(g, t) : g \in GroupNames, t \in {Unset, 0, 3}}] : Accepts(d)}

\* Formulas: a field, a number, and functions of one argument to three.
NumberTokens == "2" :> 2
FewCalls == "IF" :> 3 @@ "AND" :> 2 @@ "MAX" :> 2 @@ "COUNT" :> 1 @@ "FOO" :> 1

DesignerSymmetry == Permutations(Designers)

vars == <<scene, templateVars, budgetVars, answerVars, layoutVars, importVars,
          metaVars, designVars, formula, scanVars>>

Init ==
  /\ scene \in {"templates", "budget", "answers", "layouts", "imports", "metadata", "designer",
               "formulas", "scan"}
  /\ TemplateInit /\ AnswersInit /\ MetaInit
  /\ LayoutInit /\ (scene # "layouts" => layouts[1] = NoLayout)
  /\ ImportInit /\ (scene # "imports" => kind = "codes" /\ ~ tenantless)
  /\ BudgetInit /\ \A a \in Accounts : budget[a].amount = Max(BudgetAmounts)
  /\ DesignInit /\ (scene # "designer" => versions[1].steps = ShortFlow)
  /\ IF scene = "formulas" THEN FormulaInit ELSE formula \in Leaves /\ formula.op \in Identifiers
  /\ ScanInit /\ (scene # "scan" => listed = {} /\ edges = {})
  /\ clicks = CASE versions[1].steps = EditedFlow -> 0
                [] versions[1].steps = GroupedFlow -> 1
                [] OTHER -> MaxDesignClicks

Next ==
  /\ UNCHANGED scene
  /\ \/ scene = "templates" /\ TemplateNext
     \/ scene # "templates" /\ UNCHANGED templateVars
  /\ \/ scene = "budget" /\ BudgetNext
     \/ scene # "budget" /\ UNCHANGED budgetVars
  /\ \/ scene = "answers" /\ AnswersNext
     \/ scene # "answers" /\ UNCHANGED answerVars
  /\ \/ scene = "layouts" /\ LayoutNext
     \/ scene # "layouts" /\ UNCHANGED layoutVars
  /\ \/ scene = "imports" /\ ImportNext
     \/ scene # "imports" /\ UNCHANGED importVars
  /\ \/ scene = "metadata" /\ MetaNext
     \/ scene # "metadata" /\ UNCHANGED metaVars
  /\ \/ scene = "designer" /\ DesignNext
     \/ scene # "designer" /\ UNCHANGED designVars
  /\ \/ scene = "scan" /\ ScanNext
     \/ scene # "scan" /\ UNCHANGED scanVars
  /\ UNCHANGED formula

Spec == Init /\ [][Next]_vars

\* The type invariants of the components together.
TypesOK == TemplateTypeOK /\ BudgetTypeOK /\ AnswersTypeOK /\ LayoutTypeOK /\ ImportTypeOK
             /\ MetaTypeOK /\ (scene = "designer" => DesignTypeOK) /\ ScanTypeOK
=============================================================================
