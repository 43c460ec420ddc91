---------------------------- MODULE ApprovalPaths -----------------------------
(***************************************************************************)
(* Four readers of one workflow definition: the engine that runs it, the      *)
(* preview of a draft (crud/workflow.py), the diagram of a running approval    *)
(* (approvalFlow.ts) and the designer's canvas (WorkflowCanvas.tsx).          *)
(*                                                                          *)
(* A definition is a function from 0 .. n - 1 to steps.  A target of n is     *)
(* "End"; engine and readers take a target beyond it the same way.            *)
(***************************************************************************)
EXTENDS Integers, FiniteSets, FiniteSetsExt

CONSTANTS
  GroupNames,    \* names of parallel groups
  Operands         \* what a context holds and a rule compares with: [form, of]

Unset == -1      \* a target that was not chosen; also the canvas's Start
NoGroup == ""

\* "digits" is a string that reads as a number, as contexts store amounts.
Forms == {"number", "digits", "word", "missing"}
Missing == [form |-> "missing", of |-> 0]

ASSUME PathsAssumption ==
  /\ NoGroup \notin GroupNames
  /\ Operands \subseteq [form : Forms, of : Int]

Operators == {"eq", "neq", "gte", "lt", "in"}
Size(steps) == Cardinality(DOMAIN steps)
Numeric(v) == v.form \in {"number", "digits"}
OrElse(target, otherwise) == IF target # Unset THEN target ELSE otherwise

-----------------------------------------------------------------------------
\* _evaluate_condition.  Python tells 5 from "5", orders two strings, and looks for a
\* string in a string; words stand for strings none of which is part of another.
Ordered(v, w) == (Numeric(v) /\ Numeric(w)) \/ (v.form = "word" /\ w.form = "word")

Evaluate(rule, actual) ==
  CASE rule.op = "eq" -> actual = rule.value
    [] rule.op = "neq" -> actual # rule.value
    [] rule.op = "gte" -> Ordered(actual, rule.value) /\ actual.of >= rule.value.of
    [] rule.op = "lt" -> Ordered(actual, rule.value) /\ actual.of < rule.value.of
    [] rule.op = "in" -> actual.form \in {"word", "digits"} /\ actual = rule.value

\* The diagram's evaluateCondition: == takes 5 for "5", Number(null) is 0, Number of a
\* word is NaN, and only an array can contain anything: a rule's value never is one.
AsNumber(v) == IF v.form = "missing" THEN 0 ELSE v.of
LooselyEqual(v, w) == v = w \/ (Numeric(v) /\ Numeric(w) /\ v.of = w.of)
NoWords(v, w) == "word" \notin {v.form, w.form}

ClientEvaluate(rule, actual) ==
  CASE rule.op = "eq" -> LooselyEqual(actual, rule.value)
    [] rule.op = "neq" -> ~ LooselyEqual(actual, rule.value)
    [] rule.op = "gte" -> NoWords(actual, rule.value) /\ AsNumber(actual) >= AsNumber(rule.value)
    [] rule.op = "lt" -> NoWords(actual, rule.value) /\ AsNumber(actual) < AsNumber(rule.value)
    [] rule.op = "in" -> FALSE

\* Where both mean the same: amounts compared as amounts, texts for equality.
Comparable(rule, actual) ==
  CASE rule.op \in {"gte", "lt"} -> Numeric(actual) /\ Numeric(rule.value)
    [] rule.op \in {"eq", "neq"} -> Numeric(actual) /\ Numeric(rule.value) => actual.form = rule.value.form
    [] rule.op = "in" -> FALSE

-----------------------------------------------------------------------------
(* The engine *)
Members(steps, k) == {m \in DOMAIN steps : steps[m].group = steps[k].group}

\* _condition_sibling_arm: the conditions with two different arms of which k is one.
Diamonds(steps, k) ==
  {c \in DOMAIN steps :
     /\ steps[c].type = "condition"
     /\ Unset \notin {steps[c].onTrue, steps[c].onFalse}
     /\ steps[c].onTrue # steps[c].onFalse
     /\ k \in {steps[c].onTrue, steps[c].onFalse}}

\* _continue_after_step: only the first such condition counts.
Continue(steps, k) ==
  LET first == Min(Diamonds(steps, k))
      arms == {steps[first].onTrue, steps[first].onFalse}
  IN  IF steps[k].next # Unset THEN steps[k].next
      ELSE IF Diamonds(steps, k) # {} /\ k + 1 \in arms THEN Max(arms) + 1
      ELSE k + 1

\* _run_from_step, once a step or the whole of its group is passed.
Successor(steps, k, verdict) ==
  IF steps[k].group # NoGroup THEN OrElse(steps[k].groupNext, Max(Members(steps, k)) + 1)
  ELSE IF steps[k].type = "condition"
    THEN OrElse(IF verdict THEN steps[k].onTrue ELSE steps[k].onFalse, k + 1)
  ELSE Continue(steps, k)

\* With a step of a group all its members are entered.
Whole(steps, K) ==
  K \cup UNION {Members(steps, k) : k \in {j \in K : steps[j].group # NoGroup}}

\* The steps that a walk from the first one enters in n moves.
Trail(moves, n) ==
  LET at[i \in 0 .. n] ==
        IF i = 0 THEN 0
        ELSE IF at[i - 1] \in DOMAIN moves THEN moves[at[i - 1]] ELSE at[i - 1]
  IN  {at[i] : i \in 0 .. n} \cap DOMAIN moves

\* Size moves visit every step that any number of moves visits.
EngineMoves(steps, context) ==
  [k \in DOMAIN steps |-> Successor(steps, k, Evaluate(steps[k].rule, context))]

EnginePath(steps, context) == Whole(steps, Trail(EngineMoves(steps, context), Size(steps)))

-----------------------------------------------------------------------------
(* The preview: the engine's rules, stopped at a condition whose field is missing *)
PreviewMoves(steps, context) ==
  [k \in DOMAIN steps |->
     IF steps[k].type = "condition" /\ context = Missing THEN k
     ELSE Successor(steps, k, Evaluate(steps[k].rule, context))]

PreviewPath(steps, context) == Whole(steps, Trail(PreviewMoves(steps, context), Size(steps)))

PreviewComplete(steps, context) ==
  context # Missing \/ \A k \in PreviewPath(steps, context) : steps[k].type # "condition"

PreviewSteps(steps, context) ==
  {k \in PreviewPath(steps, context) : steps[k].type = "approval"}

-----------------------------------------------------------------------------
(* The diagram *)
\* Mutant: an arm falls into its sibling.
ClientContinueStraight(steps, k) == OrElse(steps[k].next, k + 1)

\* conditionSiblingArm, continueAfterStep
ClientContinue(steps, k) ==
  LET first == {c \in Diamonds(steps, k) : \A d \in Diamonds(steps, k) : c <= d}
      merges == {Max({k, k + 1}) + 1 :
                   c \in {d \in first : {k, k + 1} = {steps[d].onTrue, steps[d].onFalse}}}
  IN  CASE steps[k].next # Unset -> steps[k].next
        [] steps[k].next = Unset /\ merges # {} -> CHOOSE t \in merges : TRUE
        [] OTHER -> k + 1

\* computeReachableSteps: at most n + 2 steps are taken.
DiagramMoves(steps, context) ==
  [k \in DOMAIN steps |->
     IF steps[k].group # NoGroup THEN OrElse(steps[k].groupNext, Max(Members(steps, k)) + 1)
     ELSE IF steps[k].type = "condition"
       THEN OrElse(IF ClientEvaluate(steps[k].rule, context)
                   THEN steps[k].onTrue ELSE steps[k].onFalse, k + 1)
     ELSE ClientContinue(steps, k)]

DiagramPath(steps, context) == Whole(steps, Trail(DiagramMoves(steps, context), Size(steps) + 1))

\* buildApprovalSteps: a step on the path has its cards, the rest has none.
Cards(steps, context) ==
  {k \in DiagramPath(steps, context) : steps[k].type \in {"approval", "auto"}}

-----------------------------------------------------------------------------
(* The canvas: buildInitialFlow *)
End(steps, t) == IF t > Size(steps) THEN Size(steps) ELSE t

Edges(steps) ==
  LET grouped == {k \in DOMAIN steps : steps[k].group # NoGroup}
      conditions == {k \in DOMAIN steps \ grouped : steps[k].type = "condition"}
      targeted == UNION {{steps[c].onTrue, steps[c].onFalse} :
                           c \in {k \in DOMAIN steps : steps[k].type = "condition"}}
      outOf(k) ==
        IF k \in grouped THEN {OrElse(steps[k].groupNext, Max(Members(steps, k)) + 1)}
        ELSE IF k \in conditions
          THEN {OrElse(steps[k].onTrue, k + 1), OrElse(steps[k].onFalse, k + 1)}
        ELSE {ClientContinue(steps, k)}
      into(k) ==
        IF k \in grouped THEN {Min(Members(steps, k)) - 1}
        ELSE IF k \in conditions THEN {j \in {k - 1} : k = 0 \/ k \notin targeted}
        ELSE {j \in {k - 1} : j \notin conditions \cup grouped /\ k \notin targeted}
  IN  {edge \in (Unset .. Size(steps)) \X (0 .. Size(steps)) :
         LET j == edge[1]  k == edge[2] IN
         /\ j # k
         /\ \/ j \in DOMAIN steps /\ k \in {End(steps, t) : t \in outOf(j)}
            \/ k \in DOMAIN steps /\ j \in into(k)
            \/ DOMAIN steps = {} /\ j = Unset}

-----------------------------------------------------------------------------
\* The engine's moves, whatever its conditions say; a step that leads to itself is not drawn.
EveryMoveIsDrawn(steps) ==
  \A k \in DOMAIN steps, verdict \in BOOLEAN :
    LET t == End(steps, Successor(steps, k, verdict)) IN t # k => <<k, t>> \in Edges(steps)

\* Where every condition compares like with like, the diagram has cards for what the engine
\* runs; and a complete preview lists the approvals it asks for.
ReadAlike(steps, context) ==
  LET path == EnginePath(steps, context)
      compared == \A k \in DOMAIN steps :
                    steps[k].type = "condition" => Comparable(steps[k].rule, context)
  IN
  /\ compared => Cards(steps, context) = {k \in path : steps[k].type \in {"approval", "auto"}}
  /\ PreviewComplete(steps, context) =>
       PreviewSteps(steps, context) = {k \in path : steps[k].type = "approval"}
=============================================================================
