--------------------------- MODULE WorkflowDesigner ---------------------------
(***************************************************************************)
(* The page workflow/definitions: administrators draw definitions and save   *)
(* them as new versions.  The canvas and the inspector edit the steps of one  *)
(* form; an answer the inspector asked the server for (a drafted reason, the   *)
(* user behind a role) writes back the steps of the render that asked.         *)
(***************************************************************************)
EXTENDS ApprovalPaths, Sequences

CONSTANTS
  Designers,
  Flows,         \* the definitions the page starts with: one of them is stored
  MaxFlowSteps, MaxDesignClicks, MaxFlowVersions

VARIABLES
  form,          \* an administrator's form: [steps, of (the version edited), active]
  asked,         \* the steps of the render that waits for an answer, if one does
  saves,         \* an administrator's request: [commits (made so far), of, steps, active]
  versions,      \* the stored definitions, oldest first: [steps, active, deleted]
  withdrawn,     \* somebody deleted a version or saved one that is not active
  clicks         \* so far

designVars == <<form, asked, saves, versions, withdrawn, clicks>>

NoVersion == 0
NoSteps == [k \in {} |-> k]
Idle == [commits |-> -1, of |-> NoVersion, steps |-> NoSteps, active |-> FALSE]
StepTypes == {"condition", "approval", "notification", "auto", "ai"}
Groupable == {"approval", "notification", "auto"}
EmptyForm == [steps |-> NoSteps, of |-> NoVersion, active |-> TRUE]

Targets(n) == {Unset} \cup (0 .. n)
Rules == [op : Operators, value : {v \in Operands : v.form \in {"digits", "word"}}]

\* A step among n, and a definition: its targets are its own steps, or the end.
StepRows(n) ==
  [type : StepTypes, next : Targets(n), onTrue : Targets(n), onFalse : Targets(n),
   group : GroupNames \cup {NoGroup}, groupNext : Targets(n), who : {"nobody", "users", "role"},
   rule : [op : Operators, value : Operands \cup {Missing}]]
Definition(d) == \E n \in 0 .. MaxFlowSteps : d \in [0 .. n - 1 -> StepRows(n)]

NewStep(type) ==
  [type |-> type, next |-> Unset, onTrue |-> Unset, onFalse |-> Unset, group |-> NoGroup,
   groupNext |-> Unset, who |-> "nobody", rule |-> [op |-> "eq", value |-> Missing]]

ASSUME DesignerAssumption ==
  /\ {MaxFlowSteps, MaxDesignClicks, MaxFlowVersions} \subseteq Nat /\ MaxFlowVersions > 0
  /\ Flows # {} /\ \A d \in Flows : Definition(d)

-----------------------------------------------------------------------------
\* The checks of the page and of the server's schema.
GroupsAreSound(steps) ==
  \A k \in {j \in DOMAIN steps : steps[j].group # NoGroup} :
    /\ steps[k].type \in Groupable
    /\ Cardinality(Members(steps, k)) >= 2
    /\ \A m \in Members(steps, k) : steps[m].groupNext = steps[k].groupNext

ApprovalsHaveApprovers(steps) ==
  \A k \in DOMAIN steps : steps[k].type = "approval" => steps[k].who # "nobody"

\* validateSteps
Passes(steps) ==
  /\ steps # NoSteps
  /\ ApprovalsHaveApprovers(steps)
  /\ \A k \in DOMAIN steps :
       steps[k].type = "condition" => Unset \notin {steps[k].onTrue, steps[k].onFalse}
  /\ GroupsAreSound(steps)

\* WorkflowDefinitionCreate
Accepts(steps) ==
  /\ steps # NoSteps
  /\ GroupsAreSound(steps)
  /\ \A k \in DOMAIN steps : steps[k].group # NoGroup => steps[k].groupNext \in Targets(Size(steps))
  /\ ApprovalsHaveApprovers(steps)

-----------------------------------------------------------------------------
\* addStep, addParallelBranches
Extended(steps, more) ==
  [k \in 0 .. Size(steps) + Len(more) - 1 |->
     IF k \in DOMAIN steps THEN steps[k] ELSE more[k - Size(steps) + 1]]

Branch(g) == [NewStep("approval") EXCEPT !.group = g]

\* Mutant: targets stay where they were.
AdjustOnlyItself(t, i) == IF t = i THEN Unset ELSE t

\* removeStep: what led to the step leads nowhere, what led behind it moves up.
Adjust(t, i) == IF t = i THEN Unset ELSE IF t > i THEN t - 1 ELSE t

Removed(steps, i) ==
  [k \in 0 .. Size(steps) - 2 |->
     [steps[IF k < i THEN k ELSE k + 1] EXCEPT
        !.next = Adjust(@, i), !.onTrue = Adjust(@, i), !.onFalse = Adjust(@, i),
        !.groupNext = Adjust(@, i)]]

\* The inspector: the select of a target leaves out the step itself.
Offered(steps, i) == Targets(Size(steps)) \ {i}

Retargeted(steps, i) ==
  LET step == steps[i]
      at(field) == {[step EXCEPT ![field] = t] : t \in Offered(steps, i)}
  IN  CASE step.type = "condition" -> at("onTrue") \cup at("onFalse")
        [] step.type = "approval" -> at("next")
        [] OTHER -> {}

Reworded(step) ==
  CASE step.type = "condition" -> {[step EXCEPT !.rule = r] : r \in Rules}
    [] step.type = "approval" -> {[step EXCEPT !.who = w] : w \in {"nobody", "users", "role"}}
    [] OTHER -> {}

Regrouped(steps, i) ==
  LET step == steps[i] IN
  IF step.type \notin Groupable THEN {}
  ELSE {[step EXCEPT !.group = g] : g \in GroupNames \cup {NoGroup}}
         \cup {[step EXCEPT !.groupNext = t] : t \in
                 {u \in Offered(steps, i) : step.group # NoGroup}}

Edited(steps) ==
  {Extended(steps, <<NewStep(type)>>) : type \in StepTypes}
    \cup {Extended(steps, <<Branch(g), Branch(g)>>) : g \in
            {h \in GroupNames : \A k \in DOMAIN steps : steps[k].group # h}}
    \cup {Removed(steps, i) : i \in DOMAIN steps}
    \cup UNION {{[steps EXCEPT ![i] = step] :
                   step \in Retargeted(steps, i) \cup Reworded(steps[i]) \cup Regrouped(steps, i)} :
                  i \in DOMAIN steps}

Click == clicks < MaxDesignClicks /\ clicks' = clicks + 1

Edit(a) ==
  /\ Click
  /\ \E steps \in {d \in Edited(form[a].steps) : Size(d) <= MaxFlowSteps} :
       form' = [form EXCEPT ![a].steps = steps]
  /\ UNCHANGED <<asked, saves, versions, withdrawn>>

SetActive(a) ==
  /\ Click
  /\ form' = [form EXCEPT ![a].active = ~ @]
  /\ UNCHANGED <<asked, saves, versions, withdrawn>>

\* A group's name with a space at its end: the canvas looks for the members under the
\* name it has trimmed them to, finds none, and the page is gone with the form.
TypeASpace(a) ==
  /\ Click
  /\ \E i \in DOMAIN form[a].steps : form[a].steps[i].type \in Groupable
  /\ form' = [form EXCEPT ![a] = EmptyForm]
  /\ asked' = [asked EXCEPT ![a] = {}]
  /\ UNCHANGED <<saves, versions, withdrawn>>

\* handleGenerateReason, pickEscalateByRole
Ask(a) ==
  /\ Click
  /\ asked[a] = {}
  /\ \E i \in DOMAIN form[a].steps : form[a].steps[i].type = "approval"
  /\ asked' = [asked EXCEPT ![a] = {form[a].steps}]
  /\ UNCHANGED <<form, saves, versions, withdrawn>>

\* updateSelectedNode of the render that asked.
AnswerArrives(a) ==
  /\ \E steps \in asked[a] : form' = [form EXCEPT ![a].steps = steps]
  /\ asked' = [asked EXCEPT ![a] = {}]
  /\ UNCHANGED <<saves, versions, withdrawn, clicks>>

\* startEditing: the list offers what is active; cancelEditing
StartEditing(a, v) ==
  /\ Click
  /\ versions[v].active /\ ~ versions[v].deleted
  /\ form' = [form EXCEPT ![a] = [steps |-> versions[v].steps, of |-> v, active |-> TRUE]]
  /\ UNCHANGED <<asked, saves, versions, withdrawn>>

CancelEditing(a) ==
  /\ form[a].of # NoVersion
  /\ form' = [form EXCEPT ![a] = EmptyForm]
  /\ UNCHANGED <<asked, saves, versions, withdrawn, clicks>>

-----------------------------------------------------------------------------
\* handleSubmit; the form stays open to edits meanwhile.
Submit(a) ==
  /\ saves[a] = Idle
  /\ Passes(form[a].steps)
  /\ Len(versions) < MaxFlowVersions
  /\ saves' = [saves EXCEPT ![a] =
                 [commits |-> 0, of |-> form[a].of, steps |-> form[a].steps, active |-> form[a].active]]
  /\ UNCHANGED <<form, asked, versions, withdrawn, clicks>>

\* update_workflow_definition_endpoint: the commits of a save, in order.
Commits(save) == IF save.of = NoVersion THEN <<"create">> ELSE <<"create", "archive">>

SaveRefused(save) ==
  save.commits = 0 /\ (~ Accepts(save.steps) \/ (save.of # NoVersion /\ versions[save.of].deleted))

Commit(a) ==
  LET save == saves[a] IN
  /\ save # Idle /\ ~ SaveRefused(save)
  /\ save.commits < Len(Commits(save))
  /\ saves' = [saves EXCEPT ![a].commits = @ + 1]
  /\ CASE Commits(save)[save.commits + 1] = "create" ->
            /\ Len(versions) < MaxFlowVersions
            /\ versions' = Append(versions, [steps |-> save.steps, active |-> save.active, deleted |-> FALSE])
       [] OTHER -> versions' = [versions EXCEPT ![save.of].active = FALSE]
  /\ withdrawn' = (withdrawn \/ ~ save.active)
  /\ UNCHANGED <<form, asked, clicks>>

Answered(a) ==
  /\ saves[a] # Idle
  /\ saves[a].commits = Len(Commits(saves[a]))
  /\ saves' = [saves EXCEPT ![a] = Idle]
  /\ form' = [form EXCEPT ![a] = EmptyForm]
  /\ UNCHANGED <<asked, versions, withdrawn, clicks>>

\* Refused, or the server or the answer is lost anywhere on the way: the form stays.
SaveFails(a) ==
  /\ saves[a] # Idle
  /\ saves' = [saves EXCEPT ![a] = Idle]
  /\ UNCHANGED <<form, asked, versions, withdrawn, clicks>>

\* handleDelete: a version without instances.
Delete(v) ==
  /\ Click
  /\ ~ versions[v].deleted
  /\ versions' = [versions EXCEPT ![v].deleted = TRUE]
  /\ withdrawn' = TRUE
  /\ UNCHANGED <<form, asked, saves>>

-----------------------------------------------------------------------------
DesignInit ==
  /\ \E d \in Flows : versions = <<[steps |-> d, active |-> TRUE, deleted |-> FALSE]>>
  /\ form = [a \in Designers |-> EmptyForm]
  /\ asked = [a \in Designers |-> {}]
  /\ saves = [a \in Designers |-> Idle]
  /\ withdrawn = FALSE
  /\ clicks \in 0 .. MaxDesignClicks

DesignNext ==
  \/ \E a \in Designers : Edit(a) \/ SetActive(a) \/ TypeASpace(a) \/ Ask(a) \/ AnswerArrives(a)
                         \/ CancelEditing(a) \/ Submit(a) \/ Commit(a) \/ Answered(a) \/ SaveFails(a)
  \/ \E v \in DOMAIN versions : Delete(v) \/ \E a \in Designers : StartEditing(a, v)

DesignSpec == DesignInit /\ [][DesignNext]_designVars

-----------------------------------------------------------------------------
DesignTypeOK ==
  /\ \A a \in Designers :
       /\ Definition(form[a].steps) /\ form[a].active \in BOOLEAN
       /\ form[a].of \in {NoVersion} \cup DOMAIN versions
       /\ \A steps \in asked[a] : Definition(steps)
       /\ saves[a].commits \in -1 .. 2 /\ Definition(saves[a].steps)
  /\ Len(versions) \in 1 .. MaxFlowVersions
  /\ \A v \in DOMAIN versions : Definition(versions[v].steps)
  /\ withdrawn \in BOOLEAN /\ clicks \in 0 .. MaxDesignClicks

\* The newest definition is read alike by the engine, the preview and the diagram, in every context.
FlowsReadAlike ==
  \A context \in Operands \cup {Missing} : ReadAlike(versions[Len(versions)].steps, context)

\* Taking away a step that the engine would not enter changes nothing of what it enters,
\* unless that step decides a branch or is one of the arms of a step shared by conditions.
RemovalKeepsThePath(steps, context) ==
  LET path == EnginePath(steps, context) IN
  \A i \in DOMAIN steps \ path :
    steps[i].type # "condition" /\ (\A k \in DOMAIN steps : Cardinality(Diamonds(steps, k)) <= 1)
      => EnginePath(Removed(steps, i), context) = {IF k > i THEN k - 1 ELSE k : k \in path}

EditsKeepPaths ==
  \A a \in Designers : \A context \in Operands \cup {Missing} : RemovalKeepsThePath(form[a].steps, context)

\* The engine, the preview and the diagram read every stored definition alike, and an
\* edit of one keeps what the engine would enter, where there is one to read.
ReadersAgree == FlowsReadAlike /\ EditsKeepPaths

\* What the page lets through, the server takes, however steps were moved and removed.
PageChecksSuffice == \A a \in Designers : Passes(form[a].steps) => Accepts(form[a].steps)

\* The canvas draws every move the engine can make in a stored definition.
MovesAreShown == \A v \in DOMAIN versions : EveryMoveIsDrawn(versions[v].steps)

\* Until somebody deletes a version or saves an inactive one, some version is in force,
\* whatever save is under way or was cut short.
AlwaysInForce == withdrawn \/ \E v \in DOMAIN versions : versions[v].active /\ ~ versions[v].deleted

\* A definition is saved as the page has checked it, shown as the engine runs it, and one stays in force.
DesignsAreSound == PageChecksSuffice /\ MovesAreShown /\ AlwaysInForce
=============================================================================
