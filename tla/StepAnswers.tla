----------------------------- MODULE StepAnswers -----------------------------
(***************************************************************************)
(* The answers to one approval step, statement by statement (complete_task   *)
(* in crud/workflow.py).  WorkflowEngine takes an answer as one step; here   *)
(* the requests of several approvers run inside each other's transactions,   *)
(* at READ COMMITTED: a count sees what is committed and what the request     *)
(* itself has flushed.  The row of a task is locked from its flush on.       *)
(*                                                                         *)
(* A branch of a parallel group is the same with Required = the number of    *)
(* branches: each answer looks whether its siblings are answered.            *)
(***************************************************************************)
EXTENDS Naturals, FiniteSets

CONSTANTS
  StepTasks,       \* the rows of the step, one per approver
  Required,        \* required_approvals
  Answerers,       \* requests that may run at the same time
  MaxAnswers       \* bound: requests begun in all

ASSUME AnswersAssumption ==
  /\ IsFiniteSet(StepTasks) /\ Required \in 1..Cardinality(StepTasks) /\ MaxAnswers \in Nat

VARIABLES
  taskRow,     \* committed status of each task
  outcome,     \* what is committed of the instance: waiting, advanced, rejected
  answer,      \* per request: what it is doing, or NoAnswer
  answers,     \* requests begun (bound)
  signed,      \* history: tasks whose approval was committed at some time
  clashed      \* history: a request committed although another one had
               \* committed since it began

answerVars == <<taskRow, outcome, answer, answers, signed, clashed>>

RowStatus == {"pending", "approved", "rejected", "cancelled"}
Outcomes == {"waiting", "advanced", "rejected"}

\* A request: its task and decision; the outcome it read of the instance and
\* the one it wants; the rows it will cancel; fresh: nobody committed since.
NoAnswer == [at |-> "none"]
AnswerRecords ==
  [at : {"read", "flushed", "decided"}, task : StepTasks, decision : {"approved", "rejected"},
   was : Outcomes, wants : Outcomes, cancels : SUBSET StepTasks, fresh : BOOLEAN]

AnswersInit ==
  /\ taskRow = [t \in StepTasks |-> "pending"]
  /\ outcome = "waiting"
  /\ answer = [r \in Answerers |-> NoAnswer]
  /\ answers = 0
  /\ signed = {}
  /\ clashed = FALSE

----------------------------------------------------------------------------
Approved == {t \in StepTasks : taskRow[t] = "approved"}

\* StepTasks whose row another request has flushed and not committed.
LockedBy(r) == IF answer[r].at \in {"flushed", "decided"} THEN {answer[r].task} ELSE {}
LockedByOthers(r) == UNION {LockedBy(q) : q \in Answerers \ {r}}

\* The look-up of the task: "Task is already ... and cannot be completed again".
ReadTask(r, t, decision) ==
  /\ answers < MaxAnswers /\ answers' = answers + 1
  /\ answer[r] = NoAnswer
  /\ taskRow[t] = "pending"
  /\ answer' = [answer EXCEPT ![r] =
       [at |-> "read", task |-> t, decision |-> decision, was |-> outcome, wants |-> outcome,
        cancels |-> {}, fresh |-> TRUE]]
  /\ UNCHANGED <<taskRow, outcome, signed, clashed>>
\* The flush of the answer.
FlushAnswer(r) ==
  /\ answer[r].at = "read"
  /\ answer[r].task \notin LockedByOthers(r)
  /\ answer' = [answer EXCEPT ![r].at = "flushed"]
  /\ UNCHANGED <<taskRow, outcome, answers, signed, clashed>>

\* Mutants: the count is made before the answer is flushed; the answer is counted
\* again on top of its flushed row.
EnoughUnflushed(r) == Cardinality(Approved) >= Required

\* The count of the approvals, the request's own among them.
Enough(r) == Cardinality(Approved \cup {answer[r].task}) >= Required

\* The instance is read, and then the approvals are counted or the rows to
\* cancel are read.
Decide(r) ==
  LET a == answer[r]
      rejects == a.decision = "rejected"
  IN
  /\ a.at = "flushed"
  /\ answer' = [answer EXCEPT ![r] =
       [a EXCEPT !.at = "decided",
                 !.was = outcome,
                 !.wants = IF rejects THEN "rejected" ELSE IF Enough(r) THEN "advanced" ELSE outcome,
                 !.cancels = IF rejects THEN {t \in StepTasks \ {a.task} : taskRow[t] = "pending"} ELSE {}]]
  /\ UNCHANGED <<taskRow, outcome, answers, signed, clashed>>

\* The commit: the cancelled rows are updated whatever they are by now; a
\* status that equals the one read is not written.
CommitAnswer(r) ==
  LET a == answer[r] IN
  /\ a.at = "decided"
  /\ a.cancels \cap LockedByOthers(r) = {}
  /\ taskRow' = [t \in StepTasks |-> IF t = a.task THEN a.decision
                                 ELSE IF t \in a.cancels THEN "cancelled" ELSE taskRow[t]]
  /\ outcome' = IF a.wants = a.was THEN outcome ELSE a.wants
  /\ signed' = IF a.decision = "approved" THEN signed \cup {a.task} ELSE signed
  /\ clashed' = (clashed \/ ~ a.fresh)
  /\ answer' = [q \in Answerers |-> IF q = r \/ answer[q] = NoAnswer THEN NoAnswer
                                   ELSE [answer[q] EXCEPT !.fresh = FALSE]]
  /\ UNCHANGED answers

\* A request that dies, or whose approver started the requisition, is rolled
\* back; so is one of two that wait for each other's rows: PostgreSQL looks for
\* such cycles.
RollBack(r) ==
  /\ answer[r] # NoAnswer
  /\ answer' = [answer EXCEPT ![r] = NoAnswer]
  /\ UNCHANGED <<taskRow, outcome, answers, signed, clashed>>

Deadlocked(r, q) ==
  /\ answer[r].at = "decided" /\ answer[q].at = "decided"
  /\ answer[q].task \in answer[r].cancels /\ answer[r].task \in answer[q].cancels

BreakDeadlock(r) == (\E q \in Answerers \ {r} : Deadlocked(r, q)) /\ RollBack(r)

----------------------------------------------------------------------------
AnswerStep(r) == FlushAnswer(r) \/ Decide(r) \/ CommitAnswer(r) \/ BreakDeadlock(r)

AnswersNext ==
  \E r \in Answerers :
    \/ \E t \in StepTasks, d \in {"approved", "rejected"} : ReadTask(r, t, d)
    \/ AnswerStep(r)
    \/ RollBack(r)

AnswersSpec == AnswersInit /\ [][AnswersNext]_answerVars

----------------------------------------------------------------------------
\* The type invariant of the rows and the requests.
AnswersTypeOK ==
  /\ taskRow \in [StepTasks -> RowStatus]
  /\ outcome \in Outcomes
  /\ answer \in [Answerers -> AnswerRecords \cup {NoAnswer}]
  /\ answers \in 0..MaxAnswers
  /\ signed \in SUBSET StepTasks
  /\ clashed \in BOOLEAN

\* However answers overlap, the step is not passed with fewer signatures than
\* it asks for; a task answered twice at once counts once.
AdvancedIsSigned ==
  outcome = "advanced" => Cardinality(signed) >= Required

\* With enough approvals the step does not stay waiting, unless requests
\* overlapped: two that count at the same time each miss the other's answer, and
\* nobody is left to count again.
EnoughIsNoticed ==
  (~ clashed /\ Cardinality(Approved) >= Required) => outcome # "waiting"

\* An answer stays what it was, unless requests overlapped: a rejection cancels
\* rows that were approved after it had read them as pending.
AnswersStay ==
  [][\A t \in StepTasks :
        taskRow[t] \in {"approved", "rejected"} => taskRow'[t] = taskRow[t] \/ clashed']_answerVars

=============================================================================
