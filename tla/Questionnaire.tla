---------------------------- MODULE Questionnaire ---------------------------
(***************************************************************************)
(* The questionnaire of a supplier request: the grammar of its rules, read   *)
(* once by the server (services/template_engine.py) and once by the form     *)
(* (components/DynamicTemplateForm.tsx), the score and grade of its answers, *)
(* and the page that fills it in, stores a request and submits it            *)
(* (suppliers/requests/new/page.tsx, routers/suppliers.py).                 *)
(*                                                                         *)
(* A text is its place in the alphabet, 0 the empty one; digits are a text   *)
(* that reads as a number; yes and no are texts.                            *)
(***************************************************************************)
EXTENDS Integers, Sequences, FiniteSets, SequencesExt

CONSTANTS
  Questionnaires,   \* templates that get published
  Words,            \* texts that may be typed or chosen, besides the empty one
  Figures,          \* numbers that may be typed
  LegacyChecks,     \* yes/no questions that are also columns of the request
  NoForm,           \* null
  MaxRequests,      \* bound: requests stored
  MaxFills          \* bound: answers given

VARIABLES
  inForce,    \* the published template, or NoForm
  form,       \* the template on the page: NoForm while there is none
  answers,    \* answers on the page
  filed,      \* supplier requests stored by the page, in order
  step,       \* what the page waits for
  fills,      \* answers given (bound)
  lostAnswer  \* history: an answer of the server was lost

questionnaireVars == <<inForce, form, answers, filed, step, fills, lostAnswer>>

Text(w) == [text |-> w]
Digits(n) == [digits |-> n]
Figure(n) == [figure |-> n]
Chosen(S) == [chosen |-> S]
Unset == [none |-> TRUE]
No == Text(1)
Yes == Text(2)
EmptyText == Text(0)
IsText(v) == "text" \in DOMAIN v
IsFigure(v) == "figure" \in DOMAIN v
IsChosen(v) == "chosen" \in DOMAIN v

----------------------------------------------------------------------------
\* Rules: none at all, a group of rules, or a field compared with a value.
Shown == [always |-> TRUE]
AllOf(rules) == [all |-> rules]
AnyOf(rules) == [any |-> rules]
Where(field, op, value) == [field |-> field, op |-> op, value |-> value]
OrderingOps == {"gt", "gte", "lt", "lte"}

\* The rules inside a group, and the rules of each depth of a tree.  Validation
\* lets nothing but an absent rule stand deeper than the sixth of them.
Parts(rule) ==
  IF "all" \in DOMAIN rule THEN ToSet(rule.all)
  ELSE IF "any" \in DOMAIN rule THEN ToSet(rule.any) ELSE {}
Inside(rules) == UNION {Parts(r) : r \in rules}
Depths(rule) ==
  LET d1 == {rule}  d2 == Inside(d1)  d3 == Inside(d2)  d4 == Inside(d3)
      d5 == Inside(d4)  d6 == Inside(d5)
  IN  <<d1, d2, d3, d4, d5, d6, Inside(d6)>>
IsGroup(rule) == {"all", "any"} \cap DOMAIN rule # {}

\* _validate_visibility_rule: what may be stored, up to five levels deep.
ValidRule(rule) ==
  /\ Depths(rule)[7] \subseteq {Shown}
  /\ \A n \in 1..6 : \A r \in Depths(rule)[n] :
       CASE r = Shown -> TRUE
         [] IsGroup(r) -> Parts(r) # {}
         [] OTHER -> r.op \in OrderingOps \cup {"eq", "neq", "in"}

\* The rules of the guided editor compare with what is typed, which is a text.
Guided(rule) == "field" \in DOMAIN rule /\ ~IsFigure(rule.value) /\ ~IsChosen(rule.value)

\* _coerce_numeric, coerceNumeric
Coerced(v) == IF "digits" \in DOMAIN v THEN Figure(v.digits) ELSE v

Ordered(op, a, b) ==
  CASE op = "gt" -> a > b [] op = "gte" -> a >= b [] op = "lt" -> a < b [] op = "lte" -> a =< b

\* Any of the answer's choices, or the answer, is among the values of the rule.
Among(v, expected) ==
  LET items == IF IsChosen(expected) THEN expected.chosen ELSE {expected}
  IN  IF IsChosen(v) THEN v.chosen \cap items # {} ELSE v \in items

\* evaluate_visibility: texts are compared with texts, numbers with numbers,
\* anything else fails.
ServerCompares(op, v, expected) ==
  IF op = "neq" THEN v # expected
  ELSE IF v = Unset THEN FALSE
  ELSE IF op = "eq" THEN v = expected
  ELSE IF op = "in" THEN Among(v, expected)
  ELSE LET a == Coerced(v)  b == Coerced(expected) IN
       \/ IsFigure(a) /\ IsFigure(b) /\ Ordered(op, a.figure, b.figure)
       \/ IsText(a) /\ IsText(b) /\ Ordered(op, a.text, b.text)

\* Mutant: a question that is not answered yet fails every comparison.
ClientComparesAnswered(op, v, expected) ==
  /\ v # Unset
  /\ CASE op = "neq" -> v # expected
       [] op = "eq" -> v = expected
       [] op = "in" -> Among(v, expected)
       [] OTHER -> LET a == Coerced(v)  b == Coerced(expected)
                   IN  IsFigure(a) /\ IsFigure(b) /\ Ordered(op, a.figure, b.figure)

\* evaluateVisibility: only numbers are ordered, and no list equals another.
ClientCompares(op, v, expected) ==
  IF op = "neq" THEN v = Unset \/ IsChosen(expected) \/ v # expected
  ELSE IF v = Unset THEN FALSE
  ELSE IF op = "eq" THEN v = expected /\ ~IsChosen(v)
  ELSE IF op = "in" THEN Among(v, expected)
  ELSE LET a == Coerced(v)  b == Coerced(expected)
       IN  IsFigure(a) /\ IsFigure(b) /\ Ordered(op, a.figure, b.figure)

Given(given, k) == IF k \in DOMAIN given THEN given[k] ELSE Unset

\* Which of some rules are met, with the comparisons of the one side or of the
\* other, once it is known which of the rules inside them are.
Met(rules, inner, given, byServer) ==
  {r \in rules :
     IF "all" \in DOMAIN r THEN Parts(r) \subseteq inner
     ELSE IF "any" \in DOMAIN r THEN Parts(r) \cap inner # {}
     ELSE \/ r = Shown
          \/ LET v == Given(given, r.field)
             IN  IF byServer THEN ServerCompares(r.op, v, r.value) ELSE ClientCompares(r.op, v, r.value)}

\* The tree of a rule, from its leaves to its root.
Visible(rule, given, byServer) ==
  LET d == Depths(rule)
      m7 == Met(d[7], {}, given, byServer)
      m6 == Met(d[6], m7, given, byServer)
      m5 == Met(d[5], m6, given, byServer)
      m4 == Met(d[4], m5, given, byServer)
      m3 == Met(d[3], m4, given, byServer)
      m2 == Met(d[2], m3, given, byServer)
  IN  rule \in Met(d[1], m2, given, byServer)

----------------------------------------------------------------------------
\* A template is a sequence of sections, each with a rule and questions.
QuestionsOf(t) == UNION {ToSet(t[i].questions) : i \in DOMAIN t}
RulesOf(t) == {t[i].rule : i \in DOMAIN t} \cup {q.rule : q \in QuestionsOf(t)}
Open(t, given, byServer) ==
  UNION {{q \in ToSet(t[i].questions) : q.enabled /\ Visible(q.rule, given, byServer)} :
         i \in {j \in DOMAIN t : Visible(t[j].rule, given, byServer)}}
KeysIn(questions) == {q.key : q \in questions}
Unanswered(v) == v \in {Unset, EmptyText, Chosen({})}

\* validate_mandatory
Missing(t, given) ==
  {q \in Open(t, given, TRUE) : q.mandatory /\ Unanswered(Given(given, q.key))}

\* Scores: none, a score per answer, a threshold, or one for any answer at all.
Unscored == [weight |-> 0]
ByAnswer(weight, scores) == [weight |-> weight, map |-> scores]
ByThreshold(weight, limit, above, below) ==
  [weight |-> weight, threshold |-> limit, above |-> above, below |-> below]
ByPresence(weight, score) == [weight |-> weight, present |-> score]

\* _validate_scoring_rule, with the scores of the editor's inputs.
ValidScore(s) ==
  \/ s = Unscored
  \/ /\ s.weight \in 1..100
     /\ Cardinality({"map", "threshold", "present"} \cap DOMAIN s) = 1
     /\ \A f \in {"above", "below", "present"} \cap DOMAIN s : s[f] \in 0..10
     /\ "map" \in DOMAIN s => \A v \in DOMAIN s.map : s.map[v] \in 0..10

\* _score_question: a score from 0 to 10.
Score(s, v) ==
  CASE "present" \in DOMAIN s -> IF Unanswered(v) THEN 0 ELSE s.present
    [] v = Unset -> 0
    [] "map" \in DOMAIN s -> IF v \in DOMAIN s.map THEN s.map[v] ELSE 0
    [] "threshold" \in DOMAIN s ->
         LET n == Coerced(v) IN
         IF ~IsFigure(n) THEN 0 ELSE IF n.figure >= s.threshold THEN s.above ELSE s.below

\* quantize: hundredths, a half to the even one.
InHundredths(n, d) ==
  LET low == (100 * n) \div d  rest == (100 * n) % d
  IN  IF 2 * rest > d \/ (2 * rest = d /\ low % 2 = 1) THEN low + 1 ELSE low

\* score_response, in hundredths, of the questions counted.
NoScore == -1
ScoreOf(questions, given) ==
  LET scored == {q \in questions : q.score.weight > 0}
      weight == SumFunctionOnSet([q \in scored |-> q.score.weight], scored)
      points == [q \in scored |-> q.score.weight * Score(q.score, Given(given, q.key)) * 10]
      sum == SumFunctionOnSet(points, scored)
  IN  IF weight = 0 THEN NoScore ELSE InHundredths(sum, weight)

\* grade_bands_for_module, grade_for_score: the module of supplier requests has
\* the general bands, those of registrations have their own.
Bands(registration) ==
  IF registration THEN <<[floor |-> 9000, grade |-> "A"], [floor |-> 7500, grade |-> "B"],
                         [floor |-> 5000, grade |-> "C"]>>
  ELSE <<[floor |-> 9000, grade |-> "A"], [floor |-> 8000, grade |-> "B"],
         [floor |-> 7000, grade |-> "C"], [floor |-> 6000, grade |-> "D"]>>
Grade(score, registration) ==
  LET met == SelectSeq(Bands(registration), LAMBDA b : score >= b.floor)
  IN  IF score = NoScore THEN "none" ELSE IF met # << >> THEN met[1].grade
      ELSE IF registration THEN "D" ELSE "F"

ValidTemplate(t) ==
  /\ \A rule \in RulesOf(t) : ValidRule(rule)
  /\ \A q \in QuestionsOf(t) : ValidScore(q.score)
  /\ \A i, j \in DOMAIN t : \A p \in DOMAIN t[i].questions, q \in DOMAIN t[j].questions :
       t[i].questions[p].key = t[j].questions[q].key => <<i, p>> = <<j, q>>

ASSUME QuestionnaireAssumption ==
  NoForm \notin Questionnaires /\ \A t \in Questionnaires : ValidTemplate(t)

----------------------------------------------------------------------------
\* What a field delivers: a file delivers its name; a cleared field the empty
\* text; text that looks like a number is one for the rules.
Offered(q) ==
  CASE q.type = "yes_no" -> {No, Yes}
    [] q.type = "dropdown" -> {Text(w) : w \in q.options \cup {0}}
    [] q.type = "multiselect" -> {Chosen({Text(w) : w \in S}) : S \in SUBSET q.options}
    [] q.type = "numeric" -> {Digits(n) : n \in Figures} \cup {EmptyText}
    [] q.type \in {"date", "file_upload"} -> {Text(w) : w \in Words \cup {0}}
    [] q.type = "text" -> {Text(w) : w \in Words \cup {0}} \cup {Digits(n) : n \in Figures}

\* Fields the browser insists on: not radio buttons, check boxes, nor what is disabled.
Insisted(q) == q.mandatory /\ q.editable /\ q.type \notin {"yes_no", "multiselect"}

\* _legacy_fields_from_answers, _answers_from_legacy_fields: the columns of
\* yes/no questions are false unless answered, and are answers in their turn.
Stored(given) ==
  [k \in DOMAIN given \cup LegacyChecks |->
     IF k \notin LegacyChecks THEN given[k]
     ELSE IF Given(given, k) = Yes THEN Yes ELSE IF Given(given, k) = Unset THEN No ELSE given[k]]

\* A request: whether it has a template response (only with a template in force),
\* its answers, and the score of its submission.
Filed(given, responds) ==
  [status |-> "draft", responds |-> responds, answers |-> Stored(given), score |-> NoScore]

Ready == [waits |-> "nothing"]

QuestionnaireInit ==
  /\ inForce \in Questionnaires \cup {NoForm}
  /\ form = NoForm /\ answers = << >> /\ filed = << >>
  /\ step = [waits |-> "template"] /\ fills = 0 /\ lostAnswer = FALSE

\* publish_template_definition
PublishForm(t) ==
  /\ t \in Questionnaires \ {inForce}
  /\ fills < MaxFills /\ fills' = fills + 1
  /\ inForce' = t
  /\ UNCHANGED <<form, answers, filed, step, lostAnswer>>

\* The effect of the page: the template in force, or none when the call fails.
LoadForm ==
  /\ step.waits = "template"
  /\ form' \in {inForce, NoForm}
  /\ step' = Ready
  /\ UNCHANGED <<inForce, answers, filed, fills, lostAnswer>>

\* setAnswer: fields that are shown and editable, while nothing is saved.
AnswerField(q, v) ==
  /\ step = Ready /\ form # NoForm
  /\ q \in Open(form, answers, FALSE) /\ q.editable
  /\ v \in Offered(q) /\ v # Given(answers, q.key)
  /\ fills < MaxFills /\ fills' = fills + 1
  /\ answers' = [k \in DOMAIN answers \cup {q.key} |-> IF k = q.key THEN v ELSE answers[k]]
  /\ UNCHANGED <<inForce, form, filed, step, lostAnswer>>

\* save: "Save draft", or "Submit request" when the browser finds its fields filled.
Save(submit) ==
  /\ step = Ready /\ Len(filed) < MaxRequests
  /\ submit /\ form # NoForm =>
       \A q \in Open(form, answers, FALSE) : Insisted(q) => ~Unanswered(Given(answers, q.key))
  /\ step' = [waits |-> "create", submit |-> submit]
  /\ UNCHANGED <<inForce, form, answers, filed, fills, lostAnswer>>

\* create_supplier_request_endpoint: with a template in force, a response too.
Create ==
  /\ step.waits = "create"
  /\ filed' = Append(filed, Filed(answers, inForce # NoForm))
  /\ step' = IF step.submit THEN [waits |-> "submit"] ELSE [waits |-> "leave"]
  /\ UNCHANGED <<inForce, form, answers, fills, lostAnswer>>

\* transition_supplier_request: a request without a response is not validated; one
\* with missing answers stays a draft, and the page shows the refusal.
SubmitRequest ==
  LET r == filed[Len(filed)]
      questions == IF r.responds THEN Open(inForce, r.answers, TRUE) ELSE {}
  IN
  /\ step.waits = "submit"
  /\ IF r.responds /\ Missing(inForce, r.answers) # {}
     THEN filed' = filed /\ step' = Ready
     ELSE /\ filed' = [filed EXCEPT ![Len(filed)].status = "submitted",
                                    ![Len(filed)].score = ScoreOf(questions, r.answers)]
          /\ step' = [waits |-> "leave"]
  /\ UNCHANGED <<inForce, form, answers, fills, lostAnswer>>

\* router.replace
LeavePage ==
  /\ step.waits = "leave" /\ step' = [waits |-> "left"]
  /\ UNCHANGED <<inForce, form, answers, filed, fills, lostAnswer>>

\* A call fails before the server, or its answer is lost: the page shows an error
\* and can be used again.
CallFails ==
  /\ step.waits \in {"create", "submit", "leave"}
  /\ lostAnswer' = (lostAnswer \/ step.waits = "leave")
  /\ step' = Ready
  /\ UNCHANGED <<inForce, form, answers, filed, fills>>

QuestionnaireNext ==
  \/ LoadForm \/ Create \/ SubmitRequest \/ LeavePage \/ CallFails
  \/ \E t \in Questionnaires : PublishForm(t)
  \/ \E s \in BOOLEAN : Save(s)
  \/ form # NoForm /\ \E q \in QuestionsOf(form) : \E v \in Offered(q) : AnswerField(q, v)

QuestionnaireSpec == QuestionnaireInit /\ [][QuestionnaireNext]_questionnaireVars

----------------------------------------------------------------------------
\* The type invariant of the page and its requests.
QuestionnaireTypeOK ==
  /\ {inForce, form} \subseteq Questionnaires \cup {NoForm}
  /\ \A i \in DOMAIN filed : /\ filed[i].status \in {"draft", "submitted"}
                             /\ filed[i].score \in {NoScore} \cup 0..10000
  /\ Len(filed) =< MaxRequests /\ fills \in 0..MaxFills /\ lostAnswer \in BOOLEAN
  /\ step.waits \in {"template", "nothing", "create", "submit", "leave", "left"}

\* Comparisons the two sides read alike: a date or another text is not put in
\* order, a list is not compared as a whole, and no rule asks whether a field is
\* anything but null.  The column of a yes/no question is only compared when the
\* template asks that question.
Plain(r, keys) ==
  /\ r.op \in OrderingOps => ~IsText(r.value)
  /\ r.op \in {"eq", "neq"} => ~IsChosen(r.value) /\ r.value # Unset
  /\ r.field \in LegacyChecks => r.field \in keys
AllPlain(t) ==
  \A rule \in RulesOf(t) : \A n \in 1..7 : \A r \in Depths(rule)[n] :
     r = Shown \/ IsGroup(r) \/ Plain(r, KeysIn(QuestionsOf(t)))

\* "mirrors evaluate_visibility EXACTLY": the fields on the screen are the questions
\* the server asks, counts and scores, for templates whose rules are plain and once
\* the yes/no questions that are columns are answered; so a refusal only ever names
\* fields that can be seen.
ScreenDecides ==
  (/\ form # NoForm /\ AllPlain(form)
   /\ \A k \in LegacyChecks \cap KeysIn(QuestionsOf(form)) : Given(answers, k) # Unset) =>
     LET screen == Open(form, answers, FALSE) IN
     /\ Missing(form, Stored(answers))
          = {q \in screen : q.mandatory /\ Unanswered(Given(answers, q.key))}
     /\ ScoreOf(Open(form, Stored(answers), TRUE), Stored(answers)) = ScoreOf(screen, answers)

\* A page submits one request, however often it was refused and tried again,
\* unless an answer of the server was lost.
OneSubmitted ==
  lostAnswer \/ Cardinality({i \in DOMAIN filed : filed[i].status = "submitted"}) =< 1

\* What is submitted is what the screen showed and asked for, and once.
SubmittedAsShown == ScreenDecides /\ OneSubmitted
=============================================================================
