---------------------------- MODULE MCTradeRecords ---------------------------
(***************************************************************************)
(* Instances of the components around trading partners, and of the pages     *)
(* people fill in for them.  They share no state, so one model runs them side  *)
(* by side: the scene, chosen at the start, says which of them moves.        *)
(***************************************************************************)
EXTENDS TradingPartners, SupplierRecords, OrderChanges, PreferredStatus,
        RequisitionEntry, RegistrationWorkbook, Questionnaire, TemplateEditor

CONSTANTS b1, b2, b3, x1, x2

VARIABLE scene

\* The first supplier responds twice.
TwoOfOneBidder == b1 :> x1 @@ b2 :> x1 @@ b3 :> x2

AnyVendor == CHOOSE v \in Vendors : TRUE

\* What is typed for an order: a line of its own, and other figures for a line.
SomeTyped ==
  {[item |-> i, quantity |-> MaxQuantity, price |-> CHOOSE p \in Prices : TRUE] :
     i \in {Unlinked, CHOOSE i \in Items \ TwoWay : TRUE}}

\* A supplier nothing is known of, a good one, and one at risk.
Part(bad, all) == [bad |-> bad, all |-> all]
Known(quality, receipts, invoices, risk, spend, signed) ==
  [quality |-> quality, receipts |-> receipts, invoices |-> invoices, risk |-> risk,
   spend |-> spend, contract |-> signed]
Newcomer == Known(Unknown, Part(0, 0), Part(0, 0), Unknown, 0, FALSE)
FewFacts == {Newcomer, Known(95, Part(0, 2), Part(0, 1), 10, 3, TRUE),
             Known(70, Part(1, 2), Part(0, 1), 85, 1, FALSE)}

\* Rows of a requisition: complete, without an account, touched and left.
Filled(fields) == [f \in Fields |-> f \in fields]
Complete == Filled({"description", "price", "category", "account"})
SomeRows == {Complete, Filled({"description", "price", "category"}), Filled({"quantity"})}
Unsound == CHOOSE s \in Sellers \ Sound : TRUE
SomeItems == {[row |-> Complete, seller |-> Unsound],
              [row |-> Filled({"description", "price"}), seller |-> None]}

\* One copy lacks a supplier and rows, the other an account.
SomeCopies ==
  {[header |-> [titled |-> TRUE, valued |-> TRUE, supplier |-> None, extras |-> FALSE],
    rows |-> << >>],
   [header |-> [titled |-> TRUE, valued |-> TRUE, supplier |-> CHOOSE s \in Sound : TRUE,
                extras |-> TRUE],
    rows |-> <<Filled({"description", "price"})>>]}

\* Questionnaires: one question, with one option or the other, or two, none of them mandatory.
Asks(must, options) == [must |-> must, options |-> options]
SomeContents ==
  {"q1" :> Asks(TRUE, {"a1"}), "q1" :> Asks(TRUE, {"a2"}),
   "q1" :> Asks(FALSE, {}) @@ "q2" :> Asks(TRUE, {"a1", "a2"})}

\* A form with a check that is a column of the request, a figure, and a proof one of
\* them asks for; one with choices; and one that orders a date, which only the server does.
Field(k, type, must, rule, score) ==
  [key |-> k, type |-> type, options |-> {3, 4}, mandatory |-> must, enabled |-> TRUE,
   editable |-> TRUE, rule |-> rule, score |-> score]
Group(rule, fields) == [rule |-> rule, questions |-> fields]
SomeForms ==
  {<<Group(Shown, <<Field("check", "yes_no", TRUE, Shown, ByAnswer(20, Yes :> 10 @@ No :> 4)),
                    Field("spend", "numeric", FALSE, Shown, ByThreshold(10, 5, 9, 2))>>),
     Group(AnyOf(<<Where("check", "eq", Yes), Where("spend", "gte", Digits(6))>>),
           <<Field("proof", "file_upload", TRUE, Where("check", "neq", No), ByPresence(15, 10))>>)>>,
   <<Group(Shown, <<Field("when", "date", FALSE, Shown, Unscored),
                    Field("which", "multiselect", TRUE, Shown, Unscored),
                    Field("more", "dropdown", TRUE,
                          AllOf(<<Where("which", "in", Text(3)), Where("when", "neq", Text(4))>>),
                          ByPresence(1, 5)),
                    Field("other", "text", FALSE, Where("when", "neq", Text(3)), ByPresence(2, 5))>>)>>,
   <<Group(Shown, <<Field("when", "date", FALSE, Shown, Unscored),
                    Field("why", "text", TRUE, Where("when", "gt", Text(3)), Unscored)>>)>>}

OneQuestion == << <<[key |-> "k1", rule |-> Always]>> >>

vars == <<scene, hierarchyVars, recordVars, sourcingVars, contractVars, flagVars, changeVars,
          preferredVars, entryVars, workbookVars, questionnaireVars, editorVars>>

Init ==
  /\ scene \in {"hierarchy", "records", "sourcing", "contract", "flag", "changes", "preferred", "entry",
               "workbook", "form", "editor"}
  /\ HierarchyInit /\ RecordsInit /\ SourcingInit /\ ContractInit /\ FlagInit /\ ChangesInit
  /\ PreferredInit /\ EntryInit /\ WorkbookInit
  /\ QuestionnaireInit /\ EditorInit
  /\ scene # "form" => inForce = NoForm
  /\ templates[CHOOSE d \in Templates : TRUE] # Absent
  /\ header.vendor = AnyVendor /\ \A i \in Items : demand[i].quantity = 1
  /\ scene # "changes" => inApproval
  /\ \A s \in Rated : facts[s] = Newcomer
  /\ scene # "preferred" => reviewed
  /\ scene # "entry" => page = "quick"
  /\ published = [c \in Codes |-> "q1" :> Asks(TRUE, {"a1"})]

Next ==
  /\ UNCHANGED scene
  /\ \/ scene = "hierarchy" /\ HierarchyNext
     \/ scene # "hierarchy" /\ UNCHANGED hierarchyVars
  /\ \/ scene = "records" /\ RecordsNext
     \/ scene # "records" /\ UNCHANGED recordVars
  /\ \/ scene = "sourcing" /\ SourcingNext
     \/ scene # "sourcing" /\ UNCHANGED sourcingVars
  /\ \/ scene = "contract" /\ ContractNext
     \/ scene # "contract" /\ UNCHANGED contractVars
  /\ \/ scene = "flag" /\ FlagNext
     \/ scene # "flag" /\ UNCHANGED flagVars
  /\ \/ scene = "changes" /\ ChangesNext
     \/ scene # "changes" /\ UNCHANGED changeVars
  /\ \/ scene = "preferred" /\ PreferredNext
     \/ scene # "preferred" /\ UNCHANGED preferredVars
  /\ \/ scene = "entry" /\ EntryNext
     \/ scene # "entry" /\ UNCHANGED entryVars
  /\ \/ scene = "workbook" /\ WorkbookNext
     \/ scene # "workbook" /\ UNCHANGED workbookVars
  /\ \/ scene = "form" /\ QuestionnaireNext
     \/ scene # "form" /\ UNCHANGED questionnaireVars
  /\ \/ scene = "editor" /\ EditorNext
     \/ scene # "editor" /\ UNCHANGED editorVars

Spec == Init /\ [][Next]_vars

\* In most scenes two users are alike, whoever they are there.
Exchanged(users) == CHOOSE p \in Permutations(users) : \A u \in users : p[u] # u
AllExchanged ==
  Exchanged(Clerks) @@ Exchanged(Stewards) @@ Exchanged(Buyers) @@ Exchanged(Managers)
    @@ Exchanged(Editors) @@ Exchanged(Requesters) @@ Exchanged(Scorers)
Alike == {[u \in DOMAIN AllExchanged |-> IF exchanged THEN AllExchanged[u] ELSE u] : exchanged \in BOOLEAN}

\* The type invariants of the components together.
TypesOK == HierarchyTypeOK /\ RecordsTypeOK /\ SourcingTypeOK /\ ContractTypeOK
             /\ FlagTypeOK /\ ChangesTypeOK /\ PreferredTypeOK /\ EntryTypeOK /\ WorkbookTypeOK
             /\ QuestionnaireTypeOK /\ EditorTypeOK
=============================================================================
