------------------------ MODULE RegistrationWorkbook --------------------------
(***************************************************************************)
(* The registration workbook of one supplier: generated from the live        *)
(* questionnaires and sent (registration_trigger.py), filled in and perhaps   *)
(* altered outside, and imported (excel_registration.py, file_storage.py).    *)
(*                                                                          *)
(* A send stores the file before its transaction commits the hash.  The hash  *)
(* is of the structure and taken to tell structures apart, so the structure    *)
(* itself stands for it.                                                     *)
(***************************************************************************)
EXTENDS Naturals, FiniteSets

CONSTANTS
  Codes,         \* questionnaire modules
  Questions,     \* question keys
  Replies,       \* what can be entered as a response
  Contents,      \* what a template can ask: questions, each with its rules
  Officers,      \* who sends and imports
  NoBook,        \* no file, no template, no response
  MaxBookCalls   \* bound: calls and edits, in all

\* An empty set of options allows every response.
Rules == [must : BOOLEAN, options : SUBSET Replies]

ASSUME WorkbookAssumption ==
  /\ Contents \subseteq UNION {[Q -> Rules] : Q \in SUBSET Questions}
  /\ NoBook \notin Replies /\ NoBook \notin Contents
  /\ MaxBookCalls \in Nat \ {0}

VARIABLES
  published,    \* the effective template of each module
  required,     \* required_questionnaire_modules of the supplier's type
  files,        \* the stored files: the workbook sent, the one returned, a report
  registered,   \* the registration: hash, status and stored responses
  sentFrom,     \* the templates the committed send read (history)
  inHand,       \* the supplier's copy of the workbook
  officer,      \* a call of each officer
  verdict,      \* the last import decided (history)
  bookCalls

workbookVars == <<published, required, files, registered, sentFrom, inHand, officer, verdict,
                  bookCalls>>

Cells == {"SupplierID", "SupplierType", "TemplateVersion", "QuestionnaireVersion", "Headers"}
RowCells == {"ModuleID", "QuestionText", "ScoreFormula"}

\* The modules that resolve to a template, each with it.
ResolveTemplates == [c \in {d \in required : published[d] # NoBook} |-> published[c]]

\* The sheet of a module: its headers, its hidden columns, a row for every question.
ModuleSheet(content) ==
  [headers |-> TRUE, hidden |-> TRUE,
   rows |-> [q \in DOMAIN content |->
               [must |-> content[q].must, edited |-> {}, reply |-> NoBook]]]

\* A workbook, with the cells that were edited; "made" (history) tells the templates it is of.
GenerateWorkbook(templates) ==
  [edited |-> {}, owner |-> "this", wellFilled |-> FALSE, made |-> templates,
   sheets |-> [c \in DOMAIN templates |-> ModuleSheet(templates[c])]]

\* _extract_sheet_meta: everything but the responses, the allowed values and the
\* supplier's own fields.
ExtractSheetMeta(book) ==
  [edited |-> book.edited, owner |-> book.owner,
   sheets |-> [c \in DOMAIN book.sheets |->
     [headers |-> book.sheets[c].headers, hidden |-> book.sheets[c].hidden,
      rows |-> [q \in DOMAIN book.sheets[c].rows |->
                  [must |-> book.sheets[c].rows[q].must,
                   edited |-> book.sheets[c].rows[q].edited]]]]]

\* Mutant: every required module is expected, with a template or without.
ExpectedAll(templates) == required

\* The sheets an import expects, apart from the two fixed ones.
ExpectedSheets(templates) == DOMAIN templates

\* _validate_structure, against the live templates and the hash of the last send.
StructureIsValid(book, templates, hash) ==
  /\ DOMAIN book.sheets = ExpectedSheets(templates)
  /\ book.owner = "this"
  /\ book.edited \cap {"Headers", "TemplateVersion", "QuestionnaireVersion"} = {}
  /\ \A c \in DOMAIN templates :
       LET sheet == book.sheets[c] IN
       /\ sheet.headers /\ sheet.hidden
       /\ DOMAIN sheet.rows \subseteq DOMAIN templates[c]
       /\ \A q \in DOMAIN sheet.rows :
            sheet.rows[q].edited \cap {"ModuleID", "ScoreFormula"} = {}
  /\ ExtractSheetMeta(book) = hash

\* _extract_supplier_info: name, country and e-mail are there, and what is there is well formed.
InfoIsValid(book) == book.wellFilled

\* _extract_and_validate_answers: the flag of the sheet, the options of the live template.
AnswerIsValid(r, rule) ==
  /\ r.must => r.reply # NoBook
  /\ r.reply # NoBook /\ rule.options # {} => r.reply \in rule.options

AnswersAreValid(book, templates) ==
  \A c \in DOMAIN templates : \A q \in DOMAIN book.sheets[c].rows :
    AnswerIsValid(book.sheets[c].rows[q], templates[c][q])

AnswersByModule(book, templates) ==
  [c \in DOMAIN templates |->
    LET rows == book.sheets[c].rows
    IN  [q \in {p \in DOMAIN rows : rows[p].reply # NoBook} |-> rows[q].reply]]

\* parse_and_validate_workbook
ImportIsOk(book, templates, hash) ==
  /\ StructureIsValid(book, templates, hash)
  /\ InfoIsValid(book)
  /\ AnswersAreValid(book, templates)

\* One file of each kind, under a key of the registration's, overwritten by the next.
NoFiles == [sent |-> NoBook, returned |-> NoBook, report |-> FALSE]

\* A failure leaves a report, and a later success leaves it there.
Reported(before, ok) == before \/ ~ ok

NoResponses == [c \in Codes |-> NoBook]
IdleOfficer == [doing |-> "none"]

-----------------------------------------------------------------------------
WorkbookInit ==
  /\ published \in [Codes -> Contents]
  /\ required = Codes
  /\ files = NoFiles
  /\ registered = [hash |-> NoBook, status |-> "approved", responses |-> NoResponses]
  /\ sentFrom = << >>
  /\ inHand = NoBook
  /\ officer = [u \in Officers |-> IdleOfficer]
  /\ verdict = NoBook
  /\ bookCalls = 0

BookCall == bookCalls < MaxBookCalls /\ bookCalls' = bookCalls + 1

\* A template is published, replaced, or archived: get_effective_template answers otherwise.
ChangeTemplate(c, t) ==
  /\ BookCall
  /\ t # published[c]
  /\ published' = [published EXCEPT ![c] = t]
  /\ UNCHANGED <<required, files, registered, sentFrom, inHand, officer, verdict>>

\* update_supplier_type: other modules are required.
ChangeRequired(C) ==
  /\ BookCall
  /\ C # required
  /\ required' = C
  /\ UNCHANGED <<published, files, registered, sentFrom, inHand, officer, verdict>>

\* send_registration_workbook up to the file: no status keeps it from being sent again.
SaveSent(u) ==
  /\ BookCall
  /\ officer[u] = IdleOfficer
  /\ files' = [files EXCEPT !.sent = GenerateWorkbook(ResolveTemplates)]
  /\ officer' = [officer EXCEPT ![u] = [doing |-> "sending", read |-> ResolveTemplates]]
  /\ UNCHANGED <<published, required, registered, sentFrom, inHand, verdict>>

\* The row of the workbook sent.
Sent(row, templates) ==
  [row EXCEPT !.hash = ExtractSheetMeta(GenerateWorkbook(templates)), !.status = "sent"]

CommitSent(u) ==
  /\ officer[u].doing = "sending"
  /\ registered' = Sent(registered, officer[u].read)
  /\ sentFrom' = officer[u].read
  /\ officer' = [officer EXCEPT ![u] = IdleOfficer]
  /\ UNCHANGED <<published, required, files, inHand, verdict, bookCalls>>

\* The request dies, or its commit fails; a stored file stays.
DieInCall(u) ==
  /\ officer[u] # IdleOfficer
  /\ officer' = [officer EXCEPT ![u] = IdleOfficer]
  /\ UNCHANGED <<published, required, files, registered, sentFrom, inHand, verdict, bookCalls>>

\* download_registration_workbook_endpoint
DownloadWorkbook ==
  /\ BookCall
  /\ registered.hash # NoBook
  /\ inHand' = files.sent
  /\ UNCHANGED <<published, required, files, registered, sentFrom, officer, verdict>>

\* Responses are entered, all at once, and the supplier's own fields.
FillIn ==
  /\ BookCall
  /\ inHand # NoBook
  /\ \E entered \in [Questions -> Replies \cup {NoBook}], filled \in BOOLEAN :
       inHand' = [inHand EXCEPT !.wellFilled = filled,
         !.sheets = [c \in DOMAIN @ |-> [@[c] EXCEPT
           !.rows = [q \in DOMAIN @ |-> [@[q] EXCEPT !.reply = entered[q]]]]]]
  /\ UNCHANGED <<published, required, files, registered, sentFrom, officer, verdict>>

\* What sheet protection does not keep anyone from: a locked cell, a sheet or a row
\* removed, a mandatory flag turned, a hidden column shown, another supplier's workbook.
Alterations(book) ==
  {[book EXCEPT !.edited = @ \cup {cell}] : cell \in Cells}
    \cup {[book EXCEPT !.owner = "another"]}
    \cup UNION {
      LET sheet == book.sheets[c]
          With(s) == [book EXCEPT !.sheets[c] = s]
      IN  {[book EXCEPT !.sheets = [d \in DOMAIN book.sheets \ {c} |-> book.sheets[d]]],
           With([sheet EXCEPT !.headers = FALSE]), With([sheet EXCEPT !.hidden = FALSE])}
          \cup UNION {
            {With([sheet EXCEPT !.rows = [p \in DOMAIN sheet.rows \ {q} |-> sheet.rows[p]]]),
             With([sheet EXCEPT !.rows[q].must = ~ @])}
            \cup {With([sheet EXCEPT !.rows[q].edited = @ \cup {cell}]) : cell \in RowCells}
            : q \in DOMAIN sheet.rows}
      : c \in DOMAIN book.sheets}

Alter ==
  /\ BookCall
  /\ inHand # NoBook
  /\ inHand' \in Alterations(inHand)
  /\ UNCHANGED <<published, required, files, registered, sentFrom, officer, verdict>>

\* import_registration_workbook_endpoint: whatever the verdict, the file is stored.
ReadReturned(u) ==
  LET templates == ResolveTemplates
      ok == ImportIsOk(inHand, templates, registered.hash)
  IN
  /\ BookCall
  /\ officer[u] = IdleOfficer
  /\ inHand # NoBook /\ registered.hash # NoBook
  /\ files' = [files EXCEPT !.returned = inHand, !.report = Reported(@, ok)]
  /\ verdict' = [book |-> inHand, ok |-> ok, read |-> templates, from |-> sentFrom]
  /\ officer' =
       IF ok THEN [officer EXCEPT ![u] =
                     [doing |-> "applying", read |-> AnswersByModule(inHand, templates)]]
             ELSE officer
  /\ UNCHANGED <<published, required, registered, sentFrom, inHand>>

\* apply_import_result: a module without a template by then is passed over.
ApplyImport(u) ==
  LET stored == DOMAIN officer[u].read \cap DOMAIN ResolveTemplates IN
  /\ officer[u].doing = "applying"
  /\ registered' = [registered EXCEPT !.status = "imported",
       !.responses = [c \in Codes |-> IF c \in stored THEN officer[u].read[c] ELSE @[c]]]
  /\ officer' = [officer EXCEPT ![u] = IdleOfficer]
  /\ UNCHANGED <<published, required, files, sentFrom, inHand, verdict, bookCalls>>

WorkbookNext ==
  \/ \E c \in Codes, t \in Contents \cup {NoBook} : ChangeTemplate(c, t)
  \/ \E C \in SUBSET Codes : ChangeRequired(C)
  \/ DownloadWorkbook \/ FillIn \/ Alter
  \/ \E u \in Officers :
       \/ SaveSent(u) \/ CommitSent(u) \/ DieInCall(u)
       \/ ReadReturned(u) \/ ApplyImport(u)

WorkbookSpec == WorkbookInit /\ [][WorkbookNext]_workbookVars

-----------------------------------------------------------------------------
Asked(templates) == [c \in DOMAIN templates |-> DOMAIN templates[c]]

\* A workbook nobody altered: what was generated, apart from what may be filled in.
Honest(book) == ExtractSheetMeta(book) = ExtractSheetMeta(GenerateWorkbook(book.made))

\* Everything that must be answered is, with what the workbook offers.
FilledCompletely(book) ==
  /\ book.wellFilled
  /\ \A c \in DOMAIN book.made : \A q \in DOMAIN book.made[c] :
       LET reply == book.sheets[c].rows[q].reply
           rule == book.made[c][q]
       IN  /\ rule.must => reply # NoBook
           /\ reply # NoBook /\ rule.options # {} => reply \in rule.options

WorkbookTypeOK ==
  /\ published \in [Codes -> Contents \cup {NoBook}]
  /\ required \subseteq Codes
  /\ DOMAIN files = {"sent", "returned", "report"} /\ files.report \in BOOLEAN
  /\ registered.status \in {"approved", "sent", "imported"}
  /\ DOMAIN registered.responses = Codes
  /\ DOMAIN sentFrom \subseteq Codes
  /\ \A u \in Officers : officer[u].doing \in {"none", "sending", "applying"}
  /\ bookCalls \in 0 .. MaxBookCalls

\* Whatever was done to the workbook outside, and however the templates moved: an import
\* that was accepted holds a response to every question that was mandatory when the
\* workbook was sent, no response to a question that was not asked, and none that the
\* templates read at the import do not allow (excel_registration.py:439-491).  And an
\* import is refused for a reason: a workbook that nobody altered, completely filled in
\* from what it offers, is accepted unless the templates read at the import, or those of
\* the send whose hash is held, are not the ones it was made from.
ImportsAreSoundAndFair ==
  verdict # NoBook =>
    LET book == verdict.book
        answers == AnswersByModule(book, verdict.read)
    IN
    /\ verdict.ok =>
         /\ DOMAIN answers = DOMAIN verdict.from
         /\ \A c \in DOMAIN answers :
              /\ {q \in DOMAIN verdict.from[c] : verdict.from[c][q].must} \subseteq DOMAIN answers[c]
              /\ DOMAIN answers[c] \subseteq Asked(verdict.from)[c]
              /\ \A q \in DOMAIN answers[c] :
                   verdict.read[c][q].options # {} => answers[c][q] \in verdict.read[c][q].options
    /\ Honest(book) /\ FilledCompletely(book) /\ ~ verdict.ok =>
         verdict.read # book.made \/ verdict.from # book.made
=============================================================================
