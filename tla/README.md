# S2PNexus: a verification project

S2PNexus is a source-to-pay application: people raise purchase requisitions,
approve them, order, receive, and pay the invoices that come in. The backend is
FastAPI and SQLAlchemy on PostgreSQL (`backend/app`), the frontend is Next.js
(`frontend/app`), and a small service talks to language models
(`adk-service`). This directory holds TLA+ modules of the parts that decide
things: who has to say yes before money is committed, and what may happen
between a "yes" and an order, or between a "no" and a payment; how a supplier is
let in; and what the records, templates and forms around these promise when
requests overlap or answers come late.

    tlc -workers 2 -config engine_tiered.cfg MCWorkflowEngine     # a run
    tlapm WorkflowEngineProofs.tla                                # the proofs

Paths below are relative to `src/`, and `backend/app/` is left out where no
confusion can arise. PROJECT.json lists every run, the mutant that each property
catches, and the source lines of every definition.

## 1. Inventory

### 1.1 Ground rules of the code

* One HTTP request is one database session (`database/database.py`): it commits
  when the request ends and rolls back when it raises. Many CRUD functions also
  commit in the middle, so a request may be several transactions.
* `autoflush=False`, `expire_on_commit=False`: a query does not see what the
  same session has added and not flushed; objects keep their values after a
  commit, and are expired by a rollback.
* PostgreSQL at READ COMMITTED. The only row lock the code asks for is
  `SELECT ... FOR UPDATE` on a document-number counter; an `UPDATE` locks the
  rows it changes from its flush to the end of the transaction. Almost no table
  has a unique constraint that would stop a second row.
* A unit of work writes only the columns whose value differs from the one it
  read: two requests that overlap can leave a row neither of them meant.
* There is no scheduler. Sweeps (deferred orders, escalations, reminders) are
  endpoints somebody has to call
  (`docs/COPILOT_PR_TO_PO_DEFECTS_PROMPT.md:67-74`).

### 1.2 Components

**Workflow engine** (`crud/workflow.py`, 1222 lines; `routers/workflow.py`,
`schemas/workflow.py`, `models/workflow.py`).
State: a definition (a list of steps: approval, condition, notification, auto,
ai; routes between them; parallel groups; approvers or a role; a required
count; SLA and escalation target), an instance (status, current step, a context
snapshot), task rows (pending, approved, rejected, escalated, cancelled).
Operations: start, complete a task, remove a task as admin, escalate overdue
tasks, retry, publish or archive a definition. All of them end in
`_run_from_step`, a loop that walks the steps until it has to wait.
Calls out: approver resolution, and a completion branch that creates orders,
suppliers or contracts.
Hard: rows a quorum leaves behind, branches finishing in any order, a step no
approver resolves for, retry after a partial answer, two answers at once.
Correct when: nothing passes an approval unsigned; effects happen once;
answering everything ends the wait; answered rows are history.

**Approval master data** (`crud/approval.py`, `services/approval_rule_engine.py`,
`services/approval_audit.py`). Which users hold a role, with validity dates and
delegation; audit events. It changes under running instances.

**Requisitions** (`routers/procurement.py`, `crud/procurement.py`,
`services/procurement_workflow.py`, `services/procurement_change_control.py`,
`services/procurement_versioning.py`, the exception dashboard in
`crud/analytics.py`).
State: lifecycle, approval status, delay_until, header and lines, workflow
instances, orders. Operations: submit, direct approve, other transitions, edit,
delete, convert, retry of an exception, sweep.
Hard: two sources of truth for "approved" (the engine and a value-threshold
rule), edits and cancellations under a running instance, orders from five
places. Correct when: one order, made from what was approved, not before the
approvers, and not forgotten.

**Order creation** (`auto_create_po_from_requisition` and what it calls:
`crud/procurement.py:create_purchase_order`, `crud/document_numbering.py`,
receipts, mail). Up to seven commits in a request. Hard: two requests at once,
a death between commits, a rollback inside a helper, a mail that cannot be
unsent. Correct when: calls are idempotent, numbers are a sequence, an order and
the audit trail rest on a committed answer, nobody waits for ever.

**Order lifecycle, change control and receipts** (`crud/procurement.py`,
`services/receipt_workflow.py`, `services/procurement_workflow.py`,
`services/procurement_change_control.py`).
State: the order's lifecycle and its last amendment, receipts with a status and
accepted quantities per line, the match status of its invoice. Operations: a
transition table; create, submit, approve, reject, post a receipt; receipts and
drafts made automatically; amend; invoice. Four of them write the lifecycle, and
only one goes by the table.
Hard: requests that overlap overwrite each other's statuses; sums over receipts
in any status; queries and collections that are stale inside one request; a
request of several commits. Correct when: an order the system closes has its
goods; nothing is posted unapproved; one open receipt per line; what ended stays.
GR/IR balances (`services/grir.py`) and the exception workflow of receipts
(`services/goods_receipt_workflow.py`) are called from here and write neither.

**Invoices** (`crud/procurement.py`, `services/invoice_matching.py`,
`services/invoice_blocking.py`, `services/invoice_approval_workflow.py`,
`services/ok_to_pay.py`). State: match status, status, block, exceptions with
seven states, an approval instance, a link to an order. Operations: create,
match, resolve/override/cancel/review/bulk-resolve exceptions, release, approve,
reject, OK-to-Pay. Hard: three places count different subsets of the exception
states; a block that several operations lift. Correct when: nothing that
somebody refused is paid, and a block goes by the right hand.

**Document numbering** (`crud/document_numbering.py`): one counter row per
tenant, type and period; pattern and reset cadence.

**GR/IR** (`services/grir.py`): received against invoiced quantities of an order
line, recomputed and stored by a posting or a match. Hard: two that insert at
once; a record older than the documents.

**Budget control** (`crud/budget.py`, `crud/accounting_split.py`). State: budgets
per account and period, splits of order and invoice lines. Nothing is stored of
what is committed or spent; each check sums it anew and its approval commits
later. Correct when: a hard budget holds and no dollar counts twice.

**Suppliers** (`crud/supplier*.py`, `routers/suppliers.py`,
`services/supplier_workflow.py`, `services/registration_trigger.py`,
`services/excel_registration.py`, `services/preferred_supplier.py`). State: a
request, its instances, its registration with a workbook, the supplier record
with its lifecycle, parent, merge pointer, addresses and accounts, and its
preferred status. Operations: request, approve, register, send and import a
workbook, convert, activate, attach to a parent, merge, prefer, score, override.
Hard: an approval creates several rows after looking for them; walks over the
hierarchy while it changes; merges that cross; a workbook that was sent before
its templates changed. Correct when: one supplier per request, nobody trades
uncleared, the hierarchy is a tree, merges lead to a survivor.

**Contracts** (`crud/contract*.py`, `services/contract_workflow.py`) and
**sourcing** (`crud/sourcing.py`): records with a lifecycle, several rows of which
must agree. Hard: renewals, decisions and awards that cross.

**Templates** (`crud/template.py`, `services/template_engine.py`,
`routers/template.py`): versions of questionnaires, their rules and scores, the
responses made with them. Read by the supplier request form and the workbook.

**Metadata engine** (`metadata_engine/`): layouts with versions behind a registry
and a cache, objects, fields, picklists and an audit trail, formulas, dependency
graphs. Not used by procurement.

**Commodities, organisation, addresses, accounts** (`crud/commodity.py`,
`crud/org_structure.py`, `crud/address.py`, `crud/gl_account.py`,
`services/master_data_import.py`): tables loaded from files, exported, deleted,
loaded again.

**Frontend** (`frontend/`): pages hold drafts, ask for previews, submit in several
calls, and recompute what the server decides: the requisition wizard, the
workflow designer with its preview and diagram, the questionnaire, the template
editor. Hard: answers that come late or out of order, a call that fails half-way,
two implementations of one rule.

**Authentication, act-as, rate limiting**, **e-mail**, **agents and AI**,
**events and commands**: not modelled (section 5). PROJECT.json `components` says
of each part what it is and what of it is modelled.

### 1.3 How they interact

    frontend --HTTP--> routers --> crud/procurement ---------------> database
                          |             |   ^                           ^
                          |   submit    v   | completion branch         |
                          +--------> workflow engine <-- answers, sweep, retry
                                        |        \--> approval master data
                                        v
                       auto_create_po_from_requisition
                          |      |          |       |
                    numbering  order     receipts  e-mail
                                 |          |
                              invoices (match, exceptions, block) --> GR/IR
                                        |
                                    OK-to-Pay

    supplier request form --> supplier request --> engine --> registration
       (questionnaire)                                 |            | workbook
                                                       v            v
                       templates ----------------> supplier <-- import, conversion
                                                       |
                   hierarchy, merges, preferred status, contracts, sourcing

The engine is called with a document and calls back into procurement code when
an instance ends. Requisitions share their row with the engine (both write
`lifecycle_status` and `approval_status`), and the direct "approve" transition
competes with it. Receipts, invoices and changes write the state of the order.
An invoice that matches an order reads its receipts and the invoices beside it.
Budgets read splits of orders and invoices. A supplier request goes through the
same engine, with a chain of roles of its own.

### 1.4 Hazards

PROJECT.json `hazards` lists forty at their lines, each with the properties that
would catch it going wrong. They are of a few kinds:

* the engine: late answers to leftover rows, partial approver resolution,
  retries, a quorum that can no longer be reached, two answers at once;
* status columns with several writers: edits and cancellations under a running
  instance, a threshold rule beside the engine, orders closed by old sums;
* read, decide, commit later: hierarchies, merges, awards, renewals, drafts,
  budgets, matches, GR/IR records, preferred rows;
* several commits in one request, and deaths between them: order creation,
  re-approval of a changed requisition, saving a definition;
* queries that do not see what the same session added;
* caches and hashes older than what they stand for: layouts, workbooks;
* pages: answers that overtake each other or arrive when the page holds something
  else, retries of a call of which half succeeded;
* one rule implemented two or three times: visibility, routing, scores.

## 2. Modules

Procurement, from a request to a payment:

| Module | Models | Checked in | Proofs |
|---|---|---|---|
| `ApprovalContract` | what a document expects of the engine: gates asked, answered, never asked again, until granted or declined | `engine_tiered` (as a refinement) | `WorkflowEngineProofs` (as a refinement) |
| `WorkflowEngine` | `crud/workflow.py`: one instance of one definition | `engine_tiered` | `WorkflowEngineProofs` |
| `StepAnswers` | the answers to one step at READ COMMITTED, statement by statement | `office_records` | `RecordsProofs` |
| `RequisitionApproval` | a requisition, its instances, its orders, a request at a time; each instance is an `INSTANCE` of `ApprovalContract` | `req_approval`, `req_withdrawn` | `RequisitionApprovalProofs` |
| `OrderCreation` | the inside of the request that creates an order, commit by commit | `order_concurrent` | `OrderCreationProofs` |
| `OrderChanges` | requisition lines edited after their order was made; amendment and split | `trade_records` | `OrderFulfilmentProofs` |
| `OrderFulfilment` | an order's lifecycle and receipts, requests that read, decide and commit | `order_receipts` | `OrderFulfilmentProofs` |
| `InvoiceVerification` | an invoice from creation to OK-to-Pay, over exception rows | `invoice_lifecycle`, `invoice_block_unseen` | `InvoiceVerificationProofs` |
| `ThreeWayMatch` | several invoices of one order against its receipts, the match result, the worklist, GR/IR records | `invoice_lifecycle` | `InvoiceVerificationProofs` |
| `BudgetControl` | budgets, splits, committed and actual sums, the check at an approval | `office_records`, `budget_partial_invoice` | `RecordsProofs` |

Suppliers, contracts and sourcing:

| Module | Models | Checked in | Proofs |
|---|---|---|---|
| `SupplierOnboarding` | request, approval chain, registration, conversion, activation | `supplier_onboarding`, `supplier_chain` | `SupplierOnboardingProofs` |
| `RegistrationWorkbook` | the workbook generated, sent, changed outside and imported | `trade_records` | `SupplierOnboardingProofs` |
| `SupplierHierarchy` | the parent column, its walk, the roll-up | `trade_records` | `RecordsProofs` |
| `SupplierRecords` | the record's lifecycle and merges, and the contracts that refer to it | `trade_records` | `RecordsProofs` |
| `PreferredFlag` | the one address or bank account that is preferred | `trade_records` | `RecordsProofs` |
| `PreferredStatus` | the computed, overridden and reviewed preferred status | `trade_records` | `RecordsProofs` |
| `SourcingEvents` | an event, its responses, its award | `trade_records` | `RecordsProofs` |
| `ContractLifecycle` | a contract, its renewals, an obligation, a clause | `trade_records` | `RecordsProofs` |

Templates, metadata, master data and the pages around all of these:

| Module | Models | Checked in | Proofs |
|---|---|---|---|
| `TemplateLibrary` | versions of questionnaires and the responses scored with them | `office_records` | `RecordsProofs` |
| `Questionnaire` | what a questionnaire shows, demands and scores, in the browser and on the server; submitting it | `trade_records` | `SupplierOnboardingProofs` |
| `TemplateEditor` | the page that edits a draft, with answers that come late | `trade_records` | `SupplierOnboardingProofs` |
| `RequisitionEntry` | the wizard and the quick page | `trade_records` | `RequisitionApprovalProofs` |
| `WorkflowDesigner`, `ApprovalPaths` | the designer's edits and saves; the engine, the preview and the diagram as readers of one definition | `office_records` | `OrderCreationProofs` |
| `MetadataLayouts` | layouts, versions, the registry | `office_records` | `RecordsProofs` |
| `MetadataRecords` | objects, fields, values, picklists and the audit trail | `office_records` | `RecordsProofs` |
| `Expressions` | formulas: parser, validator, evaluator | `office_records` | - |
| `DependencyScan` | the search for circular dependencies | `office_records` | `RecordsProofs` |
| `MasterDataImport` | tables uploaded, exported, deleted, uploaded again | `office_records` | `OrderCreationProofs` |

`TradingPartners` and `MetadataService` put components side by side that share no
state, and state what they promise together; `SumTheorems` holds the lemmas about sums
that two proof modules need. The `MC...` modules hold the values that the configurations substitute.
`MCInvoiceVerification`, `MCTradeRecords` and `MCOfficeRecords` run several
components side by side: components that share no state get a *scene* each, and a
scene, chosen in the initial state, says which of them moves. Their product would
show nothing more.

The modules compose by contract. `WorkflowEngine` is shown to implement
`ApprovalContract`, for any quorum, until somebody answers a row that a quorum left
behind; `RequisitionApproval` knows the engine only through that contract, not through
the definition that is configured, so what such a late answer does to a requisition
(section 6) is outside it.
`StepAnswers` opens up the one action of the engine that the contract takes as
atomic, `OrderCreation` the one step of `RequisitionApproval` (`AutoOrder`) for a
requisition that has passed its approvers. `OrderFulfilment` takes over where
`OrderCreation` ends: its initial orders are the ones that a conversion (draft) or
an approval (ordered) leaves. Its `Verify` is what `InvoiceVerification` does to
the status of an invoice, seen from the order; `ThreeWayMatch` is what
`InvoiceVerification` takes as facts of the documents. `WorkflowDesigner` edits the
definitions that `ApprovalPaths` reads, whose engine reader takes the turns of
`WorkflowEngine`. `TemplateEditor` edits the drafts of `TemplateLibrary`,
`Questionnaire` and `RegistrationWorkbook` are the two that read what it publishes.

### 2.1 Conventions

* **A request** that another may overtake is two actions or more: it begins with
  what it reads and decides, and commits later. The variable that holds it between
  (`session`, `calls`, `move`, `job`, `setter`, `desk`, `tray`, `editing`,
  `changing`, ...) keeps what was read; the commit writes the columns that differ
  from it over whatever has been committed since. A request may die in between.
* **History variables** say that requests crossed in a way the code does not guard
  against (`overlapped`, `overtaken`, `crossed`, `clashed`, `raced`, `contested`,
  `torn`, `blurred`, `doubled`, `races`, `causes`, `leftEarly`, ...). A property
  that names one holds without that crossing, and the module shows in its comment
  which crossing breaks it. Properties that name none hold whatever crosses.
* **Pages** run one handler at a time with the effects of its render; answers to
  what they asked come in any order, late, or never.
* **Bounds** are constants named `Max...` that guard the actions which begin
  something. The section on bounds says what each is for.
* **Mutants** (`... As...`, `...Anyway`, `...Unseen`) are definitions beside the
  one they stand in for; nothing in a specification uses them.

### 2.2 The engine: WorkflowEngine, ApprovalContract, StepAnswers

State: `status`, `current` and `task` are the columns of an instance and its
rows; `active`, `roster` are the definition's flag and what
`resolve_approvers_for_context` returns per role; `verdict` is what the context
snapshot decides at conditions and confidence steps, fixed when the instance
starts, as in the code. `waived`, `passed`, `hookRuns`, `fired`, `late` are history.
By default one approval of all who are asked completes a step (`required_approvals`);
the rows of the others stay pending when the run goes on, and may still be answered.
`late` says that this happened: the row's step was not where the run stands (`Here`).
`EffectsOnce`, `Answered` and `ImplementsContract` say what holds until then,
`PassedIsSignedOff` holds in any case. For the contract an instance in progress in which
nobody is left to answer at the current step has stalled, as a blocked one has.

Actions: `StartInstance`, `Approve`, `Reject` (`complete_task`),
`AdminRemoveTask` (which the code implements as an approval),
`EscalateOverdueTasks`, `RetryInstance`, `SetDefinitionStatus`, `ChangeRoster`.
A request is one transaction, hence one action. The loop of `_run_from_step` is
the set of indices it visits (`IsRun`, `RunFrom`): routes go forward, so the set
determines the walk and no recursion is needed. That is an assumption
(`SchemaAssumption`): the schema accepts a `next_step` that points backwards, on
which the loop may not end.
`drop` is the requester whom `start` filters out of explicit approvers; later
runs use the stored definition, unfiltered.

`StepAnswers` takes `complete_task` apart: read the row and its instance, flush
the answer (which locks the row), count the approvals (what is committed and what
the request itself has flushed), advance or wait, commit. Two that count at once
both miss the other's answer, so the step stays waiting with nobody left to answer:
`EnoughIsNoticed` is claimed without such a clash, `AdvancedIsSigned` (a theorem)
with it.

### 2.3 Requisitions: RequisitionApproval, RequisitionEntry

State of `RequisitionApproval`: the two status columns, `content` (a counter of
changes to what an order is made from), `flows` (per instance: phase, open gates,
closed gates, and the content it was started with), `orders` (the content of
each, or `Typed` lines, and who made it: the system, a split, a client), `delay`, `ready` (no blocker for an order), `low` (under the threshold of
the naive rule), `form` (the conversion page is open). Histories: `signed`, contents
somebody approved; `unasked`, contents known to have got past the approvers (the naive
rule let them pass in a transition, a client changed the PR after the draft, or
retried a PR that is no exception); `overruled`, a request stamped the PR approved, or
submitted it again, while an instance was to decide.

Actions: every request, with the guard the code has and the whole handler as the
effect. `Offered` says which requests clients send in which state, and `client`,
fixed at the start, which clients there are: the frontend's pages, or anybody. It
is an assumption about clients, never about the server. `EngineDecides` and
`OrdersAreSound` are claimed for anybody, on both sides of the threshold, with the
histories above as their named exceptions; `FollowsPages` says what the pages send, and
`PagesAskFirst` (section 4) that above the threshold they cause none of these
exceptions. `ApprovedIsOrdered` is for the pages. "Convert to PO" opens a page that
looks at neither state nor orders again (`OpenForm`): what it posts is a client's
order, beside the system's.

`RequisitionEntry` is the two pages that enter requisitions: fields are filled or
not, a copy or the catalogue fills some, previews of the approval path are asked
for and answered late (`CleanedUp` is the cancellation flag of the effect), and a
submission is a call per line after a call for the header. `EntryIsSound`: the
preview shown on the summary is that of the draft shown, and what is submitted is
complete, though a copy may arrive on the summary.

### 2.4 Orders: OrderCreation, OrderChanges, OrderFulfilment

In `OrderCreation`, `pc` is the point each request has reached between two commits
or at a lock. A value a request has read and not yet used is kept apart from the
committed one (`drawn` against `counter`, `stale`, `lost` for a session rolled back
under its caller). `Number` waits for the row lock, `Insert` is the race for the
first number of a period, `Create` to `Finish` are the commits in the order of the
code, `Crash` ends a request at any point and frees its locks.

`OrderChanges` is a requisition that already has an order and is edited and
approved again (`services/procurement_versioning.py`). State: `demand` (lines),
`header`, `stage`, `inApproval` (an instance waits for approvers), the `orders` with
the lines they hold and what was received and invoiced of each, and `desk`, the request
an editor or approver has under way. Actions: add, edit, remove a line, edit the header,
submit and the other transitions; the Approve button, refused while an instance waits,
and then - in commits of their own - compare, amend the order, or split it into a second
one and note that on the first; the engine's approval, which makes the first order and
compares nothing, and its rejection; the conversion, with the requisition's lines or
with lines a client typed, linked or not; receipts, invoices and transitions of the
order go on beside. The delay and the checks before an order is made are
`RequisitionApproval`'s. `ReapprovalSettles`: after an undisturbed re-approval by the
button, the newest order that holds a line holds its quantity and price. The history
`agreed` also counts the engine's approval that makes the order, and ends with an edit
of a line or a conversion in a client's own figures. A re-approval by the engine, the
only way while an instance waits, leaves the order as it was (section 6).

In `OrderFulfilment`, state is the columns of the order (`order.state`,
`order.change`), its requisition's lifecycle, `receipts` (status, quantities per
line, the stamp of an approval), the match status of one invoice, and `policy`, the
matching policy of each line: three-way, three-way and received automatically,
unconfigured, two-way. A request evaluates its guards on what is committed and
leaves a unit of work in `session[s].write`; `Commit` writes it column by column.
`session[s].next` is where the request goes on: "ordered" is followed by the
automatic receipt and the draft, an invoice by its match. `overlapped` is history.
Two pairs of commits with no decision in between are merged: a receipt with the
closing of its order, and the auto-close with the receipt that is posted.
`Receiving` is `create_goods_receipt` with the auto-close of its endpoint: the
collection the closing gate looks at was loaded before the receipt was added and is
not refreshed. `BalanceDue` has the other staleness: the query for open receipts
runs while the receipt that is being posted is still "approved" in the database.

### 2.5 Invoices: InvoiceVerification, ThreeWayMatch

`InvoiceVerification` follows one invoice. A mismatch of the documents is a "fact"
(`facts`); `Match(found)` may find less than there is for price and receipt, with
the slack of the request's tolerance and match type, never for duplicates.
`exceptions` are rows with their seven states, `Recompute` is
`_recompute_invoice_match_status`, `Payable` is what `build_ok_to_pay` accepts.
`vetoed`, `approved`, `released` are history: what a person last said. The approval
instance is what the engine may make of it.

`ThreeWayMatch` has the quantities: lines ordered with their policy (`ReceiptLines`
ask for a receipt), receipts accepted and refused, invoices created, matched again
with an override or a tolerance, rows settled, and the GR/IR records. A request
loads the invoice, looks the documents up, commits the match, and - when it posts a
receipt or has matched - reads the sums and writes the records. `ResultOf` is
`build_match_result`, `Worklist` the list of open exceptions.

Abstractions: one supplier and one 30-day window, tolerance is lenient or not, the
snapshot of the row deletion is taken when its locks are, settling a row is
accepting it. In the scene `matching` nobody gets to the GR/IR records, in
`ledger` no invoice is matched again.

### 2.6 Budgets: BudgetControl

`budget` (amount, hard or soft per account), `orders` (state and splits of a line of
`LineTotal`), `invoices` (copied splits and total), `approval` (a check under way).
`Committed` and `Actual` are sums over splits, as in `compute_committed` and
`compute_actual`; `causes` collects what happened that the check does not cover: an
order created without a check, splits changed, a budget changed, two approvals at
once, an order reopened, an invoice irregular or late. `BudgetsHold` has two parts:
`HardBudgetHolds` without any cause, `CommittedOrSpent` without new splits. Splits are by
percentage or by amount (`ensure_default_split` makes the latter); what an invoice takes
of its line (`Takes`) is its own total, or all the amounts it got a copy of. So the line is
committed or spent, not both, unless several invoices each take it whole: `NoDollarTwice`,
which counts an invoice for no more than it bills, is what `budget_partial_invoice`
refutes. The total of a line never changes here; an amendment that raises it is in
`OrderChanges`, without budgets.

### 2.7 Suppliers

`SupplierOnboarding`: `request` (stamped or not, its supplier), `flow` (an instance
per submission, with the stage of the transaction that completes it: open, read,
looked, approved), `registration`, `supplier`, `converting`. The answer that
completes an instance runs `on_supplier_request_approved` in its transaction: it
reads the request, looks for a registration, and commits; its first flush locks the
request's row if a column changed. A supplier's lifecycle is in `supplier`, its
`is_active` apart from it in `active`: the end of onboarding sets both, and whoever edits
the supplier (`UpdateSupplier`) sets `is_active` alone, registration pending or not. Order
creation looks at `is_active` only. `raced` names the origins whose approvals or
conversions overlapped, `cleared` the suppliers somebody cleared, `byHand` those an edit
activated before that. The stages after onboarding are in `SupplierRecords`; none starts
from a pending registration, so here they count as onboarded. Reduced: the
status, lifecycle and approval columns of a request to `stamped`; the registration's
status to approved and sent; the gate before a workbook is part of sending it; mode
and risk are chosen anew at each approval; an e-mail is not sent.

`RegistrationWorkbook`: live templates per module (`published`), the files stored,
`registered` (the hash, i.e. the structure, and the responses), officers with a send
or an import under way. Outside the application anything may happen to the
workbook: cells filled, options changed, sheets removed. A hash is taken to tell
structures apart, so the structure stands for it.

`SupplierHierarchy` has an action per `await` of the walk up the tree in
`set_supplier_parent`, and of the breadth-first roll-up. `SupplierRecords` has the
lifecycle and merges, with the `UPDATE` of the contracts as a statement of its own.
`PreferredFlag` has the setter's `UPDATE` of the others and its commit apart.
`PreferredStatus` has the row of a supplier, the recomputation of one or of all, the
override at once or after review, and the score (`Composite`, `Classify`, `Tier`)
with its rounding; the caller's role, category and region, notes and compliance
flags are left out.

`SourcingEvents`: an award lists the responses, then rewrites them and the event;
evaluations, new bids, edits and other awards run beside it. `ContractLifecycle`:
decisions, signatures, renewals, an obligation and a clause, each column written
only if it differs from what was read.

### 2.8 Templates and questionnaires

`TemplateLibrary`: definitions per scope (tenant or global) from draft to published
to archived, and responses scored with the effective one; each author's request
reads and commits later. `Questionnaire` states the rule grammar twice, as the
server evaluates it (`ServerCompares`) and as the form does (`ClientCompares`); a rule is the set of its
parts depth by depth (`Depths`; validation lets nothing stand below the sixth), decided
from the leaves to the root. `SubmittedAsShown` says that for templates whose rules are
`Plain` the two agree on what is shown, missing and scored, once the yes/no questions
that are columns are answered, and that a page submits once unless an answer was lost.
A plain rule puts no texts in order, compares no list as a whole, does not ask whether a
field is null or anything else than null, and compares a yes/no column only if the
template asks that question: each of these is read differently by the two sides (section
6). Texts are ranks; choices' order and the title are left out. `TemplateEditor` has the
form, the draft it saves into, requests under way and other administrators;
question texts, types, scores and section rules are left out.

### 2.9 Workflow designer: WorkflowDesigner, ApprovalPaths

A definition is a function from `0 .. n - 1` to steps. `ApprovalPaths` has four
readers of it: the engine's run, the preview of a draft, the diagram of a running
approval and the edges of the canvas, each as its code walks. `WorkflowDesigner`
has administrators who add, remove, connect and change steps of a form, ask the
server for a reason or the user behind a role (the answer writes back the steps of
the render that asked), and save: the commit of the new version, then the commit
that archives the old. `ReadersAgree` compares the readers on every accepted
definition of three steps, and says that removals keep the path the engine takes;
`DesignsAreSound` says that what the page lets through the server accepts, that the
canvas draws every move the engine can make, and that some version stays in force. Not modelled: raw JSON, names, recipients, required counts.

### 2.10 Metadata and master data

`MetadataLayouts`: creation in two commits (deactivate the others, insert - which an
index may refuse), update, deletion, publish, rollback, copy; the registry's entry,
set by readers and dropped after a commit. `MetadataRecords`: objects, fields,
values, picklists, with row, audit event and cache invalidation in commits of their
own and cascades in the database; the trail is a set. `Expressions`: a formula is a
tree; `Written` prints it with no more parentheses than it needs, `Parse` is the
recursive-descent parser, `Value` the evaluator. `DependencyScan`: the depth-first
search, an edge a step, edges in any order. `CyclesAreFound`: what it reports is a
cycle, and a search that is through with a graph has reported one if some listed node
lies in a set of nodes each of which has an edge into that set - that is, if from a
listed node one comes into a circle.

`MasterDataImport`: one table at a time, of eleven kinds that differ in how a row is
found (`Store`), what a blank cell does, and whether deleted rows stay; files are
new, exported, or the starter set. A request keeps the rows it found or created as they
were (`found`: what it looks a row of the file up in) and as they are to be (`rows`); the
commit writes the columns that differ over the table as it is then, with the default of
a flag that is not given (`Created`), and fails as a whole over a row that is gone, a
flag set to NULL, or two rows of one key (`Clash`). Rows that the parser leaves out
(`Skipped`) and rows that are reported as errors (`Ignored`, `Nameless`) change nothing.
`ImportsTakeEffect`: what is reported as loaded is stored and in use, and an export is
taken back, unless something else was committed meanwhile. Parent references, failing deletions and the
parsing of characters are left out; deleting all categories is atomic here.

## 3. Runs

Passing runs. Each fires every action of its modules.

| Run | Instance | States | Shows |
|---|---|---|---|
| `engine_tiered` | 7 steps: yes/no diamond (a role / 1 of 2 with SLA), a notification, then a parallel group of 2 of 2, 1 of 1 with SLA and a notification; 3 users, 3 rosters | 6,042 | `PassedIsSignedOff`, `EffectsOnce`, `Answered` (liveness), `ImplementsContract` (refinement) |
| `req_approval` | every request of the API in every state, or those the pages send; both sides of the naive threshold, 1 gate, 2 instances, 1 edit, 2 orders, with and without delay | 1,589,166 | `EngineDecides`, `OrdersAreSound`, `ApprovedIsOrdered` (liveness) |
| `order_concurrent` | 3 requests (2 answers, 1 button/sweep/retry), 2 deaths, 4 line mixes, counter row present or not | 49,757 | `NumbersInSequence`, `LateCallsOrderNothing`, `StandsOnAnswers`, `RequestsEnd` (liveness) |
| `order_receipts` | 2 requests at a time, 6 in all; 2 lines of one piece, 3 mixes of policies, 2 receipts of 2 kinds of delivery, 1 invoice | 1,488,061 | `AutoCloseMeansReceived`, `OneOpenPerLine` |
| `invoice_lifecycle` | one invoice with 4 rows (duplicate, price, receipt, rejection); and 2 invoices of 3 kinds on an order of a piece and a service, 3 requests | 2.47 M | `VetoStands`, `AgreedIsReceived`, `TwinsAreSeen`, `LedgerIsSound` |
| `supplier_onboarding` | 1 request submitted twice, 2 suppliers, 2 registrations and a direct one, edits, 1 deletion | 360,672 | `OneOfEach`, `OnboardedIsCleared`, `CompletionEnds` (liveness) |
| `trade_records` | 11 scenes (see below) | 1,773,580 | `SuppliersAreSound`, `MergesEndInASurvivor`, `DealsAreSound`, `RenewalsFormAChain` (action), `ReapprovalSettles`, `StatusHasItsReason`, `EntryIsSound`, `ImportsAreSoundAndFair`, `SubmittedAsShown`, `FormsAreFaithful`, `TypesOK` |
| `office_records` | 9 scenes (see below) | 949,515 | `TemplatesAreSound`, `BudgetsHold`, `EnoughIsNoticed`, `MetadataIsKept`, `ImportsTakeEffect`, `ReadersAgree`, `DesignsAreSound`, `FormulasAreUnderstood`, `TypesOK` |

Runs that show where the code and its own words disagree (PROJECT.json
`findings` quotes the words):

| Run | Property | What happens |
|---|---|---|
| `req_withdrawn` | `CancelledIsFinal` | a late approval brings a cancelled requisition back and orders it |
| `invoice_block_unseen` | `ExceptionsBlock` | the block is computed from a query that does not see the exceptions just added |
| `supplier_chain` | `ChainSigned` | a supplier type's chain of two roles over a definition of one step: approved after the first role |
| `budget_partial_invoice` | `NoDollarTwice` | an invoice for half of a line copies a split by amount in full |

### Bounds, and why they are enough

* Engine: two approvers and a starter give a step that takes two answers, a
  starter who is the only approver, and an escalation target that is already an
  approver. Seven steps hold one diamond and one group with a non-approval
  member, the two constructs whose interplay is hard, a step that one of two signs and a
  step behind it, so that the row left over is answered while the group waits and after
  the end; rosters of at most one user make a role resolve, not resolve, or resolve to
  the starter. The effect counter saturates at 2: "twice" is all
  `EffectsOnce` must see.
* Requisition: one gate is asked, waits, is answered or blocked; that of several gates
  some are answered is the engine's run, and the theorems are for any. One edit
  separates the content before from the content after. `MaxOrders = 2` is one
  more than the system may make, and lets a conversion come before it or after. Two
  instances are a submission and another over its head.
* Order creation: two concurrent requests race, a third comes late or holds the
  lock in between; two deaths let one die at a commit and another at the lock.
  Four line mixes reach every branch of receipts.
* Orders and receipts: two requests at a time are what it takes to overwrite;
  they are interchangeable (symmetry). Six requests reach a receipt that is
  created, submitted, approved and posted, with two more to interfere. Two lines
  let a receipt cover one or both, and one line be two-way or unconfigured while
  the other is three-way. A line of one piece is received, not received, rejected
  or received in excess.
* Invoices: one row of each kind that the code treats differently, by severity, by
  whether a match can miss it, and by origin. Two invoices are what a duplicate and
  an overdraw take; three requests let two matches, or a match and a receipt, cross
  and a third see the result. Requests and invoices are interchangeable (symmetry).
* Onboarding: two instances of one request are what it takes to create twice; a third
  would add nothing it can be told by. A registration is converted by one request at a
  time (two at once are a named exception of `OneOfEach`, and `OneOnboarding` is proved
  for any number).
* `trade_records`: three suppliers and a depth of three hold a cycle of any length
  that can be closed from both ends; two clerks cross; four to six calls reach a
  change, a crossing one, and one that sees the result. Three bids with two of one
  bidder tell a bid from its bidder. Two dates and three calls make a chain of
  renewals and an edit beside it. Two items, two orders of two lines and four calls
  reach order, edit, re-approval and a split, with a receipt or invoice in between, or
  a conversion beside them; clients type one line of their own, or other figures for a
  line. The two users of a scene are interchangeable (symmetry), but for the workbook's.
  The preferred status is scored from three kinds of suppliers - unknown, good, at
  risk - with thresholds as in the code. The wizard has two rows, two copies and six
  clicks: enter, preview, copy, go on, submit. The workbook has two modules and two
  questions, three contents and six calls: send, republish, send, import twice. The
  forms are three questionnaires that use every operator and kind of score; three
  fills reach an answer that is hidden again. The editor has two templates, two
  sections, three requests.
* `office_records`: three definitions and four calls make two versions of a scope
  published by two authors; two orders, split by share or by amount, and two
  accounts with five calls make an
  approval beside another's invoice. Three answerers of a two-approval step give a
  rejection beside two approvals. Two layout versions, two schemas, three calls and
  a reader let a change cross a look-up. Three uploads are a file, its export or a
  deletion, and a second file. Four metadata calls create, change and delete a row
  and its parent. Definitions of three steps are enumerated with every target (the
  readers are compared on all that the schema accepts); one of four, with a diamond,
  is edited with three clicks, and one whose group ends the workflow with two. Formulas are all trees of two operations over a field
  and a number; graphs are all on three nodes, listed or not.

### Fairness

Nothing in the code schedules anything, so fairness is an assumption about
people and processes, stated where it is used:

* `WorkflowEngine!Fairness`: each pending task is answered, either way, by whoever holds
  it - the approver, or the one it was escalated to - if it stays pending (`WF` per row). None on escalation, retry or start.
* `RequisitionApproval!FairSpec`: `delay_until` passes, and the sweep endpoint
  is called again and again. None on clicks.
* `OrderCreation!FairSpec`: a request that runs goes on (`WF` per request); the
  database grants the row lock to someone who waits. None on `Load` (whether a
  call is made) or `Crash`.
* `SupplierOnboarding!FairSpec`: the transaction of an approval goes on, and gets
  the row it waits for in the end (`SF` per instance: PostgreSQL grants row locks in
  the order they were asked for, so it is not passed over for ever).

Runs with a bounded number of requests allow deadlock (`CHECK_DEADLOCK FALSE`): the
system stops when all are used. The engine and the requisition runs do not.

## 4. Proofs

Each proof module proves one invariance by an inductive invariant (one lemma or
level-1 step per action) and reads its theorems off it. None assumes a bound of a
run: users, rows, requests, values and crossings are any.

`WorkflowEngineProofs`, for any definition that satisfies the assumptions, any
users, roles and rosters:

* `TypeCorrect`: `Spec => []TypeOK`. The inductive invariant is `StepInv`:
  `TypeOK` and that a row opened by an escalation stands next to an original
  that was escalated. The walk contributes `RunType` (where it stops and what it
  opens is inside the definition).
* `DecisionsStand`: `Spec => DecisionsAreFinal`. An answered, escalated or
  cancelled row never changes. Needs `EscalatedOnce`: otherwise the sweep could
  open its replacement row over an answered one.
* `NoSilentApproval`: `PassedIsSignedOff` where the approvals in parallel groups
  name explicit approvers other than the starter (`ResolvableBranches`). Without
  that premise the property is false (section 6): a branch that resolves nobody
  counts as complete. `SignOffInvariant` adds `GroupsOpened`: once a group has a
  row, every approval in it has one (or was waived), because a group is opened at
  one stroke. Then "every member with rows is satisfied", which is what the code
  tests, means "every member is satisfied". Satisfaction is stable because approved
  rows stay (`KeptSatisfied`), and a run goes past a step only when `Passes` holds at
  it (`RunSigned`).

* `EffectsHappenOnce`: `EffectsOnce`, and `EngineImplementsContract`:
  `ImplementsContract`, every action a step of `ApprovalContract` or a stutter, for any
  quorum, under `ResolvableBranches` alone. A step that has its approvals leaves rows
  pending when the run goes on, and who answers one of them takes the run on from a step
  it has left: an auto step behind it happens again, and the contract sees an answer
  after the end (section 6). Both formulas name that answer (`late`). `EngineInv` is
  `StepInv` and, until then, `Standing`: task rows are on steps that sign off, at or
  behind the place where the run stands; the instance is completed if and only if the run
  is at its end, and its effects ran once; nobody is asked unless it is in progress; and
  what has fired lies behind, where a run that resumes here does not come back
  (`FiredOnce`). One lemma about the walk of `_run_from_step` (`RunAhead`) establishes it
  for every request.

`RequisitionApprovalProofs`, for any gates, instances, changes and delays:

* `OneSignedOrder` (`OrdersAreSound`) and `EngineHasTheSay` (`EngineDecides`), whatever
  clients send and whatever the PR is worth: no premise. The inductive invariant `PRInv`
  says that an instance is for the PR's present content or that content is accounted for
  (signed, or in `unasked`), that a PR in "exception", or with `approval_status`
  "approved" (all the sweep asks for), is accounted for (`ChangesAreNoticed`), and
  that one instance at most is undecided, and none where the PR counts as approved,
  unless a request went over its head (`EngineFirst`). One lemma says what
  `auto_create_po_from_requisition` does for an accounted content
  (`AutoOrderIsSound`), one what a re-approval does to the newest order.
* `PagesAskFirst`: under `PagesAreFollowed` (what the pages send, which
  `PagesAssumption` checks of the pages of the run), a client of the pages overrules no
  instance and brings nothing past the approvers but what the naive rule passes. So
  above the threshold the engine decides and the system orders what was signed.

and for `RequisitionEntry`, with any suppliers, catalog items, copies and clicks:
`EntryTypeCorrect` and `EntriesAreSound` (`EntryIsSound`), from `EntryInv`. A request for
a preview that is still live is about the draft on the summary, and when none is under
way the preview is that draft's or there is none (`LiveIsCurrent`): the effect is cleaned
up by every change it depends on, and an answer is dropped after that. A submission
carries what was checked when it began (`CarriesOrderable`), so what the pages show
meanwhile, a late copy included, does not matter to what is entered.

`OrderCreationProofs`, for any number of calls and deaths, with or without a
numbering row: `CreationTypeCorrect`, and all three invariants of `order_concurrent`.

* `NumbersAreASequence`: who has drawn a number holds the row and is next
  (`Counted`); a new order is the last one, and the others keep number and maker
  (`OrderAdded`, `OrdersKept`).
* `LateCallsAreIdempotent`: who came when there was an order does not pass the
  look-up (`LateStops`).
* `OrdersStandOnAnswers`: who lost the race for a first number makes its order at
  most and records nothing (`LostStops`).

and for `WorkflowDesigner`, with any administrators, operands, names and sizes:
`DesignTypeCorrect` and `DesignsSound` (`DesignsAreSound`), from `DesignInv`.

* `PageChecksServe`: the page does not check targets, the server does. Every edit gives
  a definition whose targets are its own steps or the end (`EditedIsDefinition`; for a
  removal, `AdjustedIsTarget`), and so is what a late answer writes back and what a
  version holds.
* `VersionsStayInForce`: a save creates before it archives, and what it archives is
  older than what it has created (`SaveIsLate`), so the newest version is never
  archived (`NewestInForce`), in whatever order saves interleave or stop.
* `StoredMovesAreDrawn`: for every definition, the copy of the engine's rule about
  sibling arms in the browser goes on where the engine does (`ContinuesAlike`), and each
  move has its edge (`MovesAreDrawn`).
* `DefinitionsReadAlike`: `ReadersAgree`, on every definition the server accepts and in
  every context. A reader is a function of moves followed from the first step; what it
  visits is the least set that holds that step and is closed under the moves
  (`TrailIsClosed`: after as many moves as there are steps a trail has come to its end
  or to a step it has been at), so two readers agree when their moves do
  (`TrailsAgree`). The diagram does where every condition compares like with like
  (`EvaluatesAlike`, `DiagramReadsAlike`; it coerces the rest, section 6), the preview
  where it is complete (`PreviewReadsAlike`). The removal
  of a step the engine does not enter shifts the moves that are left (`SuccessorShifts`),
  hence the trail (`RemovalKeeps`); the premise of one diamond per step is where the
  choice of a sibling arm could fall differently (`OneDiamondShifts`).

and for `MasterDataImport`, with any files, keys, texts, starter set and uploaders:
`ImportsHold` (`ImportsTakeEffect`), from `ImportInv`. It says that the rows of a table
are those its kind can have and no two that are not gone have one key (`GoodRows`,
`Clash`), that an upload under way fits its kind and, as long as nothing was committed
since, has read the table as it is (`UploadFits`), that an exported file is one the
parser of its kind reads and has distinct keys where the kind has (`FileFits`), and the
effect of the last report.

* What the eleven kinds have in common, and what an exportable kind has beside, is read
  off their tables (`FilesOfKind`, `TablesOfKind`, `ExportsOfKind`); nothing after
  that looks at one kind, except at supplier headers, which are also found by name.
* The session after each row of a file is a function on `0 .. n`, which has its values
  by counting up (`StagesAre`); a session keeps keys, tenants and what is gone of what
  it read (`SessionFrom`, `StagesKeep`), and a commit behind which nothing happened
  writes exactly it (`FreshTableIs`).
* A row that counts is placed when its turn comes and no later row moves it
  (`CountedIsPlaced`), so it stands in the table after a commit (`LoadedStands`).
* An export commits (`FreshExportCommits`): it gives every flag, and its rows, matched
  or created, stay apart by key (`StaysApart`), so neither NOT NULL nor the unique index
  can refuse it.

`OrderFulfilmentProofs`, for any lines, quantities, policies, contents and number
of requests under way:

* `TypeCorrect`: `Spec => []TypeOK`, with the shape of units of work
  (`TypeInv`). `OrderRequestBegins` and `ReceiptRequestBegins` reduce the eleven
  requests to one fact: whatever a request decides, it writes a unit of work that
  is `Founded` on what it read (it marks only open receipts, as posted only an
  approved one, and adds only drafts and received ones).
* `ApprovedBeforePosted`: `Spec => []PostedWasApproved`, also when requests
  overlap. `PostedWasApproved` is not inductive: the status of an approved
  receipt must carry the stamp already (`Stamped`), and so must the receipt
  somebody is about to post, though its status may have been overwritten since
  (`WillBeStamped`). The stamp is never taken back.
* `EndedReceiptsStay`: `Spec => EndedStays`, and `OneOpenReceiptPerLine`:
  `OneOpenPerLine`. `Serial` says that without overlap one request is under way at
  most, what it read still holds at its commit, and what it adds finds its lines
  without an open receipt (`Fits`).
* `AutoCloseWasReceived`: `AutoCloseMeansReceived`, whatever overlaps. Who is about to
  close the order has seen everything accepted, the receipt it adds included
  (`ClosesWhenComplete`), and sums over receipts only grow.

and for `OrderChanges`, with any items, prices, requesters and orders of their commits:
`ChangesTypeCorrect` and `ReapprovalsSettle` (`ReapprovalSettles`), from `ChangesInv`.
The formula says nothing of the requests under way, and is not inductive without them:
once something is agreed, every amendment and every split somebody is still about to
write carries what is wanted now (`StaysSettled`), because an edit of a line takes the
agreement back and a removal takes the order line out of it. An undisturbed approval
finds one order and nobody else at work, and what it is about to write leaves out
nothing that differs (`WillSettle`), so that its success agrees to what is settled. The
remaining steps rewrite one order without touching what its lines ask for
(`OrdersKept`, `KeptIsSettled`).

`InvoiceVerificationProofs`, for any set of exception rows:

* `TypeCorrect`, `NoVetoPaid`, `Unblocked`, `ControllerReleases`, from
  `IInv`: `TypeOK`; `VerifiedHasNoVeto` (a verified match status has no rejected
  row: every operation that sets a row to rejected recomputes);
  `BlockHasReason` (an invoice blocked for exception has the row of a
  rejection: rows are removed only by a match, which recomputes the block);
  `UnblockedWasAnswered`, inductive by itself.
  `ControllerReleases` follows because that row is Critical whatever its
  status, and the release takes the worst of all rows.
* `VetoOutlasts`: `Spec => []VetoStands`, with `VetoIsOnRecord` on top: whoever
  still says no has a row that is open or rejected.

and for `ThreeWayMatch`, with any lines, invoices, quantities and requests under way,
from `MatchInv`:

* `MatchingTypeCorrect`, with the bound on what is received: a bound on a sum.
* `TwinsSeen`: `TwinsAreSeen`. Of two twins one came second; every match of it that
  has run or is running found something (`SeesTwin`), because invoices are not
  unmade and a match that leaves a row leaves it until it is settled.
* `AgreedWasReceived`: `AgreedIsReceived`. A match that will give a three-way
  verdict lists the lines that exceed what was accepted (`MatchesSay`); what was
  accepted only grows.
* `LedgerSound`: `LedgerIsSound`. Sums are at most the present ones from when they are
  read (`LedgerInv`), and without a crossing whoever reconciles holds the records as
  they are.

`SumTheorems`: what a sum over a finite set is with one more element, with one summand
changed, over a union, scaled, by kind, and that it grows with its summands. A fold
cannot be unfolded by induction here, so these are proved by a smallest counterexample
among the finite subsets (`WellFoundedInduction`).

`SupplierOnboardingProofs`, for any requests, registrations, suppliers, chains and
deaths: `OnboardingTypeCorrect`, `OneOnboarding` (`OneOfEach`) and
`TradersAreCleared` (`OnboardedIsCleared`), from `OnboardingInv`. What carries it is
`ApprovalsInTurn`: as long as approvals of a request do not overlap, what the one
under way has read of the request and of its registrations still holds, although it
commits in several steps; and that the key a supplier will get is nobody else's
(`KeysAreKept`), that rows refer to suppliers that are there (`ReferencesLive`), and
that a registration and its request disagree only after a deletion
(`OrphansWereDeleted`). `OnboardedIsCleared` is inductive beside these: an edit that
activates a supplier before it was cleared is remembered in `byHand`, and there is no
other way.

and for `TemplateEditor`, with any drafts, question keys, edits, requests and order of
answers: `EditorTypeCorrect` and `FormsFaithful` (`FormsAreFaithful`), from `EditorInv`.
It says what each place knows of a row, as long as nobody changed the row behind it: the
answer to "edit" (`GetKnows`), a save that was served (`SaveKnows`), a publication on its
way (`PublishKnows`: publishing sends no sections, so what will be published is the row),
and the form (`FormKnows`). The form may know nothing although it counts as saved: it was
left while its draft was being created, opened on another draft, and was given the first
one to save into; then `editing` is not `origin`, and a publication owes nothing.

and for `RegistrationWorkbook`, with any templates, edits, officers and calls:
`WorkbookImports` (`ImportsAreSoundAndFair`), from `WorkbookInv`: the hash an invitation
holds is that of the templates its committed send has read (`HashIsOfTheSend`), and
templates of one structure give the same sheets, rows and mandatory flags
(`WhatTheHashTells`).

and for `Questionnaire`, with any valid templates, answers and requests:
`SubmissionsAreAsShown` (`SubmittedAsShown`). One comparison of a plain rule is read
alike on both sides of what the server stores (`RulesAlike`), so a rule is, depth by
depth, and with it what is open, asked, missing and scored (`OpenAlike`, `ScoredAlike`,
`ScreenAlike`). That one request at most is submitted comes of `FormInv`: as long as no answer was
lost, a page that has submitted one is about to leave or has left.

`RecordsProofs`, a section for each component, for any records, users and requests:

* The hierarchy: `HierarchyTypeCorrect`; `HierarchyIsAcyclic`: as long as the walk is
  as deep as there are suppliers and no two moves crossed, no supplier is its own
  ancestor. The key lemma is that a supplier which the walk up from the new parent
  does not meet can be put below it. `HierarchySound` adds the roll-up: its
  queue and what it has visited stay within every set that is closed under children
  (`RollupKnows`), so what it ends with is the least one.
* Supplier records: `RecordsTypeCorrect`; `MergesLeadToASurvivor`
  (`MergesEndInASurvivor`: the pointers of merged records end at one that is not
  merged, unless two merges crossed); `ContractsAreMoved` and `NoWayBackFromMerged`.
* A contract: `ContractRowsAgree` (a decision has its approval, a completion its date,
  a version counts its edits) and `RenewalsLink` (`RenewalsFormAChain`). A request
  writes the columns its operation sets over the row as it is then; what makes that
  agree is `WorkInv`: whoever read last (`fresh`) holds the row as it is.
* `OnePreferred`: no two entries are preferred, as long as only setters that do not
  cross give the flag. The UPDATE of a setter that nothing crossed has found every
  flag there is (`FlagInv`), so its commit leaves its own; this is also why one such
  setter repairs what creations, edits or crossings left. With `HierarchySound` it
  gives `SuppliersSound` (`SuppliersAreSound`).
* Sourcing: `SourcingTypeCorrect`, `AwardsAgree`; with `ContractRowsAgree` they give
  `DealsSound` (`DealsAreSound`). A request knows of every bid whether it was decided
  when it read, unless an award has overtaken it (`Knows`, `Stays`).
* `StatusesHaveReasons` (`StatusHasItsReason`): each row carries its reason
  (`HasReason`), and so does what a request is about to write over the row it read
  (`TrayKnows`), also one of a recomputation of all suppliers, which holds many.
* The answers to one step: `AnswersTypeCorrect`; `AdvancesAreSigned` (a step is passed
  on as many committed approvals as it requires, also by one who counted before others
  committed: signatures only grow, `WantsAreSigned`); `EnoughAreNoticed` (with enough
  approvals it does not wait, unless two counted at once) and `AnswersAreFinal`.
* Metadata: `TrailTells`, from `RowsAreTold` and `GoneIsTold`: the trail, what is about
  to be written to it and what died on the way together tell of every record
  whether it is there, and a request about to create one is alone with it (`Alone`).
  `LayoutsServed`: what a reader of the registry holds is the active layout unless a
  commit crossed its look-up (`ReadersAreCurrent`). `CirclesAreFound`
  (`CyclesAreFound`), for any graph: the stack is a path and what was reported are cycles;
  and as long as nothing was reported, the nodes the search is through with lead to each
  other only and hold no circle, and an edge a node of the stack has left behind leads to
  one of them or to the next of the stack (`NothingMissed`). A circle through the node
  that is being left would have been met. The three together are `MetadataKept`
  (`MetadataIsKept`).
* `TemplatesSound` (`TemplatesAreSound`). A request behind which nothing was committed
  (`FreshRequest`) still finds its definition a draft, what it is to deprecate is
  exactly what is published, and no version is above the one it read; whoever writes
  after somebody else is in `races`. Answers were given to a definition that is no
  draft any more (`AnswersHold`), which only an overtaken edit or deletion changes.

* Budgets: `BudgetTypeCorrect`, `HardBudgetsHold` and `BudgetsStand`, from `BudgetInv`.
  The key fact is about sums of sums: whatever was invoiced of a regular order, it takes
  of an account exactly its own splits - the invoiced part counted, the rest committed -
  so invoices, corrections and closings that stay regular leave what is used alone, and
  only an approval adds to it. Whoever checks while nobody touches its budgets holds the
  present sums (`ChecksHold`), and its verdict is about them. Splits by percentage and by
  amount are one case in these proofs: a split is a share of a whole, two halves or the
  line's amount (`Whole`), and gives its share of what an invoice takes
  (`ResolvedByWhole`). `BudgetsStand` has no premise beyond `BudgetAssumption`.

Assumptions on constants that came in with these proofs say how the database works:
identifiers of different metadata tables differ, "unknown" is no status, a version
number 1 can be given, orders and accounts are finitely many, and what the constants
list (splits, rows, copies, a first draft) has the columns of its table or form.

The theorems whose formula no run checks (type correctness, all proved though not all listed, `DecisionsStand`,
`NoVetoPaid`, `ApprovedBeforePosted`, `EndedReceiptsStay`, `AnswersAreFinal`,
`ContractsAreMoved`, `ContractRowsAgree`, `OnePreferred`, ...) rest on the proof; the mutants of
other properties show what the modules can break.

Only model-checked:

* Liveness (`Answered`, `ApprovedIsOrdered`, `RequestsEnd`, `CompletionEnds`): outside
  the prover.
* `NoDollarTwice` and `ChainSigned`: runs refute them.
* `FormulasAreUnderstood`: `Expressions` declares recursive operators (the parser and the
  evaluator call themselves on what is left of a formula), which puts it and the modules
  that extend it out of the prover's reach; that reading a formula back gives its tree,
  for every tree, is an induction over data besides.
* `TypesOK` of `MCTradeRecords` and of `MCOfficeRecords`: a conjunction over the scenes of a
  run, defined in the modules that exist for TLC only. The parts that a proof needs are
  part of its invariant, each in its module.

## 5. What is left out

Inside the modelled parts:

* Quantities, prices, taxes and texts, except where a property is about them
  (scores of a preferred supplier, budgets, matched quantities, formulas).
* Tenants, except the scope of templates and of imported rows; the roles of callers,
  except the requester's own approval, which `complete_task` refuses.
* E-mails, except that one is sent or fails inside order creation; reminders,
  searches, lists and dashboards.
* Instances: a definition edited in place while it runs, delegation, agent steps;
  the state of an order's versions, acknowledgement and inspection; comments and
  attachments.
* Budgets of departments, cost centres and several periods; parent references and
  character parsing of imports; metrics, imports and object literals of metadata.
* What each module's section above names.

Whole parts (`not_modelled` in PROJECT.json): authentication, act-as, rate limiting
and logging (who may call what is not asked here; the rate limiter passes every
request when its Redis client lacks a pipeline), e-mail and its redirect (external
I/O), agents and AI providers (calls of language models without state the rest
depends on), events and commands (a handler calls one function; no subscriber
changes procurement state). Scripts that seed data are run once by an administrator.

## 6. Further disagreements known, and not run

The modules reach these as well, unless noted; they are for whoever reads the code
next.

### Engine and requisitions

* Two calls of `auto_create_po_from_requisition` that overlap both find no order
  and create one each (`services/procurement_workflow.py:320`).
* The loser of the race for a period's first number rolls back its caller's work
  (`crud/document_numbering.py:232`; the docstring at 247-250 says otherwise).
* A group in which a branch resolved nobody counts that branch as complete
  (`crud/workflow.py:826`, against the comment at 474-485).
* Two approvals that count at the same time leave the step waiting
  (`crud/workflow.py:1075`; `clashed` in `StepAnswers`).
* A rejection closes the pending rows of the rejected step or group only
  (`crud/workflow.py:1062`), and an approval none at all: a leftover row of a 1-of-2 step
  can still be answered, on an instance that has gone on or ended. It takes the run on
  again from its step, so effects happen twice, or rejects what was approved (`late`).
* Retrying a blocked parallel group cancels its rows; the cancelled rows then
  count as an activated group, nothing is asked again, and the instance is in
  progress with nobody to answer (`crud/workflow.py:457, 878`). The comment at
  `crud/workflow.py:687-692` says that an admin "can fix approver resolution and
  retry".
* Every transition stamps `approval_status` by the threshold rule
  (`services/procurement_workflow.py:137`), so below the threshold a transition
  marks a requisition approved while its instance waits, or after a submission
  without a definition; the comment at `routers/procurement.py:433-437` wants the
  engine's word to stand (`overruled`). On the pages, too, a withdrawal
  or a rejection below the threshold stamps "approved", and with a delay that has passed
  the sweep orders what was withdrawn (`services/procurement_workflow.py:611`).
* A requisition edited during its approval is ordered as edited
  (`crud/procurement.py:292-297`); the retry endpoint (`crud/analytics.py:484`) looks
  at no state, and orders a draft: contents nobody approved (`unasked`).
* "Convert to PO" leads to a page that stays open: what it posts is a second order beside
  the one the sweep or an approval made meanwhile, with lines of its own
  (`convert-to-po/page.tsx:112-134`, `routers/procurement.py:752`).
* The direct approval is refused for instances in progress only, not for blocked
  ones (`routers/procurement.py:345`). The same holds for the approval of an
  invoice (`services/invoice_approval_workflow.py:67`).
* `required_approvals` has no upper bound, and a `next_step` may lead backwards
  (`schemas/workflow.py:62, 73`): a wait without end, and a loop without end. The
  engine's definitions exclude both.
* One requisition with two orders makes the whole sweep raise
  (`services/procurement_workflow.py:613`; not modelled, one requisition).
* The wizard: a submission that failed half-way and is tried again makes a second
  requisition; the warning "You can retry from the detail page"
  (`requisitions/new/page.tsx:459-464`) unmounts with the page, and no other page
  adds lines. A copy that arrives while a submission runs re-enables the button. On
  the conversion page `Number(quantity) || 1` turns 0 into 1 (not modelled).

### Orders and receipts

* Between the commit in `create_purchase_order` and the next one, an order is
  "ordered" by status and "draft" by lifecycle; a death leaves it so.
* An order that its automatic receipt has moved on is mailed, and then the
  transition to "sent_to_supplier" raises (`services/procurement_workflow.py:288`).
* Posting a receipt never creates the receipt for the balance the first time: the
  query finds the receipt that is being posted, still "approved" in the database
  (`crud/procurement.py:1471`, docstring at 1465). Posting it again does.
* A receipt with accepted goods sets the state of its order from any state, a
  cancelled or closed one included, and so does an invoice
  (`crud/procurement.py:1315, 1617`). A receipt that is rejected later keeps its
  quantities in the sums (`crud/procurement.py:1126-1132`).
* A full receipt that is only a draft closes its order at once: the gate looks at
  a collection of receipts loaded before (`crud/procurement.py:1331`; the
  docstring of `validate_po_close` has "never with a pending ... receipt").
  `maybe_auto_close_po` closes from any state and looks at invoices only.
* Requests that overlap open two receipts on one line, or overwrite "posted" with
  "rejected" or "cancelled", though "posting is the terminal step"
  (`crud/procurement.py:1462`).
* An approval by the engine, the only way while an instance waits for approvers, never
  compares the requisition with its order (`crud/workflow.py:386-414`): what was changed
  and approved again is ordered as before, against the docstring "on PR re-approval with
  PO-relevant changes, the linked PO is bumped" (`services/procurement_versioning.py:18-22`;
  `EngineApproves` in `OrderChanges`). After a conversion beside the order its
  exception rolls the last answer back, every time.
* Lines added to a requisition after its order are never ordered; a removed line
  leaves its order line unlinked; after a split every later re-approval raises
  (`services/procurement_workflow.py:321`). The approval is committed before the
  amendment. "Changed lines move to a brand new PO" does not describe what a split
  does. `update_requisition_line_item` never recomputes `line_total`, so the
  estimated value goes stale (`crud/procurement.py:476-480`); a new supplier for an
  order without activity is decided to be an amendment and never applied, nor is a
  changed need-by date; cancelled invoices count as activity.

### Invoices and GR/IR

* Matching an invoice again deletes what people decided about its exceptions
  (`crud/procurement.py:2056`); an exception in review holds nothing back and leaves
  the worklist (`crud/procurement.py:1816`); OK-to-Pay takes the status that matching
  sets for an approval (`services/ok_to_pay.py:70`).
* "Critical -- they force FAILED_MATCH" (`services/invoice_matching.py:31`): rows are
  looked up by line, and a duplicate has none, so a duplicate is FULLY_MATCHED.
* `MatchInvoiceRequest.match_type` defaults to "two_way", so the endpoint overrides
  the three-way policy of a commodity unless the caller names it.
* Each invoice is compared alone with what was accepted: two of ten on ten accepted
  both match, and only the look for a twin of the same amount notices.
* A match and the settling of a row, or two matches, that overlap leave a status that
  its rows contradict (`doubled`).
* Two first reconciliations at once insert two records for a line; every later one
  raises. Records are stale until the next posting or match.
* A partial invoice is "matched" for the engine and undermatched in the result. A new
  invoice sets a closed order back to "invoiced". A death between creation and match
  leaves an invoice pending.

### Budgets

* Orders made automatically are born "ordered" without a check, and an order that is
  reopened is not checked either. Budgets of departments are never checked. Two
  whole-year budgets of one account (period NULL) make every check raise.

### Suppliers, contracts, sourcing

* After two registrations for a request every later approval raises; after a
  deletion the registration keeps no supplier and a qualified import activates
  nobody. An edit of a supplier may set `is_active` while its registration is pending
  (`crud/supplier.py:113-127`, `schemas/supplier.py:93`), and orders are then made to it
  although nobody cleared it (`byHand`). The engine overwrites a rejection or cancellation given at the endpoint.
* The override flag of a preferred status is never cleared; of two overrides under
  review the last to complete wins; a recomputation that races an override can leave
  the flag with the computed status.
* Workbook: "never has to re-derive an expectation from live templates"
  (`services/excel_registration.py:28-32`), yet keys, sheets and options come from
  them. Two sends at once, or one whose commit fails after the file was stored, leave
  a file and a hash that differ: no import is accepted. A refused upload overwrites
  the file of the import in force; import and send look at no status; a template
  archived between check and import drops its answers silently.
* A template response keeps the template it was begun with and is scored with the one
  in force (`crud/template.py:95-126`). The endpoint that evaluates a response stores
  its score and then answers 404 for another event's.

### Templates, questionnaires, designer

* "Mirrors evaluate_visibility EXACTLY" (`DynamicTemplateForm.tsx`): the server
  orders two texts (dates), the form fails closed, so a mandatory question can be
  demanded and never shown; lists under `eq` and null under `neq` differ too.
* The yes/no questions `existing_supplier_check` and `diversity_required`, left
  unanswered, are recorded and scored as "no" (`routers/suppliers.py`,
  `_answers_from_legacy_fields`), though mandatory questions are said to be enforced.
* Answers of hidden questions stay and drive other rules; a mandatory question that
  is not editable can never be answered; a questionnaire republished between loading
  and submitting demands what is not on the screen.
* Template editor: an answer to a creation that arrives after the form was left turns
  the next save into an update of another draft; publishing sends no sections and
  discards what the form holds; typing the text of a question fixes its key to the
  first letter; rules keep pointing to renamed questions.
* Designer: "End workflow" is stored as an index and becomes the next step added; the
  canvas also draws the linear edge where a route leads elsewhere; `approvalFlow.ts`
  coerces null, digit strings and words differently from the engine; typing a group
  name with a space crashes the page (`WorkflowCanvas.tsx:191`); unchecking Active
  and saving leaves no active version; two administrators leave two.

### Metadata and master data

* `import_metadata` always raises; `GET /objects` and `GET /audit-events` raise
  NameError; every create and update answers with an error after its commit
  (`created_at: str`). Deleting an object with layouts always fails. Publishing drops
  no registry entry, and a creation refused at its second commit leaves no active
  layout.
* The number of arguments of a function is not validated; `IF` evaluates both
  branches; characters the lexer does not know are skipped. `validate_safe_delete`
  looks at edges to nodes that are not listed, `discover_dependencies` does not
  (neither is modelled).
* An export of GL accounts contains the global defaults; uploading it makes copies,
  and the export after that is refused for duplicates ("edit and re-upload to update
  in place"). A blank flag loads the first time and fails the second for five kinds of
  rows. Headers found by name take over another row's external code. Bank rows never
  match and are inserted again. `GET /categories` recreates the starter set after
  everything was deleted. "Tenant rows come first" has no ORDER BY
  (`crud/commodity.py:336-337`).

## 7. Plan

Done: everything in section 2, with the theorems of section 4.

Next, most important first:

1. An abstract specification of what an order promises, refined by `OrderFulfilment`
   without overlap.
2. Document numbers: the patterns and cadences of `crud/document_numbering.py`
   (only the counter is modelled), and the proration of shipping
   (`crud/procurement.py:753-790`), as pure functions against reference definitions.
3. Definitions that are edited in place while an instance runs, and delegation.
