--------------------------- MODULE RequisitionEntry ---------------------------
(***************************************************************************)
(* The two pages that enter a requisition: the wizard, started empty or as a  *)
(* copy (requisitions/new/page.tsx), and the quick one                       *)
(* (requisitions/quick-create/page.tsx).                                     *)
(*                                                                          *)
(* The browser runs one handler at a time: a step is a handler with the       *)
(* effects its render runs, up to the next await.  Answers to what a page has  *)
(* asked come in any order, late, or never.                                 *)
(***************************************************************************)
EXTENDS Naturals, Sequences, FiniteSets, SequencesExt

CONSTANTS
  RowChoices,    \* what a row of the wizard can be made: fields filled or not
  Catalog,       \* catalog items: the row each becomes, and its supplier
  Sellers,    \* the suppliers
  Sound,         \* those that are active and have a contact e-mail
  None,          \* no supplier, no preview, no request
  CopySources,   \* requisitions to copy: [header, rows]
  MaxRows,       \* bound: rows of the wizard
  MaxClicks      \* bound: what the user does, in all

\* Rows are functions from the fields to whether something valid was entered;
\* "quantity" says that it was changed from the 1 a row starts with.
Fields == {"description", "price", "category", "account", "quantity"}
LineRows == [Fields -> BOOLEAN]
Headers ==
  [titled : BOOLEAN, valued : BOOLEAN, supplier : Sellers \cup {None}, extras : BOOLEAN]
BlankRow == [f \in Fields |-> FALSE]

ASSUME EntryAssumption ==
  /\ Sound \subseteq Sellers /\ None \notin Sellers
  /\ {MaxRows, MaxClicks} \subseteq Nat \ {0}
  /\ RowChoices \subseteq LineRows
  /\ \A item \in Catalog : item.row \in LineRows /\ item.seller \in Sellers \cup {None}
  /\ \A copy \in CopySources :
       copy.header \in Headers /\ copy.rows \in Seq(LineRows) /\ Len(copy.rows) =< MaxRows

VARIABLES
  page,        \* "wizard", "quick", or "gone" to the requisition's own page
  wizardStep,  \* 1, 2 or 3
  head,        \* the header form: [titled, valued, supplier, extras]
  lineItems,   \* the rows of the wizard
  copying,     \* the requisition asked for as a copy, or None
  listing,     \* the list of suppliers: "asked", "here" or "failed"
  preview,     \* approvalPreview: the draft it was made for, or None
  previewing,  \* approvalPreviewLoading
  requested,   \* previews asked for: [draft, live], live until its effect is cleaned up
  busy,        \* loading: what keeps the button from being pressed again
  saving,      \* submissions under way: what each has still to save
  entered,     \* the server's requisitions, with their lines
  clicks       \* what the user did (bound)

entryVars == <<page, wizardStep, head, lineItems, copying, listing, preview, previewing,
               requested, busy, saving, entered, clicks>>


\* lineItemValidation: an untouched row has no errors.
RowErrors(r) ==
  IF r = BlankRow THEN {} ELSE {f \in {"description", "category", "price", "account"} : ~ r[f]}
HasRowErrors(items) == \E k \in DOMAIN items : RowErrors(items[k]) # {}

\* The rows at the places K, in their order (filter).
RowsAt(items, K) ==
  [n \in 1..Cardinality(K) |-> items[CHOOSE k \in K : Cardinality({j \in K : j =< k}) = n]]

\* rowsToSubmit
RowsToSubmit(items) == RowsAt(items, {k \in DOMAIN items : items[k]["description"]})

\* supplierIssue: nothing while the list is not here.
SupplierIssue(h) == listing = "here" /\ h.supplier \in Sellers \ Sound

HeaderComplete(h) == h.titled /\ h.valued /\ h.supplier # None /\ ~ SupplierIssue(h)

\* What the preview is asked with.
RoutingDraft(h, items) ==
  [valued |-> h.valued, supplier |-> h.supplier, extras |-> h.extras,
   rows |-> RowsToSubmit(items)]
RoutingDrafts ==
  [valued : BOOLEAN, supplier : Sellers \cup {None}, extras : BOOLEAN, rows : Seq(LineRows)]

-----------------------------------------------------------------------------
EntryInit ==
  /\ page \in {"wizard", "quick"}
  /\ wizardStep = 1
  /\ head = [titled |-> FALSE, valued |-> FALSE, supplier |-> None, extras |-> FALSE]
  /\ lineItems = <<BlankRow>>
  /\ copying \in IF page = "wizard" THEN CopySources \cup {None} ELSE {None}
  /\ listing = "asked"
  /\ preview = None /\ previewing = FALSE /\ requested = {}
  /\ busy = FALSE /\ saving = {}
  /\ entered = << >>
  /\ clicks = 0

Click == clicks < MaxClicks /\ clicks' = clicks + 1

\* mutant: an answer is taken whatever was asked since
StayLive(requests) == requests

\* The cleanup of the effect before: its answer will be dropped.
CleanedUp(requests) == {[r EXCEPT !.live = FALSE] : r \in requests}

\* The form becomes this; the preview's effect runs if something it depends on
\* has changed, and asks only on the summary.
Renders(step, h, items) ==
  /\ wizardStep' = step /\ head' = h /\ lineItems' = items
  /\ IF step = wizardStep /\ items = lineItems
        /\ [h EXCEPT !.titled = head.titled] = head
     THEN UNCHANGED <<requested, previewing>>
     ELSE IF step = 3
     THEN /\ requested' = CleanedUp(requested)
                            \cup {[draft |-> RoutingDraft(h, items), live |-> TRUE]}
          /\ previewing' = TRUE
     ELSE /\ requested' = CleanedUp(requested)
          /\ UNCHANGED previewing

-----------------------------------------------------------------------------
(***************************************************************************)
(* The wizard                                                               *)
(***************************************************************************)
TypeHeader(h) ==
  /\ page = "wizard" /\ wizardStep = 1 /\ Click
  /\ h # head /\ h.extras = head.extras
  /\ Renders(1, h, lineItems)
  /\ UNCHANGED <<page, copying, listing, preview, busy, saving, entered>>

\* Category, emergency, tax, shipping: the preview is asked with them as well.
TypeExtras ==
  /\ page = "wizard" /\ wizardStep = 1 /\ Click
  /\ Renders(1, [head EXCEPT !.extras = ~ @], lineItems)
  /\ UNCHANGED <<page, copying, listing, preview, busy, saving, entered>>

TypeRow(k, r) ==
  /\ page = "wizard" /\ wizardStep = 2 /\ Click
  /\ k \in DOMAIN lineItems /\ r # lineItems[k]
  /\ Renders(2, head, [lineItems EXCEPT ![k] = r])
  /\ UNCHANGED <<page, copying, listing, preview, busy, saving, entered>>

AddRow ==
  /\ page = "wizard" /\ wizardStep = 2 /\ Click
  /\ Len(lineItems) < MaxRows
  /\ Renders(2, head, Append(lineItems, BlankRow))
  /\ UNCHANGED <<page, copying, listing, preview, busy, saving, entered>>

RemoveRow(k) ==
  /\ page = "wizard" /\ wizardStep = 2 /\ Click
  /\ k \in DOMAIN lineItems /\ Len(lineItems) > 1
  /\ Renders(2, head, RemoveAt(lineItems, k))
  /\ UNCHANGED <<page, copying, listing, preview, busy, saving, entered>>

\* quickAddFromCatalog drops the rows nobody has typed into.
QuickAdd(item) ==
  /\ page = "wizard" /\ wizardStep = 2 /\ Click
  /\ LET items == Append(RowsAt(lineItems, {k \in DOMAIN lineItems : lineItems[k] # BlankRow}), item) IN
       Len(items) <= MaxRows /\ Renders(2, head, items)
  /\ UNCHANGED <<page, copying, listing, preview, busy, saving, entered>>

\* goToStep: back to what is missing, or on.
Allowed(target) ==
  IF target > 1 /\ ~ HeaderComplete(head) THEN 1
  ELSE IF target = 3 /\ HasRowErrors(lineItems) THEN 2
  ELSE target

GoToStep(target) ==
  /\ page = "wizard" /\ Click
  /\ Renders(Allowed(target), head, lineItems)
  /\ UNCHANGED <<page, copying, listing, preview, busy, saving, entered>>

\* The copied requisition is here, whatever was typed meanwhile, or it is not;
\* either way the page is no longer loading.
CopyArrives ==
  /\ page = "wizard" /\ copying # None
  /\ copying' = None
  /\ busy' = FALSE
  /\ \/ Renders(wizardStep, copying.header,
                IF copying.rows = << >> THEN <<BlankRow>> ELSE copying.rows)
     \/ Renders(wizardStep, head, lineItems)
  /\ UNCHANGED <<page, listing, preview, saving, entered, clicks>>

\* listSuppliers.  The quick page shows nothing before it is here.
ListArrives ==
  /\ listing = "asked"
  /\ listing' \in {"here", "failed"}
  /\ UNCHANGED <<page, wizardStep, head, lineItems, copying, preview, previewing,
                 requested, busy, saving, entered, clicks>>

\* An answer of previewRequisitionApproval, or its failure; dropped if its
\* effect was cleaned up.
PreviewArrives(r) ==
  /\ page = "wizard" /\ r \in requested
  /\ requested' = requested \ {r}
  /\ IF r.live
     THEN preview' \in {r.draft, None} /\ previewing' = FALSE
     ELSE UNCHANGED <<preview, previewing>>
  /\ UNCHANGED <<page, wizardStep, head, lineItems, copying, listing, busy, saving, entered, clicks>>

-----------------------------------------------------------------------------
(***************************************************************************)
(* The submission, which both pages make the same way: the requisition, then  *)
(* its lines one by one                                                     *)
(***************************************************************************)
Submits(h, lines) ==
  /\ busy' = TRUE
  /\ saving' = saving \cup {[nr |-> clicks, from |-> page, header |-> h, lines |-> lines,
                             at |-> 0]}

\* A submission goes on, or ends; its end lets the button be pressed again.
GoesOn(sub, next) == saving' = (saving \ {sub}) \cup {next} /\ UNCHANGED busy
SubmissionEnds(sub) == saving' = saving \ {sub} /\ busy' = FALSE

\* The checks of handleSubmit, made again.
Submittable == HeaderComplete(head) /\ ~ HasRowErrors(lineItems)

HandleSubmit ==
  /\ page = "wizard" /\ wizardStep = 3 /\ ~ busy /\ Click
  /\ IF Submittable
     THEN Submits(head, RowsToSubmit(lineItems)) /\ UNCHANGED <<wizardStep, requested>>
     ELSE /\ wizardStep' = IF HeaderComplete(head) THEN 2 ELSE 1
          /\ requested' = CleanedUp(requested)
          /\ UNCHANGED <<busy, saving>>
  /\ UNCHANGED <<page, head, lineItems, copying, listing, preview, previewing, entered>>

\* The quick page picks an item with its supplier, then confirms or changes that,
\* and checks both when it submits.
QuickShows(step, seller, items) ==
  /\ page = "quick" /\ listing = "here" /\ Click
  /\ wizardStep' = step /\ lineItems' = items
  /\ head' = [head EXCEPT !.titled = TRUE, !.valued = items[1]["price"], !.supplier = seller]
  /\ UNCHANGED <<page, copying, listing, preview, previewing, requested, busy, saving, entered>>

PickItem(item) == wizardStep = 1 /\ QuickShows(2, item.seller, <<item.row>>)

PickSupplier(s) == wizardStep = 2 /\ QuickShows(2, s, lineItems)

QuickStep(step) ==
  /\ \/ wizardStep = 2 /\ (step = 1 \/ (step = 3 /\ head.supplier # None))
     \/ wizardStep = 3 /\ step = 2
  /\ QuickShows(step, head.supplier, lineItems)

QuickSubmit ==
  /\ page = "quick" /\ wizardStep = 3 /\ ~ busy /\ Click
  /\ lineItems[1]["account"]
  /\ IF SupplierIssue(head)
     THEN wizardStep' = 2 /\ UNCHANGED <<busy, saving>>
     ELSE Submits(head, lineItems) /\ UNCHANGED wizardStep
  /\ UNCHANGED <<page, head, lineItems, copying, listing, preview, previewing, requested,
                 entered>>

\* createRequisition: made, refused, or made with the answer lost.
CreateHeader(sub) ==
  /\ sub.at = 0
  /\ \/ /\ entered' = Append(entered, [header |-> sub.header, lines |-> << >>])
        /\ (GoesOn(sub, [sub EXCEPT !.at = Len(entered')]) \/ SubmissionEnds(sub))
     \/ UNCHANGED entered /\ SubmissionEnds(sub)
  /\ UNCHANGED <<page, wizardStep, head, lineItems, copying, listing, preview, previewing,
                 requested, clicks>>

\* addRequisitionLineItem.  The wizard counts a failure and goes on (its
\* warning goes with the page); the quick page stops with an error.
SaveLine(sub) ==
  /\ sub.at # 0 /\ sub.lines # << >>
  /\ \E saved, answered \in BOOLEAN :
       /\ answered => saved
       /\ entered' = IF saved THEN [entered EXCEPT ![sub.at].lines = Append(@, Head(sub.lines))]
                     ELSE entered
       /\ IF sub.from = "quick" /\ ~ answered THEN SubmissionEnds(sub)
          ELSE GoesOn(sub, [sub EXCEPT !.lines = Tail(@)])
  /\ UNCHANGED <<page, wizardStep, head, lineItems, copying, listing, preview, previewing,
                 requested, clicks>>

\* router.replace
Leave(sub) ==
  /\ sub.at # 0 /\ sub.lines = << >>
  /\ page' = "gone" /\ SubmissionEnds(sub)
  /\ UNCHANGED <<wizardStep, head, lineItems, copying, listing, preview, previewing,
                 requested, entered, clicks>>

-----------------------------------------------------------------------------
EntryNext ==
  \/ \E h \in Headers : TypeHeader(h)
  \/ \E k \in 1..MaxRows : RemoveRow(k) \/ \E r \in RowChoices : TypeRow(k, r)
  \/ TypeExtras \/ AddRow
  \/ \E item \in Catalog : QuickAdd(item.row) \/ PickItem(item)
  \/ \E target \in 1..3 : GoToStep(target) \/ QuickStep(target)
  \/ \E s \in Sellers : PickSupplier(s)
  \/ CopyArrives \/ ListArrives
  \/ \E r \in requested : PreviewArrives(r)
  \/ HandleSubmit \/ QuickSubmit
  \/ \E sub \in saving : CreateHeader(sub) \/ SaveLine(sub) \/ Leave(sub)

EntrySpec == EntryInit /\ [][EntryNext]_entryVars

-----------------------------------------------------------------------------
\* The type invariant.
EntryTypeOK ==
  /\ page \in {"wizard", "quick", "gone"} /\ wizardStep \in 1..3
  /\ head \in Headers
  /\ lineItems \in Seq(LineRows) /\ Len(lineItems) \in 1..MaxRows
  /\ copying \in CopySources \cup {None} /\ listing \in {"asked", "here", "failed"}
  /\ preview \in RoutingDrafts \cup {None} /\ previewing \in BOOLEAN /\ busy \in BOOLEAN
  /\ requested \subseteq [draft : RoutingDrafts, live : BOOLEAN]
  /\ entered \in Seq([header : Headers, lines : Seq(LineRows)])
  /\ clicks \in 0..MaxClicks

\* What the summary shows.
SummaryShows(p) == page = "wizard" /\ wizardStep = 3 /\ ~ previewing /\ preview = p /\ p # None

\* The approval preview on the summary is that of the draft on the summary,
\* though the draft can change under it and answers overtake each other.
PreviewIsOfThisDraft ==
  SummaryShows(preview) => preview = RoutingDraft(head, lineItems)

\* What the pages enter is what an order can be made of: a value to route on, a
\* supplier, and on every line an account - even when a copy arrives on the
\* summary and replaces all that was checked on the way there.  The comment
\* promises that the account check of the order can never fail for them.
EnteredIsOrderable ==
  \A n \in DOMAIN entered :
    /\ entered[n].header.supplier # None
    /\ entered[n].header.titled
    /\ \A k \in DOMAIN entered[n].lines : entered[n].lines[k]["account"]

\* What the pages show and what they enter, together.
EntryIsSound == PreviewIsOfThisDraft /\ EnteredIsOrderable
=============================================================================
