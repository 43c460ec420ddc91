---------------------------- MODULE ThreeWayMatch ----------------------------
(***************************************************************************)
(* The invoices of one order against what was received for it: the match    *)
(* engine and its tolerances (backend/app/crud/procurement.py), the match    *)
(* result shown for an invoice (services/invoice_matching.py) and the GR/IR   *)
(* records of the order's lines (services/grir.py), with several requests     *)
(* under way.                                                                *)
(*                                                                          *)
(* A request is used once.  Its unit of work writes only the columns it      *)
(* changed from what it loaded (database.py).  What people decide about an    *)
(* exception, the block and the payment are in InvoiceVerification.           *)
(***************************************************************************)
EXTENDS Integers, FiniteSets, Functions

CONSTANTS
  OrderLines, Ordered,    \* the order's lines, and the quantity of each
  ReceiptLines,           \* lines whose commodity's policy asks for a three-way match
  FreeLines,              \* lines without a price
  Bills, Invoices,        \* what an invoice may say; invoices
  MatchRequests,
  MaxReceived,            \* bound on what is received
  Unbilled, Header        \* no invoice yet; the line of an exception of the whole invoice

ASSUME LinesAssumption ==
  /\ IsFiniteSet(OrderLines) /\ Ordered \in [OrderLines -> Nat]
  /\ IsFiniteSet(Invoices) /\ Unbilled \notin Bills
  /\ MaxReceived \in Nat

ASSUME BillsAssumption ==
  \A b \in Bills : /\ b.quantity \in [OrderLines -> Nat]
                   /\ b.dear \subseteq OrderLines   \* priced above the order
                   /\ b.memo \in BOOLEAN            \* has a line of no order
                   /\ b.amount \in Nat

VARIABLES
  received, refused,   \* sums over the receipt lines of an order line, in any status
  shut,                \* the order's lifecycle_status is closed
  bills,               \* what each invoice says
  verdict,             \* its match_status, match_type and stored tolerance
  found,               \* rows of invoice_match_exceptions
  grir,                \* rows of grir_records
  calls,               \* the requests
  doubled, crossed     \* history: invoices matched twice at once; two reconciliations at once

matchVars == <<received, refused, shut, bills, verdict, found, grir, calls, doubled, crossed>>

Billed(i) == bills[i] # Unbilled
BilledLines(i) == {l \in OrderLines : bills[i].quantity[l] > 0}

\* get_po_line_receipt_status
AcceptedOf(l) == received[l] - refused[l]

\* _invoiced_qty_for_line: invoices in any state.
InvoicedOf(l) ==
  SumFunction([i \in {j \in Invoices : Billed(j)} |-> bills[i].quantity[l]])

MatchingInit ==
  /\ received = [l \in OrderLines |-> 0] /\ refused = received /\ shut = FALSE
  /\ bills = [i \in Invoices |-> Unbilled]
  /\ verdict = [i \in Invoices |-> [match |-> "pending", type |-> "two_way", lenient |-> FALSE]]
  /\ found = {} /\ grir = {}
  /\ calls = [r \in MatchRequests |-> [stage |-> "unused"]]
  /\ doubled = {} /\ crossed = FALSE

-----------------------------------------------------------------------------
(***************************************************************************)
(* match_invoice                                                            *)
(***************************************************************************)
Row(i, kind, l, r) == [invoice |-> i, kind |-> kind, line |-> l, by |-> r, settled |-> FALSE]

\* Mutant: only invoices that were matched are compared with.
TwinMatched(i) ==
  \E j \in Invoices \ {i} : /\ Billed(j) /\ bills[j].amount = bills[i].amount
                          /\ verdict[j].match = "matched"

\* _find_duplicate_invoice: another of the supplier's invoices has the amount.
HasTwin(i) == \E j \in Invoices \ {i} : Billed(j) /\ bills[j].amount = bills[i].amount

MatchesReceipt(l, override) == IF override = "none" THEN l \in ReceiptLines ELSE override = "three_way"

\* Mutant: what was ordered is taken for received.
ExceedsOrder(i, l) == bills[i].quantity[l] > Ordered[l]

ExceedsReceipt(i, l) == bills[i].quantity[l] > AcceptedOf(l)

\* The rows a match adds; a tolerance lets a price above the order pass.
Exceptions(i, r, override, lenient) ==
  {Row(i, "duplicate_invoice", Header, r) : x \in {h \in {Header} : HasTwin(i)}}
    \cup {Row(i, "price_variance", l, r) : l \in {x \in BilledLines(i) \cap bills[i].dear : ~lenient}}
    \cup {Row(i, "quantity_variance", l, r) :
            l \in {x \in BilledLines(i) : bills[i].quantity[x] > Ordered[x]}}
    \cup {Row(i, "quantity_exceeds_receipt", l, r) :
            l \in {x \in BilledLines(i) : MatchesReceipt(x, override) /\ ExceedsReceipt(i, x)}}

RowsOf(i) == {x \in found : x.invoice = i}

At(r, stage) == calls[r].stage = stage
Matching(i) == {r \in MatchRequests : calls[r].stage \in {"loaded", "matched"} /\ calls[r].invoice = i}
Step(r, call) == calls' = [calls EXCEPT ![r] = call]

\* The request read the invoice; override and tolerance come with it.
Loaded(i, override, lenient) ==
  [stage |-> "loaded", invoice |-> i, override |-> override, lenient |-> lenient, was |-> verdict'[i]]

\* create_invoice commits the invoice, whatever the state of its order, which it
\* sets to invoiced; the match follows in the same request.
CreateInvoice(r, i, b) ==
  /\ At(r, "unused") /\ ~Billed(i)
  /\ bills' = [bills EXCEPT ![i] = b]
  /\ shut' = FALSE
  /\ UNCHANGED <<received, refused, verdict, found, grir, doubled, crossed>>
  /\ Step(r, Loaded(i, "none", FALSE))

\* match_invoice_endpoint: a request that names no match type says two_way.
MatchAgain(r, i, override, lenient) ==
  /\ At(r, "unused") /\ Billed(i)
  /\ UNCHANGED <<received, refused, shut, bills, verdict, found, grir, crossed>>
  /\ Step(r, Loaded(i, override, lenient))
  /\ doubled' = IF Matching(i) # {} THEN doubled \cup {i} ELSE doubled

\* The rows that are there are deleted, waiting for whoever deletes them already,
\* and the documents are looked at.
LookUp(r) ==
  /\ At(r, "loaded")
  /\ LET c == calls[r]
         i == c.invoice
     IN /\ \A o \in Matching(i) : At(o, "matched") => calls[o].swept \cap RowsOf(i) = {}
        /\ Step(r, [stage |-> "matched", invoice |-> i, override |-> c.override,
                    lenient |-> c.lenient, was |-> c.was, swept |-> RowsOf(i),
                    rows |-> Exceptions(i, r, c.override, c.lenient)])
  /\ UNCHANGED <<received, refused, shut, bills, verdict, found, grir, doubled, crossed>>

\* match_type: the request's, or the strictest a line's policy asks for.
TypeAfter(c) ==
  IF c.override # "none" THEN c.override
  ELSE IF BilledLines(c.invoice) \cap ReceiptLines # {} THEN "three_way" ELSE c.was.type

Column(now, was, new) == IF new = was THEN now ELSE new

\* Rows, match status and match type are committed together.
CommitMatch(r) ==
  /\ At(r, "matched")
  /\ LET c == calls[r]
         i == c.invoice
         now == verdict[i]
     IN /\ found' = (found \ c.swept) \cup c.rows
        /\ verdict' = [verdict EXCEPT ![i] =
             [match |-> Column(now.match, c.was.match, IF c.rows # {} THEN "exception" ELSE "matched"),
              type |-> Column(now.type, c.was.type, TypeAfter(c)),
              lenient |-> Column(now.lenient, c.was.lenient, c.lenient)]]
  /\ Step(r, [stage |-> "reconcile"])
  /\ UNCHANGED <<received, refused, shut, bills, grir, doubled, crossed>>

\* Somebody settles a row; without another open one the invoice is matched.
SettleRow(x) ==
  /\ x \in found /\ ~x.settled
  /\ \A r \in MatchRequests : At(r, "matched") => x \notin calls[r].swept
  /\ found' = (found \ {x}) \cup {[x EXCEPT !.settled = TRUE]}
  /\ verdict' = [verdict EXCEPT ![x.invoice].match =
       IF \E y \in found' : y.invoice = x.invoice /\ ~y.settled THEN "exception" ELSE "matched"]
  /\ UNCHANGED <<received, refused, shut, bills, grir, calls, doubled, crossed>>

-----------------------------------------------------------------------------
(***************************************************************************)
(* GR/IR                                                                    *)
(***************************************************************************)
\* reconcile_grir_for_po_line: the status of a record.
GrirStatus(l, in, billed) ==
  IF in = 0 /\ billed = 0 THEN "OPEN"
  ELSE IF in = billed \/ l \in FreeLines THEN "CLEARED"
  ELSE IF in < Ordered[l] THEN "PARTIALLY_CLEARED"
  ELSE IF shut THEN "CLEARED_WITH_ADJUSTMENT" ELSE "EXCEPTION"

Sums(l) ==
  [received |-> AcceptedOf(l), invoiced |-> InvoicedOf(l),
   status |-> GrirStatus(l, AcceptedOf(l), InvoicedOf(l))]
RecordsOf(l, records) == {x \in records : x.line = l}

\* create_goods_receipt, or a receipt made for the order: it counts at once.
Receive(l, some, bad) ==
  /\ SumFunction(received) + some <= MaxReceived /\ bad \in 0..some
  /\ received' = [received EXCEPT ![l] = @ + some]
  /\ refused' = [refused EXCEPT ![l] = @ + bad]
  /\ UNCHANGED <<shut, bills, verdict, found, grir, calls, doubled, crossed>>

\* The order is closed, by hand or when it is fully received (OrderFulfilment).
Shut ==
  /\ ~shut /\ shut' = TRUE
  /\ UNCHANGED <<received, refused, bills, verdict, found, grir, calls, doubled, crossed>>

\* post_goods_receipt, up to the reconciliation.
PostReceipt(r) ==
  /\ At(r, "unused") /\ \E l \in OrderLines : received[l] > 0
  /\ Step(r, [stage |-> "reconcile"])
  /\ UNCHANGED <<received, refused, shut, bills, verdict, found, grir, doubled, crossed>>

\* reconcile_grir_for_po reads sums and records of all lines.
ReadSums(r) ==
  /\ At(r, "reconcile")
  /\ \A l \in OrderLines : Cardinality(RecordsOf(l, grir)) <= 1
  /\ Step(r, [stage |-> "summed", had |-> grir, sums |-> [l \in OrderLines |-> Sums(l)]])
  /\ crossed' = (crossed \/ \E o \in MatchRequests : At(o, "summed"))
  /\ UNCHANGED <<received, refused, shut, bills, verdict, found, grir, doubled>>

\* Mutant: a line's record is not looked for.
WriteAnew(c, r) ==
  grir \cup {[line |-> l, by |-> r, received |-> c.sums[l].received, invoiced |-> c.sums[l].invoiced,
              status |-> c.sums[l].status] : l \in OrderLines}

\* A record that was there is updated, another is inserted.
WriteOver(c, r) ==
  {IF RecordsOf(x.line, c.had) = {} THEN x
   ELSE LET was == CHOOSE y \in RecordsOf(x.line, c.had) : TRUE
            new == c.sums[x.line]
        IN [x EXCEPT !.received = Column(@, was.received, new.received),
                     !.invoiced = Column(@, was.invoiced, new.invoiced),
                     !.status = Column(@, was.status, new.status)] : x \in grir}
    \cup {[line |-> l, by |-> r, received |-> c.sums[l].received, invoiced |-> c.sums[l].invoiced,
           status |-> c.sums[l].status] : l \in {k \in OrderLines : RecordsOf(k, c.had) = {}}}

WriteSums(r) ==
  /\ At(r, "summed")
  /\ grir' = WriteOver(calls[r], r)
  /\ Step(r, [stage |-> "done"])
  /\ UNCHANGED <<received, refused, shut, bills, verdict, found, doubled, crossed>>

\* The server stops, or two records of a line make the look-up raise: what was
\* committed stays, the rest is gone.
Break(r) ==
  /\ calls[r].stage \notin {"unused", "done"}
  /\ Step(r, [stage |-> "done"])
  /\ UNCHANGED <<received, refused, shut, bills, verdict, found, grir, doubled, crossed>>

MatchingNext ==
  \/ \E r \in MatchRequests :
       \/ LookUp(r) \/ CommitMatch(r) \/ PostReceipt(r) \/ ReadSums(r) \/ WriteSums(r) \/ Break(r)
       \/ \E i \in Invoices :
            \/ \E b \in Bills : CreateInvoice(r, i, b)
            \/ \E override \in {"two_way", "three_way"}, lenient \in BOOLEAN :
                 MatchAgain(r, i, override, lenient)
  \/ \E x \in found : SettleRow(x)
  \/ \E l \in OrderLines, some \in 1..MaxReceived, bad \in 0..MaxReceived : Receive(l, some, bad)
  \/ Shut

MatchingSpec == MatchingInit /\ [][MatchingNext]_matchVars

-----------------------------------------------------------------------------
(***************************************************************************)
(* The match result                                                         *)
(***************************************************************************)
KindsOn(i, l) == {x.kind : x \in {y \in RowsOf(i) : y.line = l}}

\* classify_line_status, for a line of the order
Classify(i, l) ==
  IF KindsOn(i, l) \cap {"quantity_variance", "quantity_exceeds_receipt"} # {}
       \/ bills[i].quantity[l] > Ordered[l] THEN "OVERMATCH"
  ELSE IF bills[i].quantity[l] < Ordered[l] THEN "UNDERMATCH"
  ELSE IF "price_variance" \in KindsOn(i, l) \/ (l \in bills[i].dear /\ ~verdict[i].lenient)
         THEN "PARTIAL"
         ELSE "MATCHED"

\* build_match_result.  Rows are looked up by line: one of the header, the
\* duplicate's, is not among them.
ResultOf(i) ==
  IF bills[i].memo THEN "FAILED_MATCH"
  ELSE IF \A l \in BilledLines(i) : KindsOn(i, l) = {} /\ Classify(i, l) = "MATCHED"
         THEN "FULLY_MATCHED"
         ELSE "MATCHED_WITH_EXCEPTIONS"

\* get_invoices_with_open_exceptions, the accounts payable worklist
Worklist == {i \in Invoices : \E x \in RowsOf(i) : ~x.settled}

-----------------------------------------------------------------------------
MatchingTypeOK ==
  /\ received \in [OrderLines -> 0..MaxReceived] /\ refused \in [OrderLines -> 0..MaxReceived]
  /\ shut \in BOOLEAN /\ crossed \in BOOLEAN /\ doubled \subseteq Invoices
  /\ bills \in [Invoices -> Bills \cup {Unbilled}]
  /\ verdict \in [Invoices -> [match : {"pending", "exception", "matched"},
                               type : {"two_way", "three_way"}, lenient : BOOLEAN]]
  /\ \A x \in found : x.invoice \in Invoices /\ x.by \in MatchRequests /\ x.settled \in BOOLEAN
  /\ \A x \in grir : x.line \in OrderLines /\ x.by \in MatchRequests

\* An invoice shown as fully matched three ways is for no more than was accepted
\* of each line whose policy asks for it, whatever arrived, was matched again or
\* settled in between; unless two matches of it ran at once, when the one that
\* looked at the receipts may leave its type to the verdict of the other.
AgreedIsReceived ==
  \A i \in Invoices \ doubled :
    Billed(i) /\ verdict[i].type = "three_way" /\ ResultOf(i) = "FULLY_MATCHED" =>
      \A l \in BilledLines(i) \cap ReceiptLines : bills[i].quantity[l] <= AcceptedOf(l)

\* Of two invoices over one amount that were both matched, one is on the
\* worklist, or somebody settled its exception: also when they came in at once.
TwinsAreSeen ==
  \A i, j \in Invoices :
    i # j /\ Billed(i) /\ Billed(j) /\ bills[i].amount = bills[j].amount
      /\ verdict[i].match # "pending" /\ verdict[j].match # "pending" =>
        \/ {i, j} \cap Worklist # {}
        \/ \E x \in found : x.invoice \in {i, j} /\ x.settled

\* A GR/IR record never says more was received or invoiced than was, however
\* late its request wrote it, and a line has one record unless two
\* reconciliations crossed.
LedgerIsSound ==
  /\ \A x \in grir : x.received <= AcceptedOf(x.line) /\ x.invoiced <= InvoicedOf(x.line)
  /\ crossed \/ \A l \in OrderLines : Cardinality(RecordsOf(l, grir)) <= 1

=============================================================================
