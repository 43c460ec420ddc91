----------------------- MODULE InvoiceVerificationProofs -----------------------
(***************************************************************************)
(* Proofs about InvoiceVerification, for any exception rows: type           *)
(* correctness, that no OK-to-Pay passes an exception that is open or       *)
(* rejected, that a person's "no" lasts, that the block of an invoice       *)
(* without a PO is lifted only by an answer, and that a rejection is        *)
(* released by a Finance Controller.                                        *)
(*                                                                          *)
(* And about ThreeWayMatch, for any lines, invoices and requests: that of     *)
(* two invoices over one amount one shows it, that what is shown as matched   *)
(* three ways was accepted, and that the GR/IR records are true.             *)
(***************************************************************************)
EXTENDS InvoiceVerification, ThreeWayMatch, SumTheorems, TLAPS

(* What a match status of the two verified ones rests on *)
VerifiedHasNoVeto == match \in Verified => \A x \in Rows : exceptions[x] # "rejected"

(* The block of a rejected invoice comes with the row of the rejection *)
BlockHasReason ==
  block = "BLOCKED_FOR_EXCEPTION" => \E x \in Rejections : exceptions[x] # "none"

(* Who is still saying no has a row that says so *)
VetoIsOnRecord == \A x \in vetoed : exceptions[x] \in {"open", "rejected"}

IInv ==
  /\ TypeOK /\ VerifiedHasNoVeto /\ BlockHasReason /\ UnblockedWasAnswered

-----------------------------------------------------------------------------
(* What people may say about exceptions *)
SettledTo(settled) ==
  /\ DOMAIN settled \subseteq Existing(exceptions)
  /\ \A x \in DOMAIN settled : settled[x] \in Statuses \ {"in_review"}

LEMMA ResolveSettles ==
  ASSUME TypeOK, NEW x \in Rows, NEW to \in Resolutions, Resolve(x, to)
  PROVE  \E settled : SettledTo(settled) /\ Settle(settled)
<1>1. SettledTo([y \in {x} |-> to])
  BY DEF Resolve, SettledTo, Existing, Resolutions, Statuses
<1> QED BY <1>1 DEF Resolve

LEMMA DismissSettles ==
  ASSUME TypeOK, NEW x \in Rows, NEW to \in {"overridden", "cancelled"}, Dismiss(x, to)
  PROVE  \E settled : SettledTo(settled) /\ Settle(settled)
<1>1. SettledTo([y \in {x} |-> to])
  BY DEF Dismiss, SettledTo, Existing, Active, Statuses
<1> QED BY <1>1 DEF Dismiss

LEMMA BulkSettles ==
  ASSUME TypeOK, NEW S \in SUBSET Rows, NEW to \in [S -> {"overridden", "corrected"}],
         BulkResolve(S, to)
  PROVE  \E settled : SettledTo(settled) /\ Settle(settled)
<1>1. SettledTo(to)
  BY DEF BulkResolve, SettledTo, Existing, Active, Statuses, Resolutions
<1> QED BY <1>1 DEF BulkResolve

(* Every step is one of eight *)
LEMMA StepCases ==
  ASSUME TypeOK, Next
  PROVE  \/ \E shown \in SUBSET facts : Match(shown)
         \/ \E settled : SettledTo(settled) /\ Settle(settled)
         \/ \E x \in Rows : InReview(x)
         \/ \E x \in Rows : RejectInvoice(x)
         \/ \E x \in Rows : DocumentsChange(x)
         \/ \E role \in Roles : Release(role)
         \/ ApproveInvoice
         \/ \E outcome \in Instances : InboxAnswer(outcome)
  BY ResolveSettles, DismissSettles, BulkSettles DEF Next

-----------------------------------------------------------------------------
LEMMA InitIInv == Init => IInv
<1> SUFFICES ASSUME Init PROVE IInv
  OBVIOUS
<1>1. PICK matched \in BOOLEAN :
        /\ exceptions = [x \in Rows |-> IF matched /\ x \in facts THEN "open" ELSE "none"]
        /\ match = (IF ~matched THEN "pending"
                    ELSE IF facts # {} THEN "exception" ELSE "matched")
  BY DEF Init
<1>2. linked \in BOOLEAN
  BY DEF Init
<1>3. TypeOK
  BY <1>1, <1>2 DEF Init, TypeOK, Statuses, Resolutions, Verified, Instances
<1>4. VerifiedHasNoVeto
  BY <1>1 DEF VerifiedHasNoVeto
<1>5. BlockHasReason /\ UnblockedWasAnswered
  BY DEF Init, BlockHasReason, UnblockedWasAnswered
<1> QED BY <1>3, <1>4, <1>5 DEF IInv

LEMMA NextIInv == IInv /\ [Next]_vars => IInv'
<1> SUFFICES ASSUME IInv, [Next]_vars PROVE IInv'
  OBVIOUS
<1> USE DEF IInv
<1>1. CASE UNCHANGED vars
  BY <1>1 DEF vars, TypeOK, VerifiedHasNoVeto, BlockHasReason,
     UnblockedWasAnswered
<1>2. ASSUME NEW shown \in SUBSET facts, Match(shown) PROVE IInv'
  <2>1. TypeOK'
    BY <1>2 DEF Match, StatusOfMatch, TypeOK, Verified, Statuses, Resolutions
  <2>2. VerifiedHasNoVeto'
    BY <1>2 DEF Match, VerifiedHasNoVeto
  <2>3. (BlockHasReason /\ UnblockedWasAnswered)'
    BY <1>2 DEF Match, BlockHasReason, UnblockedWasAnswered
  <2> QED BY <2>1, <2>2, <2>3
<1>3. ASSUME NEW settled, SettledTo(settled), Settle(settled) PROVE IInv'
  <2>1. exceptions' \in [Rows -> Statuses \cup {"none"}]
    BY <1>3 DEF SettledTo, Settle, TypeOK, Existing
  <2>2. match' \in Verified \cup {"exception"}
    BY <1>3 DEF Settle, Recompute, Verified
  <2>3. DOMAIN settled \subseteq Rows
    BY <1>3 DEF SettledTo, Existing
  <2>4. TypeOK'
    BY <1>3, <2>1, <2>2, <2>3 DEF Settle, StatusOfMatch, TypeOK
  <2>5. VerifiedHasNoVeto'
    BY <1>3 DEF Settle, Recompute, VerifiedHasNoVeto, Verified
  <2>6. BlockHasReason'
    <3> SUFFICES ASSUME NEW x \in Rejections, exceptions[x] # "none"
                 PROVE  exceptions'[x] # "none"
      BY <1>3 DEF BlockHasReason, Settle
    <3> QED BY <1>3 DEF Settle, SettledTo, Rejections, Statuses, Resolutions
  <2>7. (UnblockedWasAnswered)'
    BY <1>3 DEF Settle, UnblockedWasAnswered
  <2> QED BY <2>4, <2>5, <2>6, <2>7
<1>4. ASSUME NEW x \in Rows, InReview(x) PROVE IInv'
  BY <1>4 DEF InReview, TypeOK, VerifiedHasNoVeto, BlockHasReason,
     UnblockedWasAnswered,
     Statuses, Rejections
<1>5. ASSUME NEW x \in Rows, RejectInvoice(x) PROVE IInv'
  <2>1. TypeOK'
    BY <1>5 DEF RejectInvoice, TypeOK, Statuses, Resolutions, Instances
  <2>2. VerifiedHasNoVeto'
    BY <1>5 DEF RejectInvoice, TypeOK, VerifiedHasNoVeto
  <2>3. BlockHasReason'
    BY <1>5 DEF RejectInvoice, TypeOK, BlockHasReason, Rejections
  <2>4. (UnblockedWasAnswered)'
    BY <1>5 DEF RejectInvoice, TypeOK, UnblockedWasAnswered
  <2> QED BY <2>1, <2>2, <2>3, <2>4
<1>6. ASSUME NEW x \in Rows, DocumentsChange(x) PROVE IInv'
  BY <1>6 DEF DocumentsChange, TypeOK, VerifiedHasNoVeto, BlockHasReason,
     UnblockedWasAnswered
<1>7. ASSUME NEW role \in Roles, Release(role) PROVE IInv'
  <2>1. block # "BLOCKED_FOR_APPROVAL"
    BY <1>7 DEF Release, MayRelease, MayReleaseBlocks
  <2> QED
    BY <1>7, <2>1 DEF Release, TypeOK, VerifiedHasNoVeto, BlockHasReason,
       UnblockedWasAnswered, Roles
<1>8. CASE ApproveInvoice
  BY <1>8 DEF ApproveInvoice, TypeOK, Instances, VerifiedHasNoVeto, BlockHasReason,
     UnblockedWasAnswered
<1>9. ASSUME NEW outcome \in Instances, InboxAnswer(outcome) PROVE IInv'
  BY <1>9 DEF InboxAnswer, TypeOK, VerifiedHasNoVeto, BlockHasReason,
     UnblockedWasAnswered
<1> QED BY <1>1, <1>2, <1>3, <1>4, <1>5, <1>6, <1>7, <1>8, <1>9, StepCases

LEMMA Invariant == Spec => []IInv
<1>1. Init => IInv
  BY InitIInv
<1>2. IInv /\ [Next]_vars => IInv'
  BY NextIInv
<1> QED BY <1>1, <1>2, PTL DEF Spec

-----------------------------------------------------------------------------
(* Every variable stays in its domain, whatever is requested. *)
THEOREM TypeCorrect == Spec => []TypeOK
<1>1. IInv => TypeOK
  BY DEF IInv
<1> QED BY <1>1, Invariant, PTL

(* No OK-to-Pay over an exception that is open or rejected, whatever was     *)
(* matched again, released or settled meanwhile.                             *)
THEOREM NoVetoPaid == Spec => []NoVetoIsPaid
<1>1. IInv => NoVetoIsPaid
  BY DEF IInv, VerifiedHasNoVeto, NoVetoIsPaid, Payable
<1> QED BY <1>1, Invariant, PTL

(* The block of an invoice without a PO is lifted by an approval or a release *)
THEOREM Unblocked == Spec => []UnblockedWasAnswered
<1>1. IInv => UnblockedWasAnswered
  BY DEF IInv
<1> QED BY <1>1, Invariant, PTL

(* A rejected invoice is released by nobody below the Finance Controller,     *)
(* because the row of the rejection stays and is Critical.                   *)
THEOREM ControllerReleases == Spec => RejectionNeedsController
<1>1. ASSUME IInv, [Next]_vars, block = "BLOCKED_FOR_EXCEPTION", block' = "NOT_BLOCKED",
             released' # "none"
      PROVE  released' = "FINANCE_CONTROLLER"
  <2>1. PICK x \in Rejections : exceptions[x] # "none"
    BY <1>1 DEF IInv, BlockHasReason
  <2>2. Severity(x) = 3
    BY DEF Severity, Rejections, Mismatches, Critical
  <2>3. ASSUME NEW role \in Roles, Release(role) PROVE role = "FINANCE_CONTROLLER"
    <3>1. 3 <= MaxSeverity[role] /\ block \in MayReleaseBlocks[role]
      BY <2>1, <2>2, <2>3 DEF Release, MayRelease, Existing, Rejections
    <3>2. role # "COMPLIANCE_OFFICER"
      BY <3>1, <1>1 DEF MayReleaseBlocks
    <3> QED BY <3>1, <3>2 DEF MaxSeverity, Roles
  <2>4. ASSUME NEW settled, Settle(settled) PROVE block' = block
    BY <2>4 DEF Settle
  <2>5. block' # block
    BY <1>1
  <2>6. CASE \E role \in Roles : Release(role)
    BY <2>3, <2>6 DEF Release
  <2>7. CASE \E shown \in SUBSET facts : Match(shown)
    BY <2>7, <1>1 DEF Match
  <2>8. TypeOK /\ Next
    BY <1>1, <2>5 DEF IInv, vars
  <2> QED
    BY <1>1, <2>4, <2>5, <2>6, <2>7, <2>8, StepCases
       DEF InReview, RejectInvoice, DocumentsChange, ApproveInvoice, InboxAnswer
<1>2. IInv /\ [Next]_vars =>
        [block = "BLOCKED_FOR_EXCEPTION" /\ block' = "NOT_BLOCKED" /\ released' # "none"
           => released' = "FINANCE_CONTROLLER"]_vars
  BY <1>1
<1> QED BY <1>2, Invariant, PTL DEF Spec, RejectionNeedsController

-----------------------------------------------------------------------------
(* A person's "no" keeps the invoice off the OK-to-Pay file until somebody    *)
(* accepts or reviews it, or a new match wipes it out.                       *)
THEOREM VetoOutlasts == Spec => []VetoStands
<1>1. Init => VetoIsOnRecord
  BY DEF Init, VetoIsOnRecord
<1>2. IInv /\ VetoIsOnRecord /\ [Next]_vars => VetoIsOnRecord'
  <2> SUFFICES ASSUME IInv, VetoIsOnRecord, [Next]_vars PROVE VetoIsOnRecord'
    OBVIOUS
  <2> USE DEF VetoIsOnRecord
  <2>1. CASE UNCHANGED vars
    BY <2>1 DEF vars
  <2>2. ASSUME NEW settled, SettledTo(settled), Settle(settled) PROVE VetoIsOnRecord'
    BY <2>2 DEF Settle, SettledTo, IInv, TypeOK, Existing
  <2>3. ASSUME NEW x \in Rows, RejectInvoice(x) PROVE VetoIsOnRecord'
    BY <2>3 DEF RejectInvoice, IInv, TypeOK
  <2>4. ASSUME NEW x \in Rows, DocumentsChange(x) PROVE VetoIsOnRecord'
    BY <2>4 DEF DocumentsChange
  <2>5. ASSUME NEW role \in Roles, Release(role) PROVE VetoIsOnRecord'
    BY <2>5 DEF Release
  <2>6. CASE ApproveInvoice
    BY <2>6 DEF ApproveInvoice
  <2>7. ASSUME NEW outcome \in Instances, InboxAnswer(outcome)
        PROVE  VetoIsOnRecord'
    BY <2>7 DEF InboxAnswer
  <2>8. ASSUME NEW shown \in SUBSET facts, Match(shown) PROVE VetoIsOnRecord'
    BY <2>8 DEF Match
  <2>9. ASSUME NEW x \in Rows, InReview(x) PROVE VetoIsOnRecord'
    BY <2>9 DEF InReview, IInv, TypeOK
  <2> QED
    BY <2>1, <2>2, <2>3, <2>4, <2>5, <2>6, <2>7, <2>8, <2>9, StepCases DEF IInv
<1>3. IInv /\ VetoIsOnRecord => VetoStands
  BY DEF IInv, TypeOK, VerifiedHasNoVeto, VetoIsOnRecord, VetoStands, Payable
<1> QED BY <1>1, <1>2, <1>3, Invariant, PTL DEF Spec

-----------------------------------------------------------------------------
(***************************************************************************)
(* ThreeWayMatch                                                            *)
(***************************************************************************)
MatchKinds == {"duplicate_invoice", "price_variance", "quantity_variance", "quantity_exceeds_receipt"}
ExceptionRows ==
  [invoice : Invoices, kind : MatchKinds, line : OrderLines \cup {Header}, by : MatchRequests,
   settled : BOOLEAN]
Verdicts ==
  [match : {"pending", "exception", "matched"}, type : {"two_way", "three_way"},
   lenient : BOOLEAN]
GrirStatuses == {"OPEN", "CLEARED", "PARTIALLY_CLEARED", "CLEARED_WITH_ADJUSTMENT", "EXCEPTION"}
GrirRows ==
  [line : OrderLines, by : MatchRequests, received : Int, invoiced : Int, status : GrirStatuses]
LineSums == [received : Int, invoiced : Int, status : GrirStatuses]

PlainCalls == [stage : {"unused", "reconcile", "done"}]
LoadedCalls ==
  [stage : {"loaded"}, invoice : Invoices, override : {"none", "two_way", "three_way"},
   lenient : BOOLEAN, was : Verdicts]
MatchedCalls ==
  [stage : {"matched"}, invoice : Invoices, override : {"none", "two_way", "three_way"},
   lenient : BOOLEAN, was : Verdicts, swept : SUBSET ExceptionRows, rows : SUBSET ExceptionRows]
SummedCalls ==
  [stage : {"summed"}, had : SUBSET GrirRows, sums : [OrderLines -> LineSums]]

(* MatchingTypeOK, with the shape of rows and of what requests hold *)
MatchTypeInv ==
  /\ received \in [OrderLines -> 0..MaxReceived] /\ refused \in [OrderLines -> 0..MaxReceived]
  /\ \A l \in OrderLines : refused[l] <= received[l]
  /\ SumFunction(received) <= MaxReceived
  /\ shut \in BOOLEAN /\ crossed \in BOOLEAN /\ doubled \subseteq Invoices
  /\ bills \in [Invoices -> Bills \cup {Unbilled}]
  /\ verdict \in [Invoices -> Verdicts]
  /\ found \subseteq ExceptionRows /\ grir \subseteq GrirRows
  /\ calls \in [MatchRequests -> PlainCalls \cup LoadedCalls \cup MatchedCalls \cup SummedCalls]

(* A request matches an invoice that is there, and handles its rows only *)
CallsAreOwn ==
  \A r \in MatchRequests :
    /\ calls[r].stage \in {"loaded", "matched"} => Billed(calls[r].invoice)
    /\ At(r, "matched") =>
         \A x \in calls[r].swept \cup calls[r].rows : x.invoice = calls[r].invoice

(* Nothing is decided about an invoice that is not there *)
UnbilledIsPending ==
  \A i \in Invoices : ~Billed(i) => /\ verdict[i].match = "pending" /\ verdict[i].type = "two_way"
                                 /\ RowsOf(i) = {}

(* Every match of this invoice since its twin is there found something *)
SeesTwin(i) ==
  /\ \A r \in MatchRequests : At(r, "matched") /\ calls[r].invoice = i => calls[r].rows # {}
  /\ verdict[i].match # "pending" => RowsOf(i) # {}

(* Of two twins one came second, and sees the other *)
TwinsInv ==
  \A i, j \in Invoices :
    i # j /\ Billed(i) /\ Billed(j) /\ bills[i].amount = bills[j].amount =>
      SeesTwin(i) \/ SeesTwin(j)

(* Rows say of this line of an invoice that more is invoiced than was accepted *)
SayTooMany(rows, l) == \E x \in rows : x.line = l /\ x.kind = "quantity_exceeds_receipt"

(* A match that leads to a three-way verdict lists what exceeds the receipts *)
MatchesSay(i) ==
  \A r \in MatchRequests :
    At(r, "matched") /\ calls[r].invoice = i /\ TypeAfter(calls[r]) = "three_way" =>
      \A l \in BilledLines(i) \cap ReceiptLines :
        ExceedsReceipt(i, l) => SayTooMany(calls[r].rows, l)

(* While one request at a time matches the invoice, its match is the one that counts *)
VerdictSays(i) ==
  /\ \A r, o \in Matching(i) : r = o
  /\ \A r \in Matching(i) : calls[r].was.type = verdict[i].type
  /\ verdict[i].type = "three_way" =>
       \A l \in BilledLines(i) \cap ReceiptLines :
         ExceedsReceipt(i, l) => SayTooMany(RowsOf(i), l)

ThreeWayInv ==
  \A i \in Invoices : Billed(i) => MatchesSay(i) /\ (i \notin doubled => VerdictSays(i))

(* Sums are true when they are read, and a reconciliation that runs alone holds *)
(* the records as they are.                                                     *)
LedgerInv ==
  /\ \A x \in grir : x.received <= AcceptedOf(x.line) /\ x.invoiced <= InvoicedOf(x.line)
  /\ \A r \in MatchRequests : At(r, "summed") =>
       \A l \in OrderLines : /\ calls[r].sums[l].received <= AcceptedOf(l)
                             /\ calls[r].sums[l].invoiced <= InvoicedOf(l)
  /\ ~crossed =>
       /\ \A x, y \in grir : x.line = y.line => x = y
       /\ \A r, o \in MatchRequests : At(r, "summed") /\ At(o, "summed") => r = o
       /\ \A r \in MatchRequests : At(r, "summed") => calls[r].had = grir

MatchInv ==
  MatchTypeInv /\ CallsAreOwn /\ UnbilledIsPending /\ TwinsInv /\ ThreeWayInv /\ LedgerInv

LEMMA CallShapes ==
  ASSUME MatchTypeInv, NEW r \in MatchRequests
  PROVE  /\ calls[r].stage \in {"unused", "reconcile", "done", "loaded", "matched", "summed"}
         /\ At(r, "loaded") => calls[r] \in LoadedCalls
         /\ At(r, "matched") => calls[r] \in MatchedCalls
         /\ At(r, "summed") => calls[r] \in SummedCalls
<1>1. calls[r] \in PlainCalls \cup LoadedCalls \cup MatchedCalls \cup SummedCalls
  BY DEF MatchTypeInv
<1> QED BY <1>1 DEF At, PlainCalls, LoadedCalls, MatchedCalls, SummedCalls

LEMMA StepOf ==
  ASSUME MatchTypeInv, NEW r \in MatchRequests, NEW call, Step(r, call)
  PROVE  \A o \in MatchRequests : calls'[o] = IF o = r THEN call ELSE calls[o]
BY DEF MatchTypeInv, Step

LEMMA BillFacts ==
  ASSUME MatchTypeInv, NEW i \in Invoices, Billed(i)
  PROVE  /\ bills[i] \in Bills
         /\ bills[i].quantity \in [OrderLines -> Nat]
         /\ bills[i].dear \subseteq OrderLines /\ bills[i].amount \in Nat
BY BillsAssumption DEF MatchTypeInv, Billed

LEMMA ExceptionsAreRows ==
  ASSUME NEW i \in Invoices, NEW r \in MatchRequests, NEW override, NEW lenient
  PROVE  /\ Exceptions(i, r, override, lenient) \subseteq ExceptionRows
         /\ \A x \in Exceptions(i, r, override, lenient) : x.invoice = i
         /\ HasTwin(i) => Exceptions(i, r, override, lenient) # {}
         /\ \A l \in BilledLines(i) :
              MatchesReceipt(l, override) /\ ExceedsReceipt(i, l) =>
                \E x \in Exceptions(i, r, override, lenient) :
                  x.line = l /\ x.kind = "quantity_exceeds_receipt"
<1>1. BilledLines(i) \subseteq OrderLines
  BY DEF BilledLines
<1>2. \A x \in Exceptions(i, r, override, lenient) :
        \E kind \in MatchKinds, l \in OrderLines \cup {Header} : x = Row(i, kind, l, r)
  BY <1>1 DEF Exceptions, MatchKinds
<1>3. \A x \in Exceptions(i, r, override, lenient) : x \in ExceptionRows /\ x.invoice = i
  <2> TAKE x \in Exceptions(i, r, override, lenient)
  <2>1. PICK kind \in MatchKinds, l \in OrderLines \cup {Header} : x = Row(i, kind, l, r)
    BY <1>2
  <2> QED BY <2>1 DEF Row, ExceptionRows
<1>4. HasTwin(i) => Row(i, "duplicate_invoice", Header, r) \in Exceptions(i, r, override, lenient)
  BY DEF Exceptions
<1>5. ASSUME NEW l \in BilledLines(i), MatchesReceipt(l, override), ExceedsReceipt(i, l)
      PROVE  \E x \in Exceptions(i, r, override, lenient) :
               x.line = l /\ x.kind = "quantity_exceeds_receipt"
  <2>1. Row(i, "quantity_exceeds_receipt", l, r) \in Exceptions(i, r, override, lenient)
    BY <1>5 DEF Exceptions
  <2> QED BY <2>1 DEF Row
<1> QED BY <1>3, <1>4, <1>5

-----------------------------------------------------------------------------
LEMMA MatchTypeInit == MatchingInit => MatchTypeInv
<1> SUFFICES ASSUME MatchingInit PROVE MatchTypeInv
  OBVIOUS
<1>1. SumFunction(received) = 0
  <2>1. DOMAIN received = OrderLines /\ \A l \in OrderLines : received[l] = 0
    BY DEF MatchingInit
  <2>2. SumFunction(received) = SumFunctionOnSet(received, OrderLines)
    BY <2>1 DEF SumFunction
  <2> QED BY <2>1, <2>2, LinesAssumption, SumOfZeros
<1>2. /\ received \in [OrderLines -> 0..MaxReceived] /\ refused = received
      /\ \A l \in OrderLines : received[l] = 0 /\ refused[l] = 0
  BY LinesAssumption DEF MatchingInit
<1>3. bills \in [Invoices -> Bills \cup {Unbilled}] /\ verdict \in [Invoices -> Verdicts]
  BY DEF MatchingInit, Verdicts
<1>4. calls \in [MatchRequests -> PlainCalls]
  BY DEF MatchingInit, PlainCalls
<1>5. calls \in [MatchRequests -> PlainCalls \cup LoadedCalls \cup MatchedCalls \cup SummedCalls]
  BY <1>4
<1>6. /\ shut \in BOOLEAN /\ crossed \in BOOLEAN /\ doubled \subseteq Invoices
      /\ found \subseteq ExceptionRows /\ grir \subseteq GrirRows
  BY DEF MatchingInit
<1>7. SumFunction(received) <= MaxReceived
  BY <1>1, LinesAssumption
<1>8. \A l \in OrderLines : refused[l] <= received[l]
  BY <1>2
<1> QED BY <1>2, <1>3, <1>5, <1>6, <1>7, <1>8 DEF MatchTypeInv

LEMMA CallsStay ==
  ASSUME MatchTypeInv, NEW r \in MatchRequests,
         NEW call \in PlainCalls \cup LoadedCalls \cup MatchedCalls \cup SummedCalls,
         Step(r, call)
  PROVE  calls' \in [MatchRequests -> PlainCalls \cup LoadedCalls \cup MatchedCalls \cup SummedCalls]
BY DEF MatchTypeInv, Step

LEMMA SumsAreInt ==
  ASSUME MatchTypeInv, NEW l \in OrderLines
  PROVE  /\ AcceptedOf(l) \in Int /\ InvoicedOf(l) \in Nat
         /\ Sums(l) \in LineSums
<1>1. AcceptedOf(l) \in Int
  BY LinesAssumption DEF MatchTypeInv, AcceptedOf
<1>2. InvoicedOf(l) \in Nat
  <2> DEFINE S == {j \in Invoices : Billed(j)}
             f == [i \in S |-> bills[i].quantity[l]]
  <2>1. IsFiniteSet(S)
    BY LinesAssumption, FS_Subset
  <2>2. \A x \in S : f[x] \in Nat
    BY BillFacts
  <2>3. SumFunctionOnSet(f, S) \in Nat
    <3> HIDE DEF f, S
    <3> QED BY <2>1, <2>2, SumIsNat
  <2> QED BY <2>3 DEF InvoicedOf, SumFunction
<1>3. GrirStatus(l, AcceptedOf(l), InvoicedOf(l)) \in GrirStatuses
  BY DEF GrirStatus, GrirStatuses
<1> QED BY <1>1, <1>2, <1>3 DEF Sums, LineSums

(* What is received grows, and what is accepted with it *)
LEMMA ReceiveGrows ==
  ASSUME MatchTypeInv, NEW l \in OrderLines, NEW some \in 1..MaxReceived,
         NEW bad \in 0..MaxReceived, Receive(l, some, bad)
  PROVE  /\ received' \in [OrderLines -> 0..MaxReceived]
         /\ refused' \in [OrderLines -> 0..MaxReceived]
         /\ SumFunction(received') <= MaxReceived
         /\ \A k \in OrderLines : refused'[k] <= received'[k] /\ AcceptedOf(k) <= AcceptedOf(k)'
<1>1. /\ received' = [received EXCEPT ![l] = @ + some]
      /\ refused' = [refused EXCEPT ![l] = @ + bad]
      /\ SumFunction(received) + some <= MaxReceived /\ bad <= some
  BY DEF Receive
<1>2. /\ \A k \in OrderLines : received[k] \in Nat /\ refused[k] \in Nat /\ refused[k] <= received[k]
      /\ DOMAIN received = OrderLines /\ DOMAIN received' = OrderLines
      /\ MaxReceived \in Nat /\ some \in Nat /\ bad \in Nat
  BY <1>1, LinesAssumption DEF MatchTypeInv
<1>3. \A k \in OrderLines : /\ received'[k] = IF k = l THEN received[k] + some ELSE received[k]
                            /\ refused'[k] = IF k = l THEN refused[k] + bad ELSE refused[k]
  BY <1>1 DEF MatchTypeInv
<1>4. \A k \in OrderLines : /\ received'[k] \in Nat /\ refused'[k] \in Nat
                            /\ refused'[k] <= received'[k] /\ AcceptedOf(k) <= AcceptedOf(k)'
  BY <1>1, <1>2, <1>3 DEF AcceptedOf
<1>5. SumFunction(received') = SumFunction(received) + some
  <2>1. /\ SumFunction(received) = SumFunctionOnSet(received, OrderLines)
        /\ SumFunction(received') = SumFunctionOnSet(received', OrderLines)
    BY <1>2 DEF SumFunction
  <2>2. SumFunctionOnSet(received', OrderLines)
          = SumFunctionOnSet(received, OrderLines) - received[l] + received'[l]
    BY <1>2, <1>3, <1>4, LinesAssumption, SumOfChange
  <2>3. SumFunctionOnSet(received, OrderLines) \in Nat
    BY <1>2, LinesAssumption, SumIsNat
  <2> QED BY <1>2, <1>3, <2>1, <2>2, <2>3
<1>6. SumFunction(received') <= MaxReceived
  BY <1>1, <1>5
<1>7. \A k \in OrderLines : received'[k] <= MaxReceived
  <2> TAKE k \in OrderLines
  <2>1. received'[k] <= SumFunction(received')
    BY <1>2, <1>4, LinesAssumption, PartOfSum DEF SumFunction
  <2>2. SumFunction(received') \in Nat
    BY <1>2, <1>4, LinesAssumption, SumIsNat DEF SumFunction
  <2> QED BY <1>2, <1>4, <1>6, <2>1, <2>2
<1>8. \A k \in OrderLines : received'[k] \in 0..MaxReceived /\ refused'[k] \in 0..MaxReceived
  BY <1>2, <1>4, <1>7
<1> QED BY <1>1, <1>4, <1>6, <1>8 DEF MatchTypeInv

LEMMA ColumnIsOneOf ==
  ASSUME NEW now, NEW was, NEW new
  PROVE  Column(now, was, new) \in {now, new}
BY DEF Column

(* What a reconciliation leaves: a record it had, rewritten from its sums, or a new one *)
LEMMA WrittenRecords ==
  ASSUME MatchTypeInv, NEW r \in MatchRequests, At(r, "summed"), NEW x \in WriteOver(calls[r], r)
  PROVE  /\ x \in GrirRows
         /\ \/ \E y \in grir : /\ x.line = y.line
                               /\ x.received \in {y.received, calls[r].sums[x.line].received}
                               /\ x.invoiced \in {y.invoiced, calls[r].sums[x.line].invoiced}
                               /\ RecordsOf(x.line, calls[r].had) # {} \/ x = y
            \/ /\ x.received = calls[r].sums[x.line].received
               /\ x.invoiced = calls[r].sums[x.line].invoiced
<1> DEFINE c == calls[r]
<1>1. c.had \subseteq GrirRows /\ c.sums \in [OrderLines -> LineSums]
  BY CallShapes DEF SummedCalls
<1>2. grir \subseteq GrirRows
  BY DEF MatchTypeInv
<1> HIDE DEF c
<1>3. x \in WriteOver(c, r)
  BY DEF c
<1>4. CASE \E y \in grir : RecordsOf(y.line, c.had) = {} /\ x = y
  <2>1. PICK y \in grir : RecordsOf(y.line, c.had) = {} /\ x = y
    BY <1>4
  <2> QED BY <1>2, <2>1
<1>5. ASSUME NEW y \in grir, NEW was \in GrirRows,
             x = [y EXCEPT !.received = Column(@, was.received, c.sums[y.line].received),
                           !.invoiced = Column(@, was.invoiced, c.sums[y.line].invoiced),
                           !.status = Column(@, was.status, c.sums[y.line].status)],
             RecordsOf(y.line, c.had) # {}
      PROVE  /\ x \in GrirRows /\ x.line = y.line
             /\ x.received \in {y.received, c.sums[x.line].received}
             /\ x.invoiced \in {y.invoiced, c.sums[x.line].invoiced}
  <2>1. y \in GrirRows /\ c.sums[y.line] \in LineSums
    BY <1>1, <1>2 DEF GrirRows
  <2> DEFINE re == Column(y.received, was.received, c.sums[y.line].received)
             in == Column(y.invoiced, was.invoiced, c.sums[y.line].invoiced)
             st == Column(y.status, was.status, c.sums[y.line].status)
  <2>2. /\ re \in {y.received, c.sums[y.line].received}
        /\ in \in {y.invoiced, c.sums[y.line].invoiced}
        /\ st \in {y.status, c.sums[y.line].status}
    BY ColumnIsOneOf
  <2>3. x = [y EXCEPT !.received = re, !.invoiced = in, !.status = st]
    BY <1>5
  <2> HIDE DEF re, in, st
  <2>4. re \in Int /\ in \in Int /\ st \in GrirStatuses
    BY <2>1, <2>2 DEF GrirRows, LineSums
  <2>5. x.line = y.line /\ x.received = re /\ x.invoiced = in /\ x.status = st /\ x.by = y.by
    BY <2>1, <2>3 DEF GrirRows
  <2>6. x \in GrirRows
    BY <2>1, <2>3, <2>4 DEF GrirRows
  <2> QED BY <2>2, <2>5, <2>6
<1>6. ASSUME NEW l \in OrderLines,
             x = [line |-> l, by |-> r, received |-> c.sums[l].received,
                  invoiced |-> c.sums[l].invoiced, status |-> c.sums[l].status]
      PROVE  /\ x \in GrirRows
             /\ x.received = c.sums[x.line].received /\ x.invoiced = c.sums[x.line].invoiced
  <2>1. c.sums[l] \in LineSums
    BY <1>1
  <2> QED BY <1>6, <2>1 DEF GrirRows, LineSums
<1>7. \/ \E y \in grir : RecordsOf(y.line, c.had) = {} /\ x = y
      \/ \E y \in grir : \E was \in RecordsOf(y.line, c.had) :
           /\ RecordsOf(y.line, c.had) # {}
           /\ x = [y EXCEPT !.received = Column(@, was.received, c.sums[y.line].received),
                            !.invoiced = Column(@, was.invoiced, c.sums[y.line].invoiced),
                            !.status = Column(@, was.status, c.sums[y.line].status)]
      \/ \E l \in OrderLines :
           x = [line |-> l, by |-> r, received |-> c.sums[l].received,
                invoiced |-> c.sums[l].invoiced, status |-> c.sums[l].status]
  BY <1>3 DEF WriteOver
<1>8. \A y : RecordsOf(y, c.had) \subseteq GrirRows
  BY <1>1 DEF RecordsOf
<1> QED BY <1>4, <1>5, <1>6, <1>7, <1>8 DEF c

LEMMA MatchTypeNext ==
  ASSUME MatchTypeInv, [MatchingNext]_matchVars
  PROVE  MatchTypeInv'
<1> DEFINE Calls == PlainCalls \cup LoadedCalls \cup MatchedCalls \cup SummedCalls
<1>0. ASSUME UNCHANGED <<received, refused>> PROVE SumFunction(received') <= MaxReceived
  BY <1>0 DEF MatchTypeInv
<1>1. CASE UNCHANGED matchVars
  BY <1>0, <1>1 DEF matchVars, MatchTypeInv
<1>2. ASSUME NEW r \in MatchRequests, NEW i \in Invoices, NEW b \in Bills, CreateInvoice(r, i, b)
      PROVE  MatchTypeInv'
  <2>1. verdict[i] \in Verdicts /\ verdict' = verdict
    BY <1>2 DEF MatchTypeInv, CreateInvoice
  <2>2. Loaded(i, "none", FALSE) \in LoadedCalls
    BY <2>1 DEF Loaded, LoadedCalls
  <2>3. calls' \in [MatchRequests -> Calls]
    BY <1>2, <2>2, CallsStay DEF CreateInvoice
  <2> QED BY <1>0, <1>2, <2>3 DEF CreateInvoice, MatchTypeInv
<1>3. ASSUME NEW r \in MatchRequests, NEW i \in Invoices,
             NEW override \in {"two_way", "three_way"}, NEW lenient \in BOOLEAN,
             MatchAgain(r, i, override, lenient)
      PROVE  MatchTypeInv'
  <2>1. verdict[i] \in Verdicts /\ verdict' = verdict
    BY <1>3 DEF MatchTypeInv, MatchAgain
  <2>2. Loaded(i, override, lenient) \in LoadedCalls
    BY <2>1 DEF Loaded, LoadedCalls
  <2>3. calls' \in [MatchRequests -> Calls]
    BY <1>3, <2>2, CallsStay DEF MatchAgain
  <2> QED BY <1>0, <1>3, <2>3 DEF MatchAgain, MatchTypeInv
<1>4. ASSUME NEW r \in MatchRequests, LookUp(r) PROVE MatchTypeInv'
  <2> DEFINE c == calls[r]
             call == [stage |-> "matched", invoice |-> c.invoice, override |-> c.override,
                      lenient |-> c.lenient, was |-> c.was, swept |-> RowsOf(c.invoice),
                      rows |-> Exceptions(c.invoice, r, c.override, c.lenient)]
  <2>1. c \in LoadedCalls
    BY <1>4, CallShapes DEF LookUp
  <2>2. c.invoice \in Invoices
    BY <2>1 DEF LoadedCalls
  <2>3. /\ RowsOf(c.invoice) \subseteq ExceptionRows
        /\ Exceptions(c.invoice, r, c.override, c.lenient) \subseteq ExceptionRows
    BY <2>2, ExceptionsAreRows DEF MatchTypeInv, RowsOf
  <2>4. call \in MatchedCalls
    BY <2>1, <2>3 DEF LoadedCalls, MatchedCalls
  <2>5. Step(r, call)
    BY <1>4 DEF LookUp
  <2> HIDE DEF call
  <2>6. calls' \in [MatchRequests -> Calls]
    BY <2>4, <2>5, CallsStay
  <2> QED BY <1>0, <1>4, <2>6 DEF LookUp, MatchTypeInv
<1>5. ASSUME NEW r \in MatchRequests, CommitMatch(r) PROVE MatchTypeInv'
  <2> DEFINE c == calls[r]
             i == c.invoice
             now == verdict[i]
  <2>1. c \in MatchedCalls
    BY <1>5, CallShapes DEF CommitMatch
  <2>2. /\ c.rows \subseteq ExceptionRows /\ i \in Invoices /\ now \in Verdicts
        /\ c.was \in Verdicts /\ c.lenient \in BOOLEAN
        /\ c.override \in {"none", "two_way", "three_way"}
    BY <2>1 DEF MatchedCalls, MatchTypeInv
  <2>3. TypeAfter(c) \in {"two_way", "three_way"}
    BY <2>2 DEF TypeAfter, Verdicts
  <2> DEFINE v == [match |-> Column(now.match, c.was.match,
                                    IF c.rows # {} THEN "exception" ELSE "matched"),
                   type |-> Column(now.type, c.was.type, TypeAfter(c)),
                   lenient |-> Column(now.lenient, c.was.lenient, c.lenient)]
  <2>4. v \in Verdicts
    BY <2>2, <2>3, ColumnIsOneOf DEF Verdicts, Column
  <2>5. verdict' = [verdict EXCEPT ![i] = v]
    BY <1>5 DEF CommitMatch
  <2>6. found' \subseteq ExceptionRows
    BY <1>5, <2>2 DEF CommitMatch, MatchTypeInv
  <2> HIDE DEF v
  <2>7. verdict' \in [Invoices -> Verdicts]
    BY <2>4, <2>5 DEF MatchTypeInv
  <2>8. calls' \in [MatchRequests -> Calls]
    BY <1>5, CallsStay DEF CommitMatch, PlainCalls
  <2> QED BY <1>0, <1>5, <2>6, <2>7, <2>8 DEF CommitMatch, MatchTypeInv
<1>6. ASSUME NEW r \in MatchRequests, PostReceipt(r) \/ Break(r) PROVE MatchTypeInv'
  <2>1. calls' \in [MatchRequests -> Calls]
    BY <1>6, CallsStay DEF PostReceipt, Break, PlainCalls
  <2> QED BY <1>0, <1>6, <2>1 DEF PostReceipt, Break, MatchTypeInv
<1>7. ASSUME NEW r \in MatchRequests, ReadSums(r) PROVE MatchTypeInv'
  <2> DEFINE call == [stage |-> "summed", had |-> grir, sums |-> [l \in OrderLines |-> Sums(l)]]
  <2>1. call \in SummedCalls
    BY SumsAreInt DEF SummedCalls, MatchTypeInv
  <2>2. Step(r, call)
    BY <1>7 DEF ReadSums
  <2> HIDE DEF call
  <2>3. calls' \in [MatchRequests -> Calls]
    BY <2>1, <2>2, CallsStay
  <2>4. crossed' \in BOOLEAN
    BY <1>7 DEF ReadSums, MatchTypeInv
  <2> QED BY <1>0, <1>7, <2>3, <2>4 DEF ReadSums, MatchTypeInv
<1>8. ASSUME NEW r \in MatchRequests, WriteSums(r) PROVE MatchTypeInv'
  <2>1. calls' \in [MatchRequests -> Calls]
    BY <1>8, CallsStay DEF WriteSums, PlainCalls
  <2>2. grir' \subseteq GrirRows
    BY <1>8, WrittenRecords DEF WriteSums
  <2> QED BY <1>0, <1>8, <2>1, <2>2 DEF WriteSums, MatchTypeInv
<1>9. ASSUME NEW x \in found, SettleRow(x) PROVE MatchTypeInv'
  <2>1. x \in ExceptionRows
    BY DEF MatchTypeInv
  <2>2. found' \subseteq ExceptionRows
    BY <1>9, <2>1 DEF SettleRow, MatchTypeInv, ExceptionRows
  <2>3. verdict' \in [Invoices -> Verdicts]
    <3> DEFINE m == IF \E y \in found' : y.invoice = x.invoice /\ ~y.settled
                    THEN "exception" ELSE "matched"
    <3>1. x.invoice \in Invoices /\ verdict[x.invoice] \in Verdicts
      BY <2>1 DEF ExceptionRows, MatchTypeInv
    <3>2. verdict' = [verdict EXCEPT ![x.invoice].match = m] /\ m \in {"exception", "matched"}
      BY <1>9 DEF SettleRow
    <3> HIDE DEF m
    <3>3. [verdict[x.invoice] EXCEPT !.match = m] \in Verdicts
      BY <3>1, <3>2 DEF Verdicts
    <3> QED BY <3>1, <3>2, <3>3 DEF MatchTypeInv
  <2> QED BY <1>0, <1>9, <2>2, <2>3 DEF SettleRow, MatchTypeInv
<1>10. ASSUME NEW l \in OrderLines, NEW some \in 1..MaxReceived, NEW bad \in 0..MaxReceived,
              Receive(l, some, bad)
       PROVE  MatchTypeInv'
  BY <1>10, ReceiveGrows DEF Receive, MatchTypeInv
<1>11. CASE Shut
  BY <1>0, <1>11 DEF Shut, MatchTypeInv
<1> QED
  BY <1>1, <1>2, <1>3, <1>4, <1>5, <1>6, <1>7, <1>8, <1>9, <1>10, <1>11 DEF MatchingNext

-----------------------------------------------------------------------------
(* What one step does to the rows and the match status of an invoice *)
LEMMA BilledStays ==
  ASSUME MatchTypeInv, MatchingNext, NEW i \in Invoices, Billed(i)
  PROVE  Billed(i)' /\ bills'[i] = bills[i]
<1>1. ASSUME NEW r \in MatchRequests, NEW j \in Invoices, NEW b \in Bills, CreateInvoice(r, j, b)
      PROVE  bills'[i] = bills[i]
  BY <1>1 DEF CreateInvoice, MatchTypeInv
<1>2. bills'[i] = bills[i]
  BY <1>1 DEF MatchingNext, MatchAgain, LookUp, CommitMatch, PostReceipt, ReadSums, WriteSums,
     Break, SettleRow, Receive, Shut
<1> QED BY <1>2 DEF Billed

LEMMA SettledRow ==
  ASSUME MatchTypeInv, NEW x \in found, SettleRow(x)
  PROVE  /\ x \in ExceptionRows
         /\ \A i \in Invoices : RowsOf(i)' = {} => RowsOf(i) = {}
         /\ \A i \in Invoices :
              \A l, k : (\E y \in RowsOf(i) : y.line = l /\ y.kind = k) =>
                        (\E y \in RowsOf(i)' : y.line = l /\ y.kind = k)
         /\ \A i \in Invoices : i # x.invoice => verdict'[i] = verdict[i] /\ RowsOf(i)' = RowsOf(i)
         /\ verdict'[x.invoice].type = verdict[x.invoice].type
         /\ RowsOf(x.invoice)' # {} /\ calls' = calls /\ bills' = bills
<1> DEFINE z == [x EXCEPT !.settled = TRUE]
<1>1. x \in ExceptionRows /\ found \subseteq ExceptionRows
  BY DEF MatchTypeInv
<1>2. z.invoice = x.invoice /\ z.line = x.line /\ z.kind = x.kind
  BY <1>1 DEF ExceptionRows
<1>3. found' = (found \ {x}) \cup {z}
  BY DEF SettleRow
<1> HIDE DEF z
<1>4. \A i : RowsOf(i)' = {y \in (found \ {x}) \cup {z} : y.invoice = i}
  BY <1>3 DEF RowsOf
<1>5. \A i \in Invoices :
              \A l, k : (\E y \in RowsOf(i) : y.line = l /\ y.kind = k) =>
                        (\E y \in RowsOf(i)' : y.line = l /\ y.kind = k)
  BY <1>2, <1>4 DEF RowsOf
<1>6. \A i \in Invoices : RowsOf(i)' = {} => RowsOf(i) = {}
  BY <1>2, <1>4 DEF RowsOf
<1>7. \A i \in Invoices : i # x.invoice => RowsOf(i)' = RowsOf(i)
  BY <1>2, <1>4 DEF RowsOf
<1>8. x.invoice \in Invoices /\ z \in RowsOf(x.invoice)'
  BY <1>1, <1>2, <1>4 DEF ExceptionRows
<1>9. /\ \A i \in Invoices : i # x.invoice => verdict'[i] = verdict[i]
      /\ verdict'[x.invoice].type = verdict[x.invoice].type
  BY <1>8 DEF SettleRow, MatchTypeInv, Verdicts
<1> QED BY <1>1, <1>5, <1>6, <1>7, <1>8, <1>9 DEF SettleRow

LEMMA CommittedMatch ==
  ASSUME MatchTypeInv, CallsAreOwn, NEW r \in MatchRequests, CommitMatch(r)
  PROVE  /\ calls[r] \in MatchedCalls
         /\ \A i \in Invoices :
              /\ i # calls[r].invoice => verdict'[i] = verdict[i] /\ RowsOf(i)' = RowsOf(i)
              /\ i = calls[r].invoice =>
                   /\ calls[r].rows \subseteq RowsOf(i)'
                   /\ verdict'[i].type = Column(verdict[i].type, calls[r].was.type, TypeAfter(calls[r]))
         /\ bills' = bills
         /\ \A o \in MatchRequests :
              calls'[o] = IF o = r THEN [stage |-> "reconcile"] ELSE calls[o]
<1> DEFINE c == calls[r]
<1>1. c \in MatchedCalls /\ \A x \in c.swept \cup c.rows : x.invoice = c.invoice
  BY CallShapes DEF CommitMatch, CallsAreOwn
<1>2. found' = (found \ c.swept) \cup c.rows
  BY DEF CommitMatch
<1>3. c.invoice \in Invoices
  BY <1>1 DEF MatchedCalls
<1>4. \A i \in Invoices : i # c.invoice => verdict'[i] = verdict[i] /\ RowsOf(i)' = RowsOf(i)
  BY <1>1, <1>2, <1>3 DEF CommitMatch, RowsOf, MatchTypeInv
<1>5. ASSUME NEW i \in Invoices, i = c.invoice PROVE c.rows \subseteq RowsOf(i)'
  BY <1>1, <1>2, <1>5 DEF RowsOf
<1>6. verdict'[c.invoice].type = Column(verdict[c.invoice].type, c.was.type, TypeAfter(c))
  BY <1>3 DEF CommitMatch, MatchTypeInv
<1>7. \A o \in MatchRequests : calls'[o] = IF o = r THEN [stage |-> "reconcile"] ELSE calls[o]
  BY StepOf DEF CommitMatch
<1>8. bills' = bills
  BY DEF CommitMatch
<1> HIDE DEF c
<1> QED BY <1>1, <1>4, <1>5, <1>6, <1>7, <1>8 DEF c

LEMMA OwnNext ==
  ASSUME MatchTypeInv, CallsAreOwn, UnbilledIsPending, [MatchingNext]_matchVars
  PROVE  CallsAreOwn' /\ UnbilledIsPending'
<1> USE DEF CallsAreOwn, UnbilledIsPending
<1>1. CASE UNCHANGED matchVars
  BY <1>1 DEF matchVars, At, Billed, RowsOf
<1>2. ASSUME NEW r \in MatchRequests, NEW i \in Invoices, NEW b \in Bills, CreateInvoice(r, i, b)
      PROVE  CallsAreOwn' /\ UnbilledIsPending'
  <2>1. \A o \in MatchRequests : calls'[o] = IF o = r THEN Loaded(i, "none", FALSE) ELSE calls[o]
    BY <1>2, StepOf DEF CreateInvoice
  <2>2. \A j \in Invoices : Billed(j)' <=> (j = i \/ Billed(j))
    BY <1>2, LinesAssumption DEF CreateInvoice, Billed, MatchTypeInv
  <2>3. Loaded(i, "none", FALSE).stage = "loaded" /\ Loaded(i, "none", FALSE).invoice = i
    BY DEF Loaded
  <2>4. \A o \in MatchRequests : calls[o].stage \in {"loaded", "matched"} => calls[o].invoice \in Invoices
    BY CallShapes DEF LoadedCalls, MatchedCalls, At
  <2>5. CallsAreOwn'
    BY <2>1, <2>2, <2>3, <2>4 DEF At
  <2>6. UnbilledIsPending'
    BY <1>2, <2>2 DEF CreateInvoice, RowsOf
  <2> QED BY <2>5, <2>6
<1>3. ASSUME NEW r \in MatchRequests, NEW i \in Invoices,
             NEW override \in {"two_way", "three_way"}, NEW lenient \in BOOLEAN,
             MatchAgain(r, i, override, lenient)
      PROVE  CallsAreOwn' /\ UnbilledIsPending'
  <2>1. \A o \in MatchRequests :
          calls'[o] = IF o = r THEN Loaded(i, override, lenient) ELSE calls[o]
    BY <1>3, StepOf DEF MatchAgain
  <2>2. Loaded(i, override, lenient).stage = "loaded" /\ Loaded(i, override, lenient).invoice = i
    BY DEF Loaded
  <2> QED BY <1>3, <2>1, <2>2 DEF MatchAgain, At, RowsOf, Billed
<1>4. ASSUME NEW r \in MatchRequests, LookUp(r) PROVE CallsAreOwn' /\ UnbilledIsPending'
  <2> DEFINE c == calls[r]
             call == [stage |-> "matched", invoice |-> c.invoice, override |-> c.override,
                      lenient |-> c.lenient, was |-> c.was, swept |-> RowsOf(c.invoice),
                      rows |-> Exceptions(c.invoice, r, c.override, c.lenient)]
  <2>1. c \in LoadedCalls
    BY <1>4, CallShapes DEF LookUp
  <2>2. c.invoice \in Invoices /\ Billed(c.invoice)
    BY <2>1 DEF LoadedCalls
  <2>3. /\ call.stage = "matched" /\ call.invoice = c.invoice
        /\ \A x \in call.swept \cup call.rows : x.invoice = c.invoice
    BY <2>2, ExceptionsAreRows DEF RowsOf
  <2>4. Step(r, call)
    BY <1>4 DEF LookUp
  <2> HIDE DEF call
  <2>5. \A o \in MatchRequests : calls'[o] = IF o = r THEN call ELSE calls[o]
    BY <2>4, StepOf
  <2> QED BY <1>4, <2>2, <2>3, <2>5 DEF LookUp, At, RowsOf, Billed
<1>5. ASSUME NEW r \in MatchRequests, CommitMatch(r) PROVE CallsAreOwn' /\ UnbilledIsPending'
  <2>1. Billed(calls[r].invoice)
    BY <1>5 DEF CommitMatch, At
  <2> QED BY <1>5, <2>1, CommittedMatch DEF At, Billed
<1>6. ASSUME NEW r \in MatchRequests, PostReceipt(r) \/ Break(r) \/ ReadSums(r) \/ WriteSums(r)
      PROVE  CallsAreOwn' /\ UnbilledIsPending'
  <2>1. PICK call : call.stage \in {"reconcile", "done", "summed"} /\ Step(r, call)
    BY <1>6 DEF PostReceipt, Break, ReadSums, WriteSums
  <2>2. \A o \in MatchRequests : calls'[o] = IF o = r THEN call ELSE calls[o]
    BY <2>1, StepOf
  <2>3. UNCHANGED <<verdict, found, bills>>
    BY <1>6 DEF PostReceipt, Break, ReadSums, WriteSums
  <2> QED BY <2>1, <2>2, <2>3 DEF At, RowsOf, Billed
<1>7. ASSUME NEW x \in found, SettleRow(x) PROVE CallsAreOwn' /\ UnbilledIsPending'
  <2>1. Billed(x.invoice)
    BY <1>7, SettledRow DEF RowsOf, ExceptionRows
  <2> QED BY <1>7, <2>1, SettledRow DEF At, Billed
<1>8. ASSUME NEW l \in OrderLines, NEW some \in 1..MaxReceived, NEW bad \in 0..MaxReceived,
             Receive(l, some, bad)
      PROVE  CallsAreOwn' /\ UnbilledIsPending'
  BY <1>8 DEF Receive, At, RowsOf, Billed
<1>9. CASE Shut
  BY <1>9 DEF Shut, At, RowsOf, Billed
<1> QED BY <1>1, <1>2, <1>3, <1>4, <1>5, <1>6, <1>7, <1>8, <1>9 DEF MatchingNext

LEMMA TwinsNext ==
  ASSUME MatchTypeInv, CallsAreOwn, UnbilledIsPending, TwinsInv, [MatchingNext]_matchVars
  PROVE  TwinsInv'
<1>1. CASE UNCHANGED matchVars
  BY <1>1 DEF matchVars, TwinsInv, SeesTwin, At, Billed, RowsOf
<1> SUFFICES ASSUME MatchingNext, NEW i \in Invoices, NEW j \in Invoices, i # j,
                    Billed(i)', Billed(j)', bills'[i].amount = bills'[j].amount
             PROVE  SeesTwin(i)' \/ SeesTwin(j)'
  BY <1>1 DEF TwinsInv
<1>2. CASE ~Billed(i) \/ ~Billed(j)
  <2>1. PICK k \in {i, j} : ~Billed(k)
    BY <1>2
  <2>2. PICK r \in MatchRequests, b \in Bills : CreateInvoice(r, k, b)
    <3>1. ASSUME NEW r \in MatchRequests, NEW n \in Invoices, NEW b \in Bills,
                 CreateInvoice(r, n, b), n # k
          PROVE  FALSE
      BY <2>1, <3>1 DEF CreateInvoice, MatchTypeInv, Billed
    <3>2. bills' # bills
      BY <2>1 DEF Billed
    <3> QED BY <3>1, <3>2 DEF MatchingNext, MatchAgain, LookUp, CommitMatch, PostReceipt, ReadSums,
              WriteSums, Break, SettleRow, Receive, Shut
  <2>3. \A o \in MatchRequests : calls'[o] = IF o = r THEN Loaded(k, "none", FALSE) ELSE calls[o]
    BY <2>2, StepOf DEF CreateInvoice
  <2>4. SeesTwin(k)'
    BY <2>1, <2>2, <2>3 DEF CreateInvoice, SeesTwin, At, Loaded, UnbilledIsPending, CallsAreOwn
  <2> QED BY <2>1, <2>4
<1>3. CASE Billed(i) /\ Billed(j)
  <2>1. bills'[i] = bills[i] /\ bills'[j] = bills[j]
    BY <1>3, BilledStays
  <2>2. PICK k \in {i, j} : SeesTwin(k)
    BY <1>3, <2>1 DEF TwinsInv
  <2>3. k \in Invoices /\ Billed(k) /\ HasTwin(k)
    BY <1>3, <2>1 DEF HasTwin
  <2> SUFFICES SeesTwin(k)'
    BY <2>2
  <2>4. ASSUME NEW r \in MatchRequests, NEW call, call.stage # "matched", Step(r, call),
               UNCHANGED <<verdict, found>>
        PROVE  SeesTwin(k)'
    BY <2>2, <2>4, StepOf DEF SeesTwin, At, RowsOf
  <2>5. ASSUME NEW r \in MatchRequests, LookUp(r) PROVE SeesTwin(k)'
    <3> DEFINE c == calls[r]
               call == [stage |-> "matched", invoice |-> c.invoice, override |-> c.override,
                        lenient |-> c.lenient, was |-> c.was, swept |-> RowsOf(c.invoice),
                        rows |-> Exceptions(c.invoice, r, c.override, c.lenient)]
    <3>1. c.invoice \in Invoices /\ Step(r, call) /\ UNCHANGED <<verdict, found>>
      BY <2>5, CallShapes DEF LookUp, LoadedCalls
    <3>2. call.invoice = k => call.rows # {}
      BY <2>3, <3>1, ExceptionsAreRows
    <3> HIDE DEF call
    <3>3. \A o \in MatchRequests : calls'[o] = IF o = r THEN call ELSE calls[o]
      BY <3>1, StepOf
    <3> QED BY <2>2, <3>1, <3>2, <3>3 DEF SeesTwin, At, RowsOf
  <2>6. ASSUME NEW r \in MatchRequests, CommitMatch(r) PROVE SeesTwin(k)'
    BY <2>2, <2>3, <2>6, CommittedMatch DEF SeesTwin, At, CommitMatch
  <2>7. ASSUME NEW x \in found, SettleRow(x) PROVE SeesTwin(k)'
    BY <2>2, <2>3, <2>7, SettledRow DEF SeesTwin, At
  <2>8. ASSUME UNCHANGED <<calls, verdict, found>> PROVE SeesTwin(k)'
    BY <2>2, <2>8 DEF SeesTwin, At, RowsOf
  <2> QED
    BY <2>4, <2>5, <2>6, <2>7, <2>8
       DEF MatchingNext, CreateInvoice, MatchAgain, Loaded, PostReceipt, ReadSums, WriteSums, Break,
           Receive, Shut
<1> QED BY <1>2, <1>3

-----------------------------------------------------------------------------
(* What is accepted and invoiced for a line never shrinks *)
LEMMA SumsGrow ==
  ASSUME MatchTypeInv, MatchTypeInv', MatchingNext, NEW l \in OrderLines
  PROVE  /\ AcceptedOf(l) <= AcceptedOf(l)'
         /\ InvoicedOf(l) <= InvoicedOf(l)' /\ InvoicedOf(l)' \in Nat
<1>1. AcceptedOf(l) <= AcceptedOf(l)'
  <2>1. ASSUME NEW k \in OrderLines, NEW some \in 1..MaxReceived, NEW bad \in 0..MaxReceived,
               Receive(k, some, bad)
        PROVE  AcceptedOf(l) <= AcceptedOf(l)'
    BY <2>1, ReceiveGrows
  <2>2. ASSUME UNCHANGED <<received, refused>> PROVE AcceptedOf(l) <= AcceptedOf(l)'
    BY <2>2, SumsAreInt DEF AcceptedOf
  <2> QED BY <2>1, <2>2 DEF MatchingNext, CreateInvoice, MatchAgain, LookUp, CommitMatch, PostReceipt,
            ReadSums, WriteSums, Break, SettleRow, Shut
<1>2. InvoicedOf(l) <= InvoicedOf(l)' /\ InvoicedOf(l)' \in Nat
  <2> DEFINE S == {j \in Invoices : Billed(j)}
             f == [i \in S |-> bills[i].quantity[l]]
             T == {j \in Invoices : Billed(j)'}
             g == [i \in T |-> bills'[i].quantity[l]]
  <2>1. S \in SUBSET T /\ \A i \in S : bills'[i] = bills[i]
    BY BilledStays
  <2>2. IsFiniteSet(T)
    BY LinesAssumption, FS_Subset
  <2>3. \A i \in T : bills'[i].quantity \in [OrderLines -> Nat]
    BY BillsAssumption DEF MatchTypeInv, Billed
  <2>4. \A i \in S : f[i] \in Nat /\ f[i] <= g[i]
    BY <2>1, <2>3
  <2>5. \A i \in T : g[i] \in Nat
    BY <2>3
  <2>6. DOMAIN f = S /\ DOMAIN g = T
    OBVIOUS
  <2>7. InvoicedOf(l) = SumFunction(f) /\ InvoicedOf(l)' = SumFunction(g)
    BY DEF InvoicedOf
  <2> HIDE DEF f, g, S, T
  <2>8. SumFunctionOnSet(f, S) <= SumFunctionOnSet(g, T)
    BY <2>1, <2>2, <2>4, <2>5, SumGrows
  <2>9. SumFunctionOnSet(g, T) \in Nat
    BY <2>2, <2>5, SumIsNat
  <2> QED BY <2>6, <2>7, <2>8, <2>9 DEF SumFunction
<1> QED BY <1>1, <1>2

(* What exceeded the receipts may not do so any more; the rest is as it was *)
LEMMA ExceedsLess ==
  ASSUME MatchTypeInv, MatchTypeInv', MatchingNext, NEW i \in Invoices, Billed(i)
  PROVE  /\ BilledLines(i)' = BilledLines(i)
         /\ \A l \in OrderLines : ExceedsReceipt(i, l)' => ExceedsReceipt(i, l)
<1>1. bills'[i] = bills[i] /\ bills[i].quantity \in [OrderLines -> Nat]
  BY BilledStays, BillFacts
<1>2. \A l \in OrderLines : /\ AcceptedOf(l) <= AcceptedOf(l)'
                            /\ AcceptedOf(l) \in Int /\ AcceptedOf(l)' \in Int
  BY SumsGrow, SumsAreInt DEF MatchTypeInv, AcceptedOf
<1> QED BY <1>1, <1>2 DEF BilledLines, ExceedsReceipt

LEMMA ThreeWayNext ==
  ASSUME MatchTypeInv, MatchTypeInv', CallsAreOwn, UnbilledIsPending, ThreeWayInv,
         [MatchingNext]_matchVars
  PROVE  ThreeWayInv'
<1>1. CASE UNCHANGED matchVars
  BY <1>1 DEF matchVars, ThreeWayInv, MatchesSay, VerdictSays, At, Billed, RowsOf, BilledLines,
     ExceedsReceipt, AcceptedOf, Matching, TypeAfter
<1> SUFFICES ASSUME MatchingNext, NEW i \in Invoices, Billed(i)'
             PROVE  MatchesSay(i)' /\ (i \notin doubled' => VerdictSays(i)')
  BY <1>1 DEF ThreeWayInv
<1>2. CASE ~Billed(i)
  <2>1. PICK r \in MatchRequests, b \in Bills : CreateInvoice(r, i, b)
    <3>1. ASSUME NEW r \in MatchRequests, NEW n \in Invoices, NEW b \in Bills,
                 CreateInvoice(r, n, b), n # i
          PROVE  FALSE
      BY <1>2, <3>1 DEF CreateInvoice, MatchTypeInv, Billed
    <3>2. bills' # bills
      BY <1>2 DEF Billed
    <3> QED BY <3>1, <3>2 DEF MatchingNext, MatchAgain, LookUp, CommitMatch, PostReceipt, ReadSums,
              WriteSums, Break, SettleRow, Receive, Shut
  <2>2. \A o \in MatchRequests : calls'[o] = IF o = r THEN Loaded(i, "none", FALSE) ELSE calls[o]
    BY <2>1, StepOf DEF CreateInvoice
  <2>3. /\ calls'[r].stage = "loaded" /\ calls'[r].was = verdict'[i] /\ verdict' = verdict
        /\ verdict[i].type = "two_way"
    BY <1>2, <2>1, <2>2 DEF Loaded, CreateInvoice, UnbilledIsPending
  <2>4. Matching(i)' = {r} /\ \A o \in MatchRequests : At(o, "matched")' => calls'[o].invoice # i
    BY <1>2, <2>2, <2>3 DEF Matching, CallsAreOwn, At, Loaded
  <2> QED BY <2>3, <2>4 DEF MatchesSay, VerdictSays
<1>3. CASE Billed(i)
  <2>1. /\ BilledLines(i)' = BilledLines(i) /\ BilledLines(i) \subseteq OrderLines
        /\ \A l \in OrderLines : ExceedsReceipt(i, l)' => ExceedsReceipt(i, l)
    BY <1>3, ExceedsLess DEF BilledLines
  <2>2. MatchesSay(i) /\ (i \notin doubled => VerdictSays(i))
    BY <1>3 DEF ThreeWayInv
  <2>3. \A o \in MatchRequests : At(o, "matched") => calls[o].invoice \in Invoices
    BY CallShapes DEF MatchedCalls
  <2>4. ASSUME NEW o \in MatchRequests, calls'[o] = calls[o], At(o, "matched"),
               BilledLines(calls[o].invoice)' = BilledLines(calls[o].invoice)
        PROVE  TypeAfter(calls[o])' = TypeAfter(calls[o])
    BY <2>4 DEF TypeAfter
  <2>5. \A o \in MatchRequests : calls'[o] = calls[o] /\ At(o, "matched") /\ calls[o].invoice = i =>
          TypeAfter(calls[o])' = TypeAfter(calls[o])
    BY <2>1 DEF TypeAfter
  <2>6. ASSUME NEW r \in MatchRequests, NEW call, Step(r, call),
               call.stage \notin {"loaded", "matched"}, UNCHANGED <<verdict, found, doubled>>
        PROVE  MatchesSay(i)' /\ (i \notin doubled' => VerdictSays(i)')
    <3>1. \A o \in MatchRequests : calls'[o] = IF o = r THEN call ELSE calls[o]
      BY <2>6, StepOf
    <3>2. MatchesSay(i)'
      BY <2>1, <2>2, <2>5, <2>6, <3>1 DEF MatchesSay, At
    <3>3. Matching(i)' \subseteq Matching(i) /\ \A o \in Matching(i)' : calls'[o] = calls[o]
      BY <2>6, <3>1 DEF Matching
    <3>4. RowsOf(i)' = RowsOf(i)
      BY <2>6 DEF RowsOf
    <3> QED BY <2>1, <2>2, <2>6, <3>2, <3>3, <3>4 DEF VerdictSays
  <2>7. ASSUME NEW r \in MatchRequests, NEW j \in Invoices, NEW b \in Bills, CreateInvoice(r, j, b)
        PROVE  MatchesSay(i)' /\ (i \notin doubled' => VerdictSays(i)')
    <3>1. \A o \in MatchRequests : calls'[o] = IF o = r THEN Loaded(j, "none", FALSE) ELSE calls[o]
      BY <2>7, StepOf DEF CreateInvoice
    <3>2. calls'[r].stage = "loaded" /\ calls'[r].invoice # i
      BY <1>3, <2>7, <3>1 DEF Loaded, CreateInvoice
    <3>3. MatchesSay(i)'
      BY <2>1, <2>2, <2>5, <3>1, <3>2 DEF MatchesSay, At
    <3>4. Matching(i)' \subseteq Matching(i) /\ \A o \in Matching(i)' : calls'[o] = calls[o]
      BY <3>1, <3>2 DEF Matching
    <3>5. RowsOf(i)' = RowsOf(i) /\ UNCHANGED <<verdict, doubled>>
      BY <2>7 DEF RowsOf, CreateInvoice
    <3> QED BY <2>1, <2>2, <3>3, <3>4, <3>5 DEF VerdictSays
  <2>8. ASSUME NEW r \in MatchRequests, NEW j \in Invoices,
               NEW override \in {"two_way", "three_way"}, NEW lenient \in BOOLEAN,
               MatchAgain(r, j, override, lenient)
        PROVE  MatchesSay(i)' /\ (i \notin doubled' => VerdictSays(i)')
    <3>1. \A o \in MatchRequests :
            calls'[o] = IF o = r THEN Loaded(j, override, lenient) ELSE calls[o]
      BY <2>8, StepOf DEF MatchAgain
    <3>2. /\ calls'[r].stage = "loaded" /\ calls'[r].invoice = j /\ calls'[r].was = verdict'[j]
          /\ verdict' = verdict /\ At(r, "unused")
      BY <2>8, <3>1 DEF Loaded, MatchAgain
    <3>3. MatchesSay(i)'
      BY <2>1, <2>2, <2>5, <3>1, <3>2 DEF MatchesSay, At
    <3>4. RowsOf(i)' = RowsOf(i)
      BY <2>8 DEF RowsOf, MatchAgain
    <3>5. CASE i # j
      <4>1. Matching(i)' \subseteq Matching(i) /\ \A o \in Matching(i)' : calls'[o] = calls[o]
        BY <3>1, <3>2, <3>5 DEF Matching
      <4>2. i \notin doubled' => i \notin doubled
        BY <2>8, <3>5 DEF MatchAgain
      <4> QED BY <2>1, <2>2, <3>2, <3>3, <3>4, <4>1, <4>2 DEF VerdictSays
    <3>6. CASE i = j
      <4>1. i \notin doubled' => Matching(i) = {} /\ i \notin doubled
        BY <2>8, <3>6 DEF MatchAgain
      <4>2. Matching(i)' \subseteq Matching(i) \cup {r}
        BY <3>1 DEF Matching
      <4>3. i \notin doubled' => Matching(i)' \subseteq {r}
        BY <4>1, <4>2
      <4> QED BY <2>1, <2>2, <3>2, <3>3, <3>4, <3>6, <4>1, <4>3 DEF VerdictSays
    <3> QED BY <3>5, <3>6
  <2>9. ASSUME NEW r \in MatchRequests, LookUp(r)
        PROVE  MatchesSay(i)' /\ (i \notin doubled' => VerdictSays(i)')
    <3>0. PICK c, call :
            /\ c = calls[r]
            /\ call = [stage |-> "matched", invoice |-> c.invoice, override |-> c.override,
                       lenient |-> c.lenient, was |-> c.was, swept |-> RowsOf(c.invoice),
                       rows |-> Exceptions(c.invoice, r, c.override, c.lenient)]
      OBVIOUS
    <3>1. /\ c \in LoadedCalls /\ Step(r, call)
          /\ UNCHANGED <<received, refused, bills, verdict, found, doubled>>
      BY <2>9, <3>0, CallShapes DEF LookUp
    <3>2. /\ call.stage = "matched" /\ call.invoice = c.invoice /\ call.was = c.was
          /\ call.override = c.override
          /\ call.rows = Exceptions(c.invoice, r, c.override, c.lenient)
      BY <3>0
    <3>3. \A o \in MatchRequests : calls'[o] = IF o = r THEN call ELSE calls[o]
      BY <3>1, StepOf
    <3>4. Matching(i)' = Matching(i) /\ \A o \in Matching(i) : calls'[o].was = calls[o].was
      BY <2>9, <3>0, <3>2, <3>3 DEF Matching, LookUp, At
    <3>5. RowsOf(i)' = RowsOf(i)
      BY <3>1 DEF RowsOf
    <3>6. i \notin doubled' => VerdictSays(i)'
      BY <2>1, <2>2, <3>1, <3>4, <3>5 DEF VerdictSays
    <3>7. ASSUME call.invoice = i, TypeAfter(call)' = "three_way",
                 NEW l \in BilledLines(i) \cap ReceiptLines, ExceedsReceipt(i, l)
          PROVE  SayTooMany(call.rows, l)
      <4>1. c.override \in {"none", "three_way"}
        BY <3>1, <3>2, <3>7 DEF TypeAfter, LoadedCalls
      <4>2. MatchesReceipt(l, c.override)
        BY <4>1, <3>7 DEF MatchesReceipt
      <4>3. c.invoice = i
        BY <3>2, <3>7
      <4> QED BY <3>2, <3>7, <4>2, <4>3, ExceptionsAreRows DEF SayTooMany
    <3>8. ASSUME NEW o \in MatchRequests, At(o, "matched")', calls'[o].invoice = i,
                 TypeAfter(calls[o])' = "three_way", NEW l \in BilledLines(i)' \cap ReceiptLines,
                 ExceedsReceipt(i, l)'
          PROVE  SayTooMany(calls'[o].rows, l)
      <4>1. l \in BilledLines(i) \cap ReceiptLines /\ ExceedsReceipt(i, l)
        BY <2>1, <3>8
      <4>2. CASE o = r
        <5>1. calls'[o] = call
          BY <3>3, <4>2
        <5>2. TypeAfter(calls[o])' = TypeAfter(call)'
          BY <3>8, <5>1 DEF TypeAfter
        <5> QED BY <3>7, <3>8, <4>1, <5>1, <5>2
      <4>3. CASE o # r
        <5>1. calls'[o] = calls[o]
          BY <3>3, <4>3
        <5> QED BY <2>2, <2>5, <3>8, <4>1, <5>1 DEF MatchesSay, At
      <4> QED BY <4>2, <4>3
    <3> QED BY <3>6, <3>8 DEF MatchesSay
  <2>10. ASSUME NEW r \in MatchRequests, CommitMatch(r)
         PROVE  MatchesSay(i)' /\ (i \notin doubled' => VerdictSays(i)')
    <3> DEFINE c == calls[r]
    <3>1. /\ c \in MatchedCalls /\ At(r, "matched") /\ doubled' = doubled
          /\ \A o \in MatchRequests :
               calls'[o] = IF o = r THEN [stage |-> "reconcile"] ELSE calls[o]
      BY <2>10, CommittedMatch DEF CommitMatch
    <3>2. MatchesSay(i)'
      BY <2>1, <2>2, <2>5, <3>1 DEF MatchesSay, At
    <3>3. Matching(i)' = Matching(i) \ {r} /\ \A o \in Matching(i)' : calls'[o] = calls[o]
      BY <3>1 DEF Matching, At
    <3>4. CASE i # c.invoice
      <4>1. verdict'[i] = verdict[i] /\ RowsOf(i)' = RowsOf(i)
        BY <2>10, <3>4, CommittedMatch
      <4> QED BY <2>1, <2>2, <3>1, <3>2, <3>3, <4>1 DEF VerdictSays
    <3>5. CASE i = c.invoice /\ i \notin doubled
      <4>1. r \in Matching(i) /\ c.was.type = verdict[i].type /\ \A o \in Matching(i) : o = r
        BY <2>2, <3>1, <3>5 DEF Matching, VerdictSays, At
      <4>2. c.rows \subseteq RowsOf(i)' /\ verdict'[i].type = TypeAfter(c)
        BY <2>10, <3>5, <4>1, CommittedMatch DEF Column
      <4>3. verdict'[i].type = "three_way" =>
              \A l \in BilledLines(i) \cap ReceiptLines : ExceedsReceipt(i, l) => SayTooMany(c.rows, l)
        BY <2>2, <3>1, <3>5, <4>2 DEF MatchesSay
      <4>4. verdict'[i].type = "three_way" =>
              \A l \in BilledLines(i)' \cap ReceiptLines :
                ExceedsReceipt(i, l)' => SayTooMany(RowsOf(i)', l)
        BY <2>1, <4>2, <4>3 DEF SayTooMany
      <4>5. Matching(i)' = {}
        BY <3>3, <4>1
      <4> QED BY <3>2, <4>4, <4>5 DEF VerdictSays
    <3> QED BY <3>1, <3>2, <3>4, <3>5
  <2>11. ASSUME NEW x \in found, SettleRow(x)
         PROVE  MatchesSay(i)' /\ (i \notin doubled' => VerdictSays(i)')
    <3>1. /\ calls' = calls /\ doubled' = doubled /\ verdict'[i].type = verdict[i].type
          /\ \A l, k : (\E y \in RowsOf(i) : y.line = l /\ y.kind = k) =>
                       (\E y \in RowsOf(i)' : y.line = l /\ y.kind = k)
      BY <2>11, SettledRow DEF SettleRow
    <3>2. MatchesSay(i)'
      BY <2>1, <2>2, <2>5, <3>1 DEF MatchesSay, At
    <3>3. Matching(i)' = Matching(i)
      BY <3>1 DEF Matching
    <3> QED BY <2>1, <2>2, <3>1, <3>2, <3>3 DEF VerdictSays, SayTooMany
  <2>12. ASSUME UNCHANGED <<calls, verdict, found, doubled>>
         PROVE  MatchesSay(i)' /\ (i \notin doubled' => VerdictSays(i)')
    <3>1. MatchesSay(i)'
      BY <2>1, <2>2, <2>5, <2>12 DEF MatchesSay, At
    <3>2. Matching(i)' = Matching(i) /\ RowsOf(i)' = RowsOf(i)
      BY <2>12 DEF Matching, RowsOf
    <3> QED BY <2>1, <2>2, <2>12, <3>1, <3>2 DEF VerdictSays
  <2> QED
    BY <2>6, <2>7, <2>8, <2>9, <2>10, <2>11, <2>12
       DEF MatchingNext, PostReceipt, ReadSums, WriteSums, Break, Receive, Shut
<1> QED BY <1>2, <1>3

(* Sums that were true stay so *)
LEMMA StaysTrue ==
  ASSUME MatchTypeInv, MatchTypeInv', MatchingNext, NEW l \in OrderLines,
         NEW in \in Int, NEW billed \in Int, in <= AcceptedOf(l), billed <= InvoicedOf(l)
  PROVE  in <= AcceptedOf(l)' /\ billed <= InvoicedOf(l)'
<1>1. AcceptedOf(l) \in Int /\ InvoicedOf(l) \in Int
  BY SumsAreInt
<1>2. AcceptedOf(l)' \in Int /\ InvoicedOf(l)' \in Int
  BY SumsGrow DEF MatchTypeInv, AcceptedOf
<1> QED BY <1>1, <1>2, SumsGrow

LEMMA LedgerNext ==
  ASSUME MatchTypeInv, MatchTypeInv', LedgerInv, [MatchingNext]_matchVars
  PROVE  LedgerInv'
<1>1. CASE UNCHANGED matchVars
  <2>1. \A l : AcceptedOf(l)' = AcceptedOf(l) /\ InvoicedOf(l)' = InvoicedOf(l)
    BY <1>1 DEF matchVars, AcceptedOf, InvoicedOf, Billed
  <2> QED BY <1>1, <2>1 DEF matchVars, LedgerInv, At
<1> SUFFICES ASSUME MatchingNext PROVE LedgerInv'
  BY <1>1
<1>2. /\ grir \subseteq GrirRows
      /\ \A x \in grir : x.line \in OrderLines /\ x.received \in Int /\ x.invoiced \in Int
      /\ \A r \in MatchRequests : At(r, "summed") =>
           /\ calls[r].had \subseteq GrirRows
           /\ \A l \in OrderLines : /\ calls[r].sums[l].received \in Int
                                    /\ calls[r].sums[l].invoiced \in Int
  BY CallShapes DEF MatchTypeInv, GrirRows, SummedCalls, LineSums
<1>3. \A x \in grir : x.received <= AcceptedOf(x.line)' /\ x.invoiced <= InvoicedOf(x.line)'
  BY <1>2, StaysTrue DEF LedgerInv
<1>4. \A r \in MatchRequests : At(r, "summed") =>
        \A l \in OrderLines : /\ calls[r].sums[l].received <= AcceptedOf(l)'
                              /\ calls[r].sums[l].invoiced <= InvoicedOf(l)'
  BY <1>2, StaysTrue DEF LedgerInv
<1>5. ASSUME NEW r \in MatchRequests, NEW call, Step(r, call), call.stage # "summed",
             UNCHANGED <<grir, crossed>>
      PROVE  LedgerInv'
  <2>1. \A o \in MatchRequests : calls'[o] = IF o = r THEN call ELSE calls[o]
    BY <1>5, StepOf
  <2>2. \A o \in MatchRequests : At(o, "summed")' => At(o, "summed") /\ calls'[o] = calls[o]
    BY <1>5, <2>1 DEF At
  <2> QED BY <1>3, <1>4, <1>5, <2>2 DEF LedgerInv
<1>6. ASSUME UNCHANGED <<calls, grir, crossed>> PROVE LedgerInv'
  BY <1>3, <1>4, <1>6 DEF LedgerInv, At
<1>7. ASSUME NEW r \in MatchRequests, ReadSums(r) PROVE LedgerInv'
  <2>0. PICK call : call = [stage |-> "summed", had |-> grir, sums |-> [l \in OrderLines |-> Sums(l)]]
    OBVIOUS
  <2>1. /\ call.stage = "summed" /\ call.had = grir /\ Step(r, call)
        /\ \A l \in OrderLines : /\ call.sums[l].received = AcceptedOf(l)
                                 /\ call.sums[l].invoiced = InvoicedOf(l)
    BY <1>7, <2>0 DEF ReadSums, Sums
  <2>2. \A o \in MatchRequests : calls'[o] = IF o = r THEN call ELSE calls[o]
    BY <2>1, StepOf
  <2>3. /\ UNCHANGED <<received, refused, bills, grir>> /\ At(r, "reconcile")
        /\ crossed' = (crossed \/ \E o \in MatchRequests : At(o, "summed"))
        /\ \A l \in OrderLines : Cardinality(RecordsOf(l, grir)) <= 1
    BY <1>7 DEF ReadSums
  <2>4. \A l \in OrderLines : /\ AcceptedOf(l) \in Int /\ InvoicedOf(l) \in Int
                              /\ AcceptedOf(l) = AcceptedOf(l)' /\ InvoicedOf(l) = InvoicedOf(l)'
    BY <2>3, SumsAreInt DEF AcceptedOf, InvoicedOf, Billed
  <2>5. \A o \in MatchRequests : At(o, "summed")' =>
          \A l \in OrderLines : /\ calls'[o].sums[l].received <= AcceptedOf(l)'
                                /\ calls'[o].sums[l].invoiced <= InvoicedOf(l)'
    BY <1>4, <2>1, <2>2, <2>4 DEF At
  <2>6. ~crossed' => ~crossed /\ \A o \in MatchRequests : At(o, "summed")' => o = r
    BY <2>2, <2>3 DEF At
  <2> QED BY <1>3, <2>1, <2>2, <2>3, <2>5, <2>6 DEF LedgerInv
<1>8. ASSUME NEW r \in MatchRequests, WriteSums(r) PROVE LedgerInv'
  <2>1. /\ At(r, "summed") /\ grir' = WriteOver(calls[r], r) /\ UNCHANGED <<crossed>>
        /\ \A o \in MatchRequests : calls'[o] = IF o = r THEN [stage |-> "done"] ELSE calls[o]
    BY <1>8, StepOf DEF WriteSums
  <2>2. \A o \in MatchRequests : At(o, "summed")' => o # r /\ At(o, "summed") /\ calls'[o] = calls[o]
    BY <2>1 DEF At
  <2>3. ASSUME NEW x \in grir'
        PROVE  x.received <= AcceptedOf(x.line)' /\ x.invoiced <= InvoicedOf(x.line)'
    <3>1. x \in WriteOver(calls[r], r) /\ x.line \in OrderLines
      BY <2>1, WrittenRecords DEF GrirRows
    <3>2. /\ calls[r].sums[x.line].received <= AcceptedOf(x.line)'
          /\ calls[r].sums[x.line].invoiced <= InvoicedOf(x.line)'
      BY <1>4, <2>1, <3>1
    <3> QED BY <1>3, <2>1, <3>1, <3>2, WrittenRecords
  <2>4. ASSUME ~crossed', NEW x \in grir', NEW y \in grir', x.line = y.line
        PROVE  x = y
    <3>0. PICK c : c = calls[r]
      OBVIOUS
    <3>1. /\ c.had = grir /\ x \in WriteOver(c, r) /\ y \in WriteOver(c, r)
          /\ \A v, w \in grir : v.line = w.line => v = w
      BY <2>1, <2>4, <3>0 DEF LedgerInv
    <3> DEFINE New(l) == [line |-> l, by |-> r, received |-> c.sums[l].received,
                          invoiced |-> c.sums[l].invoiced, status |-> c.sums[l].status]
               Old(w) == LET was == CHOOSE z \in RecordsOf(w.line, c.had) : TRUE
                             new == c.sums[w.line]
                         IN [w EXCEPT !.received = Column(@, was.received, new.received),
                                      !.invoiced = Column(@, was.invoiced, new.invoiced),
                                      !.status = Column(@, was.status, new.status)]
    <3>2. \A w \in grir : RecordsOf(w.line, c.had) # {}
      BY <3>1 DEF RecordsOf
    <3>3. \A z \in WriteOver(c, r) :
            \/ \E w \in grir : z = Old(w)
            \/ \E l \in OrderLines : RecordsOf(l, c.had) = {} /\ z = New(l)
      BY <3>2 DEF WriteOver
    <3>4. \A w \in grir : Old(w).line = w.line
      BY <1>2 DEF GrirRows
    <3>5. \A l : New(l).line = l
      OBVIOUS
    <3> HIDE DEF New, Old
    <3>6. CASE \E w \in grir : x = Old(w)
      BY <2>4, <3>1, <3>2, <3>3, <3>4, <3>5, <3>6
    <3>7. CASE \E l \in OrderLines : RecordsOf(l, c.had) = {} /\ x = New(l)
      BY <2>4, <3>1, <3>2, <3>3, <3>4, <3>5, <3>7
    <3> QED BY <3>1, <3>3, <3>6, <3>7
  <2>5. ~crossed' => \A o \in MatchRequests : ~At(o, "summed")'
    BY <2>1, <2>2 DEF LedgerInv
  <2> QED BY <1>4, <2>2, <2>3, <2>4, <2>5 DEF LedgerInv
<1> QED
  BY <1>5, <1>6, <1>7, <1>8
     DEF MatchingNext, CreateInvoice, MatchAgain, Loaded, LookUp, CommitMatch, PostReceipt, Break,
         SettleRow, Receive, Shut

LEMMA MatchInvariant == MatchingSpec => []MatchInv
<1>1. MatchingInit => MatchInv
  <2> SUFFICES ASSUME MatchingInit PROVE MatchInv
    OBVIOUS
  <2>1. MatchTypeInv
    BY MatchTypeInit
  <2>2. \A r \in MatchRequests : calls[r].stage = "unused"
    BY DEF MatchingInit
  <2>3. \A i \in Invoices : ~Billed(i)
    BY DEF MatchingInit, Billed
  <2>4. CallsAreOwn /\ UnbilledIsPending
    BY <2>2 DEF MatchingInit, CallsAreOwn, UnbilledIsPending, At, RowsOf
  <2>5. TwinsInv /\ ThreeWayInv
    BY <2>3 DEF TwinsInv, ThreeWayInv
  <2>6. LedgerInv
    BY <2>2 DEF MatchingInit, LedgerInv, At
  <2> QED BY <2>1, <2>4, <2>5, <2>6 DEF MatchInv
<1>2. MatchInv /\ [MatchingNext]_matchVars => MatchInv'
  BY MatchTypeNext, OwnNext, TwinsNext, ThreeWayNext, LedgerNext DEF MatchInv
<1> QED BY <1>1, <1>2, PTL DEF MatchingSpec

-----------------------------------------------------------------------------
(* Every variable of the match stays in its domain: also what is received, whose *)
(* bound is one on the sum over the lines.                                       *)
THEOREM MatchingTypeCorrect == MatchingSpec => []MatchingTypeOK
<1>1. MatchInv => MatchingTypeOK
  BY DEF MatchInv, MatchTypeInv, MatchingTypeOK, Verdicts, ExceptionRows, GrirRows
<1> QED BY <1>1, MatchInvariant, PTL

(* Of two invoices over one amount that were both matched, one shows it, however *)
(* the requests that made and matched them ran into each other.                  *)
THEOREM TwinsSeen == MatchingSpec => []TwinsAreSeen
<1>1. MatchInv => TwinsAreSeen
  <2> SUFFICES ASSUME MatchInv, NEW i \in Invoices, NEW j \in Invoices, i # j, Billed(i), Billed(j),
                      bills[i].amount = bills[j].amount,
                      verdict[i].match # "pending", verdict[j].match # "pending"
               PROVE  \/ {i, j} \cap Worklist # {}
                      \/ \E x \in found : x.invoice \in {i, j} /\ x.settled
    BY DEF TwinsAreSeen
  <2>1. PICK k \in {i, j} : RowsOf(k) # {}
    BY DEF MatchInv, TwinsInv, SeesTwin
  <2> QED BY <2>1 DEF RowsOf, Worklist
<1> QED BY <1>1, MatchInvariant, PTL

(* What is shown as fully matched three ways was accepted *)
THEOREM AgreedWasReceived == MatchingSpec => []AgreedIsReceived
<1>1. MatchInv => AgreedIsReceived
  <2> SUFFICES ASSUME MatchInv, NEW i \in Invoices \ doubled, Billed(i),
                      verdict[i].type = "three_way", ResultOf(i) = "FULLY_MATCHED",
                      NEW l \in BilledLines(i) \cap ReceiptLines
               PROVE  bills[i].quantity[l] <= AcceptedOf(l)
    BY DEF AgreedIsReceived
  <2>1. KindsOn(i, l) = {}
    BY DEF ResultOf
  <2>2. ~SayTooMany(RowsOf(i), l)
    BY <2>1 DEF KindsOn, SayTooMany
  <2>3. ~ExceedsReceipt(i, l)
    BY <2>2 DEF MatchInv, ThreeWayInv, VerdictSays
  <2>4. l \in OrderLines
    BY DEF BilledLines
  <2>5. bills[i].quantity[l] \in Nat /\ AcceptedOf(l) \in Int
    BY <2>4, BillFacts, SumsAreInt DEF MatchInv
  <2> QED BY <2>3, <2>5 DEF ExceedsReceipt
<1> QED BY <1>1, MatchInvariant, PTL

(* The GR/IR records are true, and one for a line *)
THEOREM LedgerSound == MatchingSpec => []LedgerIsSound
<1>1. MatchInv => LedgerIsSound
  <2> SUFFICES ASSUME MatchInv, ~crossed, NEW l \in OrderLines
               PROVE  Cardinality(RecordsOf(l, grir)) <= 1
    BY DEF MatchInv, LedgerInv, LedgerIsSound
  <2>1. \A x, y \in RecordsOf(l, grir) : x = y
    BY DEF MatchInv, LedgerInv, RecordsOf
  <2>2. CASE RecordsOf(l, grir) = {}
    <3>1. Cardinality(RecordsOf(l, grir)) = 0
      BY <2>2, FS_EmptySet, Zenon
    <3> QED BY <3>1
  <2>3. ASSUME NEW x \in RecordsOf(l, grir) PROVE Cardinality(RecordsOf(l, grir)) <= 1
    <3>1. RecordsOf(l, grir) = {x}
      BY <2>1, <2>3
    <3>2. Cardinality({x}) = 1
      BY FS_Singleton
    <3> QED BY <3>1, <3>2
  <2> QED BY <2>2, <2>3
<1> QED BY <1>1, MatchInvariant, PTL

=============================================================================
