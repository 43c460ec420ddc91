-------------------------- MODULE InvoiceVerification --------------------------
(***************************************************************************)
(* One invoice from its creation to the OK-to-Pay file: the match engine,   *)
(* its exceptions and what people decide about them, the block, and the     *)
(* approval of an invoice without a PO (backend/app/crud/procurement.py,     *)
(* services/invoice_blocking.py, invoice_approval_workflow.py, ok_to_pay.py). *)
(*                                                                          *)
(* An exception is a row; a row has a kind, and a mismatch of that kind in  *)
(* the documents is a "fact".  The session does not flush before it queries *)
(* (database.py, autoflush=False): a query sees what was flushed before.    *)
(***************************************************************************)
EXTENDS Integers, FiniteSets

CONSTANTS
  Rows,          \* rows of invoice_match_exceptions that may exist
  KindOf         \* the exception_type of each

Kinds == {"duplicate_invoice", "price_variance", "quantity_variance",
          "quantity_exceeds_receipt", "approval_rejected"}
Critical == {"duplicate_invoice", "approval_rejected"}
Roles == {"AP_PROCESSOR", "AP_MANAGER", "FINANCE_CONTROLLER", "COMPLIANCE_OFFICER"}

(* RESOLUTION_STATUSES, and the states of the exception engine *)
Resolutions == {"open", "approved_with_variance", "corrected", "rejected"}
Statuses == Resolutions \cup {"in_review", "overridden", "cancelled"}
Active == {"open", "in_review"}

(* WorkflowInstance.status; "stalled" is its blocked *)
Instances == {"none", "open", "stalled", "completed", "rejected"}

ASSUME InvoiceAssumption == KindOf \in [Rows -> Kinds]

Mismatches == {x \in Rows : KindOf[x] # "approval_rejected"}
Rejections == Rows \ Mismatches

VARIABLES
  linked,        \* the invoice has a purchase_order_id
  facts,         \* the mismatches that are in the documents
  exceptions,    \* resolution_status of each row, "none" without a row
  match,         \* match_status
  status,        \* invoice.status
  block,         \* block_status
  instance,      \* its invoice_approval instance
  vetoed,        \* history: rows a person rejected; accepting, review or a match ends it
  approved,      \* history: the invoice was approved since the last match or rejection
  released       \* history: the role that released the block since the last match

vars == <<linked, facts, exceptions, match, status, block, instance, vetoed, approved, released>>

Existing(rows) == {x \in Rows : rows[x] # "none"}
Verified == {"matched", "matched_with_variance"}

-----------------------------------------------------------------------------
(* _recompute_invoice_match_status *)
Recompute(rows) ==
  LET blocking == {x \in Rows : rows[x] \in {"open", "rejected"}}
  IN match' = IF blocking # {} THEN "exception"
              ELSE IF \E x \in Rows : rows[x] = "approved_with_variance"
                   THEN "matched_with_variance"
                   ELSE "matched"

(* Every function that sets match_status sets status with it *)
StatusOfMatch == IF match' \in Verified THEN "matched" ELSE "pending"

Severity(x) == IF KindOf[x] \in Critical THEN 3 ELSE 2

(* RELEASE_MATRIX: the blocks a role may release, and up to which severity *)
MayReleaseBlocks == [r \in Roles |-> IF r = "COMPLIANCE_OFFICER" THEN {"BLOCKED_FOR_COMPLIANCE"}
                                     ELSE {"BLOCKED_FOR_MATCHING", "BLOCKED_FOR_EXCEPTION"}]
MaxSeverity == [AP_PROCESSOR |-> 1, AP_MANAGER |-> 2,
                FINANCE_CONTROLLER |-> 3, COMPLIANCE_OFFICER |-> 3]
MayRelease(role, rows) ==
  /\ block \in MayReleaseBlocks[role]
  /\ \A x \in rows : Severity(x) <= MaxSeverity[role]

(* build_ok_to_pay accepts the invoice *)
Payable ==
  /\ match \in Verified
  /\ status # "pending"
  /\ \A x \in Rows : exceptions[x] # "open"

-----------------------------------------------------------------------------
(***************************************************************************)
(* Requests                                                                 *)
(***************************************************************************)
(* create_invoice.  With a PO the match engine ran at once, after the commit *)
(* of the invoice: it has not when the request died in between.  Without a   *)
(* PO an instance of the active definition was started, if there is one: it   *)
(* waits, is blocked for intervention, or found nothing to ask.              *)
Init ==
  /\ linked \in BOOLEAN
  /\ facts \in SUBSET Mismatches
  /\ linked \/ \A x \in facts : KindOf[x] = "duplicate_invoice"
  /\ \E matched \in (IF linked THEN BOOLEAN ELSE {FALSE}) :
       /\ exceptions = [x \in Rows |-> IF matched /\ x \in facts THEN "open" ELSE "none"]
       /\ match = (IF ~matched THEN "pending" ELSE IF facts # {} THEN "exception" ELSE "matched")
  /\ status = IF match = "matched" THEN "matched" ELSE "pending"
  /\ block = IF linked THEN "NOT_BLOCKED" ELSE "BLOCKED_FOR_APPROVAL"
  /\ instance \in (IF linked THEN {"none"} ELSE {"none", "open", "stalled", "completed"})
  /\ vetoed = {} /\ approved = FALSE /\ released = "none"

(* match_invoice finds again what is in the documents, all of it or, with    *)
(* the tolerance or the match type of the request, less.  The block is       *)
(* computed from a query that does not see the exceptions just added.        *)
Match(found) ==
  /\ found \subseteq facts
  /\ \A x \in facts \ found :
            /\ KindOf[x] \in {"price_variance", "quantity_exceeds_receipt"}
  /\ exceptions' = [x \in Rows |-> IF x \in found THEN "open" ELSE "none"]
  /\ match' = IF found # {} THEN "exception" ELSE "matched"
  /\ status' = StatusOfMatch
  /\ block' = IF linked THEN "NOT_BLOCKED" ELSE "BLOCKED_FOR_APPROVAL"
  /\ vetoed' = {} /\ approved' = FALSE /\ released' = "none"
  /\ UNCHANGED <<linked, facts, instance>>

(* mutant: an exception somebody opened counts as dealt with *)
SettleUnseen(settled) ==
  /\ exceptions' = [x \in Rows |-> IF x \in DOMAIN settled THEN settled[x] ELSE exceptions[x]]
  /\ Recompute([x \in Rows |-> IF exceptions[x] = "rejected" THEN "corrected" ELSE exceptions'[x]])
  /\ status' = StatusOfMatch
  /\ vetoed' = {x \in vetoed \cup DOMAIN settled : exceptions'[x] \in {"rejected", "open"}}
  /\ UNCHANGED <<linked, facts, block, instance, approved, released>>

(* What a person says about exceptions: settled maps rows to their new status *)
Settle(settled) ==
  /\ exceptions' = [x \in Rows |-> IF x \in DOMAIN settled THEN settled[x] ELSE exceptions[x]]
  /\ Recompute(exceptions')
  /\ status' = StatusOfMatch
  /\ vetoed' = (vetoed \ {x \in DOMAIN settled : settled[x] \notin {"rejected", "open"}})
                 \cup {x \in DOMAIN settled : settled[x] = "rejected"}
  /\ UNCHANGED <<linked, facts, block, instance, approved, released>>

(* resolve_invoice_match_exception: from any status *)
Resolve(x, to) ==
  /\ x \in Existing(exceptions) /\ to \in Resolutions
  /\ Settle([y \in {x} |-> to])

(* override_invoice_exception, cancel_invoice_exception *)
Dismiss(x, to) ==
  /\ exceptions[x] \in Active /\ to \in {"overridden", "cancelled"}
  /\ Settle([y \in {x} |-> to])

(* bulk_resolve_invoice_exceptions: the rows of a CSV file, one commit *)
BulkResolve(S, to) ==
  /\ S # {} /\ \A x \in S : exceptions[x] \in Active
  /\ to \in [S -> {"overridden", "corrected"}]
  /\ Settle(to)

(* set_invoice_exception_in_review: match_status is left alone *)
InReview(x) ==
  /\ exceptions[x] = "open"
  /\ exceptions' = [exceptions EXCEPT ![x] = "in_review"]
  /\ vetoed' = vetoed \ {x}
  /\ UNCHANGED <<linked, facts, match, status, block, instance, approved, released>>

(* release_invoice_block: the worst exception counts, settled or not *)
Release(role) ==
  /\ MayRelease(role, Existing(exceptions))
  /\ block' = "NOT_BLOCKED"
  /\ released' = role
  /\ UNCHANGED <<linked, facts, exceptions, match, status, instance, vetoed, approved>>

(* approve_invoice_workflow: an instance that is blocked stays *)
ApproveInvoice ==
  /\ instance' = IF instance = "open" THEN "completed" ELSE instance
  /\ block' = IF block = "BLOCKED_FOR_APPROVAL" THEN "NOT_BLOCKED" ELSE block
  /\ approved' = TRUE
  /\ UNCHANGED <<linked, facts, exceptions, match, status, vetoed, released>>

(* reject_invoice_workflow: one more exception; match_status is left alone *)
RejectInvoice(x) ==
  /\ x \in Rejections /\ exceptions[x] = "none"
  /\ exceptions' = [exceptions EXCEPT ![x] = "open"]
  /\ instance' = IF instance = "open" THEN "rejected" ELSE instance
  /\ block' = "BLOCKED_FOR_EXCEPTION"
  /\ approved' = FALSE
  /\ vetoed' = vetoed \cup {x}
  /\ UNCHANGED <<linked, facts, match, status, released>>

(* A task is answered in the inbox, or an administrator retries: the engine   *)
(* goes on as its definition says and has nothing to do for an invoice.       *)
InboxAnswer(outcome) ==
  /\ instance \in {"open", "stalled"} /\ outcome # "none"
  /\ instance' = outcome
  /\ UNCHANGED <<linked, facts, exceptions, match, status, block, vetoed, approved, released>>

(* Goods arrive, another invoice comes in, the PO is amended *)
DocumentsChange(x) ==
  /\ x \in Mismatches
  /\ linked \/ KindOf[x] = "duplicate_invoice"
  /\ facts' = IF x \in facts THEN facts \ {x} ELSE facts \cup {x}
  /\ UNCHANGED <<linked, exceptions, match, status, block, instance, vetoed, approved, released>>

Next ==
  \/ \E found \in SUBSET facts : Match(found)
  \/ \E x \in Rows, to \in Resolutions : Resolve(x, to)
  \/ \E x \in Rows, to \in {"overridden", "cancelled"} : Dismiss(x, to)
  \/ \E S \in SUBSET Rows : \E to \in [S -> {"overridden", "corrected"}] : BulkResolve(S, to)
  \/ \E x \in Rows : InReview(x) \/ RejectInvoice(x) \/ DocumentsChange(x)
  \/ \E role \in Roles : Release(role)
  \/ ApproveInvoice
  \/ \E outcome \in Instances : InboxAnswer(outcome)

Spec == Init /\ [][Next]_vars

-----------------------------------------------------------------------------
(***************************************************************************)
(* Properties                                                               *)
(***************************************************************************)
(* Every variable stays in its domain. *)
TypeOK ==
  /\ linked \in BOOLEAN /\ approved \in BOOLEAN /\ released \in Roles \cup {"none"}
  /\ facts \subseteq Mismatches /\ vetoed \subseteq Rows
  /\ exceptions \in [Rows -> Statuses \cup {"none"}]
  /\ match \in Verified \cup {"pending", "exception"}
  /\ status \in {"pending", "matched"}
  /\ block \in {"NOT_BLOCKED", "BLOCKED_FOR_MATCHING", "BLOCKED_FOR_APPROVAL",
                "BLOCKED_FOR_EXCEPTION"}
  /\ instance \in Instances

(* No OK-to-Pay over a "no" that is on record: whatever was matched again,   *)
(* released or settled since, a row that is open or rejected keeps the       *)
(* invoice off the file.                                                     *)
NoVetoIsPaid == Payable => \A x \in Rows : exceptions[x] \notin {"open", "rejected"}

(* A person's "no" to an exception or to the invoice keeps it off the file    *)
(* until somebody accepts or reviews that row, or the invoice is matched      *)
(* again: settling other rows, a bulk file, a release or an approval do not   *)
(* end it.                                                                    *)
VetoStands == Payable => vetoed = {}

(* The block of an invoice without a PO is lifted by an approval or a        *)
(* release, never by matching it, by settling its exceptions or by what the  *)
(* instance comes to; and a new match asks for a new approval.                *)
UnblockedWasAnswered == ~linked /\ block = "NOT_BLOCKED" => approved \/ released # "none"

(* A rejected invoice is released by a Finance Controller and nobody below,  *)
(* also when the exception the rejection left was settled in the meantime.    *)
RejectionNeedsController ==
  [][block = "BLOCKED_FOR_EXCEPTION" /\ block' = "NOT_BLOCKED" /\ released' # "none"
       => released' = "FINANCE_CONTROLLER"]_vars

(* The match that finds a mismatch leaves the invoice blocked.               *)
ExceptionsBlock ==
  [][linked /\ (\E x \in Mismatches : exceptions[x] = "none" /\ exceptions'[x] = "open")
       => block' # "NOT_BLOCKED"]_vars

=============================================================================
