--------------------------- MODULE OrderFulfilment ---------------------------
(***************************************************************************)
(* One purchase order after it was made: its lifecycle, the receipts of its *)
(* goods from draft to posted, and what an invoice does to it.              *)
(*                                                                          *)
(* A request reads, decides, and commits.  What it is about to commit is its *)
(* unit of work, written over whatever others have committed meanwhile;      *)
(* columns it does not change it does not write.  "ordered" and an invoice   *)
(* need several units of work, one after another.  Two commits that follow   *)
(* each other with no decision in between (a receipt, and the closing of the  *)
(* order it completes) are one here.                                         *)
(***************************************************************************)
EXTENDS Integers, Sequences, FiniteSets, Functions

CONSTANTS
  Sessions,      \* requests that can be under way at once
  Lines,         \* the order's lines
  Ordered,       \* their quantities
  Policies,      \* the match policies the lines may have
  Contents,      \* what people may enter on a receipt
  MaxReceipts,   \* bound: receipts of the order
  MaxRequests    \* bound: requests people make

Quantities == {q \in [received : Nat, rejected : Nat] : q.rejected <= q.received}

ASSUME FulfilmentAssumption ==
  /\ Ordered \in [Lines -> Nat \ {0}]
  /\ Policies \subseteq [Lines -> {"three_way", "auto", "none", "two_way"}]
  /\ \A content \in Contents :
       /\ DOMAIN content \in (SUBSET Lines) \ {{}}
       /\ content \in [DOMAIN content -> Quantities]
  /\ MaxReceipts \in Nat /\ MaxRequests \in Nat

VARIABLES
  policy,        \* of each line; "auto" is three-way and received automatically
  order,         \* its lifecycle state, and the kind of its last amendment
  requisition,   \* lifecycle of the requisition behind it
  receipts,      \* oldest first; a receipt's lines keep their quantities
  invoice,       \* match status of its invoice, "none" before there is one
  session,       \* what each request is doing
  overlapped,    \* history: two requests have been under way at once
  requests       \* how many there have been

vars == <<policy, order, requisition, receipts, invoice, session, overlapped, requests>>

Allowed ==
  [draft |-> {"pending_approval"},
   pending_approval |-> {"approved", "cancelled"},
   approved |-> {"ordered", "sent_to_supplier", "cancelled"},
   ordered |-> {"sent_to_supplier", "fully_received", "partially_received", "cancelled"},
   sent_to_supplier |-> {"acknowledged", "cancelled"},
   acknowledged |-> {"partially_received", "fully_received", "cancelled"},
   partially_received |-> {"fully_received", "cancelled", "closed"},
   fully_received |-> {"invoiced", "closed"},
   invoiced |-> {"closed"},
   closed |-> {"reopened"},
   cancelled |-> {"reopened"},
   reopened |-> {"ordered", "sent_to_supplier", "partially_received", "fully_received",
                 "cancelled"}]
States == DOMAIN Allowed

OpenStatuses == {"draft", "submitted", "in_review", "approved"}
Ended == {"posted", "received", "rejected", "cancelled"}

ThreeWay == {l \in Lines : policy[l] \in {"three_way", "auto"}}
Received == {l \in Lines : policy[l] = "auto"}
(* An unconfigured line ("none") has to be received, but is not three-way *)
Needed == {l \in Lines : policy[l] # "two_way"}

(* get_po_line_receipt_status: the lines of every receipt, whatever its status *)
Accepted(l, rs) ==
  SumFunction([n \in DOMAIN rs |->
                 IF l \in DOMAIN rs[n].lines
                 THEN rs[n].lines[l].received - rs[n].lines[l].rejected ELSE 0])

Outstanding(ls) == {l \in ls : Accepted(l, receipts) < Ordered[l]}

OpenReceipts == {n \in DOMAIN receipts : receipts[n].status \in OpenStatuses}
OpenLines == UNION {DOMAIN receipts[n].lines : n \in OpenReceipts}

PendingInvoice == invoice \in {"pending", "exception"}
OpenDispute == invoice = "exception"
PendingReceipt == \E n \in DOMAIN receipts : receipts[n].status \notin Ended

-----------------------------------------------------------------------------
(***************************************************************************)
(* Units of work                                                            *)
(***************************************************************************)
Kept == "kept"
NoChange == [state |-> Kept, change |-> Kept, marks |-> [n \in {} |-> Kept],
             new |-> <<>>, settles |-> FALSE, invoice |-> Kept]

Idle == [stage |-> "idle", write |-> NoChange, next |-> "idle"]

(* A column that is set to what was read is not written *)
Column(read, value) == IF value = read THEN Kept ELSE value

(* A request comes in, or goes on after a commit of its own *)
Ready(s, stage) ==
  /\ session[s].stage = stage
  /\ requests' = IF stage = "idle" THEN requests + 1 ELSE requests
  /\ requests' <= MaxRequests

Work(s, write, next) ==
  /\ session' = [session EXCEPT ![s] = [stage |-> "commit", write |-> write, next |-> next]]
  /\ overlapped' = (overlapped \/ \E t \in Sessions \ {s} : session[t] # Idle)
  /\ UNCHANGED <<policy, order, requisition, receipts, invoice>>

(* The bound on receipts, those being made included *)
Room == Len(receipts) + Cardinality({t \in Sessions : session[t].write.new # <<>>})
          < MaxReceipts

(* mutant: rejected goods count as received *)
CompleteGross(rs) ==
  ThreeWay # {} /\ \A l \in ThreeWay :
    SumFunction([n \in DOMAIN rs |-> IF l \in DOMAIN rs[n].lines THEN rs[n].lines[l].received ELSE 0])
      >= Ordered[l]

(* maybe_auto_close_po: two-way and unconfigured lines do not matter *)
Complete(rs) == ThreeWay # {} /\ \A l \in ThreeWay : Accepted(l, rs) >= Ordered[l]

Progress(rs) ==
  IF \A l \in Needed : Accepted(l, rs) <= 0 THEN Kept
  ELSE IF \A l \in Needed : Accepted(l, rs) >= Ordered[l] THEN "fully_received"
  ELSE "partially_received"

(* create_goods_receipt, and for a quick receipt what its endpoint adds.  The *)
(* order's receipts were loaded before this one was made: that it is open     *)
(* itself does not keep the order from being closed.                          *)
Receiving(content, status, quick) ==
  LET receipt == [status |-> status, lines |-> content, approved |-> FALSE]
      rs == Append(receipts, receipt)
      full == Progress(rs) = "fully_received"
      closes == full /\ ~PendingInvoice /\ ~PendingReceipt /\ ~OpenDispute
      autoCloses == /\ quick /\ status = "received" /\ full /\ ~closes
                    /\ Complete(rs) /\ ~PendingInvoice
  IN [NoChange EXCEPT !.new = <<receipt>>,
        !.state = IF closes \/ autoCloses THEN "closed" ELSE Column(order.state, Progress(rs)),
        !.change = IF closes THEN "other" ELSE IF autoCloses
                  THEN Column(order.change, "auto_close") ELSE Kept]

Nothing(ls) == [l \in ls |-> [received |-> 0, rejected |-> 0]]
Everything(ls) == [l \in ls |-> [received |-> Ordered[l], rejected |-> 0]]

-----------------------------------------------------------------------------
Init ==
  /\ policy \in Policies
  /\ order \in [state : {"draft", "ordered"}, change : {"other"}]
  /\ requisition = "po_created"
  /\ receipts = <<>>
  /\ invoice = "none"
  /\ session = [s \in Sessions |-> Idle]
  /\ overlapped = FALSE
  /\ requests = 0

(* What a transition writes; a cancellation reaches requisition and receipts *)
Moving(target) ==
  [NoChange EXCEPT !.state = Column(order.state, target),
     !.change = IF target \in {"cancelled", "closed", "reopened"} THEN "other" ELSE Kept,
     !.settles = target = "cancelled",
     !.marks = [n \in {m \in DOMAIN receipts : target = "cancelled"
                         /\ receipts[m].status \notin Ended} |-> "cancelled"]]

(* transition_purchase_order_lifecycle; "ordered", also when it is no news,   *)
(* goes on to the automatic receipts                                          *)
Transition(s, target) ==
  /\ Ready(s, "idle")
  /\ target \in Allowed[order.state] \/ (target = "ordered" /\ order.state = "ordered")
  /\ target = "closed" => ~PendingInvoice /\ ~PendingReceipt /\ ~OpenDispute
  /\ target = "reopened" => invoice # "matched"
  /\ Work(s, Moving(target), IF target = "ordered" THEN "receive" ELSE "idle")

(* auto_create_receipts_for_ordered_po *)
AutoReceive(s) ==
  /\ Ready(s, "receive")
  /\ \/ /\ receipts # <<>> \/ (Received = {} /\ Needed # {})
        /\ Work(s, NoChange, "draft")
     \/ /\ receipts = <<>> /\ Needed = {}
        /\ Work(s, [NoChange EXCEPT !.state = Column(order.state, "fully_received")], "draft")
     \/ /\ receipts = <<>> /\ Received # {} /\ Room
        /\ Work(s, Receiving(Everything(Received), "received", FALSE), "draft")

(* mutant: only receipts that are still a draft are looked for *)
AutoDraftBesideDraft(s) ==
  /\ Ready(s, "draft")
  /\ LET due == Outstanding(Needed)
         drafts == {n \in OpenReceipts : receipts[n].status = "draft"}
     IN \/ (drafts # {} \/ due = {}) /\ Work(s, NoChange, "idle")
        \/ /\ drafts = {} /\ due # {} /\ Room
           /\ Work(s, Receiving(Nothing(due), "draft", FALSE), "idle")

(* auto_create_draft_receipt_for_po: not beside a receipt that is open *)
AutoDraft(s) ==
  /\ Ready(s, "draft")
  /\ LET due == Outstanding(Needed)
     IN \/ (OpenReceipts # {} \/ due = {}) /\ Work(s, NoChange, "idle")
        \/ /\ OpenReceipts = {} /\ due # {} /\ Room
           /\ Work(s, Receiving(Nothing(due), "draft", FALSE), "idle")

(* The receipts endpoint, in any state of the order *)
CreateReceipt(s, content, status) ==
  /\ Ready(s, "idle") /\ Room
  /\ DOMAIN content \cap OpenLines = {}
  /\ Work(s, Receiving(content, status, TRUE), "idle")

Mark(n, status) == [NoChange EXCEPT !.marks = [m \in {n} |-> status]]

(* evaluate_receipt_tolerance: damaged goods are reviewed; too many of them,    *)
(* if the receipt's tolerance says so; anything, if the receipt is for a service *)
NeedsReview(receipt) ==
  \E l \in DOMAIN receipt.lines : receipt.lines[l].rejected > 0

SubmitReceipt(s, n) ==
  /\ Ready(s, "idle")
  /\ receipts[n].status = "draft"
  /\ \/ Work(s, Mark(n, "in_review"), "idle")
     \/ ~NeedsReview(receipts[n]) /\ Work(s, Mark(n, "submitted"), "idle")

ApproveReceipt(s, n) ==
  /\ Ready(s, "idle")
  /\ receipts[n].status \in {"submitted", "in_review"}
  /\ Work(s, Mark(n, "approved"), "idle")

RejectReceipt(s, n) ==
  /\ Ready(s, "idle")
  /\ receipts[n].status \in {"submitted", "in_review", "approved"}
  /\ Work(s, Mark(n, "rejected"), "idle")

(* maybe_auto_close_po, from any state of the order *)
AutoClosing ==
  [NoChange EXCEPT
     !.state = IF ~PendingInvoice THEN Column(order.state, "closed")
               ELSE IF order.state \in {"approved", "ordered", "sent_to_supplier",
                         "acknowledged", "partially_received", "reopened"}
               THEN "fully_received" ELSE Kept,
     !.change = IF ~PendingInvoice THEN Column(order.change, "auto_close") ELSE Kept]

(* The query for open receipts runs before the status is flushed: a receipt   *)
(* that is posted for the first time finds itself.                            *)
BalanceDue == Outstanding(ThreeWay) # {} /\ OpenReceipts = {}

Posting(n) ==
  LET write == IF Complete(receipts) THEN AutoClosing
               ELSE IF BalanceDue
               THEN Receiving(Nothing(Outstanding(ThreeWay)), "draft", FALSE)
               ELSE NoChange
  IN [write EXCEPT !.marks = [m \in {n} \cap OpenReceipts |-> "posted"]]

(* Posting, for the first time or again *)
PostReceipt(s, n) ==
  /\ Ready(s, "idle")
  /\ receipts[n].status \in {"approved", "posted"}
  /\ BalanceDue => Room
  /\ Work(s, Posting(n), "idle")

(* amend_purchase_order *)
Amend(s) ==
  /\ Ready(s, "idle")
  /\ order.state \notin {"fully_received", "invoiced", "closed", "cancelled"}
  /\ Work(s, [NoChange EXCEPT !.change = "other"], "idle")

(* create_invoice sets the order to invoiced from any state, then matches *)
CreateInvoice(s) ==
  /\ Ready(s, "idle")
  /\ invoice = "none"
  /\ \A t \in Sessions : session[t].write.invoice = Kept
  /\ Work(s, [NoChange EXCEPT !.state = Column(order.state, "invoiced"),
                               !.invoice = "pending"], "match")

MatchInvoice(s, outcome) ==
  /\ Ready(s, "match")
  /\ Work(s, [NoChange EXCEPT !.invoice = outcome], "idle")

(* Exceptions are settled, or found by a new match (InvoiceVerification) *)
Verify ==
  /\ invoice \in {"pending", "exception", "matched"}
  /\ invoice' \in {"exception", "matched"}
  /\ UNCHANGED <<policy, order, requisition, receipts, session, overlapped, requests>>

Written(column, value) == IF value = Kept THEN column ELSE value

(* The unit of work is committed: statuses are overwritten, whatever they are *)
Commit(s) ==
  LET write == session[s].write
      Marked(n) == [receipts[n] EXCEPT !.status = write.marks[n],
                      !.approved = @ \/ write.marks[n] = "approved"]
  IN /\ session[s].stage = "commit"
     /\ order' = [state |-> Written(order.state, write.state),
                  change |-> Written(order.change, write.change)]
     /\ requisition' = IF write.settles THEN "cancelled" ELSE requisition
     /\ receipts' = [n \in DOMAIN receipts |->
                       IF n \in DOMAIN write.marks THEN Marked(n) ELSE receipts[n]]
                    \o write.new
     /\ invoice' = Written(invoice, write.invoice)
     /\ session' = [session EXCEPT ![s] = [Idle EXCEPT !.stage = session[s].next]]
     /\ UNCHANGED <<policy, overlapped, requests>>

(* The request dies, or its connection does *)
Abort(s) ==
  /\ session[s] # Idle
  /\ session' = [session EXCEPT ![s] = Idle]
  /\ UNCHANGED <<policy, order, requisition, receipts, invoice, overlapped, requests>>

OrderRequest(s) ==
  \/ \E target \in States : Transition(s, target)
  \/ AutoReceive(s) \/ AutoDraft(s) \/ Amend(s) \/ CreateInvoice(s)
  \/ \E outcome \in {"matched", "exception"} : MatchInvoice(s, outcome)

ReceiptRequest(s) ==
  \/ \E content \in Contents, status \in {"draft", "received"} :
       CreateReceipt(s, content, status)
  \/ \E n \in DOMAIN receipts : \/ SubmitReceipt(s, n) \/ ApproveReceipt(s, n)
                                \/ RejectReceipt(s, n) \/ PostReceipt(s, n)

Next == \/ \E s \in Sessions : OrderRequest(s) \/ ReceiptRequest(s) \/ Commit(s) \/ Abort(s)
        \/ Verify

Spec == Init /\ [][Next]_vars

-----------------------------------------------------------------------------
(***************************************************************************)
(* Properties                                                               *)
(***************************************************************************)
IsReceipt(receipt) ==
  /\ receipt.status \in OpenStatuses \cup Ended /\ receipt.approved \in BOOLEAN
  /\ DOMAIN receipt.lines \in (SUBSET Lines) \ {{}}
  /\ receipt.lines \in [DOMAIN receipt.lines -> Quantities]

(* Every variable stays in its domain. *)
TypeOK ==
  /\ policy \in Policies
  /\ order \in [state : States, change : {"other", "auto_close"}]
  /\ requisition \in {"po_created", "cancelled"}
  /\ \A n \in DOMAIN receipts : IsReceipt(receipts[n])
  /\ invoice \in {"none", "pending", "exception", "matched"}
  /\ \A s \in Sessions : session[s].stage \in {"idle", "receive", "draft", "match", "commit"}
  /\ overlapped \in BOOLEAN
  /\ requests \in 0 .. MaxRequests

(* An order that the system closed by itself (maybe_auto_close_po) has, and    *)
(* keeps, all its three-way goods, whatever requests ran into each other.      *)
AutoCloseMeansReceived ==
  order.change = "auto_close" =>
    ThreeWay # {} /\ \A l \in ThreeWay : Accepted(l, receipts) >= Ordered[l]

(* No receipt is posted that somebody did not approve, though statuses are     *)
(* overwritten by whoever commits last.                                        *)
PostedWasApproved ==
  \A n \in DOMAIN receipts : receipts[n].status = "posted" => receipts[n].approved

(* A line has one open receipt at a time, if requests do not overlap: the      *)
(* endpoint, the automatic draft and the receipt for a balance look for each   *)
(* other's.                                                                    *)
OneOpenPerLine ==
  ~overlapped => \A m, n \in OpenReceipts :
                   m # n => DOMAIN receipts[m].lines \cap DOMAIN receipts[n].lines = {}

(* A receipt that has ended stays as it is, if requests do not overlap: a      *)
(* cancelled order takes the open ones only.                                   *)
EndedStays ==
  [][~overlapped => \A n \in DOMAIN receipts :
       receipts[n].status \in Ended => receipts'[n].status = receipts[n].status]_vars

=============================================================================
