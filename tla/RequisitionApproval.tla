------------------------- MODULE RequisitionApproval -------------------------
(***************************************************************************)
(* A purchase requisition (PR) from draft to purchase order (PO): the       *)
(* requests of backend/app/routers/procurement.py, the workflow instances   *)
(* that decide about it, and the order created once it is approved.         *)
(*                                                                          *)
(* An instance is what ApprovalContract promises of the engine, nothing     *)
(* more.  A request is one action; OrderCreation looks inside it, at the    *)
(* commits on the way from an approval to an order.                         *)
(***************************************************************************)
EXTENDS Integers, Sequences

CONSTANTS
  Gates,         \* the approvals an instance asks for
  MaxFlows,      \* bound: instances started for the PR
  MaxEdits,      \* bound: PO-relevant changes to the PR
  MaxOrders,     \* bound: POs created from the PR
  LowValues,     \* may the PR be under the threshold of the naive rule?
  Definitions,   \* may a definition for requisitions be active?
  Delays,        \* may delay_until be set?
  Offered        \* per client, what it sends: <<lifecycle, is there an instance, request>>

Lifecycles == {"draft", "submitted", "pending_approval", "approved", "rejected",
               "cancelled", "closed", "exception", "po_created", "deleted"}
Readonly == {"po_created", "closed", "cancelled", "rejected"}
Cancellable == {"draft", "submitted", "pending_approval", "approved"}
Requests == {"submit", "approve", "pending_approval", "reject", "cancel", "close",
             "delete", "header", "lines", "form", "convert", "retry"}

ASSUME RequisitionAssumption ==
  /\ MaxFlows \in Nat /\ MaxEdits \in Nat /\ MaxOrders \in Nat
  /\ LowValues \in (SUBSET BOOLEAN) \ {{}}
  /\ Definitions \in (SUBSET BOOLEAN) \ {{}}
  /\ Delays \in SUBSET {"none", "future"} \ {{}}
  /\ \A c \in DOMAIN Offered :
        Offered[c] \subseteq (Lifecycles \ {"deleted"}) \X BOOLEAN \X Requests

VARIABLES
  client,        \* which client sends the requests: "pages" follows the frontend
  lifecycle,     \* requisition.lifecycle_status
  approval,      \* requisition.approval_status
  low,           \* total under 1000 and priority not high
  ready,         \* _po_creation_blockers finds nothing
  defined,       \* a definition for requisitions is active
  delay,         \* delay_until: "none", in the "future", or "due"
  content,       \* counts the changes to what a PO is made from
  flows,         \* workflow instances, and the content each one was started with
  orders,        \* the POs of this PR, oldest first: the content, and who made them
  form,          \* the page that converts the PR is open in a browser
  signed,        \* history: contents that an approval was given for
  unasked,       \* history: contents that got past the approvers: the naive rule let them
                 \* pass, or a client changed the PR after the draft, or retried a PR
                 \* that is no exception
  overruled      \* history: a client's request was stamped "approved", or the PR
                 \* submitted again, while an instance was to decide about it

history == <<signed, unasked, overruled>>
prVars == <<lifecycle, approval, low, ready, defined, delay, content, flows, orders, form, history>>
vars == <<client, prVars>>

Phases == {"absent", "open", "stalled", "approved", "declined"}
Flow == [phase : Phases, outstanding : SUBSET Gates, closed : SUBSET Gates,
         content : 0 .. MaxEdits]
NoFlow == [phase |-> "absent", outstanding |-> {}, closed |-> {}, content |-> 0]

Engine(i) == INSTANCE ApprovalContract WITH
  phase <- flows[i].phase,
  outstanding <- flows[i].outstanding,
  closed <- flows[i].closed

Started == {i \in DOMAIN flows : flows[i].phase # "absent"}
Undecided == {i \in Started : flows[i].phase \in {"open", "stalled"}}
Waiting == {i \in Started : flows[i].phase = "open" /\ flows[i].outstanding # {}}

(* What somebody typed into the page that converts the PR: lines of its own *)
Typed == MaxEdits + 1
PO(made, maker) == [content |-> made, by |-> maker]

Sends(request) == <<lifecycle, Started # {}, request>> \in Offered[client]

-----------------------------------------------------------------------------

(* evaluate_approval_requirement: the rule every transition applies *)
Naive == IF low THEN "approved" ELSE "pending"

(* A client's request has set approval_status: over the head of an instance? *)
Overrules == overruled' = (overruled \/ (approval' = "approved" /\ Undecided' # {}))

(* mutant: the wait for delay_until leaves approval_status alone *)
AutoOrderForgetful(lc, ap) ==
  \/ /\ delay = "future"
     /\ lifecycle' = lc /\ approval' = ap
     /\ UNCHANGED orders
  \/ /\ delay # "future"
     /\ \/ Len(orders) = 1 /\ lifecycle' = lc /\ UNCHANGED orders
        \/ orders = <<>> /\ ~ready /\ lifecycle' = "exception" /\ UNCHANGED orders
        \/ orders = <<>> /\ ready /\ lifecycle' = "po_created"
             /\ orders' = <<PO(content, "system")>>
     /\ approval' = ap

(* auto_create_po_from_requisition, called with the PR at lc and ap.  With   *)
(* two POs its query raises, and the caller's transaction is rolled back.    *)
AutoOrder(lc, ap) ==
  \/ /\ delay = "future"
     /\ lifecycle' = lc /\ approval' = "approved"
     /\ UNCHANGED orders
  \/ /\ delay # "future"
     /\ \/ Len(orders) = 1 /\ lifecycle' = lc /\ UNCHANGED orders
        \/ orders = <<>> /\ ~ready /\ lifecycle' = "exception" /\ UNCHANGED orders
        \/ orders = <<>> /\ ready /\ lifecycle' = "po_created"
             /\ orders' = <<PO(content, "system")>>
     /\ approval' = ap

(* What the end of instance i means for the PR *)
Concludes(i) ==
  \/ /\ Engine(i)!Grant
     /\ AutoOrder("approved", "approved")
     /\ signed' = signed \cup {flows'[i].content}
  \/ /\ Engine(i)!Decline
     /\ lifecycle' = "rejected" /\ approval' = "rejected"
     /\ UNCHANGED <<orders, signed>>

-----------------------------------------------------------------------------
(***************************************************************************)
(* Requests                                                                 *)
(***************************************************************************)
Init ==
  /\ client \in DOMAIN Offered
  /\ lifecycle = "draft" /\ approval = "pending"
  /\ low \in LowValues
  /\ ready \in BOOLEAN
  /\ defined \in Definitions
  /\ delay \in Delays
  /\ content = 0
  /\ flows = [i \in 1 .. MaxFlows |-> NoFlow]
  /\ orders = <<>> /\ form = FALSE
  /\ signed = {} /\ unasked = {} /\ overruled = FALSE

(* The transition to "submitted" starts an instance, if a definition is      *)
(* active, for the PR as it is; the instance may complete on the spot.       *)
Submit ==
  /\ Sends("submit")
  /\ \/ /\ ~defined
        /\ lifecycle' = "submitted" /\ approval' = "pending"
        /\ UNCHANGED <<flows, orders, signed>>
     \/ /\ defined
        /\ \E i \in DOMAIN flows, f \in Flow :
             /\ flows[i].phase = "absent"
             /\ \A j \in DOMAIN flows : flows[j].phase = "absent" => i <= j
             /\ f.content = content
             /\ flows' = [flows EXCEPT ![i] = f]
             /\ \/ /\ Engine(i)!Ask \/ Engine(i)!Stall
                   /\ lifecycle' = "pending_approval" /\ approval' = "pending"
                   /\ UNCHANGED <<orders, signed>>
                \/ Concludes(i)
  /\ overruled' = (overruled \/ Undecided # {})
  /\ UNCHANGED <<low, ready, defined, delay, content, form, unasked>>

(* mutant: the PR counts as approved from the first approval on *)
AnswerApproves(i) ==
  /\ flows[i].phase # "absent"
  /\ \E f \in Flow :
       /\ f.content = flows[i].content
       /\ flows' = [flows EXCEPT ![i] = f]
       /\ \/ /\ Engine(i)!Ask
             /\ approval' = "approved"
             /\ UNCHANGED <<lifecycle, orders, signed>>
          \/ Concludes(i)
  /\ UNCHANGED <<low, ready, defined, delay, content, form, unasked, overruled>>

(* Somebody answers a task of instance i, or an administrator retries it *)
Answer(i) ==
  /\ flows[i].phase # "absent"
  /\ \E f \in Flow :
       /\ f.content = flows[i].content
       /\ flows' = [flows EXCEPT ![i] = f]
       /\ \/ /\ Engine(i)!Ask \/ Engine(i)!Stall
             /\ UNCHANGED <<lifecycle, approval, orders, signed>>
          \/ Concludes(i)
  /\ UNCHANGED <<low, ready, defined, delay, content, form, unasked, overruled>>

(* The newest PO follows the PR when a re-approval finds them different: amended *)
(* in place or split off, depending on what was received and invoiced against   *)
(* it.  Lines that were typed have no counterpart in the PR and are passed over. *)
Resync(po) ==
  LET newest == Len(po)  made == po[newest].content IN
  \/ made \in {content, Typed} /\ orders' = po
  \/ made \notin {content, Typed} /\ orders' = [po EXCEPT ![newest].content = content]
  \/ made \notin {content, Typed} /\ newest < MaxOrders
     /\ orders' = Append(po, PO(content, "split"))

(* The instances in progress are completed: those that wait for nobody, and of *)
(* the stalled ones those whose steps cannot get the approvals they require,  *)
(* for which the engine has no other word than "in_progress".                *)
ClosesFlows ==
  \E vain \in SUBSET {i \in Started : flows[i].phase = "stalled"} :
    flows' = [i \in DOMAIN flows |->
      IF flows[i].phase = "open" \/ i \in vain THEN [flows[i] EXCEPT !.phase = "approved"]
      ELSE flows[i]]

(* The "Approve" button: the transition to "approved".  Refused while tasks  *)
(* of an instance in progress wait; otherwise it closes such instances.  The *)
(* lifecycle is committed first and stays when the query for POs raises.     *)
Approve ==
  /\ Sends("approve")
  /\ Waiting = {}
  /\ \/ /\ orders = <<>>
        /\ AutoOrder("approved", Naive)
        /\ ClosesFlows
     \/ /\ Len(orders) = 1 \/ (orders # <<>> /\ delay = "future")
        /\ lifecycle' = "approved"
        /\ approval' = IF delay = "future" THEN "approved" ELSE Naive
        /\ Resync(orders)
        /\ ClosesFlows
     \/ /\ Len(orders) > 1 /\ delay # "future"
        /\ lifecycle' = "approved"
        /\ UNCHANGED <<approval, flows, orders>>
  /\ signed' = signed \cup {content}
  /\ Overrules
  /\ UNCHANGED <<low, ready, defined, delay, content, form, unasked>>

(* Any other transition: the instances are not told *)
Transition(request, to) ==
  /\ Sends(request)
  /\ to = "cancelled" => lifecycle \in Cancellable /\ orders = <<>>
  /\ lifecycle' = to
  /\ approval' = Naive
  /\ unasked' = IF low THEN unasked \cup {content} ELSE unasked
  /\ UNCHANGED <<low, ready, defined, delay, content, flows, orders, form, signed>>
  /\ Overrules

Delete ==
  /\ Sends("delete") /\ lifecycle = "draft"
  /\ lifecycle' = "deleted"
  /\ UNCHANGED <<approval, low, ready, defined, delay, content, flows, orders, form, history>>

(* A change that nobody is asked about any more *)
Behind ==
  unasked' = IF lifecycle = "draft" /\ approval # "approved" THEN unasked
             ELSE unasked \cup {content'}

(* update_requisition, changing the supplier, the category or the GL code *)
EditHeader ==
  /\ Sends("header") /\ content < MaxEdits
  /\ lifecycle \notin Readonly
  /\ content' = content + 1
  /\ IF lifecycle \in {"submitted", "pending_approval", "approved"}
     THEN lifecycle' = "pending_approval" /\ approval' = "pending"
     ELSE UNCHANGED <<lifecycle, approval>>
  /\ ready' \in BOOLEAN
  /\ Behind
  /\ UNCHANGED <<low, defined, delay, flows, orders, form, signed, overruled>>

(* Adding, changing or removing a line item: the total may pass the threshold *)
EditLines ==
  /\ Sends("lines") /\ content < MaxEdits
  /\ content' = content + 1
  /\ low' \in LowValues
  /\ ready' \in BOOLEAN
  /\ Behind
  /\ UNCHANGED <<lifecycle, approval, defined, delay, flows, orders, form, signed, overruled>>

(* "Convert to PO" on the page of an approved PR without POs leads to a page  *)
(* that looks at neither again, and may stay open as long as it likes         *)
OpenForm ==
  /\ Sends("form") /\ orders = <<>>
  /\ form' = TRUE
  /\ UNCHANGED <<lifecycle, approval, low, ready, defined, delay, content, flows, orders, history>>

(* convert-to-po: a PO from the client's payload, whatever the PR's state and *)
(* POs; from the lines of the PR only if the payload has none                *)
ConvertToPO ==
  /\ form \/ Sends("convert")
  /\ Len(orders) < MaxOrders
  /\ \E made \in {content, Typed} : orders' = Append(orders, PO(made, "client"))
  /\ UNCHANGED <<lifecycle, approval, low, ready, defined, delay, content, flows, form, history>>

(* The retry button of the exception dashboard; the endpoint looks at no state *)
RetryException ==
  /\ Sends("retry")
  /\ AutoOrder(lifecycle, approval)
  /\ unasked' = IF lifecycle = "exception" THEN unasked ELSE unasked \cup {content}
  /\ UNCHANGED <<low, ready, defined, delay, content, flows, form, signed>>
  /\ Overrules

(* mutant: the sweep takes every PR whose date has passed *)
SweepAnyApproval ==
  /\ delay = "due" /\ lifecycle # "deleted"
  /\ AutoOrder(lifecycle, approval)
  /\ UNCHANGED <<low, ready, defined, delay, content, flows, form, history>>

(* process_deferred_po_creation, as far as this PR is concerned *)
Sweep ==
  /\ delay = "due" /\ approval = "approved"
  /\ AutoOrder(lifecycle, approval)
  /\ UNCHANGED <<low, ready, defined, delay, content, flows, form, history>>

(* delay_until passes *)
DelayEnds ==
  /\ delay = "future"
  /\ delay' = "due"
  /\ UNCHANGED <<lifecycle, approval, low, ready, defined, content, flows, orders, form, history>>

(* Supplier master data: its e-mail address appears, it is deactivated, ... *)
ChangeReadiness ==
  /\ ready' = ~ready
  /\ UNCHANGED <<lifecycle, approval, low, defined, delay, content, flows, orders, form, history>>

Next ==
  /\ \/ Submit
     \/ \E i \in DOMAIN flows : Answer(i)
     \/ Approve
     \/ Transition("pending_approval", "pending_approval")
     \/ Transition("reject", "rejected")
     \/ Transition("cancel", "cancelled")
     \/ Transition("close", "closed")
     \/ Delete
     \/ EditHeader
     \/ EditLines
     \/ OpenForm
     \/ ConvertToPO
     \/ RetryException
     \/ Sweep
     \/ DelayEnds
     \/ ChangeReadiness
  /\ UNCHANGED client

Spec == Init /\ [][Next]_vars

(* Time passes, and somebody calls the sweep: the code has no scheduler *)
FairSpec == Spec /\ WF_prVars(DelayEnds) /\ WF_prVars(Sweep)

-----------------------------------------------------------------------------
(***************************************************************************)
(* Properties                                                               *)
(***************************************************************************)
(* Every variable stays in its domain. *)
TypeOK ==
  /\ lifecycle \in Lifecycles
  /\ approval \in {"pending", "approved", "rejected"}
  /\ low \in BOOLEAN /\ ready \in BOOLEAN /\ defined \in BOOLEAN
  /\ delay \in {"none", "future", "due"}
  /\ content \in 0 .. MaxEdits
  /\ flows \in [1 .. MaxFlows -> Flow]
  /\ orders \in Seq([content : 0 .. Typed, by : {"system", "split", "client"}])
  /\ form \in BOOLEAN /\ overruled \in BOOLEAN
  /\ signed \cup unasked \subseteq 0 .. MaxEdits

(* What the pages send: changes and submissions of drafts only, the button    *)
(* "Approve" only for a PR without an instance, the others where there is one  *)
(* no more, a retry only in "exception", and conversions by the form.          *)
FollowsPages(offers) ==
  \A o \in offers :
    /\ o[3] \in {"submit", "header", "lines"} => o[1] = "draft"
    /\ o[3] = "approve" => o[1] = "pending_approval" /\ ~o[2]
    /\ o[3] = "reject" => ~o[2]
    /\ o[3] \in {"pending_approval", "cancel"} => o[1] = "submitted"
    /\ o[3] = "close" => o[1] = "po_created"
    /\ o[3] = "retry" => o[1] = "exception"

(* auto_create_po_from_requisition is idempotent: approvals, the sweep and the *)
(* retry of an exception make the first PO of a PR or none, whoever converted  *)
(* it by hand before.                                                         *)
OneOrder == \A n \in DOMAIN orders : orders[n].by = "system" => n = 1

(* What nobody typed was signed: the system makes, amends and splits POs only  *)
(* for contents that an approval was given for - what the instance's context   *)
(* held when it started, or what the button approved - unless the naive rule   *)
(* passed them, or a client beside the pages brought them past the approvers.  *)
OrdersAreSigned ==
  \A n \in DOMAIN orders :
    orders[n].by # "client" => orders[n].content \in signed \cup unasked

(* Whoever creates the order - the transition, a button, the sweep, the retry - there
   is one, for what the approvers signed. *)
OrdersAreSound == OneOrder /\ OrdersAreSigned

(* The engine decides: while an instance waits for its approvers the PR does *)
(* not count as approved, whatever the naive rule of the transitions says -  *)
(* unless a client beside the pages went over its head with a request.       *)
EngineDecides == Waiting # {} /\ approval = "approved" => overruled

(* A cancelled PR stays cancelled, and gets no PO.                           *)
CancelledIsFinal ==
  [][lifecycle = "cancelled" => lifecycle' = "cancelled" /\ orders' = orders]_vars

(* An approved PR gets its PO by itself: at once, or from the sweep once     *)
(* delay_until has passed, unless it leaves "approved" before (exception);   *)
(* with clients that follow the pages.                                       *)
ApprovedIsOrdered ==
  (client = "pages" /\ lifecycle = "approved") ~> (orders # <<>> \/ lifecycle # "approved")

=============================================================================
