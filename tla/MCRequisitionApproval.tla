------------------------ MODULE MCRequisitionApproval ------------------------
(***************************************************************************)
(* What the clients of the requisition endpoints send, for TLC.             *)
(***************************************************************************)
EXTENDS RequisitionApproval

Either(lifecycles, requests) == lifecycles \X BOOLEAN \X requests

(* The buttons of the requisition pages and the exception dashboard.  The    *)
(* PR's page hides Approve and Reject once the PR has an instance, and offers  *)
(* "Convert to PO" while an approved PR has no PO.                            *)
PageRequests ==
  Either({"draft"}, {"submit", "delete", "header", "lines"})
    \cup Either({"submitted"}, {"pending_approval", "cancel"})
    \cup {"pending_approval"} \X {FALSE} \X {"approve", "reject"}
    \cup Either({"approved"}, {"form"})
    \cup Either({"po_created"}, {"close"})
    \cup Either({"exception"}, {"retry"})

(* A PR is withdrawn from any state that validate_pr_cancel accepts *)
Withdrawals == PageRequests \cup Either(Cancellable, {"cancel"})

(* Everything, in every state; who may convert at any time needs no page for it *)
EveryRequest == Either(Lifecycles \ {"deleted"}, Requests \ {"form"})

ASSUME PagesAssumption == FollowsPages(PageRequests)

PagesAndAny == [pages |-> PageRequests, any |-> EveryRequest]
PagesAndWithdrawals == [pages |-> Withdrawals]

=============================================================================
