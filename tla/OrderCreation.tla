---------------------------- MODULE OrderCreation ----------------------------
(***************************************************************************)
(* From an approval to a purchase order, commit by commit.                  *)
(*                                                                          *)
(* A request calls auto_create_po_from_requisition (procurement_workflow.py) *)
(* in its own database session, at PostgreSQL's default isolation: the      *)
(* statements of concurrent requests interleave, each sees what is committed *)
(* when it runs, and the request's own writes are seen after its next commit. *)
(* There are up to seven commits on the way, and a request may die before    *)
(* any of them.  One PR, already past its approvers; what a request reads    *)
(* and writes of the engine is its answer, committed or not.                 *)
(***************************************************************************)
EXTENDS Integers, Sequences

CONSTANTS
  Requests,      \* calls of auto_create_po_from_requisition
  Answers,       \* those made by complete_task; the others by button, sweep, retry
  NoRequest,
  LineMixes,     \* sets of match policies that the PR's lines may have
  FirstNumbers,  \* may the numbering row of this period be missing?
  MaxCrashes     \* bound: requests that die

ASSUME OrderAssumption ==
  /\ Answers \subseteq Requests
  /\ NoRequest \notin Requests
  /\ LineMixes \subseteq (SUBSET {"auto", "manual", "two_way"}) \ {{}}
  /\ FirstNumbers \in (SUBSET BOOLEAN) \ {{}}
  /\ MaxCrashes \in Nat

VARIABLES
  lines,         \* the match policies of the PR's lines
  lifecycle,     \* committed lifecycle of the PR
  ready,         \* _po_creation_blockers finds nothing
  orders,        \* committed POs of the PR, oldest first
  row,           \* the numbering row of this period is committed
  counter,       \* its committed last_value
  drawn,         \* the number each request has read, 0 before
  holder,        \* the request whose transaction has that row locked
  pc,            \* where each request is
  stale,         \* requests that loaded the PR before it was "approved"
  lost,          \* requests whose session was rolled back under them
  late,          \* history: requests that came when the PR had a PO
  mine,          \* index of the PO the request committed, 0 before
  answered,      \* answers committed
  recorded,      \* answers with a committed ApprovalEvent
  crashes

numbering == <<row, counter, drawn, holder>>
session == <<stale, lost, late, mine>>
answers == <<answered, recorded>>
vars == <<lines, lifecycle, ready, orders, numbering, pc, session, answers, crashes>>

Points == {"idle", "loaded", "unnumbered", "inserting", "numbered", "created",
           "ordered", "received", "drafted", "mailed", "finishing", "done",
           "failed", "dead"}
Over == {"done", "failed", "dead"}

Order == [number : Nat, status : {"ordered", "fully_received", "partially_received",
                                  "closed", "sent_to_supplier"},
          lifecycle : {"draft", "ordered", "fully_received", "partially_received",
                       "closed", "sent_to_supplier"},
          receipts : SUBSET {"received", "draft"}, mailed : BOOLEAN,
          notified : BOOLEAN, by : Requests]

Go(r, point) == pc' = [pc EXCEPT ![r] = point]

(* The first commit of an answer carries it, and "approved" if that is news *)
AnswerCommitted(r) ==
  answered' = IF r \in Answers \ lost THEN answered \cup {r} ELSE answered

(* Both columns of the request's own PO *)
SetOrder(r, status) ==
  orders' = [orders EXCEPT ![mine[r]].status = status, ![mine[r]].lifecycle = status]

-----------------------------------------------------------------------------
Init ==
  /\ lines \in LineMixes
  /\ lifecycle = "pending_approval"
  /\ ready \in BOOLEAN
  /\ orders = <<>>
  /\ row \in {~missing : missing \in FirstNumbers}
  /\ counter = 0
  /\ drawn = [r \in Requests |-> 0]
  /\ holder = NoRequest
  /\ pc = [r \in Requests |-> "idle"]
  /\ stale = {} /\ lost = {} /\ late = {}
  /\ mine = [r \in Requests |-> 0]
  /\ answered = {} /\ recorded = {}
  /\ crashes = 0

(* The session loads the PR.  Button, sweep and retry find it approved. *)
Load(r) ==
  /\ pc[r] = "idle"
  /\ r \notin Answers => lifecycle # "pending_approval"
  /\ Go(r, "loaded")
  /\ stale' = IF r \in Answers /\ lifecycle # "approved" THEN stale \cup {r} ELSE stale
  /\ late' = IF orders # <<>> THEN late \cup {r} ELSE late
  /\ UNCHANGED <<lines, lifecycle, ready, orders, numbering, lost, mine, answers, crashes>>

(* mutant: the query for existing POs is left out *)
CheckBlockersOnly(r) ==
  /\ pc[r] = "loaded"
  /\ IF ready THEN Go(r, "unnumbered") /\ UNCHANGED <<lifecycle, answered>>
     ELSE /\ lifecycle' = "exception" /\ AnswerCommitted(r) /\ Go(r, "finishing")
  /\ UNCHANGED <<lines, ready, orders, numbering, session, recorded, crashes>>

(* A PO exists: nothing to do; two: the query raises.  Blockers: the PR is   *)
(* parked in "exception", and that commit carries the answer too.            *)
Check(r) ==
  /\ pc[r] = "loaded"
  /\ \/ Len(orders) = 1 /\ Go(r, "finishing") /\ UNCHANGED <<lifecycle, answered>>
     \/ Len(orders) > 1 /\ Go(r, "failed") /\ UNCHANGED <<lifecycle, answered>>
     \/ /\ orders = <<>> /\ ~ready
        /\ lifecycle' = "exception"
        /\ AnswerCommitted(r)
        /\ Go(r, "finishing")
     \/ orders = <<>> /\ ready /\ Go(r, "unnumbered") /\ UNCHANGED <<lifecycle, answered>>
  /\ UNCHANGED <<lines, ready, orders, numbering, session, recorded, crashes>>

Draw(r) == drawn' = [drawn EXCEPT ![r] = counter + 1]

(* mutant: the counter is read without FOR UPDATE *)
NumberUnlocked(r) ==
  /\ pc[r] = "unnumbered"
  /\ IF row THEN Draw(r) /\ Go(r, "numbered") ELSE UNCHANGED drawn /\ Go(r, "inserting")
  /\ UNCHANGED <<lines, lifecycle, ready, orders, row, counter, holder, session, answers, crashes>>

(* _next_sequence_value: SELECT ... FOR UPDATE waits for the row, if it is there *)
Number(r) ==
  /\ pc[r] = "unnumbered"
  /\ \/ /\ row /\ holder = NoRequest
        /\ holder' = r
        /\ Draw(r)
        /\ Go(r, "numbered")
     \/ /\ ~row
        /\ Go(r, "inserting")
        /\ UNCHANGED <<drawn, holder>>
  /\ UNCHANGED <<lines, lifecycle, ready, orders, row, counter, session, answers, crashes>>

(* The period's first number: a second INSERT waits for the first, and once  *)
(* that is committed it fails, the whole session is rolled back, and the     *)
(* row is read with FOR UPDATE after all.                                    *)
Insert(r) ==
  /\ pc[r] = "inserting"
  /\ holder = NoRequest
  /\ holder' = r
  /\ Draw(r)
  /\ lost' = IF row THEN lost \cup {r} ELSE lost
  /\ Go(r, "numbered")
  /\ UNCHANGED <<lines, lifecycle, ready, orders, row, counter, stale, late, mine, answers,
                 crashes>>

(* mutant: the PO is committed in a session of its own, before the answer *)
CreateApart(r) ==
  /\ pc[r] = "numbered"
  /\ orders' = Append(orders, [number |-> drawn[r], status |-> "ordered",
       lifecycle |-> "draft", receipts |-> {}, mailed |-> FALSE, notified |-> FALSE,
       by |-> r])
  /\ row' = TRUE /\ counter' = drawn[r]
  /\ holder' = NoRequest
  /\ mine' = [mine EXCEPT ![r] = Len(orders) + 1]
  /\ Go(r, "created")
  /\ UNCHANGED <<lines, lifecycle, ready, drawn, stale, lost, late, answers, crashes>>

(* create_purchase_order commits the PO, its number, the answer, and the PR *)
Create(r) ==
  /\ pc[r] = "numbered"
  /\ orders' = Append(orders, [number |-> drawn[r], status |-> "ordered",
       lifecycle |-> "draft", receipts |-> {}, mailed |-> FALSE, notified |-> FALSE,
       by |-> r])
  /\ row' = TRUE /\ counter' = drawn[r]
  /\ holder' = NoRequest
  /\ mine' = [mine EXCEPT ![r] = Len(orders) + 1]
  /\ lifecycle' = IF r \in stale \ lost THEN "approved" ELSE lifecycle
  /\ AnswerCommitted(r)
  /\ Go(r, "created")
  /\ UNCHANGED <<lines, ready, drawn, stale, lost, late, recorded, crashes>>

(* The second commit.  A rollback has expired the PR: reading its id raises. *)
MarkOrdered(r) ==
  /\ pc[r] = "created"
  /\ \/ /\ r \in lost
        /\ Go(r, "failed")
        /\ UNCHANGED <<lifecycle, orders>>
     \/ /\ r \notin lost
        /\ lifecycle' = "po_created"
        /\ SetOrder(r, "ordered")
        /\ Go(r, "ordered")
  /\ UNCHANGED <<lines, ready, numbering, session, answers, crashes>>

(* auto_create_receipts_for_ordered_po, up to the commit of its receipt *)
Receive(r) ==
  /\ pc[r] = "ordered"
  /\ \/ /\ lines = {"two_way"}
        /\ SetOrder(r, "fully_received")
     \/ /\ "auto" \in lines
        /\ LET status == IF "manual" \in lines THEN "partially_received"
                         ELSE "fully_received"
           IN orders' = [orders EXCEPT ![mine[r]].receipts = @ \cup {"received"},
                ![mine[r]].status = status, ![mine[r]].lifecycle = status]
     \/ /\ "auto" \notin lines /\ lines # {"two_way"}
        /\ UNCHANGED orders
  /\ Go(r, "received")
  /\ UNCHANGED <<lines, lifecycle, ready, numbering, session, answers, crashes>>

(* A full receipt closes the PO; lines for people get a draft receipt *)
CloseOrDraft(r) ==
  /\ pc[r] = "received"
  /\ \/ "manual" \in lines /\ orders' = [orders EXCEPT ![mine[r]].receipts = @ \cup {"draft"}]
     \/ "manual" \notin lines /\ "auto" \in lines /\ SetOrder(r, "closed")
     \/ lines = {"two_way"} /\ UNCHANGED orders
  /\ Go(r, "drafted")
  /\ UNCHANGED <<lines, lifecycle, ready, numbering, session, answers, crashes>>

(* The e-mail to the supplier; if it fails a notification says so *)
Mail(r) ==
  /\ pc[r] = "drafted"
  /\ \/ orders' = [orders EXCEPT ![mine[r]].mailed = TRUE] /\ Go(r, "mailed")
     \/ orders' = [orders EXCEPT ![mine[r]].notified = TRUE] /\ Go(r, "finishing")
  /\ UNCHANGED <<lines, lifecycle, ready, numbering, session, answers, crashes>>

(* The transition to "sent_to_supplier" is outside the try: it raises for a  *)
(* PO that the receipts have already moved on.                               *)
Dispatched(r) ==
  /\ pc[r] = "mailed"
  /\ \/ /\ orders[mine[r]].lifecycle = "ordered"
        /\ orders' = [orders EXCEPT ![mine[r]].status = "sent_to_supplier",
             ![mine[r]].lifecycle = "sent_to_supplier", ![mine[r]].notified = TRUE]
        /\ Go(r, "finishing")
     \/ /\ orders[mine[r]].lifecycle # "ordered"
        /\ Go(r, "failed")
        /\ UNCHANGED orders
  /\ UNCHANGED <<lines, lifecycle, ready, numbering, session, answers, crashes>>

(* Back in complete_task: the ApprovalEvent, and the last commit.  Without an *)
(* earlier one it carries the answer as well.                                *)
Finish(r) ==
  /\ pc[r] = "finishing"
  /\ AnswerCommitted(r)
  /\ recorded' = IF r \in Answers THEN recorded \cup {r} ELSE recorded
  /\ lifecycle' = IF r \in stale \ answered THEN "approved" ELSE lifecycle
  /\ Go(r, "done")
  /\ UNCHANGED <<lines, ready, orders, numbering, session, crashes>>

(* mutant: the row stays locked when its transaction ends without a commit *)
CrashHolding(r) ==
  /\ pc[r] \notin Over \cup {"idle"} /\ crashes < MaxCrashes
  /\ crashes' = crashes + 1
  /\ Go(r, "dead")
  /\ UNCHANGED <<lines, lifecycle, ready, orders, numbering, session, answers>>

(* The process dies: what is not committed is gone, the locks are free *)
Crash(r) ==
  /\ pc[r] \notin Over \cup {"idle"} /\ crashes < MaxCrashes
  /\ crashes' = crashes + 1
  /\ Go(r, "dead")
  /\ holder' = IF holder = r THEN NoRequest ELSE holder
  /\ UNCHANGED <<lines, lifecycle, ready, orders, row, counter, drawn, session, answers>>

(* The blocker is repaired: the supplier gets an e-mail address, ... *)
Repair ==
  /\ ~ready
  /\ ready' = TRUE
  /\ UNCHANGED <<lines, lifecycle, orders, numbering, pc, session, answers, crashes>>

Proceed(r) ==
  \/ Check(r) \/ Number(r) \/ Insert(r) \/ Create(r) \/ MarkOrdered(r)
  \/ Receive(r) \/ CloseOrDraft(r) \/ Mail(r) \/ Dispatched(r) \/ Finish(r)

Next == Repair \/ \E r \in Requests : Load(r) \/ Proceed(r) \/ Crash(r)

Spec == Init /\ [][Next]_vars

(* A request that is running goes on; whether one is sent is up to people *)
FairSpec == Spec /\ \A r \in Requests : WF_vars(Proceed(r))

-----------------------------------------------------------------------------
(***************************************************************************)
(* Properties                                                               *)
(***************************************************************************)
(* Every variable stays in its domain. *)
TypeOK ==
  /\ lines \in LineMixes
  /\ lifecycle \in {"pending_approval", "approved", "exception", "po_created"}
  /\ ready \in BOOLEAN /\ row \in BOOLEAN
  /\ orders \in Seq(Order)
  /\ counter \in Nat /\ crashes \in 0 .. MaxCrashes
  /\ holder \in Requests \cup {NoRequest}
  /\ pc \in [Requests -> Points]
  /\ stale \subseteq Requests /\ lost \subseteq Requests /\ late \subseteq Requests
  /\ mine \in [Requests -> Nat] /\ drawn \in [Requests -> Nat]
  /\ answered \subseteq Answers /\ recorded \subseteq Answers

(* Order numbers are the sequence 1, 2, ...: the row lock keeps two requests *)
(* from taking one number, a death gives its number back.                    *)
NumbersInSequence == \A n \in DOMAIN orders : orders[n].number = n

(* Whoever waits for the numbering row gets it: a running request ends.      *)
RequestsEnd == \A r \in Requests : pc[r] = "loaded" ~> pc[r] \in Over

(* What follows from an approval stands on it: the audit trail never shows an    *)
(* approval that is not in the task table, and the PO of an approval has that    *)
(* answer committed, also when requests cross or die; but not when the race for  *)
(* a period's first number was lost, which rolls the approver's answer back      *)
(* with it.                                                                  *)
StandsOnAnswers ==
  /\ recorded \subseteq answered
  /\ \A n \in DOMAIN orders : orders[n].by \in Answers \ lost => orders[n].by \in answered

(* A call that finds the PR with a PO makes no other one, whoever died or was *)
(* rolled back before: look-up and blockers are all that keeps the calls      *)
(* idempotent.                                                               *)
LateCallsOrderNothing == \A n \in DOMAIN orders : orders[n].by \notin late

=============================================================================
