----------------------------- MODULE OrderChanges -----------------------------
(***************************************************************************)
(* A requisition that is changed after its order was made, and approved       *)
(* again: services/procurement_versioning.py, the change control in front of  *)
(* it, and the line and amendment requests of the two documents.             *)
(*                                                                          *)
(* A request that only reads and writes one row is one step.  An edit of a    *)
(* line and a new approval read the receipts and invoices first and commit    *)
(* later: "desk" holds what they are about to write.                         *)
(*                                                                          *)
(* Of the workflow engine this keeps whether it asks anybody about the        *)
(* requisition, and how its approval and its rejection end.                  *)
(***************************************************************************)
EXTENDS Naturals, Sequences, FiniteSets

CONSTANTS
  Items,           \* lines of the requisition
  TwoWay,          \* those matched without a receipt
  Prices,          \* unit prices
  Vendors,         \* suppliers
  Terms,           \* what else the header carries over: currency and notes
  Requesters,      \* users, one request each at a time
  Unlinked,        \* an order line whose requisition line is gone, or never was
  TypedLines,      \* bound: the lines clients type for an order, as item, quantity, price
  MaxQuantity,     \* bound: quantities
  MaxOrders,       \* bound: orders of the requisition
  MaxOrderLines,   \* bound: lines of an order
  MaxChangeCalls   \* bound: requests begun in all

ASSUME ChangesAssumption ==
  /\ IsFiniteSet(Items) /\ Unlinked \notin Items /\ TwoWay \subseteq Items
  /\ {MaxQuantity, MaxOrders, MaxOrderLines, MaxChangeCalls} \subseteq Nat \ {0}
  /\ TypedLines \subseteq [item : Items \cup {Unlinked}, quantity : 1..MaxQuantity, price : Prices]

VARIABLES
  demand,       \* the requisition's lines: a function on those it has
  header,       \* its supplier and terms
  stage,        \* its lifecycle_status
  inApproval,        \* a workflow instance waits for approvers
  version,      \* its version_number
  orders,       \* its purchase orders, oldest first
  desk,         \* per editor: the request under way
  undisturbed,  \* history: editors whose request nobody else's has overlapped
  agreed,       \* history: the engine's approval made the order, or the Approve
                \* button's went through undisturbed; and since then no line of the
                \* requisition was changed, and no client ordered it in its own figures
  changeCalls   \* requests begun (bound)

changeVars == <<demand, header, stage, inApproval, version, orders, desk, undisturbed, agreed, changeCalls>>

LineQuantities == 1..MaxQuantity
LineFields == {"quantity", "price"}

\* The requisition states the requests around an order tell apart.
ReadOnly == {"po_created", "closed", "cancelled", "rejected"}
Reopened == {"submitted", "pending_approval", "approved"}
ReqStages == ReadOnly \cup Reopened \cup {"draft"}

Cancellable == {"draft"} \cup Reopened

\* PO_TERMINAL_LIFECYCLE, and the states that count as done for a change.
Terminal == {"fully_received", "invoiced", "closed", "cancelled"}
FullyDone == {"fully_received", "invoiced", "closed"}
OrderStates == {"draft", "ordered", "partially_received", "reopened"} \cup Terminal

-----------------------------------------------------------------------------
(***************************************************************************)
(* The state of an order line, derived from receipts and invoices            *)
(***************************************************************************)
\* derive_receiving_state and derive_invoicing_state: none, part or all of it.
Share(done, ordered) ==
  CASE done = 0 -> "none" [] done >= ordered -> "all" [] OTHER -> "part"

Untouched(line) == line.received = 0 /\ line.invoiced = 0
LineLocked(line) ==
  \/ Share(line.received, line.quantity) = "all"
  \/ Share(line.invoiced, line.quantity) = "all"

\* validate_line_change lets the new value through.
Changeable(line, field, value) ==
  \/ Untouched(line)
  \/ /\ ~ LineLocked(line)
     /\ field = "quantity" => value >= line.received /\ value >= line.invoiced

\* Where a requisition line is ordered: places, as <<order, line>>.
Places(i) == UNION {{<<n, k>> : k \in {l \in DOMAIN orders[n].lines : orders[n].lines[l].item = i}} :
                    n \in DOMAIN orders}
LineAt(at) == orders[at[1]].lines[at[2]]

\* validate_po_change
MayChange(order) == order.state \notin Terminal

\* get_pr_edit_blockers
Editable ==
  /\ stage \notin ReadOnly
  /\ \A n \in DOMAIN orders : ~ orders[n].stocked /\ ~ orders[n].billed

-----------------------------------------------------------------------------
Nobody == [step |-> "idle"]
Busy == {e \in Requesters : desk[e] # Nobody}

\* A request begins: it and the ones under way overlap from now on.
Opens(e) ==
  /\ desk[e] = Nobody
  /\ changeCalls < MaxChangeCalls /\ changeCalls' = changeCalls + 1
  /\ undisturbed' = IF Busy = {} THEN undisturbed \cup {e} ELSE undisturbed \ (Busy \cup {e})

\* A request that is one step.
AtOnce(e) == Opens(e) /\ UNCHANGED desk

FreshOrder(lines, vendor, terms, state, stocked) ==
  [lines |-> lines, vendor |-> vendor, terms |-> terms, state |-> state, version |-> 1,
   change |-> "original", stocked |-> stocked, billed |-> FALSE, totalled |-> TRUE]

OrderLine(i, quantity, price) ==
  [item |-> i, quantity |-> quantity, price |-> price, received |-> 0, invoiced |-> 0,
   needed |-> i \notin TwoWay]

\* A function's domain in some order: lines are numbered as they are found.
Numbered(S) == CHOOSE s \in [1..Cardinality(S) -> S] : \A j, k \in DOMAIN s : s[j] = s[k] => j = k

ChangesInit ==
  /\ demand \in [Items -> [quantity : LineQuantities, price : Prices]]
  /\ header \in [vendor : Vendors, terms : Terms]
  /\ inApproval \in BOOLEAN
  /\ stage = IF inApproval THEN "pending_approval" ELSE "submitted"
  /\ version = 1
  /\ orders = << >>
  /\ desk = [e \in Requesters |-> Nobody]
  /\ undisturbed = {}
  /\ agreed = FALSE
  /\ changeCalls = 0

-----------------------------------------------------------------------------
(***************************************************************************)
(* The requisition                                                          *)
(***************************************************************************)
\* add_requisition_line_item: no change control, and no look at the order.
AddItem(e, i, q, p) ==
  /\ AtOnce(e)
  /\ i \in Items \ DOMAIN demand
  /\ demand' = [j \in DOMAIN demand \cup {i} |->
                  IF j = i THEN [quantity |-> q, price |-> p] ELSE demand[j]]
  /\ version' = version + 1
  /\ agreed' = FALSE
  /\ UNCHANGED <<header, stage, inApproval, orders>>

\* update_requisition_line_item: what it reads.  Two order lines for one
\* requisition line make the look-up raise.
EditItem(e, i, field, value) ==
  /\ Opens(e)
  /\ i \in DOMAIN demand /\ Cardinality(Places(i)) <= 1
  /\ \A at \in Places(i) : Changeable(LineAt(at), field, value)
  /\ desk' = [desk EXCEPT ![e] = [step |-> "edit", item |-> i, field |-> field, value |-> value,
                                  version |-> version + 1]]
  /\ UNCHANGED <<demand, header, stage, inApproval, version, orders, agreed>>

\* ... and its commit: the one column, wherever the row is now.
SaveItem(e) ==
  /\ desk[e].step = "edit"
  /\ LET d == desk[e] IN
       IF d.item \in DOMAIN demand
       THEN /\ demand' = [demand EXCEPT ![d.item][d.field] = d.value]
            /\ version' = d.version
       ELSE UNCHANGED <<demand, version>>
  /\ desk' = [desk EXCEPT ![e] = Nobody]
  /\ agreed' = FALSE
  /\ UNCHANGED <<header, stage, inApproval, orders, undisturbed, changeCalls>>

\* remove_requisition_line_item; the foreign key of the order line is set null.
RemoveItem(e, i) ==
  /\ AtOnce(e)
  /\ i \in DOMAIN demand /\ Cardinality(Places(i)) <= 1
  /\ \A at \in Places(i) : ~ LineLocked(LineAt(at))
  /\ demand' = [j \in DOMAIN demand \ {i} |-> demand[j]]
  /\ orders' = [n \in DOMAIN orders |->
                 [orders[n] EXCEPT !.lines = [k \in DOMAIN orders[n].lines |->
                   IF orders[n].lines[k].item = i THEN [orders[n].lines[k] EXCEPT !.item = Unlinked]
                   ELSE orders[n].lines[k]]]]
  /\ version' = version + 1
  /\ UNCHANGED <<header, stage, inApproval, agreed>>

\* update_requisition: a change of the supplier asks for a new approval.
EditHeader(e, new) ==
  /\ AtOnce(e)
  /\ new # header /\ Editable
  /\ header' = new
  /\ stage' = IF new.vendor # header.vendor /\ stage \in Reopened THEN "pending_approval" ELSE stage
  /\ version' = version + 1
  /\ UNCHANGED <<demand, inApproval, orders, agreed>>

\* The transition to "submitted": an instance asks, if there is a definition.
Submit(e) ==
  /\ AtOnce(e)
  /\ \/ stage' = "submitted" /\ UNCHANGED inApproval
     \/ stage' = "pending_approval" /\ inApproval' = TRUE
  /\ UNCHANGED <<demand, header, version, orders, agreed>>

\* Any other transition but to "approved": no instance is told.
OtherTransition(e) ==
  /\ AtOnce(e)
  /\ stage' \in {"pending_approval", "rejected", "closed", "cancelled"}
  /\ stage' = "cancelled" => stage \in Cancellable /\ orders = << >>
  /\ UNCHANGED <<demand, header, inApproval, version, orders, agreed>>

-----------------------------------------------------------------------------
(***************************************************************************)
(* A new approval: the transition, the order if there is none, and what the  *)
(* requisition changed                                                      *)
(***************************************************************************)
Becomes(e, d) == desk' = [desk EXCEPT ![e] = d]

\* The request has answered with success.
Succeeds(e) == Becomes(e, Nobody) /\ agreed' = (agreed \/ e \in undisturbed)

\* The Approve button, refused while an instance waits for approvers.
\* transition_requisition has no "from" states, and commits.
Approve(e) ==
  /\ ~ inApproval
  /\ Opens(e)
  /\ stage' = "approved"
  /\ Becomes(e, [step |-> "order"])
  /\ UNCHANGED <<demand, header, inApproval, version, orders, agreed>>

\* The lines of the requisition, as the lines of an order.
LinesWanted ==
  LET items == Numbered(DOMAIN demand)
  IN [k \in DOMAIN items |-> OrderLine(items[k], demand[items[k]].quantity, demand[items[k]].price)]

\* The order auto_create_po_from_requisition makes.  A draft receipt is made with
\* it; an order of which nothing is to be received counts as received.
AutoOrder ==
  FreshOrder(LinesWanted, header.vendor, header.terms,
             IF DOMAIN demand \in SUBSET TwoWay \ {{}} THEN "fully_received" ELSE "ordered",
             ~ (DOMAIN demand \subseteq TwoWay))

\* An instance completes, by its last answer or because it asks nobody: the order,
\* if there is none.  The order that exists is compared with nothing; if there are
\* two, the exception rolls the answer back.
EngineApproves(e) ==
  /\ AtOnce(e)
  /\ inApproval' \in {FALSE, inApproval}
  /\ \/ /\ orders = << >>
        /\ orders' = <<AutoOrder>> /\ stage' = "po_created" /\ agreed' = TRUE
     \/ /\ Len(orders) = 1
        /\ stage' = "approved" /\ UNCHANGED <<orders, agreed>>
  /\ UNCHANGED <<demand, header, version>>

\* An approver turns the requisition down.
EngineRejects(e) ==
  /\ inApproval
  /\ AtOnce(e)
  /\ stage' = "rejected" /\ inApproval' \in BOOLEAN
  /\ UNCHANGED <<demand, header, version, orders, agreed>>

\* convert_requisition_to_purchase_order looks at neither state nor orders: a draft
\* of the requisition's lines, if the client sends none, or of what the client
\* typed.  The page's lines name no line of the requisition, another client's may.
ConvertToPO(e) ==
  /\ AtOnce(e)
  /\ Len(orders) < MaxOrders
  /\ \E vendor \in Vendors, terms \in Terms :
       \/ /\ orders' = Append(orders, FreshOrder(LinesWanted, vendor, terms, "draft", FALSE))
          /\ UNCHANGED agreed
       \/ \E typed \in TypedLines :
            /\ orders' = Append(orders, FreshOrder(<<OrderLine(typed.item, typed.quantity, typed.price)>>,
                                                   vendor, terms, "draft", FALSE))
            /\ agreed' = (agreed /\ typed.item = Unlinked)
  /\ UNCHANGED <<demand, header, stage, inApproval, version>>

\* auto_create_po_from_requisition: nothing if there is an order, an exception
\* if there are two.
OrderOnce(e) ==
  /\ desk[e].step = "order"
  /\ \/ /\ orders = << >>
        /\ orders' = <<AutoOrder>>
        /\ stage' = "po_created"
        /\ Becomes(e, [step |-> "compare"])
     \/ /\ Len(orders) = 1
        /\ Becomes(e, [step |-> "compare"])
        /\ UNCHANGED <<orders, stage>>
     \/ /\ Len(orders) > 1
        /\ Becomes(e, Nobody)
        /\ UNCHANGED <<orders, stage>>
  /\ UNCHANGED <<demand, header, inApproval, version, undisturbed, agreed, changeCalls>>

\* diff_pr_vs_po: the order lines that differ, with the fields in which they do.
Differs(order) ==
  {at \in (DOMAIN order.lines) \X LineFields :
     LET line == order.lines[at[1]]
     IN line.item \in DOMAIN demand /\ demand[line.item][at[2]] # line[at[2]]}

Activity(order) == order.state \in FullyDone \/ order.state = "partially_received"
                     \/ order.stocked \/ order.billed

\* decide_po_amend_or_split
Splits(order) ==
  Activity(order) /\ (header.vendor # order.vendor \/ order.state \in FullyDone)

\* What one of the order's lines does not take.
Refused(order) ==
  {at \in Differs(order) :
     ~ Changeable(order.lines[at[1]], at[2], demand[order.lines[at[1]].item][at[2]])}

\* mutant: what a line refuses is passed over
AppliedWhereAllowed(order) == Differs(order) \ Refused(order)

\* The changes an amendment makes: all of them, or it raises.
Applied(order) == Differs(order)

\* The comparison with the newest order, and the decision.
Compare(e) ==
  /\ desk[e].step = "compare"
  /\ LET n == Len(orders)  order == orders[n] IN
     \/ /\ ~ Splits(order) /\ Refused(order) \cap Applied(order) = {}
        /\ IF Applied(order) = {} /\ header.terms = order.terms
           THEN Succeeds(e)
           ELSE /\ Becomes(e, [step |-> "amend", order |-> n, version |-> order.version + 1,
                               terms |-> header.terms,
                               new |-> [at \in Applied(order) |->
                                          demand[order.lines[at[1]].item][at[2]]]])
                /\ UNCHANGED agreed
     \/ /\ ~ Splits(order) /\ Refused(order) \cap Applied(order) # {}   \* an exception
        /\ Becomes(e, Nobody)
        /\ UNCHANGED agreed
     \/ /\ Splits(order)
        /\ LET moving == {at[1] : at \in Differs(order)} IN
             IF moving = {} THEN Succeeds(e)
             ELSE /\ Becomes(e, [step |-> "split", order |-> n, vendor |-> header.vendor,
                                 terms |-> header.terms,
                                 lines |-> [k \in moving |-> OrderLine(order.lines[k].item,
                                              demand[order.lines[k].item].quantity,
                                              demand[order.lines[k].item].price)]])
                  /\ UNCHANGED agreed
  /\ UNCHANGED <<demand, header, stage, inApproval, version, orders, undisturbed, changeCalls>>

\* apply_pr_changes_to_po: the commit, with the totals recomputed.
AmendOrder(e) ==
  /\ desk[e].step = "amend"
  /\ LET d == desk[e]
         New(k, field, old) == IF <<k, field>> \in DOMAIN d.new THEN d.new[<<k, field>>] ELSE old
         lines == [k \in DOMAIN orders[d.order].lines |->
                    [orders[d.order].lines[k] EXCEPT !.quantity = New(k, "quantity", @),
                                                     !.price = New(k, "price", @)]] IN
       orders' = [orders EXCEPT ![d.order] =
         [orders[d.order] EXCEPT !.version = d.version, !.change = "amendment", !.terms = d.terms,
                                 !.totalled = TRUE, !.lines = lines]]
  /\ Succeeds(e)
  /\ UNCHANGED <<demand, header, stage, inApproval, version, undisturbed, changeCalls>>

\* split_purchase_order_from_pr: the new order is committed first ...
SplitOrder(e) ==
  /\ desk[e].step = "split"
  /\ Len(orders) < MaxOrders
  /\ LET d == desk[e]  moved == Numbered(DOMAIN d.lines) IN
       /\ orders' = Append(orders, FreshOrder([k \in DOMAIN moved |-> d.lines[moved[k]]],
                                              d.vendor, d.terms, "draft", FALSE))
       /\ Becomes(e, [step |-> "note", order |-> d.order])
  /\ UNCHANGED <<demand, header, stage, inApproval, version, undisturbed, agreed, changeCalls>>

\* ... and noted on the old one, whose lines stay where they are.
NoteSplit(e) ==
  /\ desk[e].step = "note"
  /\ orders' = [orders EXCEPT ![desk[e].order] =
                 [orders[desk[e].order] EXCEPT !.version = @ + 1, !.change = "split"]]
  /\ Succeeds(e)
  /\ UNCHANGED <<demand, header, stage, inApproval, version, undisturbed, changeCalls>>

\* A request ends between two of its commits.
Dies(e) ==
  /\ desk[e] # Nobody
  /\ Becomes(e, Nobody)
  /\ UNCHANGED <<demand, header, stage, inApproval, version, orders, undisturbed, agreed, changeCalls>>

-----------------------------------------------------------------------------
(***************************************************************************)
(* The order                                                                *)
(***************************************************************************)
\* amend_purchase_order
AmendByHand(e, n) ==
  /\ AtOnce(e)
  /\ MayChange(orders[n])
  /\ orders' = [orders EXCEPT ![n] = [orders[n] EXCEPT !.version = @ + 1, !.change = "amendment"]]
  /\ UNCHANGED <<demand, header, stage, inApproval, version, agreed>>

\* add_purchase_order_line_item: the order's totals are left as they are.
AddOrderLine(e, n, q, p) ==
  /\ AtOnce(e)
  /\ MayChange(orders[n]) /\ Cardinality(DOMAIN orders[n].lines) < MaxOrderLines
  /\ orders' = [orders EXCEPT ![n] =
                 [orders[n] EXCEPT !.lines = Append(@, OrderLine(Unlinked, q, p)), !.totalled = FALSE]]
  /\ UNCHANGED <<demand, header, stage, inApproval, version, agreed>>

\* A receipt of a line: the order's state follows what was received of all of
\* them, and a complete order may be closed with it.
Receive(e, n, k, q) ==
  /\ AtOnce(e)
  /\ k \in DOMAIN orders[n].lines /\ orders[n].lines[k].received + q <= MaxQuantity
  /\ LET lines == [orders[n].lines EXCEPT ![k].received = @ + q]
         awaited == {l \in DOMAIN lines : lines[l].needed} IN
     \E state \in CASE \A l \in awaited : lines[l].received = 0 -> {orders[n].state}
                    [] \A l \in awaited : lines[l].received >= lines[l].quantity
                         -> {"fully_received", "closed"}
                    [] OTHER -> {"partially_received"} :
       orders' = [orders EXCEPT ![n] = [orders[n] EXCEPT !.lines = lines, !.stocked = TRUE,
                                                         !.state = state]]
  /\ UNCHANGED <<demand, header, stage, inApproval, version, agreed>>

\* An invoice for a line: the order is "invoiced" whatever it was.
Bill(e, n, k, q) ==
  /\ AtOnce(e)
  /\ k \in DOMAIN orders[n].lines /\ orders[n].lines[k].invoiced + q <= MaxQuantity
  /\ LET lines == [orders[n].lines EXCEPT ![k].invoiced = @ + q] IN
       orders' = [orders EXCEPT ![n] = [orders[n] EXCEPT !.lines = lines, !.billed = TRUE,
                                                         !.state = "invoiced"]]
  /\ UNCHANGED <<demand, header, stage, inApproval, version, agreed>>

\* What is still to be received of an order.
Awaited(order) ==
  {k \in DOMAIN order.lines : order.lines[k].needed /\ order.lines[k].received < order.lines[k].quantity}

\* auto_create_receipts_for_ordered_po: there is no receipt, and none will be needed.
NoneExpected(order) ==
  /\ ~ order.stocked /\ order.lines # << >>
  /\ \A k \in DOMAIN order.lines : ~ order.lines[k].needed

\* transition_purchase_order_lifecycle, without its gates: a draft is ordered, with
\* a draft receipt, an order is cancelled with its requisition, closed, or opened
\* again.
OrderMoves ==
  [draft |-> {"ordered"}, ordered |-> {"cancelled"},
   partially_received |-> {"closed", "cancelled"},
   fully_received |-> {"closed"}, invoiced |-> {"closed"},
   closed |-> {"reopened"}, cancelled |-> {"reopened"},
   reopened |-> {"ordered", "partially_received", "fully_received", "cancelled"}]

MoveOrder(e, n) ==
  /\ AtOnce(e)
  /\ \E state \in OrderMoves[orders[n].state] :
       LET amends == state \in {"cancelled", "closed", "reopened"} IN
       /\ orders' = [orders EXCEPT ![n] =
                      [orders[n] EXCEPT !.state = IF state = "ordered" /\ NoneExpected(orders[n])
                                                  THEN "fully_received" ELSE state,
                                        !.stocked = @ \/ (state = "ordered" /\ Awaited(orders[n]) # {}),
                                        !.version = IF amends THEN @ + 1 ELSE @,
                                        !.change = IF amends THEN state ELSE @]]
       /\ stage' = IF state = "cancelled" /\ stage \notin {"cancelled", "closed", "rejected"}
                   THEN "cancelled" ELSE stage
  /\ UNCHANGED <<demand, header, inApproval, version, agreed>>

-----------------------------------------------------------------------------
ChangesNext == \E e \in Requesters :
  \/ \E i \in Items :
       \/ \E q \in LineQuantities, p \in Prices : AddItem(e, i, q, p)
       \/ \E q \in LineQuantities : EditItem(e, i, "quantity", q)
       \/ \E p \in Prices : EditItem(e, i, "price", p)
       \/ RemoveItem(e, i)
  \/ SaveItem(e)
  \/ \E new \in [vendor : Vendors, terms : Terms] : EditHeader(e, new)
  \/ Submit(e) \/ OtherTransition(e) \/ EngineApproves(e) \/ EngineRejects(e)
  \/ ConvertToPO(e) \/ Approve(e) \/ OrderOnce(e) \/ Compare(e) \/ AmendOrder(e)
  \/ SplitOrder(e) \/ NoteSplit(e) \/ Dies(e)
  \/ \E n \in DOMAIN orders :
       \/ AmendByHand(e, n) \/ MoveOrder(e, n)
       \/ \E q \in LineQuantities, p \in Prices : AddOrderLine(e, n, q, p)
       \/ \E k \in 1..MaxOrderLines, q \in LineQuantities : Receive(e, n, k, q) \/ Bill(e, n, k, q)

ChangesSpec == ChangesInit /\ [][ChangesNext]_changeVars

-----------------------------------------------------------------------------
OrderLines == [item : Items \cup {Unlinked}, quantity : LineQuantities, price : Prices,
               received : 0..MaxQuantity, invoiced : 0..MaxQuantity, needed : BOOLEAN]
OrderRows == [lines : Seq(OrderLines), vendor : Vendors, terms : Terms, state : OrderStates,
              version : Nat, change : {"original", "amendment", "split", "cancelled", "closed", "reopened"},
              stocked : BOOLEAN, billed : BOOLEAN, totalled : BOOLEAN]

\* The type invariant.
ChangesTypeOK ==
  /\ DOMAIN demand \subseteq Items
  /\ demand \in [DOMAIN demand -> [quantity : LineQuantities, price : Prices]]
  /\ header \in [vendor : Vendors, terms : Terms]
  /\ stage \in ReqStages /\ inApproval \in BOOLEAN /\ version \in Nat /\ agreed \in BOOLEAN
  /\ undisturbed \subseteq Requesters /\ changeCalls \in 0..MaxChangeCalls
  /\ orders \in Seq(OrderRows) /\ Len(orders) <= MaxOrders
  /\ \A e \in Requesters : desk[e].step \in {"idle", "edit", "order", "compare", "amend", "split", "note"}

\* A requisition that the Approve button approved again with success stands on its
\* orders as it is: of every line it has and that was ordered, the newest order that
\* holds it holds its quantity and its price - whatever was received, invoiced,
\* closed or amended in between, whether the order was amended or split, and
\* whatever the engine approves or a page converts after that.  An approval that
\* another editor's request overlapped is not held to it, and neither is one of the
\* engine's that finds an order: it leaves the order as it was.
ReapprovalSettles ==
  agreed => \A i \in DOMAIN demand : \A at \in Places(i) :
              (\A other \in Places(i) : other[1] <= at[1]) =>
                 \A f \in LineFields : LineAt(at)[f] = demand[i][f]
=============================================================================
