---------------------------- MODULE BudgetControl ----------------------------
(***************************************************************************)
(* Budgets, and the amounts committed and spent against them               *)
(* (crud/budget.py), with the accounting splits of order and invoice lines  *)
(* (crud/accounting_split.py) and the budget check when an order is         *)
(* approved (crud/procurement.py).  No balance is stored: each check sums   *)
(* the splits of orders and invoices anew, and the approval it allows is    *)
(* committed later.                                                        *)
(*                                                                         *)
(* An order has one line of LineTotal; the budgets are for one fiscal       *)
(* period, and all orders and invoices fall into it.                       *)
(***************************************************************************)
EXTENDS Integers, Sequences, FiniteSets, FiniteSetsExt, Functions

CONSTANTS
  Orders,          \* purchase orders of one line each
  Accounts,        \* GL accounts with a budget
  LineTotal,       \* line_total of every order line
  SplitLists,      \* accounting splits a line may be given
  InvoiceTotals,   \* line totals an invoice may have
  BudgetAmounts,   \* amounts a budget may be given
  Approvers,       \* users approving orders, one request each at a time
  MaxInvoices,     \* bound: invoices in all
  MaxBudgetCalls   \* bound: requests in all

VARIABLES
  orders,       \* state and splits of each order
  invoices,     \* invoice lines: order, line total, copied splits, counted
  budget,       \* amount and enforcement of each account's budget
  approval,     \* per approver: the approval in progress, or NoApproval
  budgetCalls,  \* requests so far (bound)
  causes        \* history: what raised a commitment without a valid check

budgetVars == <<orders, invoices, budget, approval, budgetCalls, causes>>

\* A split gives an account an amount, or a number of halves of the line.
Splits == [account : Accounts, method : {"amount", "percentage"}, share : Nat]
Halves == 2

\* _validate_splits: one method, and the line in full.
Shares(splits) == SumFunctionOnSet([i \in DOMAIN splits |-> splits[i].share], DOMAIN splits)
ValidSplits(splits) ==
  /\ splits # << >>
  /\ \/ (\A i \in DOMAIN splits : splits[i].method = "percentage") /\ Shares(splits) = Halves
     \/ (\A i \in DOMAIN splits : splits[i].method = "amount") /\ Shares(splits) = LineTotal

ASSUME BudgetAssumption ==
  /\ IsFiniteSet(Orders) /\ IsFiniteSet(Accounts)
  /\ \A list \in SplitLists : list \in Seq(Splits) /\ ValidSplits(list)
  /\ BudgetAmounts \subseteq Nat /\ InvoiceTotals \subseteq Nat
  /\ LineTotal \in Nat /\ MaxInvoices \in Nat /\ MaxBudgetCalls \in Nat

\* The lifecycle as far as the budget tells it apart: "pending" is draft and
\* pending_approval, "open" everything from approved to fully_received, "done"
\* closed and cancelled.
OrderStates == {"none", "pending", "open", "invoiced", "done", "reopened"}

NoApproval == [step |-> "none"]

BudgetInit ==
  /\ orders = [o \in Orders |-> [state |-> "none", splits |-> << >>]]
  /\ invoices = << >>
  /\ budget \in [Accounts -> [amount : BudgetAmounts, hard : {TRUE}]]
  /\ approval = [u \in Approvers |-> NoApproval]
  /\ budgetCalls = 0
  /\ causes = {}

----------------------------------------------------------------------------
\* resolve_split_amount
Resolved(split, total) ==
  IF split.method = "amount" THEN split.share ELSE (total * split.share) \div Halves

\* What the splits of a line give an account.
SplitsOf(splits, a) == {i \in DOMAIN splits : splits[i].account = a}
OfAccount(splits, total, a) ==
  SumFunctionOnSet([i \in DOMAIN splits |-> Resolved(splits[i], total)], SplitsOf(splits, a))

\* What an invoice takes of its line: its own total, or, if the line is split by
\* amount, all the amounts it got a copy of, however little it bills.
ByAmounts(splits) == \E i \in DOMAIN splits : splits[i].method = "amount"
Takes(splits, total) == IF ByAmounts(splits) THEN Shares(splits) ELSE total
TakenBy(is, S) == SumFunctionOnSet([i \in DOMAIN is |-> Takes(is[i].splits, is[i].total)], S)

\* _invoiced_amount_for_po_line, compute_actual: the invoices whose match
\* status is matched or matched_with_variance.
Counted(o) == {i \in DOMAIN invoices : invoices[i].order = o /\ invoices[i].counted}
InvoicedFor(o, a) ==
  SumFunctionOnSet([i \in DOMAIN invoices |-> OfAccount(invoices[i].splits, invoices[i].total, a)],
                   Counted(o))
\* COMMITTED_LIFECYCLE_STATUSES
CommittedStates == {"open", "invoiced"}

\* compute_committed, for one order: from each of its splits, what was invoiced
\* for the whole line is taken off.
Remaining(o, a) ==
  LET splits == orders[o].splits IN
  SumFunctionOnSet([i \in DOMAIN splits |-> Max({0, Resolved(splits[i], LineTotal) - InvoicedFor(o, a)})],
                   SplitsOf(splits, a))

Committed(a) ==
  SumFunctionOnSet([o \in Orders |-> Remaining(o, a)],
                   {o \in Orders : orders[o].state \in CommittedStates})
Actual(a) == SumFunctionOnSet([o \in Orders |-> InvoicedFor(o, a)], Orders)

\* Mutant: the order's own amount is forgotten.
BlockedWhenSpent(o, committed) ==
  {a \in Accounts : /\ \E i \in DOMAIN orders[o].splits : orders[o].splits[i].account = a
                    /\ budget[a].hard
                    /\ 0 > budget[a].amount - committed[a] - Actual(a)}

\* The accounts of an order whose check would be a hard block, given what was
\* read as committed; only accounts the order has splits for are asked.
Blocked(o, committed) ==
  {a \in Accounts : /\ \E i \in DOMAIN orders[o].splits : orders[o].splits[i].account = a
                    /\ budget[a].hard
                    /\ OfAccount(orders[o].splits, LineTotal, a) > budget[a].amount - committed[a] - Actual(a)}

----------------------------------------------------------------------------
BudgetCall == budgetCalls < MaxBudgetCalls /\ budgetCalls' = budgetCalls + 1

\* The approvals in progress, after somebody changed what they read.
Outdated == [u \in Approvers |-> IF approval[u] = NoApproval THEN NoApproval
                                 ELSE [approval[u] EXCEPT !.fresh = FALSE]]

\* create_purchase_order, with the splits of the requisition's line.
CreateOrder(o, splits) ==
  /\ BudgetCall
  /\ orders[o].state = "none"
  /\ orders' = [orders EXCEPT ![o] = [state |-> "pending", splits |-> splits]]
  /\ UNCHANGED <<invoices, budget, approval, causes>>

\* The order of an approved requisition is "ordered" from the start: its
\* approval is the requisition's, and no budget is asked.
AutoCreateOrder(o, splits) ==
  /\ BudgetCall
  /\ orders[o].state = "none"
  /\ orders' = [orders EXCEPT ![o] = [state |-> "open", splits |-> splits]]
  /\ approval' = Outdated
  /\ causes' = causes \cup {"auto"}
  /\ UNCHANGED <<invoices, budget>>

\* PUT .../line-items/{id}/splits: in any state of the order.
SetSplits(o, splits) ==
  /\ BudgetCall
  /\ orders[o].state # "none" /\ orders[o].splits # splits
  /\ orders' = [orders EXCEPT ![o].splits = splits]
  /\ approval' = Outdated
  /\ causes' = IF orders[o].state = "pending" THEN causes ELSE causes \cup {"splits"}
  /\ UNCHANGED <<invoices, budget>>

\* create_budget and update_budget.
SetBudget(a, amount, hard) ==
  /\ BudgetCall
  /\ budget' = [budget EXCEPT ![a] = [amount |-> amount, hard |-> hard]]
  /\ budget' # budget
  /\ approval' = Outdated
  /\ causes' = causes \cup {"budget"}
  /\ UNCHANGED <<orders, invoices>>

----------------------------------------------------------------------------
\* transition_purchase_order_lifecycle to approved, with
\* _check_po_budget_on_approval: the sum of the commitments,
BeginApprove(u, o) ==
  /\ BudgetCall
  /\ approval[u] = NoApproval /\ orders[o].state = "pending"
  /\ approval' = [approval EXCEPT ![u] = [step |-> "read", order |-> o, fresh |-> TRUE,
                                         committed |-> [a \in Accounts |-> Committed(a)]]]
  /\ UNCHANGED <<orders, invoices, budget, causes>>

\* then the sum of the invoices, and the verdict: a hard block raises,
CheckBudget(u) ==
  LET w == approval[u] IN
  /\ w.step = "read"
  /\ approval' = [approval EXCEPT ![u] = IF Blocked(w.order, w.committed) # {} THEN NoApproval
                                         ELSE [w EXCEPT !.step = "checked"]]
  /\ UNCHANGED <<orders, invoices, budget, budgetCalls, causes>>

\* and the commit.
CommitApproval(u) ==
  LET w == approval[u] IN
  /\ w.step = "checked"
  /\ orders' = [orders EXCEPT ![w.order].state = "open"]
  /\ approval' = [Outdated EXCEPT ![u] = NoApproval]
  /\ causes' = IF w.fresh THEN causes ELSE causes \cup {"race"}
  /\ UNCHANGED <<invoices, budget, budgetCalls>>

\* The other moves of the order: cancelled or closed, reopened, open again.
EndOrder(o) ==
  /\ BudgetCall
  /\ orders[o].state \in {"pending", "open", "invoiced", "reopened"}
  /\ orders' = [orders EXCEPT ![o].state = "done"]
  /\ approval' = Outdated
  /\ UNCHANGED <<invoices, budget, causes>>

ReopenOrder(o) ==
  /\ BudgetCall
  /\ orders[o].state = "done"
  /\ orders' = [orders EXCEPT ![o].state = "reopened"]
  /\ UNCHANGED <<invoices, budget, approval, causes>>

\* "reopened" leads to ordered, sent_to_supplier and the received states; only
\* "approved" is checked.
ResumeOrder(o) ==
  /\ BudgetCall
  /\ orders[o].state = "reopened"
  /\ orders' = [orders EXCEPT ![o].state = "open"]
  /\ approval' = Outdated
  /\ causes' = causes \cup {"reopened"}
  /\ UNCHANGED <<invoices, budget>>

----------------------------------------------------------------------------
\* The ways in which invoices count for more, or less, than the line: taking
\* more than its total, as two with a full copy of its amounts do; or with two
\* splits of one account, each reduced by what was invoiced for both.
Irregular(o, is) ==
  LET mine == {i \in DOMAIN is : is[i].order = o}
      lists == {is[i].splits : i \in mine} \cup {orders[o].splits}
  IN \/ TakenBy(is, mine) > LineTotal
     \/ Cardinality(lists) > 1
     \/ \E list \in lists : \E i, j \in DOMAIN list : i # j /\ list[i].account = list[j].account

\* What raises the amounts of an order after invoices changed.
InvoiceCauses(o, is) ==
  (IF Irregular(o, is) THEN {"irregular"} ELSE {})
    \cup (IF orders[o].state \in CommittedStates THEN {} ELSE {"late"})

\* create_invoice with its match: the splits are copied as they are (copy_splits),
\* and the order becomes invoiced from any state.
CreateInvoice(o, total, counted) ==
  LET is == Append(invoices, [order |-> o, total |-> total, splits |-> orders[o].splits,
                              counted |-> counted])
  IN
  /\ BudgetCall
  /\ Len(invoices) < MaxInvoices
  /\ orders[o].state # "none"
  /\ invoices' = is
  /\ orders' = [orders EXCEPT ![o].state = "invoiced"]
  /\ approval' = Outdated
  /\ causes' = causes \cup InvoiceCauses(o, is)
  /\ UNCHANGED budget

\* A new match, or the resolution of exceptions, changes the match status.
Rematch(i) ==
  LET is == [invoices EXCEPT ![i].counted = ~ @] IN
  /\ BudgetCall
  /\ invoices' = is
  /\ approval' = Outdated
  /\ causes' = causes \cup InvoiceCauses(invoices[i].order, is)
  /\ UNCHANGED <<orders, budget>>

----------------------------------------------------------------------------
BudgetNext ==
  \/ \E o \in Orders, s \in SplitLists : CreateOrder(o, s) \/ AutoCreateOrder(o, s) \/ SetSplits(o, s)
  \/ \E a \in Accounts, n \in BudgetAmounts, h \in BOOLEAN : SetBudget(a, n, h)
  \/ \E u \in Approvers : (\E o \in Orders : BeginApprove(u, o)) \/ CheckBudget(u) \/ CommitApproval(u)
  \/ \E o \in Orders : EndOrder(o) \/ ReopenOrder(o) \/ ResumeOrder(o)
  \/ \E o \in Orders, n \in InvoiceTotals, c \in BOOLEAN : CreateInvoice(o, n, c)
  \/ \E i \in DOMAIN invoices : Rematch(i)

BudgetSpec == BudgetInit /\ [][BudgetNext]_budgetVars

----------------------------------------------------------------------------
\* The type invariant of orders, invoices, budgets and approvals.
BudgetTypeOK ==
  /\ orders \in [Orders -> [state : OrderStates, splits : SplitLists \cup {<< >>}]]
  /\ \A i \in DOMAIN invoices :
        invoices[i] \in [order : Orders, total : InvoiceTotals, splits : SplitLists, counted : BOOLEAN]
  /\ Len(invoices) =< MaxInvoices
  /\ budget \in [Accounts -> [amount : BudgetAmounts, hard : BOOLEAN]]
  /\ \A u \in Approvers :
        \/ approval[u] = NoApproval
        \/ approval[u] \in [step : {"read", "checked"}, order : Orders, fresh : BOOLEAN,
                            committed : [Accounts -> Nat]]
  /\ budgetCalls \in 0..MaxBudgetCalls
  /\ causes \in SUBSET {"auto", "splits", "budget", "race", "reopened", "irregular", "late"}

\* "A hard block": what is committed and spent on an account stays within its
\* hard budget, through approvals, invoices in parts, closings and cancellations
\* of several orders, but for the causes named: orders created without a check,
\* reopened, approved beside another change, split again, invoiced late or
\* irregularly, and budgets changed.
HardBudgetHolds ==
  causes = {} => \A a \in Accounts : budget[a].hard => Committed(a) + Actual(a) =< budget[a].amount

\* What an order counts for against all accounts, committed and spent.
CountedFor(o) ==
  SumFunctionOnSet([a \in Accounts |-> Remaining(o, a) + InvoicedFor(o, a)], Accounts)

\* "So committed and actual never double-count the same dollar as the invoice
\* progresses through matching": an order, not split again, is counted for its
\* own total or what was invoiced, whichever is more.
NoDollarTwice ==
  "splits" \notin causes =>
     \A o \in Orders :
        orders[o].state \in CommittedStates =>
           CountedFor(o) =< Max({LineTotal, SumFunctionOnSet([i \in DOMAIN invoices |-> invoices[i].total],
                                                             Counted(o))})

\* What holds of it however a line is split: what is committed goes down with
\* what is spent, so an order counts for its own total or for what its counted
\* invoices take, whichever is more, and one invoice never adds to the order.
CommittedOrSpent ==
  "splits" \notin causes =>
     \A o \in Orders :
        orders[o].state \in CommittedStates =>
           CountedFor(o) =< Max({LineTotal, TakenBy(invoices, Counted(o))})

\* A hard budget holds, and an order is counted against it once.
BudgetsHold == HardBudgetHolds /\ CommittedOrSpent
=============================================================================
