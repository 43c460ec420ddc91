-------------------------- MODULE ContractLifecycle --------------------------
(***************************************************************************)
(* One contract, its renewals, one of its obligations and a clause of the  *)
(* library: crud/contract.py, crud/contract_lifecycle.py and               *)
(* routers/contracts.py.  Each request reads its row, changes the object    *)
(* and commits it later: only the columns that differ from what was read    *)
(* are written, so two requests can leave a row neither of them meant.      *)
(***************************************************************************)
EXTENDS Naturals, Sequences

CONSTANTS
  Managers,          \* users, one request each at a time
  Dates,             \* end dates a renewal or an edit sets
  NoDate,            \* a contract without an end date
  MaxContractCalls   \* bound: requests begun in all

ASSUME ContractAssumption == NoDate \notin Dates /\ MaxContractCalls \in Nat

VARIABLES
  contract,     \* status, approval_status and end_date of the row
  renewals,     \* the ContractRenewal rows, in the order of their commits
  obligation,   \* status of the obligation, and whether completed_at is set
  clause,       \* version of the clause
  pending,      \* the approval workflow started by the submissions: how many
  work,         \* per manager: the request in progress, or NoWork
  asked,        \* requests begun (bound)
  edits,        \* history: edits of the clause that were answered with success
  torn,         \* history: a change of the contract was committed although
                \* another one had been committed since it read the row
  patched,      \* history: an edit has set the status column by itself
  lostEdit      \* history: two edits of the clause crossed in that way

contractVars == <<contract, renewals, obligation, clause, pending, work, asked, edits, torn, patched, lostEdit>>

\* _TRANSITION_MAP: the status each action leads to, from any status.
ActionStatus ==
  [submit |-> "under_review", review |-> "under_review", approve |-> "approved",
   reject |-> "rejected", activate |-> "active", terminate |-> "terminated"]

ActionApprovalForgotten == [submit |-> "pending", approve |-> "approved"]

\* The approval_status an action writes; the others leave it alone.
ActionApproval == [submit |-> "pending", approve |-> "approved", reject |-> "rejected"]

ContractStates == {"draft"} \cup {ActionStatus[a] : a \in DOMAIN ActionStatus}
Approvals == {"pending", "approved", "rejected"}
EndDates == Dates \cup {NoDate}
ContractRows == [status : ContractStates, approval : Approvals, end : EndDates]

\* A request on the contract holds the row as read and the row it wants; the
\* ones on the obligation and the clause hold the value they read.
NoWork == [kind |-> "none"]
ContractWork == [kind : {"transition", "edit", "renew"}, submits : BOOLEAN,
                 was : ContractRows, wants : ContractRows, fresh : BOOLEAN]
ObligationWork == [kind : {"obligation"}, was : [status : {"pending", "completed"}, done : BOOLEAN],
                   wants : {"pending", "completed"}]
ClauseWork == [kind : {"clause"}, was : Nat, fresh : BOOLEAN]

ContractInit ==
  /\ contract = [status |-> "draft", approval |-> "pending", end |-> NoDate]
  /\ renewals = << >>
  /\ obligation = [status |-> "pending", done |-> FALSE]
  /\ clause = 1
  /\ pending = 0
  /\ work = [u \in Managers |-> NoWork]
  /\ asked = 0
  /\ edits = 0
  /\ torn = FALSE /\ patched = FALSE /\ lostEdit = FALSE

----------------------------------------------------------------------------
Begins(u, w) ==
  /\ asked < MaxContractCalls /\ asked' = asked + 1
  /\ work[u] = NoWork
  /\ work' = [work EXCEPT ![u] = w]
  /\ UNCHANGED <<contract, renewals, obligation, clause, pending, edits, torn, patched, lostEdit>>

OnContract(kind, wants, submits) ==
  [kind |-> kind, submits |-> submits, was |-> contract, wants |-> wants, fresh |-> TRUE]

\* transition_contract: the map has no "from" states.
BeginContractTransition(u, action) ==
  Begins(u, OnContract("transition",
            [contract EXCEPT !.status = ActionStatus[action],
                             !.approval = IF action \in DOMAIN ActionApproval
                                          THEN ActionApproval[action] ELSE @],
            action = "submit"))

\* PATCH /contracts/{id}: any column, the status among them.
BeginEdit(u, d) == Begins(u, OnContract("edit", [contract EXCEPT !.end = d], FALSE))

BeginStatusEdit(u, s) == Begins(u, OnContract("edit", [contract EXCEPT !.status = s], FALSE))

\* renew_contract, from any status.
BeginRenew(u, d) ==
  Begins(u, OnContract("renew", [contract EXCEPT !.end = d, !.status = "active"], FALSE))

\* The columns that differ from what was read.
Merge(was, wants, stored) ==
  [c \in DOMAIN stored |-> IF wants[c] = was[c] THEN stored[c] ELSE wants[c]]

\* Mutant: the history row takes the end date after the renewal has set it.
CommitContractRenewedFirst(u) ==
  LET w == work[u] IN
  /\ w.kind \in {"transition", "edit", "renew"}
  /\ contract' = Merge(w.was, w.wants, contract)
  /\ renewals' = IF w.kind = "renew"
                 THEN Append(renewals, [previous |-> w.wants.end, new |-> w.wants.end]) ELSE renewals
  /\ pending' = IF w.submits THEN pending + 1 ELSE pending
  /\ torn' = (torn \/ ~ w.fresh)
  /\ patched' = (patched \/ (w.kind = "edit" /\ w.wants.status # w.was.status))
  /\ work' = [v \in Managers |->
                IF v = u THEN NoWork
                ELSE IF work[v].kind \in {"transition", "edit", "renew"}
                     THEN [work[v] EXCEPT !.fresh = FALSE] ELSE work[v]]
  /\ UNCHANGED <<obligation, clause, asked, edits, lostEdit>>

\* The commit of a request on the contract.  A renewal inserts its history row
\* with the end date it read; a submission starts an approval workflow, whose
\* outcome changes no contract.
CommitContract(u) ==
  LET w == work[u] IN
  /\ w.kind \in {"transition", "edit", "renew"}
  /\ contract' = Merge(w.was, w.wants, contract)
  /\ renewals' = IF w.kind = "renew"
                 THEN Append(renewals, [previous |-> w.was.end, new |-> w.wants.end]) ELSE renewals
  /\ pending' = IF w.submits THEN pending + 1 ELSE pending
  /\ torn' = (torn \/ ~ w.fresh)
  /\ patched' = (patched \/ (w.kind = "edit" /\ w.wants.status # w.was.status))
  /\ work' = [v \in Managers |->
                IF v = u THEN NoWork
                ELSE IF work[v].kind \in {"transition", "edit", "renew"}
                     THEN [work[v] EXCEPT !.fresh = FALSE] ELSE work[v]]
  /\ UNCHANGED <<obligation, clause, asked, edits, lostEdit>>

\* update_obligation: completed_at is set once, by the first completion.
BeginObligation(u, to) ==
  Begins(u, [kind |-> "obligation", was |-> obligation, wants |-> to])

CommitObligation(u) ==
  LET w == work[u]
      completes == w.wants = "completed" /\ ~ w.was.done
  IN
  /\ w.kind = "obligation"
  /\ obligation' = [status |-> IF w.wants = w.was.status THEN obligation.status ELSE w.wants,
                    done   |-> completes \/ obligation.done]
  /\ work' = [work EXCEPT ![u] = NoWork]
  /\ UNCHANGED <<contract, renewals, clause, pending, asked, edits, torn, patched, lostEdit>>

\* update_clause: version += 1 on the version read.
BeginClause(u) == Begins(u, [kind |-> "clause", was |-> clause, fresh |-> TRUE])

CommitClause(u) ==
  /\ work[u].kind = "clause"
  /\ clause' = work[u].was + 1
  /\ edits' = edits + 1
  /\ lostEdit' = (lostEdit \/ ~ work[u].fresh)
  /\ work' = [v \in Managers |->
                IF v = u THEN NoWork
                ELSE IF work[v].kind = "clause" THEN [work[v] EXCEPT !.fresh = FALSE] ELSE work[v]]
  /\ UNCHANGED <<contract, renewals, obligation, pending, asked, torn, patched>>

----------------------------------------------------------------------------
ContractNext ==
  \E u \in Managers :
    \/ \E a \in DOMAIN ActionStatus : BeginContractTransition(u, a)
    \/ \E d \in Dates : BeginEdit(u, d) \/ BeginRenew(u, d)
    \/ \E s \in ContractStates : BeginStatusEdit(u, s)
    \/ \E to \in {"pending", "completed"} : BeginObligation(u, to)
    \/ BeginClause(u)
    \/ CommitContract(u) \/ CommitObligation(u) \/ CommitClause(u)

ContractSpec == ContractInit /\ [][ContractNext]_contractVars

----------------------------------------------------------------------------
\* The type invariant of the contract's rows and requests.
ContractTypeOK ==
  /\ contract \in ContractRows
  /\ renewals \in Seq([previous : EndDates, new : EndDates])
  /\ obligation \in [status : {"pending", "completed"}, done : BOOLEAN]
  /\ clause \in Nat /\ pending \in 0..MaxContractCalls /\ edits \in 0..MaxContractCalls
  /\ work \in [Managers -> ContractWork \cup ObligationWork \cup ClauseWork \cup {NoWork}]
  /\ asked \in 0..MaxContractCalls
  /\ torn \in BOOLEAN /\ patched \in BOOLEAN /\ lostEdit \in BOOLEAN

\* What was decided and what is recorded of it agree: a contract in status
\* approved (rejected) has that approval_status, unless changes of it crossed
\* or an edit set the one column without the other.
DecisionIsRecorded ==
  (~ torn /\ ~ patched) =>
     \A decision \in {"approved", "rejected"} :
        contract.status = decision => contract.approval = decision

\* A renewal leaves the contract with the end date its history row names: the
\* last row's new date is the contract's end date, unless an edit set another
\* one; two renewals that cross break the chain instead of extending it.
RenewalsFormAChain ==
  [][(renewals' # renewals /\ ~ torn') =>
        LET r == renewals'[Len(renewals')]
        IN r.previous = contract.end /\ r.new = contract'.end]_contractVars

\* A completed obligation says when, in every interleaving: completed_at is
\* only ever set, never cleared.
CompletedIsDated == obligation.status = "completed" => obligation.done

\* The clause's version counts its edits, unless two edits crossed: the second
\* then writes the number of the first.
VersionCountsEdits == ~ lostEdit => clause = 1 + edits

\* The rows of a contract tell what happened to it, in every interleaving but those
\* each part names.
RowsTellWhatHappened == DecisionIsRecorded /\ CompletedIsDated /\ VersionCountsEdits
=============================================================================
