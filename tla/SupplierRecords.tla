--------------------------- MODULE SupplierRecords ---------------------------
(***************************************************************************)
(* Supplier master records after onboarding: the lifecycle of a record     *)
(* (POST /suppliers/{id}/lifecycle/transition), the merge of a duplicate    *)
(* into a surviving record (POST /suppliers/merge), the contracts that      *)
(* refer to the records, and their deletion.                               *)
(*                                                                         *)
(* Each request reads its rows, decides, and commits later; what another   *)
(* request committed in between is not seen.  The UPDATE of the contracts   *)
(* in a merge is a statement of its own before that commit: it sees what is *)
(* committed when it runs and locks the rows it changes.                    *)
(***************************************************************************)
EXTENDS Naturals, FiniteSets

CONSTANTS
  Records,        \* supplier records
  Contracts,      \* contract identifiers
  Stewards,       \* users, one request each at a time
  NoRecord,       \* null
  MaxRecordCalls  \* bound: requests begun in all

ASSUME RecordsAssumption == NoRecord \notin Records /\ MaxRecordCalls \in Nat

VARIABLES
  rows,        \* rows of the suppliers table
  life,        \* lifecycle_status
  mergedInto,  \* merged_into_supplier_id
  contractOf,  \* the supplier of each contract, NoRecord when there is none
  job,         \* per steward: the request in progress, or NoJob
  begun,       \* requests begun (bound)
  filedLate,   \* history: contracts filed for a record that was merged, or
               \* whose contracts a merge had already moved
  crossed      \* history: a merge was committed although another merge of one
               \* of its two records was committed after it read them

recordVars == <<rows, life, mergedInto, contractOf, job, begun, filedLate, crossed>>

\* _LIFECYCLE_TRANSITION_MAP
Transitions ==
  [begin_monitoring         |-> [from |-> {"active"}, to |-> "under_monitoring"],
   flag_requalification     |-> [from |-> {"active", "under_monitoring"}, to |-> "requalification_due"],
   start_requalification    |-> [from |-> {"requalification_due"}, to |-> "requalification_in_progress"],
   complete_requalification |-> [from |-> {"requalification_in_progress"}, to |-> "active"],
   start_offboarding        |-> [from |-> {"active", "under_monitoring", "requalification_due",
                                           "requalification_in_progress"}, to |-> "offboarding"],
   complete_offboarding     |-> [from |-> {"offboarding"}, to |-> "offboarded"],
   reactivate               |-> [from |-> {"offboarded"}, to |-> "active"]]

LifeStates == {Transitions[a].to : a \in DOMAIN Transitions} \cup {"active", "merged"}

\* A job: a merge of sup into into (moved: the contracts its UPDATE has locked)
\* or a transition of sup to to; was is sup's lifecycle as read; fresh says
\* that neither record's state was written since.
NoJob == [kind |-> "none"]
Jobs == [kind : {"merge", "moved", "life"}, sup : Records, into : Records \cup {NoRecord},
         to : LifeStates, was : LifeStates, moved : SUBSET Contracts, fresh : BOOLEAN]

RecordsInit ==
  /\ rows = Records
  /\ life = [r \in Records |-> "active"]
  /\ mergedInto = [r \in Records |-> NoRecord]
  /\ contractOf = [k \in Contracts |-> NoRecord]
  /\ job = [u \in Stewards |-> NoJob]
  /\ begun = 0
  /\ filedLate = {}
  /\ crossed = FALSE

----------------------------------------------------------------------------
Begun == begun < MaxRecordCalls /\ begun' = begun + 1

\* The contracts that uncommitted merges hold locked.
Locked == UNION {job[u].moved : u \in {v \in Stewards : job[v].kind = "moved"}}

BeginMergeIntoMerged(u, source, target) ==
  /\ Begun
  /\ job[u] = NoJob /\ source # target
  /\ {source, target} \subseteq rows
  /\ mergedInto[source] = NoRecord
  /\ job' = [job EXCEPT ![u] = [kind |-> "merge", sup |-> source, into |-> target, to |-> "merged",
                                was |-> life[source], moved |-> {}, fresh |-> TRUE]]
  /\ UNCHANGED <<rows, life, mergedInto, contractOf, filedLate, crossed>>

\* merge_suppliers: both look-ups, the checks that neither is merged already.
BeginMerge(u, source, target) ==
  /\ Begun
  /\ job[u] = NoJob /\ source # target
  /\ {source, target} \subseteq rows
  /\ mergedInto[source] = NoRecord /\ mergedInto[target] = NoRecord
  /\ job' = [job EXCEPT ![u] = [kind |-> "merge", sup |-> source, into |-> target, to |-> "merged",
                                was |-> life[source], moved |-> {}, fresh |-> TRUE]]
  /\ UNCHANGED <<rows, life, mergedInto, contractOf, filedLate, crossed>>

\* UPDATE contracts SET supplier_id = target WHERE supplier_id = source: waits
\* for contracts another merge holds, and is not visible before the commit.
MoveContracts(u) ==
  LET mine == {k \in Contracts : contractOf[k] = job[u].sup} IN
  /\ job[u].kind = "merge"
  /\ mine \cap Locked = {}
  /\ job' = [job EXCEPT ![u].kind = "moved", ![u].moved = mine]
  /\ UNCHANGED <<rows, life, mergedInto, contractOf, begun, filedLate, crossed>>

\* The jobs of the others, after records in R were written.
Touched(u, R) ==
  [v \in Stewards |->
     IF v = u THEN NoJob
     ELSE IF job[v] # NoJob /\ {job[v].sup, job[v].into} \cap R # {}
          THEN [job[v] EXCEPT !.fresh = FALSE] ELSE job[v]]

\* The commit of a merge.  A record deleted meanwhile fails it, and the move
\* of the contracts is rolled back with it.  A lifecycle read as "merged"
\* already is not written again.
CommitMerge(u) ==
  LET j == job[u] IN
  /\ j.kind = "moved"
  /\ IF {j.sup, j.into} \subseteq rows
     THEN /\ mergedInto' = [mergedInto EXCEPT ![j.sup] = j.into]
          /\ life' = IF j.was = "merged" THEN life ELSE [life EXCEPT ![j.sup] = "merged"]
          /\ contractOf' = [k \in Contracts |-> IF k \in j.moved THEN j.into ELSE contractOf[k]]
          /\ crossed' = (crossed \/ ~ j.fresh)
          /\ filedLate' = filedLate \ j.moved
          /\ job' = Touched(u, {j.sup, j.into})
     ELSE /\ job' = [job EXCEPT ![u] = NoJob]
          /\ UNCHANGED <<life, mergedInto, contractOf, filedLate, crossed>>
  /\ UNCHANGED <<rows, begun>>

\* transition_supplier_lifecycle: the look-up and the check of the state.
BeginTransition(u, r, action) ==
  /\ Begun
  /\ job[u] = NoJob /\ r \in rows
  /\ life[r] \in Transitions[action].from
  /\ job' = [job EXCEPT ![u] = [kind |-> "life", sup |-> r, into |-> NoRecord, to |-> Transitions[action].to,
                                was |-> life[r], moved |-> {}, fresh |-> TRUE]]
  /\ UNCHANGED <<rows, life, mergedInto, contractOf, filedLate, crossed>>

CommitTransition(u) ==
  LET j == job[u] IN
  /\ j.kind = "life"
  /\ life' = IF j.sup \in rows THEN [life EXCEPT ![j.sup] = j.to] ELSE life
  /\ job' = [v \in Stewards |->
               IF v = u THEN NoJob
               ELSE IF job[v].kind = "life" /\ job[v].sup = j.sup
                    THEN [job[v] EXCEPT !.fresh = FALSE] ELSE job[v]]
  /\ UNCHANGED <<rows, mergedInto, contractOf, begun, filedLate, crossed>>

\* POST /contracts: the supplier must exist (the foreign key), nothing else is
\* asked of it.
FileContract(k, r) ==
  /\ Begun
  /\ contractOf[k] = NoRecord /\ r \in rows
  /\ contractOf' = [contractOf EXCEPT ![k] = r]
  /\ filedLate' = IF \/ mergedInto[r] # NoRecord
                     \/ \E u \in Stewards : job[u].kind = "moved" /\ job[u].sup = r
                  THEN filedLate \cup {k} ELSE filedLate
  /\ UNCHANGED <<rows, life, mergedInto, job, crossed>>

\* DELETE /suppliers/{id}: refused while a contract refers to the record
\* (RESTRICT), also one whose uncommitted move refers to it; merge pointers to
\* it are set null.
DeleteRecord(r) ==
  /\ Begun
  /\ r \in rows
  /\ \A k \in Contracts : contractOf[k] # r
  /\ \A u \in Stewards : ~ (job[u].kind = "moved" /\ job[u].into = r /\ job[u].moved # {})
  /\ rows' = rows \ {r}
  /\ mergedInto' = [s \in Records |-> IF s = r \/ mergedInto[s] = r THEN NoRecord ELSE mergedInto[s]]
  /\ UNCHANGED <<life, contractOf, job, filedLate, crossed>>

----------------------------------------------------------------------------
RecordsNext ==
  \/ \E u \in Stewards, r \in Records, t \in Records : BeginMerge(u, r, t)
  \/ \E u \in Stewards : MoveContracts(u) \/ CommitMerge(u) \/ CommitTransition(u)
  \/ \E u \in Stewards, r \in Records, a \in DOMAIN Transitions : BeginTransition(u, r, a)
  \/ \E k \in Contracts, r \in Records : FileContract(k, r)
  \/ \E r \in Records : DeleteRecord(r)

RecordsSpec == RecordsInit /\ [][RecordsNext]_recordVars

----------------------------------------------------------------------------
\* The type invariant of the records and of the requests.
RecordsTypeOK ==
  /\ rows \in SUBSET Records
  /\ life \in [Records -> LifeStates]
  /\ mergedInto \in [Records -> Records \cup {NoRecord}]
  /\ contractOf \in [Contracts -> Records \cup {NoRecord}]
  /\ job \in [Stewards -> Jobs \cup {NoJob}]
  /\ begun \in 0..MaxRecordCalls
  /\ filedLate \in SUBSET Contracts
  /\ crossed \in BOOLEAN

\* Following merge pointers from a merged record leads to a surviving one: no
\* set of records points only into itself.  merge_suppliers refuses to merge
\* a merged record or into one; two merges that cross are the exception.
MergesEndInASurvivor ==
  ~ crossed =>
     \A S \in SUBSET Records : S # {} => \E r \in S : mergedInto[r] \notin S

\* "Reassigns live Contract references to the golden record so ongoing/awarded
\* work follows it": no contract is left with a merged record, but for those
\* filed for it after the UPDATE, and for merges that crossed.
ContractsFollowTheMerge ==
  ~ crossed =>
     \A k \in Contracts :
        (contractOf[k] # NoRecord /\ mergedInto[contractOf[k]] # NoRecord) => k \in filedLate

\* A record leaves the state "merged" only by a transition whose request had
\* read it before the merge was committed: the transition map has no way out.
MergedStaysMerged ==
  [][\A r \in Records :
        (life[r] = "merged" /\ life'[r] # "merged") =>
           \E u \in Stewards : job[u].kind = "life" /\ job[u].sup = r /\ ~ job[u].fresh]_recordVars
=============================================================================
