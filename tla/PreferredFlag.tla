---------------------------- MODULE PreferredFlag ----------------------------
(***************************************************************************)
(* The one entry among several that is preferred: the primary bank account  *)
(* of a supplier (crud/supplier_bank_account.py), and its default address of *)
(* one type (crud/supplier_address.py).  Nothing in the schema makes the     *)
(* flag unique: the setter clears the others with an UPDATE of its own and   *)
(* then commits the flag, and entries may be created and edited with the     *)
(* flag set.                                                               *)
(***************************************************************************)
EXTENDS Naturals, FiniteSets

CONSTANTS
  Entries,       \* bank accounts of one supplier, or its addresses of one type
  Editors,       \* users, one setter each at a time
  MaxFlagCalls   \* bound: requests begun in all

ASSUME FlagAssumption == MaxFlagCalls \in Nat

VARIABLES
  present,     \* the entries that have a row
  preferred,   \* those whose committed flag is set
  setter,      \* per editor: the set-primary request in progress, or NoSetter
  flagCalls,   \* requests begun (bound)
  contested    \* history: the flag was set by a creation or an edit, or by a
               \* setter beside which the flag of another entry was set; a
               \* setter that nothing crosses ends it

flagVars == <<present, preferred, setter, flagCalls, contested>>

\* A setter: its entry, the rows its UPDATE has found and then locked, and
\* whether no flag was set by anyone else since it began.
NoSetter == [state |-> "none"]
Setters == [state : {"read", "clearing", "cleared"}, entry : Entries, locks : SUBSET Entries,
            fresh : BOOLEAN]

FlagInit ==
  /\ present = {}
  /\ preferred = {}
  /\ setter = [u \in Editors |-> NoSetter]
  /\ flagCalls = 0
  /\ contested = FALSE

----------------------------------------------------------------------------
FlagCall == flagCalls < MaxFlagCalls /\ flagCalls' = flagCalls + 1

\* Rows locked by the UPDATE of a setter that has not committed.
Held == UNION {setter[u].locks : u \in {v \in Editors : setter[v].state = "cleared"}}

\* The setters in progress, after a flag was set beside them.
Crossed == [u \in Editors |-> IF setter[u] = NoSetter THEN NoSetter
                              ELSE [setter[u] EXCEPT !.fresh = FALSE]]

\* What a creation or an edit with the given flag does: it is taken as sent.
Store(e, flag) ==
  /\ preferred' = IF flag THEN preferred \cup {e} ELSE preferred \ {e}
  /\ contested' = (contested \/ flag)
  /\ setter' = IF flag THEN Crossed ELSE setter

\* POST, and the upload of a new row.
CreateEntry(e, flag) ==
  /\ FlagCall
  /\ e \notin present
  /\ present' = present \cup {e}
  /\ Store(e, flag)

\* PATCH, and the upload of a row that exists.  It waits for a setter's lock.
UpdateEntry(e, flag) ==
  /\ FlagCall
  /\ e \in present \ Held
  /\ Store(e, flag)
  /\ UNCHANGED present

DeleteEntry(e) ==
  /\ FlagCall
  /\ e \in present \ Held
  /\ present' = present \ {e} /\ preferred' = preferred \ {e}
  /\ UNCHANGED <<setter, contested>>

\* set_primary_supplier_bank_account, set_default_supplier_address: the
\* look-up of the entry,
BeginSet(u, e) ==
  /\ FlagCall
  /\ setter[u] = NoSetter /\ e \in present
  /\ setter' = [setter EXCEPT ![u] = [state |-> "read", entry |-> e, locks |-> {}, fresh |-> TRUE]]
  /\ UNCHANGED <<present, preferred, contested>>

\* the UPDATE that clears the flag of the entries that have it: it finds them
\* when it starts, waits for those another setter holds, and then passes over
\* the ones that do not have the flag any more; nothing of it is visible before
\* the commit,
StartClear(u) ==
  /\ setter[u].state = "read"
  /\ setter' = [setter EXCEPT ![u].state = "clearing", ![u].locks = preferred]
  /\ UNCHANGED <<present, preferred, flagCalls, contested>>

ClearOthers(u) ==
  /\ setter[u].state = "clearing"
  /\ setter[u].locks \cap Held = {}
  /\ setter' = [setter EXCEPT ![u].state = "cleared", ![u].locks = @ \cap preferred]
  /\ UNCHANGED <<present, preferred, flagCalls, contested>>

\* and the flag, with the commit.  It waits for another setter's lock of the
\* row.  A row deleted meanwhile fails it, and the UPDATE is rolled back.
\* (Two setters that wait for each other's rows: PostgreSQL fails one of them,
\* which changes nothing that is committed; here they wait.)
CommitSet(u) ==
  LET w == setter[u] IN
  /\ w.state = "cleared"
  /\ \A v \in Editors \ {u} : setter[v].state = "cleared" => w.entry \notin setter[v].locks
  /\ IF w.entry \in present
     THEN /\ preferred' = (preferred \ w.locks) \cup {w.entry}
          /\ contested' = ~ w.fresh
          /\ setter' = [Crossed EXCEPT ![u] = NoSetter]
     ELSE /\ setter' = [setter EXCEPT ![u] = NoSetter]
          /\ UNCHANGED <<preferred, contested>>
  /\ UNCHANGED <<present, flagCalls>>

----------------------------------------------------------------------------
SetStep(u) == StartClear(u) \/ ClearOthers(u) \/ CommitSet(u)

FlagNext ==
  \/ \E e \in Entries, f \in BOOLEAN : CreateEntry(e, f) \/ UpdateEntry(e, f)
  \/ \E e \in Entries : DeleteEntry(e) \/ \E u \in Editors : BeginSet(u, e)
  \/ \E u \in Editors : SetStep(u)

FlagSpec == FlagInit /\ [][FlagNext]_flagVars

----------------------------------------------------------------------------
\* The type invariant of the entries and the setters.
FlagTypeOK ==
  /\ present \in SUBSET Entries /\ preferred \in SUBSET present
  /\ setter \in [Editors -> Setters \cup {NoSetter}]
  /\ flagCalls \in 0..MaxFlagCalls
  /\ contested \in BOOLEAN

\* At most one entry is preferred, as long as the flag is given by setters that
\* do not cross; one undisturbed setter also repairs what creations, edits or
\* crossing setters have left with several.
AtMostOnePreferred ==
  ~ contested => \A d, e \in preferred : d = e
=============================================================================
