--------------------------- MODULE MetadataRecords ---------------------------
(***************************************************************************)
(* The other records of the metadata engine: objects, fields, picklists and    *)
(* the values kept for fields, with the audit event and the outbox event every *)
(* change leaves (metadata_engine/services, repository, router).             *)
(*                                                                         *)
(* A change is three commits: the row, its audit event, its outbox event.     *)
(* What goes with a row that is deleted is decided in two places: by the     *)
(* session, for what it had loaded, and by the database's foreign keys.      *)
(***************************************************************************)
EXTENDS Naturals

CONSTANTS
  Objects, MetaFields, Values, Picklists,  \* ids, each given once
  Curators,       \* users with metadata:write, one request each at a time
  NoRef,          \* no picklist, no field yet
  MaxMetaCalls    \* bound: requests in all

MetaIds == Objects \cup MetaFields \cup Values \cup Picklists

ASSUME MetaAssumption ==
  /\ Objects \cap (MetaFields \cup Values \cup Picklists) = {}
  /\ MetaFields \cap (Values \cup Picklists) = {} /\ Values \cap Picklists = {}
  /\ NoRef \notin MetaIds /\ MaxMetaCalls \in Nat

VARIABLES
  metaRows,    \* the ids that have a row
  ref,         \* a field's picklist, a value's field
  laidOut,     \* the objects that have layouts
  auditTrail,  \* metadata_audit_events
  outbox,      \* metadata_outbox_events
  editing,     \* per curator: the request in progress, or NoEdit
  metaCalls,   \* requests begun (bound)
  silent       \* history: changes whose request died before its audit event

metaVars == <<metaRows, ref, laidOut, auditTrail, outbox, editing, metaCalls, silent>>

MetaEvents == [event : {"Created", "Updated", "Deleted"}, id : MetaIds]
Event(event, id) == [event |-> event, id |-> id]

\* A request: what it does, the reference it sets, what the session had loaded
\* with an object it deletes, and the commit that comes next.
NoEdit == [next |-> "none"]
Edits == [next : {"row", "audit", "outbox"}, does : MetaEvents, to : MetaIds \cup {NoRef},
          loaded : SUBSET MetaEvents, hasLayouts : BOOLEAN]

MetaInit ==
  /\ metaRows = {} /\ laidOut = {}
  /\ ref = [i \in MetaIds |-> NoRef]
  /\ auditTrail = {} /\ outbox = {}
  /\ editing = [u \in Curators |-> NoEdit]
  /\ metaCalls = 0
  /\ silent = {}

-----------------------------------------------------------------------------
\* The events of an object that hold its id.
HeldBy(o) == {e \in auditTrail : e.id = o /\ e.event # "Deleted"}

BeginMetaCall(u, event, i, to) ==
  /\ metaCalls < MaxMetaCalls /\ metaCalls' = metaCalls + 1
  /\ editing[u] = NoEdit
  /\ editing' = [editing EXCEPT ![u] =
       [next |-> "row", does |-> Event(event, i), to |-> to,
        loaded |-> IF i \in Objects THEN HeldBy(i) ELSE {}, hasLayouts |-> i \in laidOut]]
  /\ UNCHANGED <<metaRows, ref, laidOut, auditTrail, outbox, silent>>

\* Ids are drawn anew: none is created twice.
Drawn == metaRows \cup {e.id : e \in auditTrail \cup silent}
           \cup {editing[u].does.id : u \in {v \in Curators : editing[v] # NoEdit}}

\* Ids somebody can have read: rows there are or were.
KnownRows == metaRows \cup {e.id : e \in auditTrail}

\* The operations: of an object,
CreateObject(u, o) == o \in Objects \ Drawn /\ BeginMetaCall(u, "Created", o, NoRef)
UpdateObject(u, o) == o \in Objects \cap metaRows /\ BeginMetaCall(u, "Updated", o, NoRef)
DeleteObject(u, o) == o \in Objects \cap KnownRows /\ BeginMetaCall(u, "Deleted", o, NoRef)

\* of a field, which may have a picklist,
CreateField(u, f, l) ==
  f \in MetaFields \ Drawn /\ l \in Picklists \cup {NoRef} /\ BeginMetaCall(u, "Created", f, l)
UpdateField(u, f, l) ==
  f \in MetaFields \cap metaRows /\ l \in Picklists \cup {NoRef}
    /\ BeginMetaCall(u, "Updated", f, l)
DeleteField(u, f) == f \in MetaFields \cap KnownRows /\ BeginMetaCall(u, "Deleted", f, NoRef)

\* of a value, which stays with its field,
CreateValue(u, v, f) == v \in Values \ Drawn /\ f \in MetaFields /\ BeginMetaCall(u, "Created", v, f)
UpdateValue(u, v) == v \in Values \cap metaRows /\ BeginMetaCall(u, "Updated", v, ref[v])
DeleteValue(u, v) == v \in Values \cap KnownRows /\ BeginMetaCall(u, "Deleted", v, NoRef)

\* and of a picklist, the only one that asks whether it is there to be deleted.
CreatePicklist(u, l) == l \in Picklists \ Drawn /\ BeginMetaCall(u, "Created", l, NoRef)
UpdatePicklist(u, l) == l \in Picklists \cap metaRows /\ BeginMetaCall(u, "Updated", l, NoRef)
DeletePicklist(u, l) == l \in Picklists \cap metaRows /\ BeginMetaCall(u, "Deleted", l, NoRef)

EndEdit(u) == [editing EXCEPT ![u] = NoEdit]
NextCommit(u, next) == [editing EXCEPT ![u].next = next]

\* Validation, or a name that is taken: nothing is stored.
RefuseEdit(u) ==
  /\ editing[u].next = "row"
  /\ editing' = EndEdit(u)
  /\ UNCHANGED <<metaRows, ref, laidOut, auditTrail, outbox, metaCalls, silent>>

\* A row is put in, or written; what it refers to must be there.
PutRow(u) ==
  LET c == editing[u]
      i == c.does.id
  IN
  /\ c.next = "row" /\ c.does.event # "Deleted"
  /\ c.does.event = "Updated" => i \in metaRows
  /\ c.to # NoRef => c.to \in metaRows
  /\ metaRows' = metaRows \cup {i}
  /\ ref' = [ref EXCEPT ![i] = c.to]
  /\ editing' = NextCommit(u, "audit")
  /\ UNCHANGED <<laidOut, auditTrail, outbox, metaCalls, silent>>

\* The database deletes the values of a field, and what holds the id of an object
\* and was not loaded with it; a picklist's fields keep no reference.
GoesWith(i) == {i} \cup {v \in metaRows \cap Values : ref[v] = i}

\* The session clears the references of what it had loaded; that of a layout must
\* not be null, so the deletion fails.  A row that is gone is not missed.
DeleteRow(u) ==
  LET c == editing[u]
      i == c.does.id
  IN
  /\ c.next = "row" /\ c.does.event = "Deleted"
  /\ ~ c.hasLayouts
  /\ metaRows' = metaRows \ GoesWith(i)
  /\ ref' = [f \in MetaIds |-> IF f \in MetaFields /\ ref[f] = i THEN NoRef ELSE ref[f]]
  /\ laidOut' = laidOut \ {i}
  /\ auditTrail' = auditTrail \ (IF i \in Objects THEN HeldBy(i) \ c.loaded ELSE {})
  /\ editing' = NextCommit(u, "audit")
  /\ UNCHANGED <<outbox, metaCalls, silent>>

\* mutant: the event of a deletion holds the id of its object as well
HoldsAny(e) == e.id \in Objects

\* The object an event holds must be there.
HoldsObject(e) == e.id \in Objects /\ e.event # "Deleted"

\* _audit: the event is committed,
WriteAudit(u) ==
  LET c == editing[u] IN
  /\ c.next = "audit"
  /\ IF HoldsObject(c.does) /\ c.does.id \notin metaRows
     THEN editing' = EndEdit(u) /\ UNCHANGED auditTrail
     ELSE /\ auditTrail' = auditTrail \cup {c.does}
          /\ editing' = NextCommit(u, "outbox")
  /\ UNCHANGED <<metaRows, ref, laidOut, outbox, metaCalls, silent>>

\* and then that of the outbox, which nothing reads.
WriteOutbox(u) ==
  /\ editing[u].next = "outbox"
  /\ outbox' = outbox \cup {editing[u].does}
  /\ editing' = EndEdit(u)
  /\ UNCHANGED <<metaRows, ref, laidOut, auditTrail, metaCalls, silent>>

\* The process of a request dies, or its connection.
DieEditing(u) ==
  /\ editing[u].next \in {"audit", "outbox"}
  /\ silent' = IF editing[u].next = "audit" THEN silent \cup {editing[u].does} ELSE silent
  /\ editing' = EndEdit(u)
  /\ UNCHANGED <<metaRows, ref, laidOut, auditTrail, outbox, metaCalls>>

\* create_layout, delete_layout (module MetadataLayouts).
LayOut(o) ==
  /\ o \in metaRows
  /\ laidOut' \in {laidOut \cup {o}, laidOut \ {o}} \ {laidOut}
  /\ UNCHANGED <<metaRows, ref, auditTrail, outbox, editing, metaCalls, silent>>

-----------------------------------------------------------------------------
MetaNext ==
  \/ \E u \in Curators :
       \/ \E o \in Objects : CreateObject(u, o) \/ UpdateObject(u, o) \/ DeleteObject(u, o)
       \/ \E f \in MetaFields :
            \/ DeleteField(u, f)
            \/ \E l \in Picklists \cup {NoRef} : CreateField(u, f, l) \/ UpdateField(u, f, l)
            \/ \E v \in Values : CreateValue(u, v, f)
       \/ \E v \in Values : UpdateValue(u, v) \/ DeleteValue(u, v)
       \/ \E l \in Picklists : CreatePicklist(u, l) \/ UpdatePicklist(u, l) \/ DeletePicklist(u, l)
       \/ RefuseEdit(u) \/ PutRow(u) \/ DeleteRow(u)
       \/ WriteAudit(u) \/ WriteOutbox(u) \/ DieEditing(u)
  \/ \E o \in Objects : LayOut(o)

MetaSpec == MetaInit /\ [][MetaNext]_metaVars

-----------------------------------------------------------------------------
\* The type invariant.
MetaTypeOK ==
  /\ metaRows \subseteq MetaIds /\ laidOut \subseteq Objects \cap metaRows
  /\ ref \in [MetaIds -> MetaIds \cup {NoRef}]
  /\ auditTrail \subseteq MetaEvents /\ outbox \subseteq MetaEvents /\ silent \subseteq MetaEvents
  /\ editing \in [Curators -> Edits \cup {NoEdit}]
  /\ metaCalls \in 0..MaxMetaCalls

\* What the trail says there is: created, not deleted.
Told(i) == Event("Created", i) \in auditTrail /\ Event("Deleted", i) \notin auditTrail

\* The trail is complete on this id: no request on it is between its commits,
\* none died there.
Settled(i) ==
  /\ \A u \in Curators : editing[u] # NoEdit => editing[u].does.id # i
  /\ \A e \in silent : e.id # i

\* Which records there are can be told from the audit trail alone, whoever
\* deletes what others are changing: a record was created and not deleted, and
\* if a value, its field neither, for the database deletes values without a
\* word.  A request that died between its commits is the one exception.
TrailTellsWhatThereIs ==
  \A i \in MetaIds :
    Settled(i) /\ (i \in Values /\ ref[i] # NoRef => Settled(ref[i]))
      => (i \in metaRows <=> Told(i) /\ (i \in Values => Told(ref[i])))
=============================================================================
