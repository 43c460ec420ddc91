--------------------------- MODULE MetadataLayouts ---------------------------
(***************************************************************************)
(* The layouts of one metadata object: their versions, which one is active,  *)
(* and the schema registry that serves it (metadata_engine/services,         *)
(* repository, schema_registry).                                            *)
(*                                                                         *)
(* A layout is created in two commits: the active ones are deactivated, then  *)
(* the new one is inserted.  The database keeps versions distinct and at most *)
(* one layout active, at each statement.  The registry is one per process;    *)
(* Redis is never connected, so the shared cache answers nothing.            *)
(***************************************************************************)
EXTENDS Naturals, FiniteSets, FiniteSetsExt

CONSTANTS
  LayoutVersions,          \* version numbers, 1 up to a bound
  Schemas,           \* contents of layouts
  Admins,            \* users changing layouts, one request each at a time
  Readers,           \* requests asking for the active layout
  NoSchema,          \* nothing in the registry
  MaxLayoutCalls     \* bound: requests in all

ASSUME LayoutAssumption ==
  /\ LayoutVersions = 1..Cardinality(LayoutVersions) /\ 1 \in LayoutVersions
  /\ NoSchema \notin Schemas /\ MaxLayoutCalls \in Nat

VARIABLES
  layouts,      \* the rows: schema and is_active of each version, or NoLayout
  registry,     \* the registry's entry: a schema, or NoSchema
  changing,       \* per admin: the request in progress, or NoChange
  reading,      \* per reader: the schema read from the database, or NoSchema
  layoutCalls,  \* requests begun (bound)
  lost,         \* history: why there may be no active layout
  staleBy       \* history: why the registry's entry may be out of date

layoutVars == <<layouts, registry, changing, reading, layoutCalls, lost, staleBy>>

NoLayout == [active |-> FALSE, schema |-> NoSchema]
LayoutRows == [active : BOOLEAN, schema : Schemas] \cup {NoLayout}

\* A change: its kind and step, the version, the schema, the flag it sets, and
\* the versions it read as active.
NoChange == [kind |-> "none"]
LayoutChanges == [kind : {"create", "insert", "copy", "write", "delete", "publish", "invalidate"},
            version : Nat, schema : Schemas \cup {NoSchema}, active : BOOLEAN,
            read : SUBSET LayoutVersions]

\* The bootstrap may have registered a first layout, active.
LayoutInit ==
  /\ \E first \in {NoLayout} \cup [active : {TRUE}, schema : Schemas] :
        layouts = [v \in LayoutVersions |-> IF v = 1 THEN first ELSE NoLayout]
  /\ registry = NoSchema
  /\ changing = [u \in Admins |-> NoChange]
  /\ reading = [r \in Readers |-> NoSchema]
  /\ layoutCalls = 0
  /\ lost = (IF layouts[1].active THEN {} ELSE {"new"}) /\ staleBy = {}

----------------------------------------------------------------------------
KnownLayouts == {v \in LayoutVersions : layouts[v] # NoLayout}
ActiveIn(rows) == {v \in LayoutVersions : rows[v].active}
ActiveLayouts == ActiveIn(layouts)
ActiveSchema == {layouts[v].schema : v \in ActiveLayouts}

LayoutCall == layoutCalls < MaxLayoutCalls /\ layoutCalls' = layoutCalls + 1

BeginChange(u, kind, v, s, active) ==
  /\ LayoutCall
  /\ changing[u] = NoChange
  /\ changing' = [changing EXCEPT ![u] = [kind |-> kind, version |-> v, schema |-> s, active |-> active,
                                      read |-> ActiveLayouts]]
  /\ UNCHANGED <<layouts, registry, reading, lost, staleBy>>

EndChange(u) == [changing EXCEPT ![u] = NoChange]
GoOn(u, kind) == [changing EXCEPT ![u].kind = kind]

\* What the readers in progress hold was read before this commit.
Crossing == IF \E r \in Readers : reading[r] # NoSchema THEN {"crossed"} ELSE {}

\* A commit of the rows.  What is in the registry, or about to be put there, may
\* be out of date from here on.
CommitRows(rows, stale, cause) ==
  /\ layouts' = rows
  /\ staleBy' = staleBy \cup stale \cup Crossing
  /\ lost' = IF ActiveIn(rows) # {} THEN {} ELSE lost \cup cause

\* create_layout: the deactivation is committed by itself,
BeginCreateLayout(u, v, s, active) == BeginChange(u, IF active THEN "create" ELSE "insert", v, s, active)

Deactivated(read) ==
  [v \in LayoutVersions |->
     IF v \in read THEN [active |-> FALSE, schema |-> layouts[v].schema] ELSE layouts[v]]

DeactivateLayouts(u) ==
  LET c == changing[u] IN
  /\ c.kind = "create"
  /\ \/ /\ c.read = {}
        /\ changing' = GoOn(u, "insert")
        /\ UNCHANGED <<layouts, staleBy, lost>>
     \/ /\ c.read # {} /\ c.read \subseteq KnownLayouts
        /\ changing' = GoOn(u, "insert")
        /\ CommitRows(Deactivated(c.read), {"deactivated"}, {"create"})
     \/ /\ ~(c.read \subseteq KnownLayouts)
        /\ changing' = EndChange(u)
        /\ UNCHANGED <<layouts, staleBy, lost>>
  /\ UNCHANGED <<registry, reading, layoutCalls>>
\* Mutant: the schema without its index on the active layout.
InsertRefusedNoIndex(c) == layouts[c.version] # NoLayout

\* then the insert, which a row of that version or another active layout
\* refuses,
InsertRefused(c) == layouts[c.version] # NoLayout \/ (c.active /\ ActiveLayouts # {})

InsertLayout(u) ==
  LET c == changing[u] IN
  /\ c.kind \in {"insert", "copy"}
  /\ IF InsertRefused(c)
     THEN changing' = EndChange(u) /\ UNCHANGED <<layouts, staleBy, lost>>
     ELSE /\ CommitRows([layouts EXCEPT ![c.version] = [active |-> c.active, schema |-> c.schema]], {}, {})
          /\ changing' = IF c.kind = "insert" THEN GoOn(u, "invalidate") ELSE EndChange(u)
  /\ UNCHANGED <<registry, reading, layoutCalls>>

\* and the registry's entry is dropped, after the commit of the audit event.
DropEntry(u) ==
  /\ changing[u].kind = "invalidate"
  /\ registry' = NoSchema
  /\ staleBy' = staleBy \cap {"crossed"}
  /\ changing' = EndChange(u)
  /\ UNCHANGED <<layouts, reading, layoutCalls, lost>>

\* update_layout and delete_layout: one commit, then the same.
BeginUpdateLayout(u, v, s, active) == v \in KnownLayouts /\ BeginChange(u, "write", v, s, active)
BeginDeleteLayout(u, v) == v \in KnownLayouts /\ BeginChange(u, "delete", v, NoSchema, FALSE)

\* An update that does not name the flag keeps it.
UpdateLayout(u) ==
  LET c == changing[u]
      others == ActiveLayouts \ {c.version}
  IN
  /\ c.kind = "write"
  /\ \E active \in {c.active, layouts[c.version].active} :
       IF layouts[c.version] = NoLayout \/ (active /\ others # {})
       THEN changing' = EndChange(u) /\ UNCHANGED <<layouts, staleBy, lost>>
       ELSE /\ CommitRows([layouts EXCEPT ![c.version] = [active |-> active, schema |-> c.schema]], {}, {"written"})
            /\ changing' = GoOn(u, "invalidate")
  /\ UNCHANGED <<registry, reading, layoutCalls>>

DeleteLayout(u) ==
  LET c == changing[u] IN
  /\ c.kind = "delete"
  /\ IF layouts[c.version] = NoLayout
     THEN changing' = EndChange(u) /\ UNCHANGED <<layouts, staleBy, lost>>
     ELSE /\ CommitRows([layouts EXCEPT ![c.version] = NoLayout], {}, {"written"})
          /\ changing' = GoOn(u, "invalidate")
  /\ UNCHANGED <<registry, reading, layoutCalls>>

\* create_version, rollback_version and restore_version insert an inactive copy:
\* after the latest version, or after the one that is rolled back to.  They leave
\* the registry alone.
Latest == Max(KnownLayouts \cup {0})
Copied(v, next) == next \in LayoutVersions /\ v \in KnownLayouts
BeginCopyLatest(u, v) ==
  /\ Copied(v, Latest + 1)
  /\ BeginChange(u, "copy", Latest + 1, layouts[v].schema, FALSE)
BeginRollback(u, v) ==
  /\ Copied(v, v + 1)
  /\ BeginChange(u, "copy", v + 1, layouts[v].schema, FALSE)

\* publish_version: "Version is already active" is refused; the deactivation and
\* the activation are one commit, whose statements run in the order of the rows'
\* random keys: the activation may come first and meet the active layout.  The
\* registry is left alone.
BeginPublishLayout(u, v) == v \in KnownLayouts \ ActiveLayouts /\ BeginChange(u, "publish", v, NoSchema, TRUE)

PublishedRows(c) == [Deactivated(c.read) EXCEPT ![c.version].active = TRUE]

PublishLayout(u) ==
  LET c == changing[u]
      gone == ({c.version} \cup c.read) \ KnownLayouts
      clash == ActiveLayouts \ (c.read \cup {c.version})
  IN
  /\ c.kind = "publish"
  /\ changing' = EndChange(u)
  /\ \/ UNCHANGED <<layouts, staleBy, lost>>
        /\ (gone # {} \/ clash # {} \/ c.read # {})
     \/ /\ gone = {} /\ clash = {}
        /\ CommitRows(PublishedRows(c), {"published"}, {})
  /\ UNCHANGED <<registry, reading, layoutCalls>>

\* The process of a request dies, or its connection: what is committed stays.
DieChanging(u) ==
  /\ changing[u] # NoChange
  /\ changing' = EndChange(u)
  /\ staleBy' = IF changing[u].kind = "invalidate" THEN staleBy \cup {"died"} ELSE staleBy
  /\ UNCHANGED <<layouts, registry, reading, layoutCalls, lost>>

----------------------------------------------------------------------------
\* get_active_layout_schema, when the registry has no entry: the rows are read,
ReadLayout(r) ==
  /\ LayoutCall
  /\ registry = NoSchema /\ reading[r] = NoSchema
  /\ \E s \in ActiveSchema : reading' = [reading EXCEPT ![r] = s]
  /\ UNCHANGED <<layouts, registry, changing, lost, staleBy>>

\* and counted, and then the entry is set.
SetRegistry(r) ==
  /\ reading[r] # NoSchema
  /\ registry' = reading[r]
  /\ reading' = [reading EXCEPT ![r] = NoSchema]
  /\ UNCHANGED <<layouts, changing, layoutCalls, lost, staleBy>>

\* _evict_expired: ttl_seconds after it was set, the next look-up drops it.
ExpireEntry ==
  /\ registry # NoSchema
  /\ registry' = NoSchema
  /\ staleBy' = IF \E r \in Readers : reading[r] # NoSchema THEN staleBy ELSE {}
  /\ UNCHANGED <<layouts, changing, reading, layoutCalls, lost>>

----------------------------------------------------------------------------
ChangeStep(u) ==
  \/ DeactivateLayouts(u) \/ InsertLayout(u) \/ DropEntry(u)
  \/ UpdateLayout(u) \/ DeleteLayout(u) \/ PublishLayout(u)

LayoutNext ==
  \/ \E u \in Admins :
        \/ \E v \in LayoutVersions, s \in Schemas, a \in BOOLEAN :
              BeginCreateLayout(u, v, s, a) \/ BeginUpdateLayout(u, v, s, a)
        \/ \E v \in LayoutVersions :
              BeginDeleteLayout(u, v) \/ BeginCopyLatest(u, v) \/ BeginRollback(u, v) \/ BeginPublishLayout(u, v)
        \/ ChangeStep(u) \/ DieChanging(u)
  \/ \E r \in Readers : ReadLayout(r) \/ SetRegistry(r)
  \/ ExpireEntry

LayoutSpec == LayoutInit /\ [][LayoutNext]_layoutVars

----------------------------------------------------------------------------
\* The type invariant of the layouts, the registry and the requests.
LayoutTypeOK ==
  /\ layouts \in [LayoutVersions -> LayoutRows] /\ Cardinality(ActiveLayouts) =< 1
  /\ registry \in Schemas \cup {NoSchema}
  /\ changing \in [Admins -> LayoutChanges \cup {NoChange}]
  /\ reading \in [Readers -> Schemas \cup {NoSchema}]
  /\ layoutCalls \in 0..MaxLayoutCalls
  /\ lost \in SUBSET {"new", "create", "written"}
  /\ staleBy \in SUBSET {"deactivated", "published", "crossed", "died"}

\* An object that has had an active layout keeps one through publishing, rolling
\* back and restoring, by several administrators at once: only an administrator
\* who clears the flag or deletes the layout, or a creation between its two
\* commits (or refused at the second), leaves it without.
ActiveIsKept == ActiveLayouts = {} => lost # {}

\* What the registry serves is the active layout, unless a change is committed and
\* its entry not dropped yet, a layout was published since (which drops nothing),
\* a request died between the two, the active layouts were committed away for a
\* creation, or the entry was set by a reader whose look-up the change crossed.
RegistryIsCurrent ==
  (registry # NoSchema /\ staleBy = {} /\ ~\E u \in Admins : changing[u].kind = "invalidate")
     => registry \in ActiveSchema

\* What the screens are built from: an object that had a layout has one, and the
\* registry serves it, with the exceptions each part names.
LayoutsAreServed == ActiveIsKept /\ RegistryIsCurrent
=============================================================================
