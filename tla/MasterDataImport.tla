--------------------------- MODULE MasterDataImport ---------------------------
(***************************************************************************)
(* Master data that is loaded from CSV files, exported and deleted as a      *)
(* whole: services/master_data_import.py reads and writes the files, the      *)
(* bulk_upsert_ functions store them, one per kind of data, and              *)
(* scripts/load_master_data.py loads two of the kinds past the application.  *)
(* The kinds differ in what a file may hold, in what a row is matched with,  *)
(* in what a blank cell does, and in whether a deleted row is kept.         *)
(* A row is its key, one descriptive column and one optional flag.  Rows are *)
(* read when an upload starts and committed when it ends: requests overlap.  *)
(***************************************************************************)
EXTENDS Naturals, Sequences, SequencesExt

CONSTANTS
  Keys, Texts,    \* what the cells of a file may hold
  ImportKinds,    \* the kinds of data considered
  Files,          \* the files somebody may upload: sequences of rows
  StarterFile,    \* the categories a search creates when there are none
  Known,          \* the accounts and suppliers that a row may refer to
  Blank,          \* an empty cell
  Uploaders,      \* administrators, one request each at a time
  MaxUploads,     \* bound: requests begun in all
  MaxTable        \* bound: rows ever stored

ASSUME ImportAssumption == MaxUploads \in Nat /\ MaxTable \in Nat

VARIABLES
  kind,        \* which data this is
  tenantless,  \* whether the administrators belong to no tenant
  table,       \* the rows ever stored, in the order of their creation
  upload,      \* per uploader: the upload that has read and not committed
  exported,    \* the file last exported, and the rows it was made from
  report,      \* history: how the last upload ended, until something changes
  uploads      \* requests begun (bound)

importVars == <<kind, tenantless, table, upload, exported, report, uploads>>

----------------------------------------------------------------------------
(* The files: whether a key may occur once only, what becomes of a row with   *)
(* a blank key or a blank text, and how the flag is read.                  *)
ParseCategories == [once |-> TRUE, blankKey |-> "refused", blankText |-> "refused", flag |-> "absent"]
ParseCodes      == [once |-> TRUE, blankKey |-> "skipped", blankText |-> "kept", flag |-> "absent"]
ParseAccounts   == [once |-> TRUE, blankKey |-> "skipped", blankText |-> "kept", flag |-> "absent"]
ParseMappings   == [once |-> FALSE, blankKey |-> "refused", blankText |-> "refused", flag |-> "absent"]
ParsePolicies   == [once |-> FALSE, blankKey |-> "refused", blankText |-> "kept", flag |-> "no_unless_yes"]
ParseHeaders    == [once |-> FALSE, blankKey |-> "kept", blankText |-> "kept", flag |-> "null_unless_clear"]
ParseAddresses  == [once |-> FALSE, blankKey |-> "skipped", blankText |-> "kept", flag |-> "null_unless_clear"]
ParseAccountsAtBank == [once |-> FALSE, blankKey |-> "skipped", blankText |-> "kept", flag |-> "null_unless_clear"]
ParseDepartments == [once |-> TRUE, blankKey |-> "skipped", blankText |-> "kept", flag |-> "strict"]
ParseCostCenters == [once |-> TRUE, blankKey |-> "skipped", blankText |-> "kept", flag |-> "strict"]
ParsePlants      == [once |-> TRUE, blankKey |-> "skipped", blankText |-> "kept", flag |-> "strict"]

Parser == [categories |-> ParseCategories, codes |-> ParseCodes, accounts |-> ParseAccounts,
           mappings |-> ParseMappings, policies |-> ParsePolicies, headers |-> ParseHeaders,
           addresses |-> ParseAddresses, banks |-> ParseAccountsAtBank,
           departments |-> ParseDepartments, cost_centers |-> ParseCostCenters, plants |-> ParsePlants]

\* A file with one bad row is refused as a whole.
Refused(file) ==
  LET p == Parser[kind]
      keyed == {i \in DOMAIN file : file[i].key # Blank}
  IN  \/ p.once /\ \E i, j \in keyed : i < j /\ file[i].key = file[j].key
      \/ p.blankKey = "refused" /\ keyed # DOMAIN file
      \/ p.blankText = "refused" /\ \E i \in keyed : file[i].text = Blank
      \/ p.flag = "strict" /\ \E i \in keyed : file[i].flag = "odd"

\* _parse_bool, and what a parser makes of a cell that is neither.
FlagRead(cell) ==
  IF Parser[kind].flag = "absent" THEN "null"
  ELSE IF cell \in {"yes", "no"} THEN cell
  ELSE IF Parser[kind].flag = "no_unless_yes" THEN "no" ELSE "null"

\* Rows that a parser leaves out.
Skipped(r) == r.key = Blank /\ Parser[kind].blankKey = "skipped"

RowsOf(file) ==
  [i \in DOMAIN file |-> [file[i] EXCEPT !.flag = FlagRead(@)]]

----------------------------------------------------------------------------
(* The tables: what a row of a file is matched with, what a blank cell does   *)
(* to the row it is matched with, whether a stored row becomes active again,  *)
(* and the flag of a new row whose cell was blank.                         *)
StoreCategories  == [by |-> "key", blank |-> "erases", revives |-> TRUE, flag |-> "absent"]
StoreCodes       == [by |-> "key", blank |-> "erases", revives |-> TRUE, flag |-> "absent"]
StoreAccounts    == [by |-> "key", blank |-> "erases", revives |-> TRUE, flag |-> "absent"]
StoreMappings    == [by |-> "key", blank |-> "erases", revives |-> TRUE, flag |-> "absent"]
StorePolicies    == [by |-> "key", blank |-> "erases", revives |-> TRUE, flag |-> "no"]
StoreHeaders     == [by |-> "key_or_text", blank |-> "no_cell_counts", revives |-> FALSE, flag |-> "no"]
StoreAddresses   == [by |-> "both", blank |-> "keeps", revives |-> FALSE, flag |-> "no"]
StoreAccountsAtBank == [by |-> "nothing", blank |-> "keeps", revives |-> FALSE, flag |-> "no"]
StoreDepartments == [by |-> "key", blank |-> "keeps", revives |-> FALSE, flag |-> "yes"]
StoreCostCenters == [by |-> "key", blank |-> "keeps", revives |-> FALSE, flag |-> "yes"]
StorePlants      == [by |-> "key", blank |-> "keeps", revives |-> FALSE, flag |-> "yes"]

Store == [categories |-> StoreCategories, codes |-> StoreCodes, accounts |-> StoreAccounts,
          mappings |-> StoreMappings, policies |-> StorePolicies, headers |-> StoreHeaders,
          addresses |-> StoreAddresses, banks |-> StoreAccountsAtBank,
          departments |-> StoreDepartments, cost_centers |-> StoreCostCenters, plants |-> StorePlants]

(* Deleting all: rows are kept and marked, or dropped.                     *)
DeleteCategories  == "inactive"
DeleteCodes       == "inactive"
DeleteAccounts    == "inactive"
DeleteMappings    == "inactive"
DeletePolicies    == "inactive"
DeleteHeaders     == "gone"
DeleteAddresses   == "gone"
DeleteAccountsAtBank == "gone"
DeleteDepartments == "gone"
DeleteCostCenters == "gone"
DeletePlants      == "gone"

Deleted == [categories |-> DeleteCategories, codes |-> DeleteCodes, accounts |-> DeleteAccounts,
            mappings |-> DeleteMappings, policies |-> DeletePolicies, headers |-> DeleteHeaders,
            addresses |-> DeleteAddresses, banks |-> DeleteAccountsAtBank,
            departments |-> DeleteDepartments, cost_centers |-> DeleteCostCenters, plants |-> DeletePlants]

Untenanted == {"codes", "headers", "addresses", "banks"}
HasFlag == Store[kind].flag # "absent"

\* The tenant a request writes for; a user without one writes the defaults.
OwnScope == IF tenantless \/ kind \in Untenanted THEN "global" ELSE "own"

\* Categories compare the user's tenant itself, and NULL equals nothing.
FindsByScope(r) == r.scope = OwnScope /\ ~ (kind = "categories" /\ tenantless)

\* The rows a list, a count and an export see.
Listed ==
  {i \in DOMAIN table :
     /\ table[i].state = "active"
     /\ \/ table[i].scope = OwnScope
        \/ kind = "accounts" /\ table[i].scope = "global"
        \/ kind = "categories" /\ tenantless}

\* An upload in progress: how it came about, the rows of its file, the table it
\* has read, and whether nothing was committed since.
NoUpload == [via |-> "none"]
NoReport == [via |-> "none", result |-> "none"]
Routes == {"desk", "export", "put", "seed"}

ImportInit ==
  /\ kind \in ImportKinds
  /\ tenantless \in BOOLEAN
  /\ table = <<>>
  /\ upload = [u \in Uploaders |-> NoUpload]
  /\ exported = <<>>
  /\ report = NoReport
  /\ uploads = 0

----------------------------------------------------------------------------
\* The stored row that a row of the file is taken for, or 0.  A request looks
\* rows up as it found them; what it has stored itself, as it created it.
Matching(session, r) ==
  LET seen == session.found
      mine == {i \in DOMAIN seen : seen[i].state # "gone" /\ FindsByScope(seen[i])}
      byKey == {i \in mine : r.key # Blank /\ seen[i].key = r.key}
      byText == {i \in mine : r.text # Blank /\ seen[i].text = r.text}
      found == CASE Store[kind].by = "key" -> byKey
                 [] Store[kind].by = "both" -> byKey \cap {i \in mine : seen[i].text = r.text}
                 [] Store[kind].by = "key_or_text" -> IF byKey # {} THEN byKey ELSE byText
                 [] OTHER -> {}
  IN  Max(found \cup {0})

\* Rows that are passed over: one that is not read, and, with a report, one whose
\* account does not exist (PUT does not ask), whose supplier does not, and a new
\* supplier without a name.
Ignored(r, via) ==
  \/ Skipped(r)
  \/ kind = "mappings" /\ via # "put" /\ r.text \notin Known
  \/ kind \in {"addresses", "banks"} /\ r.key \notin Known
Nameless(r) == kind = "headers" /\ r.text = Blank
Passed(session, r, via) == Ignored(r, via) \/ (Nameless(r) /\ Matching(session, r) = 0)

NewRow(r) ==
  [key |-> r.key, text |-> r.text, scope |-> OwnScope, state |-> "active", flag |-> r.flag]

\* Mutant: a row that was deleted stays so, as the script leaves it.
UpdatedAsDeleted(old, r) == [old EXCEPT !.text = r.text, !.flag = r.flag]

Updated(old, r) ==
  [old EXCEPT
     !.key = IF kind = "headers" /\ r.key # Blank THEN r.key ELSE @,
     !.text = CASE Store[kind].blank = "erases" -> r.text
                [] Store[kind].blank = "keeps" /\ r.text # Blank -> r.text
                [] OTHER -> @,
     !.flag = r.flag,
     !.state = IF Store[kind].revives THEN "active" ELSE @]

\* The bulk_upsert_ functions: the rows in the request's session, one by one.
StoreRow(session, r, via) ==
  LET i == Matching(session, r) IN
  IF Passed(session, r, via) THEN session
  ELSE IF i = 0 THEN [found |-> Append(session.found, NewRow(r)), rows |-> Append(session.rows, NewRow(r))]
  ELSE [session EXCEPT !.rows[i] = Updated(@, r)]

\* The session after so many rows of the file.
Stages(w) ==
  LET stage[n \in 0..Len(w.rows)] ==
        IF n = 0 THEN [found |-> w.read, rows |-> w.read]
        ELSE StoreRow(stage[n - 1], w.rows[n], w.via)
  IN  stage
Session(w) == Stages(w)[Len(w.rows)].rows

\* The commit writes the columns that differ from what was read, and the new
\* rows, with the default of a flag that is not given.
Rewritten(w) == {i \in DOMAIN w.read : Session(w)[i] # w.read[i]}
Created(r) == [r EXCEPT !.flag = IF HasFlag /\ @ = "null" THEN Store[kind].flag ELSE @]
TableAfter(w) ==
  LET made == Session(w)
      column(i, c) == IF made[i][c] # w.read[i][c] THEN made[i][c] ELSE table[i][c]
      kept == Len(table)
  IN  [i \in 1 .. kept + Len(made) - Len(w.read) |->
         IF i > kept THEN Created(made[i - kept + Len(w.read)])
         ELSE IF i \in Rewritten(w)
           THEN [key |-> column(i, "key"), text |-> column(i, "text"), flag |-> column(i, "flag"),
                 scope |-> column(i, "scope"), state |-> column(i, "state")]
           ELSE table[i]]

\* Two rows of one key.
Clash(rows) ==
  \E i, j \in DOMAIN rows :
    /\ i < j /\ "gone" \notin {rows[i].state, rows[j].state}
    /\ rows[i].key = rows[j].key /\ rows[i].key # Blank /\ rows[i].scope = rows[j].scope

\* It fails as a whole over a row that is gone, a flag set to NULL, and a key
\* that is there already.
CommitFails(w) ==
  \/ \E i \in Rewritten(w) : table[i].state = "gone" \/ (HasFlag /\ Session(w)[i].flag = "null")
  \/ kind \notin {"addresses", "banks"} /\ Clash(TableAfter(w))

----------------------------------------------------------------------------
UploadCall == uploads < MaxUploads /\ uploads' = uploads + 1

\* The uploads in progress, after something was committed by those who are done.
Overlapped(done) ==
  [v \in Uploaders |-> IF v \in done \/ upload[v] = NoUpload THEN NoUpload
                       ELSE [upload[v] EXCEPT !.fresh = FALSE]]

Reads(u, via, rows) ==
  /\ upload' = [upload EXCEPT ![u] = [via |-> via, rows |-> rows, read |-> table, fresh |-> TRUE]]
  /\ UNCHANGED <<kind, tenantless, table, exported, report>>

\* An upload: parse the file, and refuse it or read what is stored.
BeginUpload(u, via, file) ==
  /\ UploadCall /\ upload[u] = NoUpload
  /\ IF Refused(file)
     THEN /\ report' = [via |-> via, result |-> "refused", rows |-> RowsOf(file), fresh |-> TRUE]
          /\ UNCHANGED <<kind, tenantless, table, upload, exported>>
     ELSE Reads(u, via, RowsOf(file))

\* The endpoints, one per kind.
UploadCategories(u, via, file)  == kind = "categories" /\ BeginUpload(u, via, file)
UploadCodes(u, via, file)       == kind = "codes" /\ BeginUpload(u, via, file)
UploadAccounts(u, via, file)    == kind = "accounts" /\ BeginUpload(u, via, file)
UploadMappings(u, via, file)    == kind = "mappings" /\ BeginUpload(u, via, file)
UploadPolicies(u, via, file)    == kind = "policies" /\ BeginUpload(u, via, file)
UploadHeaders(u, via, file)     == kind = "headers" /\ BeginUpload(u, via, file)
UploadAddresses(u, via, file)   == kind = "addresses" /\ BeginUpload(u, via, file)
UploadAccountsAtBank(u, via, file) == kind = "banks" /\ BeginUpload(u, via, file)
UploadDepartments(u, via, file) == kind = "departments" /\ BeginUpload(u, via, file)
UploadCostCenters(u, via, file) == kind = "cost_centers" /\ BeginUpload(u, via, file)
UploadPlants(u, via, file)      == kind = "plants" /\ BeginUpload(u, via, file)

Upload(u, via, file) ==
  \/ UploadCategories(u, via, file) \/ UploadCodes(u, via, file) \/ UploadAccounts(u, via, file)
  \/ UploadMappings(u, via, file) \/ UploadPolicies(u, via, file) \/ UploadHeaders(u, via, file)
  \/ UploadAddresses(u, via, file) \/ UploadAccountsAtBank(u, via, file)
  \/ UploadDepartments(u, via, file) \/ UploadCostCenters(u, via, file) \/ UploadPlants(u, via, file)

\* PUT of one mapping or policy: no file, and nothing of a parser's checks.
BeginPut(u, file) ==
  /\ UploadCall /\ upload[u] = NoUpload
  /\ kind \in {"mappings", "policies"} /\ Len(file) = 1 /\ file[1].key # Blank
  /\ Reads(u, "put", RowsOf(file))

\* GET /categories by anybody, when it finds none: it stores the starter set.
BeginSeed(u) ==
  /\ UploadCall /\ upload[u] = NoUpload
  /\ kind = "categories" /\ Listed = {}
  /\ Reads(u, "seed", RowsOf(StarterFile))

CommitUpload(u) ==
  LET w == upload[u] IN
  /\ w # NoUpload /\ Len(table) + Len(w.rows) <= MaxTable
  /\ IF CommitFails(w)
     THEN /\ upload' = [upload EXCEPT ![u] = NoUpload]
          /\ UNCHANGED table
     ELSE /\ table' = TableAfter(w)
          /\ upload' = Overlapped({u})
  /\ report' = [via |-> w.via, result |-> IF CommitFails(w) THEN "failed" ELSE "loaded",
                rows |-> w.rows, fresh |-> w.fresh]
  /\ UNCHANGED <<kind, tenantless, exported, uploads>>

\* The DELETE endpoints.  The defaults that a tenant sees are not its own.
DeleteAll ==
  LET theirs == {i \in Listed : table[i].scope = OwnScope \/ kind = "categories"} IN
  /\ UploadCall
  /\ table' = [i \in DOMAIN table |->
                 IF i \in theirs THEN [table[i] EXCEPT !.state = Deleted[kind]] ELSE table[i]]
  /\ upload' = Overlapped({})
  /\ report' = NoReport
  /\ UNCHANGED <<kind, tenantless, exported>>

(* The exports, which write the columns that the parsers read.  Supplier data *)
(* has none.                                                               *)
BuildCategories == "blank"
BuildCodes      == "blank"
BuildAccounts   == "blank"
BuildMappings   == "blank"
BuildPolicies   == "flag"
BuildDepartments == "flag"
BuildCostCenters == "flag"
BuildPlants      == "flag"
Builder == [categories |-> BuildCategories, codes |-> BuildCodes, accounts |-> BuildAccounts,
            mappings |-> BuildMappings, policies |-> BuildPolicies, departments |-> BuildDepartments,
            cost_centers |-> BuildCostCenters, plants |-> BuildPlants]

Export ==
  LET line(t) == [key |-> t.key, text |-> t.text, flag |-> IF Builder[kind] = "flag" THEN t.flag ELSE "blank"]
      at == SetToSeq(Listed)
  IN
  /\ kind \in DOMAIN Builder
  /\ exported' = [i \in DOMAIN at |-> line(table[at[i]])]
  /\ UNCHANGED <<kind, tenantless, table, upload, report, uploads>>

\* scripts/load_master_data.py: one transaction of INSERT ... ON CONFLICT DO
\* UPDATE for the defaults.  It checks no key twice and no account, and it
\* leaves is_active of a row that exists as it is.
ScriptRow(rows, r) ==
  LET i == Max({j \in DOMAIN rows : rows[j].scope = "global" /\ rows[j].key = r.key} \cup {0}) IN
  IF Skipped(r) THEN rows
  ELSE IF i # 0 THEN [rows EXCEPT ![i].text = r.text]
  ELSE Append(rows, [key |-> r.key, text |-> r.text, scope |-> "global", state |-> "active", flag |-> r.flag])

ScriptStages(rows) ==
  LET stage[n \in 0..Len(rows)] == IF n = 0 THEN table ELSE ScriptRow(stage[n - 1], rows[n])
  IN  stage

LoadScript(file) ==
  /\ UploadCall
  /\ \/ kind = "codes"
     \/ kind = "mappings" /\ \A i \in DOMAIN file : file[i].key # Blank
  /\ Len(table) + Len(file) <= MaxTable
  /\ table' = ScriptStages(RowsOf(file))[Len(file)]
  /\ upload' = Overlapped({})
  /\ report' = NoReport
  /\ UNCHANGED <<kind, tenantless, exported>>

ImportNext ==
  \/ \E u \in Uploaders, file \in Files :
       Upload(u, "desk", file) \/ BeginPut(u, file)
  \/ \E u \in Uploaders :
       \/ exported # <<>> /\ Upload(u, "export", exported)
       \/ BeginSeed(u) \/ CommitUpload(u)
  \/ DeleteAll \/ Export
  \/ \E file \in Files : LoadScript(file)

ImportSpec == ImportInit /\ [][ImportNext]_importVars

----------------------------------------------------------------------------
Lines == [key : Keys \cup {Blank}, text : Texts \cup {Blank}, flag : {"yes", "no", "blank", "odd"}]
ASSUME FilesAssumption ==
  /\ ImportKinds \subseteq DOMAIN Parser /\ Blank \notin Known
  /\ Files \subseteq Seq(Lines) /\ StarterFile \in Seq(Lines)
  /\ \A i \in DOMAIN StarterFile : Blank \notin {StarterFile[i].key, StarterFile[i].text}

Rows == [key : Keys \cup {Blank}, text : Texts \cup {Blank}, flag : {"yes", "no", "null"},
         scope : {"own", "global"}, state : {"active", "inactive", "gone"}]

ImportTypeOK ==
  /\ kind \in ImportKinds /\ tenantless \in BOOLEAN
  /\ \A i \in DOMAIN table : table[i] \in Rows
  /\ \A u \in Uploaders :
       \/ upload[u] = NoUpload
       \/ /\ upload[u].via \in Routes /\ upload[u].fresh \in BOOLEAN
          /\ upload[u].read \in Seq(Rows) /\ Len(upload[u].read) <= Len(table)
  /\ uploads \in 0..MaxUploads

\* A row of an upload that counts: no later row that was read is about the same
\* key or name, and it was not passed over.  (A later row of supplier headers
\* may take over, by the name, the supplier that this row found by its code.)
CountedRows(rows, via) ==
  {rows[i] : i \in {j \in DOMAIN rows :
     /\ \A n \in DOMAIN rows :
          n > j => \/ Skipped(rows[n])
                   \/ kind # "headers" /\ rows[n].key # rows[j].key /\ rows[n].text # rows[j].text
     /\ ~ Ignored(rows[j], via) /\ ~ Nameless(rows[j])}}

Stands(t, r) ==
  /\ t.state = "active" /\ t.scope = OwnScope
  /\ r.key = Blank \/ t.key = r.key
  /\ kind = "headers" \/ t.text = r.text \/ (r.text = Blank /\ Store[kind].blank = "keeps")
  /\ r.flag = "null" \/ t.flag = r.flag

\* Files that an export may give and an upload does not take back: the defaults
\* beside a tenant's own account of the same code, a mapping that PUT gave an
\* account nobody has, and categories when the administrators have no tenant.
TakenBack(rows) ==
  /\ kind = "accounts" => \A i, j \in DOMAIN rows : i # j => rows[i].key # rows[j].key
  /\ kind = "mappings" => \A i \in DOMAIN rows : rows[i].text \in Known
  /\ ~ (kind = "categories" /\ tenantless)

\* An upload that says its rows were loaded has left them stored and in use,
\* and an exported file is always taken back - also after everything was
\* deleted - unless something else was committed while the upload ran, and
\* except for the files TakenBack names.  (bulk_upsert_*, delete_all_*: "lets a
\* later re-upload of the same code reactivate it"; the export endpoints: "edit
\* and re-upload to update in place")
ImportsTakeEffect ==
  report.result # "none" /\ report.fresh =>
    /\ report.result = "loaded" =>
         \A r \in CountedRows(report.rows, report.via) : \E i \in DOMAIN table : Stands(table[i], r)
    /\ report.via = "export" /\ TakenBack(report.rows) => report.result = "loaded"
=============================================================================
