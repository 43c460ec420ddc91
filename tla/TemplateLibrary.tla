--------------------------- MODULE TemplateLibrary ---------------------------
(***************************************************************************)
(* The questionnaire templates of one module: drafts are created, edited,   *)
(* published and deleted (crud/template.py, routers/template.py), and       *)
(* responses are saved and submitted against the effective template         *)
(* (upsert_template_response, services/template_engine.py).                 *)
(*                                                                         *)
(* Each request reads, checks the status it read, and commits later.  The   *)
(* schema has no unique constraint on versions nor on what is published.    *)
(***************************************************************************)
EXTENDS Naturals, FiniteSets, FiniteSetsExt

CONSTANTS
  Definitions,      \* identifiers of template definitions
  Authors,          \* users, one request each at a time
  Questions,        \* contents a draft may have besides none
  NoTemplate,       \* null
  MaxTemplateCalls  \* bound: requests begun in all

ASSUME TemplateAssumption == NoTemplate \notin Definitions /\ MaxTemplateCalls \in Nat

VARIABLES
  defs,       \* rows of template_definitions, or NoDef, or Gone
  response,   \* the TemplateResponse of one entity, or NoResponse
  authoring,  \* per author: the request in progress, or NoAuthoring
  authored,   \* requests begun (bound)
  races       \* history: what was committed behind a change of what it read

templateVars == <<defs, response, authoring, authored, races>>

\* A definition belongs to the tenant or is global; sections are one content,
\* "none" when there are no sections.  Keys are drawn anew: that of a deleted
\* definition is not used again.
Owners == {"tenant", "global"}
Contents == Questions \cup {"none"}
NoDef == [status |-> "absent"]
Gone == [status |-> "deleted"]
Defs == [status : {"draft", "published", "deprecated"}, owner : Owners, version : Nat \ {0},
         content : Contents]

\* A response names the template it was created with, and, when submitted, the
\* template and the questions it was validated and scored with.
NoResponse == [template |-> NoTemplate, scored |-> NoTemplate, content |-> "none"]
Responses == [template : Definitions \cup {NoTemplate}, scored : Definitions \cup {NoTemplate},
              content : Contents]

\* A request holds what it read: the definition it is about, the definitions it
\* will deprecate, the highest version, the response.
NoAuthoring == [kind |-> "none"]
AuthorRequests == [kind : {"create", "edit", "publish", "delete", "respond"},
             def : Definitions \cup {NoTemplate}, owner : Owners, content : Contents,
             version : Nat, previous : SUBSET Definitions, submit : BOOLEAN,
             read : Responses, fresh : BOOLEAN]

TemplateInit ==
  /\ defs = [d \in Definitions |-> NoDef]
  /\ response = NoResponse
  /\ authoring = [u \in Authors |-> NoAuthoring]
  /\ authored = 0
  /\ races = {}

----------------------------------------------------------------------------
Stored == {d \in Definitions : defs[d] \notin {NoDef, Gone}}
With(owner, status) == {d \in Stored : defs[d].owner = owner /\ defs[d].status = status}
Versions(owner) == {defs[d].version : d \in {e \in Stored : defs[e].owner = owner}}

Request(kind, d, owner, content, submit) ==
  [kind |-> kind, def |-> d, owner |-> owner, content |-> content,
   version |-> Max(Versions(owner) \cup {0}),
   previous |-> With(owner, "published") \ {d},
   submit |-> submit, read |-> response, fresh |-> TRUE]

BeginRequest(u, r) ==
  /\ authored < MaxTemplateCalls /\ authored' = authored + 1
  /\ authoring[u] = NoAuthoring
  /\ authoring' = [authoring EXCEPT ![u] = r]
  /\ UNCHANGED <<defs, response, races>>

\* create_template_definition: the highest version of the scope is read.
BeginCreate(u, owner, content) ==
  BeginRequest(u, Request("create", NoTemplate, owner, content, FALSE))

\* update_draft_, publish_ and delete_draft_template_definition: refused unless
\* the definition is read as a draft; publishing also needs sections.
Draft(d) == defs[d].status = "draft"

BeginUpdate(u, d, content) ==
  /\ Draft(d)
  /\ BeginRequest(u, Request("edit", d, defs[d].owner, content, FALSE))

BeginPublish(u, d) ==
  /\ Draft(d)
  /\ defs[d].content # "none"
  /\ BeginRequest(u, Request("publish", d, defs[d].owner, "none", FALSE))

BeginDelete(u, d) ==
  /\ Draft(d)
  /\ BeginRequest(u, Request("delete", d, defs[d].owner, "none", FALSE))

\* get_effective_template: the published definition of the tenant with the
\* highest version, or else the global one; a tie is resolved by the database.
Highest(S) == {d \in S : \A e \in S : defs[e].version =< defs[d].version}
Effective == IF With("tenant", "published") # {} THEN Highest(With("tenant", "published"))
             ELSE Highest(With("global", "published"))

\* upsert_template_response; without an effective template it returns None.
BeginRespond(u, d, submit) ==
  /\ d \in Effective
  /\ BeginRequest(u, Request("respond", d, defs[d].owner, defs[d].content, submit))

----------------------------------------------------------------------------
\* A request about to commit, and the other requests after definition d (or, for
\* d = NoTemplate, only the scope) was written by a request of some kinds.
Ends(u, d, kinds) ==
  authoring' = [v \in Authors |->
     IF v = u THEN NoAuthoring
     ELSE IF authoring[v].kind \in kinds /\
             ((d # NoTemplate /\ authoring[v].def = d) \/ authoring[v].owner = authoring[u].owner)
          THEN [authoring[v] EXCEPT !.fresh = FALSE] ELSE authoring[v]]

Races(u) == races' = IF authoring[u].fresh THEN races ELSE races \cup {authoring[u].kind}

\* A new row is used for the draft; its version is the one read plus one.
CommitCreate(u, d) ==
  LET r == authoring[u] IN
  /\ r.kind = "create" /\ defs[d] = NoDef
  /\ defs' = [defs EXCEPT ![d] = [status |-> "draft", owner |-> r.owner, version |-> r.version + 1,
                                  content |-> r.content]]
  /\ Races(u) /\ Ends(u, NoTemplate, {"create"})
  /\ UNCHANGED <<response, authored>>

\* The sections are replaced, whatever the row's status is by now.
CommitUpdate(u) ==
  LET r == authoring[u] IN
  /\ r.kind = "edit"
  /\ IF r.def \in Stored
     THEN /\ defs' = [defs EXCEPT ![r.def].content = r.content]
          /\ Races(u) /\ Ends(u, r.def, {"edit", "publish", "delete"})
     ELSE Ends(u, r.def, {}) /\ UNCHANGED <<defs, races>>
  /\ UNCHANGED <<response, authored>>

\* Mutants: the older versions stay published; they are marked "archived", which
\* is no status.
PublishedBesides(r) == [defs EXCEPT ![r.def].status = "published"]

\* Those read as published are deprecated, the draft is published.
Published(r) ==
  [d \in Definitions |->
     IF d = r.def THEN [defs[d] EXCEPT !.status = "published"]
     ELSE IF d \in r.previous THEN [defs[d] EXCEPT !.status = "deprecated"] ELSE defs[d]]

CommitPublish(u) ==
  LET r == authoring[u] IN
  /\ r.kind = "publish"
  /\ IF {r.def} \cup r.previous \subseteq Stored
     THEN /\ defs' = Published(r)
          /\ Races(u) /\ Ends(u, r.def, {"edit", "publish", "delete"})
     ELSE Ends(u, r.def, {}) /\ UNCHANGED <<defs, races>>
  /\ UNCHANGED <<response, authored>>

\* The foreign key of the response (RESTRICT) refuses the deletion of a
\* definition a response names.
CommitDelete(u) ==
  LET r == authoring[u] IN
  /\ r.kind = "delete"
  /\ IF r.def \in Stored /\ response.template # r.def
     THEN /\ defs' = [defs EXCEPT ![r.def] = Gone]
          /\ Races(u) /\ Ends(u, r.def, {"edit", "publish", "delete"})
     ELSE Ends(u, r.def, {}) /\ UNCHANGED <<defs, races>>
  /\ UNCHANGED <<response, authored>>

\* The answers are merged into the response as read; its template stays the one
\* it was created with, the score is the effective template's.  A second
\* response of the entity, created by a request that saw none, replaces the
\* first in every later look-up.
CommitRespond(u) ==
  LET r == authoring[u]
      template == IF r.read.template = NoTemplate THEN r.def ELSE r.read.template
      creates == r.read.template = NoTemplate
  IN
  /\ r.kind = "respond"
  /\ IF creates /\ r.def \notin Stored THEN UNCHANGED response
     ELSE response' = IF r.submit THEN [template |-> template, scored |-> r.def, content |-> r.content]
                      ELSE IF creates THEN [NoResponse EXCEPT !.template = template] ELSE response
  /\ Ends(u, NoTemplate, {})
  /\ UNCHANGED <<defs, authored, races>>

----------------------------------------------------------------------------
TemplateNext ==
  \E u \in Authors :
    \/ \E owner \in Owners, c \in Contents : BeginCreate(u, owner, c)
    \/ \E d \in Definitions : BeginPublish(u, d) \/ BeginDelete(u, d) \/ CommitCreate(u, d)
    \/ \E d \in Definitions, c \in Contents : BeginUpdate(u, d, c)
    \/ \E d \in Definitions, s \in BOOLEAN : BeginRespond(u, d, s)
    \/ CommitUpdate(u) \/ CommitPublish(u) \/ CommitDelete(u) \/ CommitRespond(u)

TemplateSpec == TemplateInit /\ [][TemplateNext]_templateVars

----------------------------------------------------------------------------
\* The type invariant of the library and its requests.
TemplateTypeOK ==
  /\ defs \in [Definitions -> Defs \cup {NoDef, Gone}]
  /\ response \in Responses
  /\ authoring \in [Authors -> AuthorRequests \cup {NoAuthoring}]
  /\ authored \in 0..MaxTemplateCalls
  /\ races \in SUBSET {"create", "edit", "publish", "delete"}

\* "At most one published version per scope at a time", unless two publications
\* of a scope crossed.
OnePublishedPerScope ==
  "publish" \notin races =>
     \A o \in Owners : Cardinality(With(o, "published")) =< 1

\* "A live TemplateResponse never sees its questions change under it": the
\* questions a submitted response was scored with are still those of that
\* template, which still exists; an edit or a deletion that had read the
\* template as a draft and committed after its publication is the exception.
ScoreCanBeReproduced ==
  (races \cap {"edit", "delete"} = {} /\ response.scored # NoTemplate) =>
     /\ response.scored \in Stored
     /\ defs[response.scored].content = response.content

\* What was published had sections when it was, and keeps them, unless an edit
\* crossed the publication.
PublishedHasSections ==
  races \cap {"edit", "publish"} = {} =>
     \A d \in Stored : defs[d].status # "draft" => defs[d].content # "none"

\* No two definitions of a scope have the same version, unless two creations
\* crossed: the version is the highest one read plus one.
VersionsAreDistinct ==
  "create" \notin races =>
     \A d, e \in Stored : (defs[d].owner = defs[e].owner /\ defs[d].version = defs[e].version) => d = e

\* The versions of a scope are in order, with the exceptions each part names.
ScopesAreInOrder == OnePublishedPerScope /\ PublishedHasSections /\ VersionsAreDistinct

\* The library keeps its order, and what was answered keeps its questions.
TemplatesAreSound == ScopesAreInOrder /\ ScoreCanBeReproduced
=============================================================================
