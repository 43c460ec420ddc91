--------------------------- MODULE TemplateEditor ---------------------------
(***************************************************************************)
(* The page on which an administrator writes questionnaires                 *)
(* (dashboard/admin/templates/page.tsx).  A form holds sections of questions *)
(* and the draft it saves into, if there is one yet; requests are on their   *)
(* way while the page goes on being used, and their answers change whatever  *)
(* the form holds by then.  Other administrators work on the same drafts.   *)
(***************************************************************************)
EXTENDS Naturals, Sequences, SequencesExt

CONSTANTS
  Templates,   \* rows of template_definitions
  FieldKeys,   \* question keys that may be typed
  FirstDraft,  \* sections of the draft there is at the start
  NoDraft,     \* null
  MaxSections, \* bound: sections of a form, and questions of a section
  MaxEdits,    \* bound: edits made in the form, or by others
  MaxPageCalls \* bound: requests of the page

\* newQuestion: no key yet, always visible; a rule names the field it depends on.
\* Texts, types, scores, flags and the rules of sections are left out.
NoKey == "blank"
Always == "always"
EmptyQuestion == [key |-> NoKey, rule |-> Always]
FormQuestions == [key : FieldKeys \cup {NoKey}, rule : FieldKeys \cup {Always}]
Forms == Seq(Seq(FormQuestions))

ASSUME EditorAssumption ==
  /\ NoDraft \notin Templates /\ FirstDraft \in Forms
  /\ {MaxSections, MaxEdits, MaxPageCalls} \subseteq Nat

VARIABLES
  templates,   \* per template: its row, or Absent
  sheet,       \* sections in the form
  editing,     \* editingDraftId
  origin,      \* history: the draft the sections in the form were read from or stored as
  saved,       \* history: the form holds what its draft was last seen to hold
  requests,    \* per kind of request: the one on its way, or NoCall
  formEdits,   \* edits made (bound)
  sent,        \* requests made (bound)
  leftEarly,   \* history: the form was left while its draft was being created
  released     \* history: what publications from the form published, and what it showed

editorVars ==
  <<templates, sheet, editing, origin, saved, requests, formEdits, sent, leftEarly, released>>

Absent == [status |-> "absent"]
Row(status, sections) == [status |-> status, sections |-> sections]
Rows == [status : {"draft", "published"}, sections : Forms]
IsDraft(d) == templates[d].status = "draft"

\* A request: the row it is about, the sections it carries or brings back, and
\* what is remembered of the form that made it: "mine" while the form was not left,
\* "clean" while neither the form nor the row was changed behind it.
Kinds == {"get", "save", "publish", "rowPublish", "rowDelete"}
NoCall == [stage |-> "none"]
PageCall(d, sections, clean) ==
  [stage |-> "sent", def |-> d, new |-> d = NoDraft, from |-> editing, sections |-> sections,
   ok |-> FALSE, mine |-> TRUE, clean |-> clean]
PageCalls ==
  [stage : {"sent", "handled"}, def : Templates \cup {NoDraft}, new : BOOLEAN,
   from : Templates \cup {NoDraft}, sections : Forms, ok : BOOLEAN, mine : BOOLEAN, clean : BOOLEAN]

EditorInit ==
  /\ \E d \in Templates :
       templates = [e \in Templates |-> IF e = d THEN Row("draft", FirstDraft) ELSE Absent]
  /\ sheet = << >> /\ editing = NoDraft /\ origin = NoDraft /\ saved = FALSE
  /\ requests = [k \in Kinds |-> NoCall]
  /\ formEdits = 0 /\ sent = 0 /\ leftEarly = FALSE /\ released = {}

----------------------------------------------------------------------------
\* One click in the sections: the results it may have.
Swapped(s, i) == [s EXCEPT ![i] = s[i + 1], ![i + 1] = s[i]]
Moved(s) == {Swapped(s, i) : i \in 1..(Len(s) - 1)}
Less(s) == {RemoveAt(s, i) : i \in DOMAIN s}
Keyed(q) == {[q EXCEPT !.key = k] : k \in FieldKeys}
\* The guided rule editor offers the keys of all questions but the question's own.
KeysOf(s) == (UNION {{s[i][j].key : j \in DOMAIN s[i]} : i \in DOMAIN s}) \ {NoKey}
Ruled(q, keys) == {[q EXCEPT !.rule = k] : k \in (keys \ {q.key}) \cup {Always}}
QuestionEdits(section, keys) ==
  Moved(section) \cup Less(section)
    \cup (IF Len(section) < MaxSections THEN {Append(section, EmptyQuestion)} ELSE {})
    \cup UNION {{[section EXCEPT ![j] = q] : q \in Keyed(section[j]) \cup Ruled(section[j], keys)} :
                j \in DOMAIN section}
SectionEdits(s) ==
  Moved(s) \cup Less(s) \cup (IF Len(s) < MaxSections THEN {Append(s, << >>)} ELSE {})
    \cup UNION {{[s EXCEPT ![i] = section] : section \in QuestionEdits(s[i], KeysOf(s))} : i \in DOMAIN s}
EditForm ==
  /\ formEdits < MaxEdits /\ formEdits' = formEdits + 1
  /\ sheet' \in SectionEdits(sheet)
  /\ saved' = FALSE
  /\ requests' = IF requests["save"] = NoCall THEN requests ELSE [requests EXCEPT !["save"].clean = FALSE]
  /\ UNCHANGED <<templates, editing, origin, sent, leftEarly, released>>

\* validateForm: there are sections, all have questions, all questions have keys,
\* no two the same.
PlacesOf(s) == {p \in (1..Len(s)) \X (1..MaxSections) : p[2] \in DOMAIN s[p[1]]}
ValidForm(s) ==
  /\ s # << >> /\ \A i \in DOMAIN s : s[i] # << >>
  /\ \A p, q \in PlacesOf(s) :
       /\ s[p[1]][p[2]].key # NoKey
       /\ s[p[1]][p[2]].key = s[q[1]][q[2]].key => p = q

Send(k, call) ==
  /\ sent < MaxPageCalls /\ sent' = sent + 1
  /\ requests[k] = NoCall /\ requests' = [requests EXCEPT ![k] = call]
  /\ UNCHANGED <<templates, sheet, editing, origin, saved, formEdits, leftEarly, released>>

\* startEditDraft, handleSaveDraft, handlePublishCurrent, handlePublish and
\* handleDelete.  Each button but those of the list waits for its own request only;
\* publishing sends no sections.
ClickEdit(d) == Send("get", PageCall(d, << >>, TRUE))
ClickSave == ValidForm(sheet) /\ Send("save", PageCall(editing, sheet, TRUE))
ClickPublish == editing # NoDraft /\ Send("publish", PageCall(editing, sheet, saved /\ editing = origin))
ClickRow(k, d) == k \in {"rowPublish", "rowDelete"} /\ Send(k, PageCall(d, << >>, TRUE))

\* resetForm, by "New Template", "Cancel / start over", or the code.
EmptyForm ==
  /\ sheet' = << >> /\ editing' = NoDraft /\ origin' = NoDraft /\ saved' = FALSE
Left(cs) == [k \in Kinds |-> IF cs[k] = NoCall THEN NoCall ELSE [cs[k] EXCEPT !.mine = FALSE]]

ResetForm ==
  /\ sheet # << >> \/ editing # NoDraft
  /\ EmptyForm
  /\ requests' = Left(requests)
  /\ UNCHANGED <<templates, formEdits, sent, leftEarly, released>>

----------------------------------------------------------------------------
\* A row was changed by a request of kind k: what others know of it is out of date.
BehindOf(k, d) ==
  [c \in Kinds |-> IF requests[c] # NoCall /\ requests[c].def = d /\ c # k
                   THEN [requests[c] EXCEPT !.clean = FALSE] ELSE requests[c]]
Handled(k, d, ok) ==
  LET cs == IF ok THEN BehindOf(k, d) ELSE requests
  IN  requests' = [cs EXCEPT ![k].stage = "handled", ![k].ok = ok, ![k].def = d]

\* What a draft is, and what was published, comes back; "new" when it is to be a
\* new version.
ServeGet ==
  LET c == requests["get"] IN
  /\ c.stage = "sent"
  /\ requests' = [requests EXCEPT !["get"] =
       IF templates[c.def] = Absent THEN [c EXCEPT !.stage = "handled"]
       ELSE [c EXCEPT !.stage = "handled", !.ok = TRUE, !.new = ~IsDraft(c.def), !.clean = TRUE,
                      !.sections = templates[c.def].sections]]
  /\ UNCHANGED <<templates, sheet, editing, origin, saved, formEdits, sent, leftEarly, released>>

\* _build_sections: the sections sent replace those there.
SectionsBuilt(was, sections) == sections

\* create_template_definition takes a new row, update_draft_template_definition
\* writes drafts only.
ServeSave(d) ==
  LET c == requests["save"]
      ok == IF c.new THEN templates[d] = Absent ELSE IsDraft(d)
  IN
  /\ c.stage = "sent" /\ IF c.new THEN ok ELSE d = c.def
  /\ templates' = IF ok THEN [templates EXCEPT ![d] = Row("draft", SectionsBuilt(templates[d], c.sections))]
              ELSE templates
  /\ Handled("save", d, ok)
  /\ saved' = (saved /\ ~(ok /\ origin = d))
  /\ UNCHANGED <<sheet, editing, origin, formEdits, sent, leftEarly, released>>

\* publish_template_definition: a draft with sections.
ServePublish(k) ==
  LET c == requests[k]
      ok == IsDraft(c.def) /\ templates[c.def].sections # << >>
  IN
  /\ k \in {"publish", "rowPublish"} /\ c.stage = "sent"
  /\ templates' = IF ok THEN [templates EXCEPT ![c.def].status = "published"] ELSE templates
  /\ Handled(k, c.def, ok)
  /\ released' = IF ok /\ k = "publish"
                 THEN released \cup {[shown |-> c.sections, got |-> templates[c.def].sections,
                                      due |-> c.clean]}
                 ELSE released
  /\ UNCHANGED <<sheet, editing, origin, saved, formEdits, sent, leftEarly>>

ServeDelete ==
  LET c == requests["rowDelete"] IN
  /\ c.stage = "sent"
  /\ templates' = IF IsDraft(c.def) THEN [templates EXCEPT ![c.def] = Absent] ELSE templates
  /\ Handled("rowDelete", c.def, IsDraft(c.def))
  /\ UNCHANGED <<sheet, editing, origin, saved, formEdits, sent, leftEarly, released>>

\* Another administrator saves the draft.
SavedByAnother(d) ==
  /\ IsDraft(d) /\ formEdits < MaxEdits /\ formEdits' = formEdits + 1
  /\ \E s \in SectionEdits(templates[d].sections) :
       ValidForm(s) /\ templates' = [templates EXCEPT ![d].sections = s]
  /\ requests' = BehindOf("none", d)
  /\ saved' = (saved /\ origin # d)
  /\ UNCHANGED <<sheet, editing, origin, sent, leftEarly, released>>

----------------------------------------------------------------------------
\* The page takes what has come back, whatever its form holds by then; an answer
\* that is an error, or is lost, is only shown.
Accepted(k) == requests[k].stage = "handled" /\ requests[k].ok
Done(k) == [requests EXCEPT ![k] = NoCall]

\* Mutant: what was published is saved into, too.
SavesIntoAny(c) == c.def

\* toEditable, and the draft the form saves into: none for a new version.
SavesInto(c) == IF c.new THEN NoDraft ELSE c.def

FormOpens ==
  LET c == requests["get"] IN
  /\ Accepted("get")
  /\ sheet' = c.sections
  /\ editing' = SavesInto(c)
  /\ origin' = IF c.new THEN NoDraft ELSE c.def
  /\ saved' = (c.clean /\ ~c.new)
  /\ requests' = Left(Done("get"))
  /\ UNCHANGED <<templates, formEdits, sent, leftEarly, released>>

\* A created draft becomes the one the form saves into.
DraftIsSaved ==
  LET c == requests["save"] IN
  /\ Accepted("save")
  /\ editing' = IF c.new THEN c.def ELSE editing
  /\ origin' = IF c.new /\ c.mine THEN c.def ELSE origin
  /\ leftEarly' = (leftEarly \/ (c.new /\ ~c.mine))
  /\ saved' = IF c.mine THEN c.clean ELSE saved
  /\ requests' = Done("save")
  /\ UNCHANGED <<templates, sheet, formEdits, sent, released>>

\* The form is emptied after its publication, and after the deletion of the draft
\* it held when the deletion was asked for.
FormIsDone(k) ==
  /\ Accepted(k)
  /\ \/ k = "publish"
     \/ k = "rowDelete" /\ requests[k].from = requests[k].def
  /\ EmptyForm
  /\ requests' = Left(Done(k))
  /\ UNCHANGED <<templates, formEdits, sent, leftEarly, released>>

AnswerIsShown(k) ==
  /\ requests[k] # NoCall
  /\ requests' = Done(k)
  /\ UNCHANGED <<templates, sheet, editing, origin, saved, formEdits, sent, leftEarly, released>>

----------------------------------------------------------------------------
EditorNext ==
  \/ EditForm \/ ClickSave \/ ClickPublish \/ ResetForm
  \/ ServeGet \/ ServeDelete \/ FormOpens \/ DraftIsSaved
  \/ \E d \in Templates : ClickEdit(d) \/ ServeSave(d) \/ SavedByAnother(d)
  \/ \E k \in Kinds : ServePublish(k) \/ FormIsDone(k) \/ AnswerIsShown(k)
  \/ \E k \in Kinds, d \in Templates : ClickRow(k, d)

EditorSpec == EditorInit /\ [][EditorNext]_editorVars

----------------------------------------------------------------------------
\* The type invariant of the page and the drafts.
EditorTypeOK ==
  /\ templates \in [Templates -> Rows \cup {Absent}]
  /\ sheet \in Forms
  /\ {editing, origin} \subseteq Templates \cup {NoDraft}
  /\ requests \in [Kinds -> PageCalls \cup {NoCall}]
  /\ formEdits \in 0..MaxEdits /\ sent \in 0..MaxPageCalls
  /\ {saved, leftEarly} \subseteq BOOLEAN

\* What the form saves into is what its sections were read from or stored as, and
\* nothing when they were to be a new version - unless the form was left while
\* its draft was being created.  And publishing sends no sections: what is published
\* is what the form showed, when it had not been edited since it was opened or
\* saved and no other request changed the draft.
SavesWhereItBelongs == leftEarly \/ editing = origin
ReleasedAsShown == \A r \in released : r.due => r.got = r.shown
FormsAreFaithful == SavesWhereItBelongs /\ ReleasedAsShown
=============================================================================
