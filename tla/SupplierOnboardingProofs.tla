----------------------- MODULE SupplierOnboardingProofs -----------------------
(***************************************************************************)
(* Proofs about SupplierOnboarding, for any number of requests, instances,   *)
(* registrations, suppliers and conversions, any chain and any definition.   *)
(* Further parts prove about the workbook of a registration, about the page    *)
(* that writes what suppliers will answer, and about the one that shows it to   *)
(* whoever answers.                                                        *)
(***************************************************************************)
EXTENDS SupplierOnboarding, RegistrationWorkbook, TemplateEditor, Questionnaire,
  FiniteSetTheorems, SequenceTheorems, TLAPS

-----------------------------------------------------------------------------
(***************************************************************************)
(* The inductive invariant                                                  *)
(***************************************************************************)
Origins == Requests \cup Registrations \cup Direct
Trading == {"pending_registration", "onboarded"}
States == Trading \cup {"unused", "deleted"}
SupplierRef == Suppliers \cup {NoSupplier}

SeenRows == [mode : Modes, supplier : SupplierRef, dirty : BOOLEAN, new : SupplierRef,
             was : States, active : BOOLEAN, found : BOOLEAN]
FlowRows == [req : Requests \cup {NoRequest}, stage : Stages, step : 1 .. Len(Definition),
             signed : SUBSET STRING, seen : SeenRows]
RegistrationRows == [req : Requests \cup {NoRequest}, supplier : SupplierRef,
                     approved : BOOLEAN, sent : BOOLEAN]

TypeInv ==
  /\ request \in [Requests -> [stamped : BOOLEAN, supplier : SupplierRef]]
  /\ flow \in [Flows -> FlowRows]
  /\ registration \in [Made -> RegistrationRows]
  /\ Made \subseteq Registrations \cup Direct
  /\ supplier \in [Suppliers -> [state : States, origin : Origins \cup {NoRequest}]]
  /\ converting \in [Registrations \cup Direct -> 0 .. Converters]
  /\ active \subseteq Born /\ cleared \subseteq Born /\ byHand \subseteq Born

Runs(f) == flow[f].stage \in {"read", "looked"}

\* An instance under way has a request, and a transaction that runs has read
\* something: a supplier that was there, or the key of one to be made.
FlowsFit ==
  \A f \in Flows :
    /\ IF flow[f].stage = "unused" THEN flow[f].req = NoRequest ELSE flow[f].req \in Requests
    /\ ~ Runs(f) <=> flow[f].seen = Blank
    /\ Runs(f) => IF flow[f].seen.new = NoSupplier
                  THEN /\ flow[f].seen.supplier \in Born
                       /\ flow[f].seen.was \in Trading
                  ELSE flow[f].seen.supplier = NoSupplier

\* The key of a supplier to be made is nobody else's.
KeysAreKept ==
  \A f \in Flows : flow[f].seen.new # NoSupplier =>
    /\ flow[f].seen.new \notin Born
    /\ \A g \in Flows : flow[g].seen.new = flow[f].seen.new => g = f

\* Whoever a request or a registration refers to has not been deleted; that of a
\* request was made for it.
ReferencesLive ==
  /\ \A q \in Requests : request[q].supplier # NoSupplier =>
       /\ supplier[request[q].supplier].state \in Trading
       /\ supplier[request[q].supplier].origin = q
  /\ \A r \in Made : registration[r].supplier # NoSupplier =>
       supplier[registration[r].supplier].state \in Trading

\* A supplier made for this origin is the one that its row refers to.
MadeForOne ==
  \A s \in Suppliers : supplier[s].state \in Trading =>
    LET o == supplier[s].origin IN
    /\ o \in Requests \ raced => request[o].supplier = s
    /\ o \in (Registrations \cup Direct) \ raced => o \in Made /\ registration[o].supplier = s

WasDeleted(q) == \E s \in Suppliers : supplier[s].origin = q /\ supplier[s].state = "deleted"

\* What an approval under way has read of its request and of its registrations still
\* holds, as long as approvals of the request do not overlap.
InTurn(f) ==
  LET q == flow[f].req
      seen == flow[f].seen
  IN
  /\ \A g \in Flows : flow[g].req = q /\ Runs(g) => g = f
  /\ seen.new # NoSupplier => request[q].supplier = NoSupplier
  /\ seen.new = NoSupplier => request[q].supplier = seen.supplier \/ WasDeleted(q)
  /\ flow[f].stage = "looked" /\ ~ seen.found => Of(q) = {}

ApprovalsInTurn == \A f \in Flows : Runs(f) /\ flow[f].req \notin raced => InTurn(f)

\* A conversion is of a registration without a supplier.
ConversionsInTurn ==
  \A r \in Registrations \cup Direct : converting[r] > 0 =>
    /\ r \in Made
    /\ r \notin raced => converting[r] = 1 /\ registration[r].supplier = NoSupplier

\* A request's registration refers to nobody, or is converted, only after its supplier
\* was deleted.
OrphansWereDeleted ==
  \A q \in Requests \ raced : \A r \in Of(q) :
    \/ WasDeleted(q)
    \/ /\ registration[r].supplier = request[q].supplier
       /\ request[q].supplier # NoSupplier
       /\ converting[r] = 0

OnboardingInv ==
  /\ TypeInv /\ FlowsFit /\ KeysAreKept /\ ReferencesLive /\ MadeForOne
  /\ ApprovalsInTurn /\ ConversionsInTurn /\ OrphansWereDeleted
  /\ \A q \in Requests \ raced : \A r, o \in Of(q) : r = o
  /\ OnboardedIsCleared

-----------------------------------------------------------------------------
(***************************************************************************)
(* Lemmas                                                                   *)
(***************************************************************************)
LEMMA KeyIsUnused ==
  ASSUME NEW unused, unused # {}
  PROVE  Key(unused) \in unused
BY DEF Key

LEMMA DefinitionHasSteps == Len(Definition) \in Nat /\ Len(Definition) >= 1
BY OnboardingAssumption, EmptySeq, LenProperties

LEMMA RolesAreStrings == \A k \in 1 .. Len(Definition) : RoleAt(k) \in STRING
<1>1. Chain # <<>> => Chain[1] \in STRING
  BY OnboardingAssumption, EmptySeq, LenProperties, ElementOfSeq
<1>2. \A k \in 1 .. Len(Definition) : Definition[k] \in STRING
  BY OnboardingAssumption, ElementOfSeq
<1> QED BY <1>1, <1>2 DEF RoleAt

\* What was read is not blank.
LEMMA BlankReads == Blank \in SeenRows /\ Blank.new = NoSupplier /\ Blank.supplier = NoSupplier
BY DEF Blank, SeenRows, SupplierRef, States, Modes

LEMMA OnboardingInit == Init => OnboardingInv
<1> SUFFICES ASSUME Init PROVE OnboardingInv
  OBVIOUS
<1>1. Made = {} /\ Born = {}
  BY DEF Init, Made, Born
<1>2. TypeInv
  <2>1. flow \in [Flows -> FlowRows]
    BY BlankReads, DefinitionHasSteps DEF Init, FlowRows, Stages
  <2>2. converting \in [Registrations \cup Direct -> 0 .. Converters]
    BY OnboardingAssumption DEF Init
  <2> QED BY <1>1, <2>1, <2>2 DEF Init, TypeInv, States, Trading, SupplierRef
<1>3. \A f \in Flows : flow[f].seen = Blank /\ flow[f].stage = "unused" /\ flow[f].req = NoRequest
  BY DEF Init
<1>4. FlowsFit /\ KeysAreKept /\ ApprovalsInTurn
  BY <1>3, BlankReads DEF FlowsFit, KeysAreKept, ApprovalsInTurn, Runs
<1>5. ReferencesLive /\ MadeForOne /\ OnboardedIsCleared
  BY <1>1 DEF Init, ReferencesLive, MadeForOne, OnboardedIsCleared, Trading
<1>6. ConversionsInTurn
  BY DEF Init, ConversionsInTurn
<1>7. \A q : Of(q) = {}
  BY <1>1 DEF Of
<1> QED BY <1>2, <1>4, <1>5, <1>6, <1>7 DEF OnboardingInv, OrphansWereDeleted

-----------------------------------------------------------------------------
(***************************************************************************)
(* Steps of requests and instances                                          *)
(***************************************************************************)
LEMMA StampKeeps ==
  ASSUME OnboardingInv, NEW q \in Requests, NEW b \in BOOLEAN, Stamp(q, b)
  PROVE  /\ request' \in [Requests -> [stamped : BOOLEAN, supplier : SupplierRef]]
         /\ \A p \in Requests : request'[p].supplier = request[p].supplier
BY DEF OnboardingInv, TypeInv, Stamp

\* As long as the suppliers, the registrations and what refers to them stay, it is
\* only the instances that matter.
LEMMA RowsStay ==
  ASSUME OnboardingInv, UNCHANGED <<supplier, registration, converting, traders>>,
         \A q \in Requests : request'[q].supplier = request[q].supplier,
         raced \subseteq raced',
         TypeInv', FlowsFit', KeysAreKept', ApprovalsInTurn'
  PROVE  OnboardingInv'
<1>1. \A q : Of(q)' = Of(q) /\ WasDeleted(q)' = WasDeleted(q)
  BY DEF Of, Made, WasDeleted
<1>2. ReferencesLive'
  BY DEF OnboardingInv, ReferencesLive, Made
<1>3. MadeForOne'
  BY DEF OnboardingInv, MadeForOne, Made
<1>4. ConversionsInTurn'
  BY DEF OnboardingInv, ConversionsInTurn, Made
<1>5. OrphansWereDeleted'
  BY <1>1 DEF OnboardingInv, OrphansWereDeleted
<1>6. OnboardedIsCleared'
  BY DEF traders, OnboardingInv, OnboardedIsCleared
<1> QED BY <1>1, <1>2, <1>3, <1>4, <1>5, <1>6 DEF OnboardingInv

\* An instance that starts or stops running, or advances between two transactions, has
\* read nothing; what the others have read is as true as before.
LEMMA IdleFlowMoves ==
  ASSUME OnboardingInv, UNCHANGED <<supplier, registration, converting, traders, raced>>,
         request' \in [Requests -> [stamped : BOOLEAN, supplier : SupplierRef]],
         \A q \in Requests : request'[q].supplier = request[q].supplier,
         NEW f \in Flows, flow' = [flow EXCEPT ![f] = flow'[f]],
         flow'[f] \in FlowRows, flow'[f].seen = Blank, flow'[f].req \in Requests,
         flow'[f].stage \in {"open", "approved", "rejected"}
  PROVE  OnboardingInv'
<1>1. flow' \in [Flows -> FlowRows] /\ \A g \in Flows \ {f} : flow'[g] = flow[g]
  BY DEF OnboardingInv, TypeInv
<1>2. TypeInv'
  BY <1>1 DEF traders, OnboardingInv, TypeInv, Made, Born
<1>3. FlowsFit'
  BY <1>1 DEF OnboardingInv, FlowsFit, Runs, Born
<1>4. KeysAreKept'
  BY <1>1, BlankReads DEF OnboardingInv, KeysAreKept, Born
<1>5. \A q : Of(q)' = Of(q) /\ WasDeleted(q)' = WasDeleted(q)
  BY DEF Of, Made, WasDeleted
<1>6. ApprovalsInTurn'
  <2> SUFFICES ASSUME NEW g \in Flows, Runs(g)', flow'[g].req \notin raced
               PROVE  InTurn(g)'
    BY DEF ApprovalsInTurn
  <2>1. g # f /\ flow'[g] = flow[g] /\ flow[g].req \in Requests
    BY <1>1 DEF Runs, OnboardingInv, FlowsFit
  <2>2. InTurn(g)
    BY <2>1 DEF OnboardingInv, ApprovalsInTurn, Runs
  <2> QED BY <1>1, <1>5, <2>1, <2>2 DEF InTurn, Runs
<1> QED BY <1>2, <1>3, <1>4, <1>6, RowsStay

LEMMA SubmitStep == ASSUME OnboardingInv, NEW q \in Requests, Submit(q) PROVE OnboardingInv'
<1>1. /\ request' \in [Requests -> [stamped : BOOLEAN, supplier : SupplierRef]]
      /\ \A p \in Requests : request'[p].supplier = request[p].supplier
  BY StampKeeps DEF Submit
<1>2. CASE UNCHANGED flow
  <2>1. TypeInv' /\ FlowsFit' /\ KeysAreKept'
    BY <1>1, <1>2 DEF traders, Submit, OnboardingInv, TypeInv, FlowsFit, KeysAreKept, Made, Born, Runs
  <2>2. ApprovalsInTurn'
    BY <1>1, <1>2 DEF Submit, OnboardingInv, FlowsFit, ApprovalsInTurn, InTurn, Runs, Of, Made, WasDeleted
  <2> QED BY <1>1, <2>1, <2>2, RowsStay DEF Submit
<1>3. CASE ~ UNCHANGED flow
  <2> DEFINE unused == {f \in Flows : flow[f].stage = "unused"}
             k == Key(unused)
  <2>1. /\ unused # {}
        /\ flow' = [flow EXCEPT ![k].req = q, ![k].stage = "open"]
    BY <1>3 DEF Submit
  <2>2. k \in Flows /\ flow[k].stage = "unused"
    BY <2>1, KeyIsUnused
  <2>3. flow[k] \in FlowRows /\ flow[k].seen = Blank
    BY <2>2 DEF OnboardingInv, TypeInv, FlowsFit, Runs
  <2>4. flow'[k] = [flow[k] EXCEPT !.req = q, !.stage = "open"]
    BY <2>1, <2>2 DEF OnboardingInv, TypeInv
  <2>5. flow'[k] \in FlowRows /\ flow'[k].seen = Blank /\ flow'[k].req = q /\ flow'[k].stage = "open"
    BY <2>3, <2>4 DEF FlowRows, Stages
  <2>6. flow' = [flow EXCEPT ![k] = flow'[k]]
    BY <2>1, <2>2, <2>4 DEF OnboardingInv, TypeInv
  <2> HIDE DEF k
  <2> QED BY <1>1, <2>2, <2>5, <2>6, IdleFlowMoves DEF Submit
<1> QED BY <1>2, <1>3

LEMMA DecideStep == ASSUME OnboardingInv, NEW q \in Requests, Decide(q) PROVE OnboardingInv'
<1>1. PICK b \in BOOLEAN : Stamp(q, b)
  BY DEF Decide
<1>2. /\ request' \in [Requests -> [stamped : BOOLEAN, supplier : SupplierRef]]
      /\ \A p \in Requests : request'[p].supplier = request[p].supplier
  BY <1>1, StampKeeps
<1>3. TypeInv' /\ FlowsFit' /\ KeysAreKept'
  BY <1>2 DEF traders, Decide, OnboardingInv, TypeInv, FlowsFit, KeysAreKept, Made, Born, Runs
<1>4. ApprovalsInTurn'
  BY <1>2 DEF Decide, OnboardingInv, FlowsFit, ApprovalsInTurn, InTurn, Runs, Of, Made, WasDeleted
<1> QED BY <1>2, <1>3, <1>4, RowsStay DEF Decide

LEMMA AnswerStep == ASSUME OnboardingInv, NEW f \in Flows, Answer(f) PROVE OnboardingInv'
<1>1. /\ flow[f] \in FlowRows /\ flow[f].seen = Blank /\ flow[f].req \in Requests
      /\ flow[f].stage = "open"
  BY DEF OnboardingInv, TypeInv, FlowsFit, Runs, Answer
<1>2. flow'[f] = [flow[f] EXCEPT !.step = @ + 1, !.signed = @ \cup {RoleAt(flow[f].step)}]
  BY DEF Answer, OnboardingInv, TypeInv
<1>3. flow[f].step + 1 \in 1 .. Len(Definition) /\ RoleAt(flow[f].step) \in STRING
  BY <1>1, DefinitionHasSteps, RolesAreStrings DEF Answer, FlowRows
<1>4. flow'[f] \in FlowRows /\ flow'[f].seen = Blank /\ flow'[f].req \in Requests /\ flow'[f].stage = "open"
  <2> DEFINE next == flow[f].step + 1
             signed == flow[f].signed \cup {RoleAt(flow[f].step)}
  <2>1. next \in 1 .. Len(Definition) /\ signed \in SUBSET STRING
    BY <1>1, <1>3 DEF FlowRows
  <2>2. flow'[f] = [flow[f] EXCEPT !.step = next, !.signed = signed]
    BY <1>2
  <2> HIDE DEF next, signed
  <2> QED BY <1>1, <2>1, <2>2 DEF FlowRows
<1>5. flow' = [flow EXCEPT ![f] = flow'[f]]
  BY <1>2 DEF OnboardingInv, TypeInv, Answer
<1> QED BY <1>4, <1>5, IdleFlowMoves DEF Answer, OnboardingInv, TypeInv

LEMMA RefuseStep == ASSUME OnboardingInv, NEW f \in Flows, Refuse(f) PROVE OnboardingInv'
<1>1. flow[f] \in FlowRows /\ flow[f].seen = Blank /\ flow[f].req \in Requests
  BY DEF OnboardingInv, TypeInv, FlowsFit, Runs, Refuse
<1>2. flow'[f] = [flow[f] EXCEPT !.stage = "rejected"]
  BY DEF Refuse, OnboardingInv, TypeInv
<1>3. flow'[f] \in FlowRows /\ flow'[f].seen = Blank /\ flow'[f].req \in Requests /\ flow'[f].stage = "rejected"
  BY <1>1, <1>2 DEF FlowRows, Stages
<1>4. flow' = [flow EXCEPT ![f] = flow'[f]]
  BY <1>2 DEF OnboardingInv, TypeInv, Refuse
<1>5. /\ request' \in [Requests -> [stamped : BOOLEAN, supplier : SupplierRef]]
      /\ \A p \in Requests : request'[p].supplier = request[p].supplier
  BY <1>1, StampKeeps DEF Refuse
<1> QED BY <1>3, <1>4, <1>5, IdleFlowMoves DEF Refuse

LEMMA RolledBackStep ==
  ASSUME OnboardingInv, NEW f \in Flows, Runs(f), RolledBack(f)
  PROVE  OnboardingInv'
<1>1. flow[f] \in FlowRows /\ flow[f].req \in Requests
  BY DEF OnboardingInv, TypeInv, FlowsFit, Runs
<1>2. flow'[f] = [flow[f] EXCEPT !.stage = "open", !.seen = Blank]
  BY DEF RolledBack, OnboardingInv, TypeInv
<1>3. flow'[f] \in FlowRows /\ flow'[f].seen = Blank /\ flow'[f].req \in Requests /\ flow'[f].stage = "open"
  BY <1>1, <1>2, BlankReads DEF FlowRows, Stages
<1>4. flow' = [flow EXCEPT ![f] = flow'[f]]
  BY <1>2 DEF OnboardingInv, TypeInv, RolledBack
<1> QED BY <1>3, <1>4, IdleFlowMoves DEF RolledBack, OnboardingInv, TypeInv

LEMMA LookUpStep == ASSUME OnboardingInv, NEW f \in Flows, LookUp(f) PROVE OnboardingInv'
<1> DEFINE q == flow[f].req
<1>1. flow[f] \in FlowRows /\ q \in Requests /\ Runs(f)
  BY DEF OnboardingInv, TypeInv, FlowsFit, Runs, LookUp
<1>2. flow'[f] = [flow[f] EXCEPT !.stage = "looked", !.seen = [@ EXCEPT !.found = (Of(q) # {})]]
  BY DEF LookUp, OnboardingInv, TypeInv
<1>3. /\ flow'[f].req = q /\ flow'[f].stage = "looked"
      /\ flow'[f].seen = [flow[f].seen EXCEPT !.found = (Of(q) # {})]
      /\ flow[f].seen \in SeenRows
  BY <1>1, <1>2 DEF FlowRows
<1>4. /\ flow'[f].seen \in SeenRows
      /\ flow'[f].seen.new = flow[f].seen.new /\ flow'[f].seen.supplier = flow[f].seen.supplier
      /\ flow'[f].seen.was = flow[f].seen.was /\ flow'[f].seen.found = (Of(q) # {})
  BY <1>3 DEF SeenRows
<1>5. flow' \in [Flows -> FlowRows] /\ \A g \in Flows \ {f} : flow'[g] = flow[g]
  <2>1. flow'[f] \in FlowRows
    BY <1>1, <1>2, <1>3, <1>4 DEF FlowRows, Stages
  <2> QED BY <2>1 DEF LookUp, OnboardingInv, TypeInv
<1>6. TypeInv'
  BY <1>5 DEF traders, LookUp, OnboardingInv, TypeInv, Made, Born
<1>7. FlowsFit'
  <2>1. flow'[f].seen # Blank
    BY <1>1, <1>4, BlankReads, OnboardingAssumption DEF OnboardingInv, FlowsFit, Born
  <2> QED BY <1>1, <1>3, <1>4, <1>5, <2>1 DEF LookUp, OnboardingInv, FlowsFit, Runs, Born
<1>8. KeysAreKept'
  BY <1>4, <1>5 DEF LookUp, OnboardingInv, KeysAreKept, Born
<1>9. ApprovalsInTurn'
  <2> SUFFICES ASSUME NEW g \in Flows, Runs(g)', flow'[g].req \notin raced
               PROVE  InTurn(g)'
    BY DEF ApprovalsInTurn, LookUp
  <2>1. Runs(g) /\ flow'[g].req = flow[g].req /\ flow[g].req \in Requests
    BY <1>1, <1>3, <1>5 DEF Runs, OnboardingInv, FlowsFit
  <2>2. InTurn(g)
    BY <2>1 DEF OnboardingInv, ApprovalsInTurn, LookUp
  <2>3. \A h \in Flows : Runs(h)' => Runs(h) /\ flow'[h].req = flow[h].req
    BY <1>1, <1>3, <1>5 DEF Runs
  <2>4. \A x : Of(x)' = Of(x) /\ WasDeleted(x)' = WasDeleted(x)
    BY DEF Of, Made, WasDeleted, LookUp
  <2>5. \A p \in Requests : request'[p] = request[p]
    BY DEF LookUp
  <2>6. CASE g = f
    BY <1>3, <1>4, <2>1, <2>2, <2>3, <2>4, <2>5, <2>6 DEF InTurn
  <2>7. CASE g # f
    BY <1>5, <2>1, <2>2, <2>3, <2>4, <2>5, <2>7 DEF InTurn
  <2> QED BY <2>6, <2>7
<1> QED BY <1>6, <1>7, <1>8, <1>9, RowsStay DEF LookUp

LEMMA ReadStep == ASSUME OnboardingInv, NEW f \in Flows, Read(f) PROVE OnboardingInv'
<1> DEFINE q == flow[f].req
<1>1. flow[f] \in FlowRows /\ q \in Requests /\ flow[f].seen = Blank /\ ~ Runs(f)
  BY DEF OnboardingInv, TypeInv, FlowsFit, Runs, Read
<1>2. request[q].supplier \in SupplierRef
  BY <1>1 DEF OnboardingInv, TypeInv
<1> DEFINE ReadAs(mode, new) ==
      flow' = [flow EXCEPT ![f].stage = "read",
                ![f].seen = [mode |-> mode, supplier |-> request[q].supplier, new |-> new,
                             dirty |-> ~request[q].stamped,
                             was |-> IF new = NoSupplier
                                     THEN supplier[request[q].supplier].state ELSE "unused",
                             active |-> new = NoSupplier /\ request[q].supplier \in active,
                             found |-> FALSE]]
           news == IF request[q].supplier # NoSupplier THEN {NoSupplier}
                   ELSE IF Free = {} THEN {} ELSE {Key(Free)}
<1>a. \E mode \in Modes : \E new \in news : ReadAs(mode, new)
  BY DEF Read
<1> HIDE DEF ReadAs
<1>b. \A new \in news : /\ new \in SupplierRef
                       /\ IF request[q].supplier # NoSupplier THEN new = NoSupplier ELSE new \in Free
  BY KeyIsUnused DEF SupplierRef, Free
<1> HIDE DEF news
<1>3. PICK mode \in Modes, new \in SupplierRef :
        /\ IF request[q].supplier # NoSupplier THEN new = NoSupplier ELSE new \in Free
        /\ ReadAs(mode, new)
  BY <1>a, <1>b
<1> DEFINE was == IF new = NoSupplier THEN supplier[request[q].supplier].state ELSE "unused"
           seen == [mode |-> mode, supplier |-> request[q].supplier, new |-> new,
                    dirty |-> ~request[q].stamped, was |-> was,
                    active |-> new = NoSupplier /\ request[q].supplier \in active, found |-> FALSE]
<1>4. new = NoSupplier => request[q].supplier \in Born /\ was \in Trading
  <2> SUFFICES ASSUME new = NoSupplier PROVE request[q].supplier \in Born /\ was \in Trading
    OBVIOUS
  <2>1. request[q].supplier \in Suppliers
    BY <1>2, <1>3, OnboardingAssumption DEF Free, SupplierRef
  <2> QED BY <1>1, <2>1, OnboardingAssumption DEF OnboardingInv, ReferencesLive, Born, Trading
<1>5. new # NoSupplier => /\ new \in Suppliers \ Born /\ request[q].supplier = NoSupplier
                          /\ \A g \in Flows : flow[g].seen.new # new
  BY <1>3 DEF Free, Reserved
<1>6. was \in States
  BY <1>4 DEF States
<1>7. seen \in SeenRows
  BY <1>1, <1>2, <1>6 DEF SeenRows, OnboardingInv, TypeInv
<1>8. flow' = [flow EXCEPT ![f].stage = "read", ![f].seen = seen]
  BY <1>3 DEF ReadAs
<1> HIDE DEF was
<1>9. seen.new = new /\ seen.supplier = request[q].supplier /\ seen.was = was /\ ~ seen.found
  OBVIOUS
<1> HIDE DEF seen
<1>10. /\ flow'[f] = [flow[f] EXCEPT !.stage = "read", !.seen = seen]
       /\ \A g \in Flows \ {f} : flow'[g] = flow[g]
  BY <1>8 DEF OnboardingInv, TypeInv
<1>11. flow'[f].stage = "read" /\ flow'[f].seen = seen /\ flow'[f].req = q /\ flow'[f] \in FlowRows
  BY <1>1, <1>7, <1>10 DEF FlowRows, Stages
<1>12. TypeInv'
  BY <1>8, <1>11 DEF traders, Read, OnboardingInv, TypeInv, Made, Born
<1>13. FlowsFit'
  <2>1. seen # Blank
    BY <1>4, <1>9, BlankReads, OnboardingAssumption DEF Born
  <2> QED BY <1>1, <1>4, <1>5, <1>9, <1>10, <1>11, <2>1 DEF Read, OnboardingInv, FlowsFit, Runs, Born
<1>14. KeysAreKept'
  <2>1. Born' = Born
    BY DEF Read, Born
  <2>2. KeysAreKept
    BY DEF OnboardingInv
  <2>3. flow'[f].seen.new = new /\ \A g \in Flows \ {f} : flow'[g].seen.new = flow[g].seen.new
    BY <1>9, <1>10, <1>11
  <2>4. ASSUME NEW g \in Flows, flow'[g].seen.new # NoSupplier
        PROVE  flow'[g].seen.new \notin Born
    BY <1>5, <2>2, <2>3, <2>4 DEF KeysAreKept
  <2>5. ASSUME NEW g \in Flows, NEW h \in Flows, flow'[g].seen.new # NoSupplier,
               flow'[h].seen.new = flow'[g].seen.new
        PROVE  h = g
    BY <1>5, <2>2, <2>3, <2>5 DEF KeysAreKept
  <2> QED BY <2>1, <2>4, <2>5 DEF KeysAreKept
<1>15. ApprovalsInTurn'
  <2> SUFFICES ASSUME NEW g \in Flows, Runs(g)', flow'[g].req \notin raced'
               PROVE  InTurn(g)'
    BY DEF ApprovalsInTurn
  <2>1. \A x : Of(x)' = Of(x) /\ WasDeleted(x)' = WasDeleted(x)
    BY DEF Of, Made, WasDeleted, Read
  <2>2. \A p \in Requests : request'[p] = request[p]
    BY DEF Read
  <2>3. CASE g = f
    <3>1. q \notin raced /\ Running(q) = {}
      BY <1>11, <2>3 DEF Read
    <3>2. \A h \in Flows : flow'[h].req = q /\ Runs(h)' => h = f
      BY <1>10, <3>1 DEF Running, Runs
    <3> QED BY <1>1, <1>5, <1>9, <1>11, <2>2, <2>3, <3>2 DEF InTurn
  <2>4. CASE g # f
    <3>1. flow'[g] = flow[g] /\ Runs(g) /\ flow[g].req \notin raced /\ flow[g].req \in Requests
      BY <1>10, <2>4 DEF Runs, Read, OnboardingInv, FlowsFit
    <3>2. InTurn(g)
      BY <3>1 DEF OnboardingInv, ApprovalsInTurn
    <3>3. flow[g].req # q
      <4>1. flow[g].req = q => g \in Running(q)
        BY <3>1 DEF Running, Runs
      <4> QED BY <3>1, <4>1 DEF Read
    <3> QED BY <1>10, <1>11, <2>1, <2>2, <3>1, <3>2, <3>3 DEF InTurn, Runs
  <2> QED BY <2>3, <2>4
<1>16. raced \subseteq raced' /\ \A p \in Requests : request'[p].supplier = request[p].supplier
  BY DEF Read
<1> QED BY <1>12, <1>13, <1>14, <1>15, <1>16, RowsStay DEF Read

\* The approval: a supplier that is made or activated, the request that refers to it,
\* and the registration that is opened.
LEMMA ApproveStep == ASSUME OnboardingInv, NEW f \in Flows, Approve(f) PROVE OnboardingInv'
<1> DEFINE q == flow[f].req
           seen == flow[f].seen
           s == Subject(seen)
           new == seen.new
           opens == seen.mode # "none" /\ ~ seen.found
           r == Key(Registrations \ Made)
           state == IF seen.mode = "none" THEN "onboarded" ELSE "pending_registration"
<1>1. /\ flow[f] \in FlowRows /\ q \in Requests /\ Runs(f) /\ flow[f].stage = "looked"
      /\ seen \in SeenRows /\ new \in SupplierRef
  BY DEF OnboardingInv, TypeInv, FlowsFit, Runs, Approve, FlowRows, SeenRows
<1>2. /\ s \in Suppliers
      /\ new # NoSupplier => s = new /\ s \notin Born
      /\ new = NoSupplier => s = seen.supplier /\ s \in Born
  BY <1>1 DEF OnboardingInv, FlowsFit, KeysAreKept, Subject, SupplierRef, Born
<1>3. /\ request' \in [Requests -> [stamped : BOOLEAN, supplier : SupplierRef]]
      /\ \A p \in Requests \ {q} : request'[p] = request[p]
      /\ request'[q].supplier = IF new # NoSupplier THEN s ELSE request[q].supplier
  <2> DEFINE row == [stamped |-> (seen.dirty \/ request[q].stamped) /\ ~ Moves(seen),
                     supplier |-> IF new # NoSupplier THEN s ELSE request[q].supplier]
  <2>1. request' = [request EXCEPT ![q] = row]
    BY DEF Approve
  <2>2. row \in [stamped : BOOLEAN, supplier : SupplierRef]
    BY <1>1, <1>2 DEF OnboardingInv, TypeInv, SupplierRef, SeenRows, Moves
  <2>3. row.supplier = IF new # NoSupplier THEN s ELSE request[q].supplier
    OBVIOUS
  <2> HIDE DEF row
  <2> QED BY <1>1, <2>1, <2>2, <2>3 DEF OnboardingInv, TypeInv
<1>4. /\ supplier' \in [Suppliers -> [state : States, origin : Origins \cup {NoRequest}]]
      /\ \A t \in Suppliers \ {s} : supplier'[t] = supplier[t]
  BY <1>1, <1>2 DEF Approve, NewSupplier, OnboardingInv, TypeInv, States, Trading, Origins
<1>5. new # NoSupplier => supplier'[s].state = state /\ supplier'[s].origin = q
  BY <1>2 DEF Approve, NewSupplier, OnboardingInv, TypeInv
<1>6. new = NoSupplier =>
        /\ supplier'[s].origin = supplier[s].origin
        /\ \/ supplier'[s].state = supplier[s].state
           \/ /\ seen.mode = "none" /\ supplier'[s].state = "onboarded"
              /\ supplier[s].state \in Trading
  <2> SUFFICES ASSUME new = NoSupplier, supplier' # supplier
               PROVE  /\ supplier'[s].origin = supplier[s].origin
                      /\ seen.mode = "none" /\ supplier'[s].state = "onboarded"
                      /\ supplier[s].state \in Trading
    OBVIOUS
  <2>1. /\ supplier' = [supplier EXCEPT ![s].state = state]
        /\ seen.mode = "none" /\ seen.was # "onboarded"
    BY DEF Approve
  <2>2. supplier[s].state \in States \ {"unused", "deleted"}
    BY <1>2, <2>1 DEF Approve, Lasts, OnboardingInv, TypeInv, Born
  <2> QED BY <1>2, <2>1, <2>2 DEF States, OnboardingInv, TypeInv
<1>7. ASSUME NEW t \in Suppliers
      PROVE  /\ supplier[t].state \in Trading =>
                  supplier'[t].state \in Trading /\ supplier'[t].origin = supplier[t].origin
             /\ supplier[t].state = "deleted" =>
                  supplier'[t].state = "deleted" /\ supplier'[t].origin = supplier[t].origin
             /\ supplier'[t].state \in Trading =>
                  \/ t = s /\ new # NoSupplier
                  \/ supplier[t].state \in Trading /\ supplier'[t].origin = supplier[t].origin
  BY <1>2, <1>4, <1>6 DEF Trading, Born
<1>8. Born' = Born \cup {s}
  BY <1>2, <1>4, <1>5, <1>6 DEF Born, Trading
<1>9. \A x : WasDeleted(x) => WasDeleted(x)'
  BY <1>7 DEF WasDeleted
<1>10. /\ opens => r \in Registrations \ Made
       /\ registration' = IF opens
                          THEN [x \in Made \cup {r} |->
                                  IF x = r THEN Opened(q, s, seen.mode) ELSE registration[x]]
                          ELSE registration
  BY KeyIsUnused DEF Approve
<1>11. /\ Made' = IF opens THEN Made \cup {r} ELSE Made
       /\ \A x \in Made : registration'[x] = registration[x]
       /\ opens => registration'[r].req = q /\ registration'[r].supplier = s
  BY <1>10 DEF Made, Opened
<1>12. registration' \in [Made' -> RegistrationRows] /\ Made' \subseteq Registrations \cup Direct
  BY <1>1, <1>2, <1>10, <1>11
     DEF OnboardingInv, TypeInv, RegistrationRows, Opened, SupplierRef, SeenRows
<1>13. \A p \in Requests : Of(p)' = IF p = q /\ opens THEN Of(p) \cup {r} ELSE Of(p)
  BY <1>1, <1>10, <1>11 DEF Of
<1>14. /\ flow' \in [Flows -> FlowRows]
       /\ \A g \in Flows \ {f} : flow'[g] = flow[g]
       /\ flow'[f].stage = "approved" /\ flow'[f].seen = Blank /\ flow'[f].req = q
  <2> DEFINE signed == flow[f].signed \cup {RoleAt(flow[f].step)}
  <2>1. signed \in SUBSET STRING
    BY <1>1, RolesAreStrings DEF FlowRows
  <2>2. flow' = [flow EXCEPT ![f] = [flow[f] EXCEPT !.stage = "approved", !.seen = Blank,
                                                    !.signed = signed]]
    BY DEF Approve
  <2> HIDE DEF signed
  <2>3. [flow[f] EXCEPT !.stage = "approved", !.seen = Blank, !.signed = signed] \in FlowRows
    BY <1>1, <2>1, BlankReads DEF FlowRows, Stages
  <2> QED BY <1>1, <2>2, <2>3 DEF OnboardingInv, TypeInv, FlowRows
<1>15. UNCHANGED <<converting, raced>> /\ Lasts(seen)
  BY DEF Approve
<1>16. /\ cleared' = IF seen.mode = "none" THEN cleared \cup {s} ELSE cleared
       /\ active' = active \/ (seen.mode = "none" /\ active' = active \cup {s})
       /\ byHand' = byHand
  BY DEF traders, Approve
<1>17. q \notin raced => InTurn(f)
  BY <1>1 DEF OnboardingInv, ApprovalsInTurn
<1>18. opens /\ new = NoSupplier => supplier[s].state \in Trading
  BY <1>2, <1>15 DEF Lasts, OnboardingInv, TypeInv, Born, States
<1> HIDE DEF r, opens
<1>19. TypeInv'
  BY <1>3, <1>4, <1>8, <1>12, <1>14, <1>15, <1>16 DEF OnboardingInv, TypeInv
<1>20. FlowsFit'
  BY <1>1, <1>8, <1>14 DEF OnboardingInv, FlowsFit, Runs
<1>21. KeysAreKept'
  <2>1. \A g \in Flows : flow'[g].seen.new # NoSupplier =>
          g # f /\ flow'[g].seen.new = flow[g].seen.new /\ flow[g].seen.new # new
    BY <1>14, BlankReads DEF OnboardingInv, KeysAreKept
  <2>2. \A g \in Flows : flow'[g].seen.new # NoSupplier => flow[g].seen.new # s
    BY <1>2, <2>1 DEF OnboardingInv, KeysAreKept
  <2> QED BY <1>8, <2>1, <2>2 DEF OnboardingInv, KeysAreKept
<1>22. ReferencesLive'
  <2>1. ASSUME NEW p \in Requests, request'[p].supplier # NoSupplier
        PROVE  /\ supplier'[request'[p].supplier].state \in Trading
               /\ supplier'[request'[p].supplier].origin = p
    <3>1. CASE p = q /\ new # NoSupplier
      BY <1>3, <1>5, <3>1 DEF Trading
    <3>2. CASE ~ (p = q /\ new # NoSupplier)
      <4>1. request'[p].supplier = request[p].supplier /\ request[p].supplier \in Suppliers
        BY <1>3, <2>1, <3>2 DEF OnboardingInv, TypeInv, SupplierRef
      <4> QED BY <1>7, <2>1, <4>1 DEF OnboardingInv, ReferencesLive
    <3> QED BY <3>1, <3>2
  <2>2. ASSUME NEW x \in Made', registration'[x].supplier # NoSupplier
        PROVE  supplier'[registration'[x].supplier].state \in Trading
    <3>1. CASE x \in Made
      <4>1. registration[x].supplier \in Suppliers
        BY <1>11, <2>2, <3>1 DEF OnboardingInv, TypeInv, SupplierRef, RegistrationRows
      <4> QED BY <1>7, <1>11, <2>2, <3>1, <4>1 DEF OnboardingInv, ReferencesLive
    <3>2. CASE x \notin Made
      <4>1. opens /\ registration'[x].supplier = s
        BY <1>11, <3>2
      <4> QED BY <1>2, <1>5, <1>7, <1>18, <4>1 DEF Trading
    <3> QED BY <3>1, <3>2
  <2> QED BY <2>1, <2>2 DEF ReferencesLive
<1>23. MadeForOne'
  <2> SUFFICES ASSUME NEW t \in Suppliers, supplier'[t].state \in Trading
               PROVE  LET o == supplier'[t].origin IN
                      /\ o \in Requests \ raced => request'[o].supplier = t
                      /\ o \in (Registrations \cup Direct) \ raced =>
                           o \in Made' /\ registration'[o].supplier = t
    BY <1>15 DEF MadeForOne
  <2>1. CASE t = s /\ new # NoSupplier
    BY <1>1, <1>3, <1>5, <2>1, OnboardingAssumption
  <2>2. CASE supplier[t].state \in Trading /\ supplier'[t].origin = supplier[t].origin
    <3> DEFINE o == supplier[t].origin
    <3>1. o \in Requests \ raced => request[o].supplier = t
      BY <2>2 DEF OnboardingInv, MadeForOne
    <3>2. o \in Requests \ raced => request'[o].supplier = t
      BY <1>3, <1>17, <3>1, OnboardingAssumption DEF InTurn
    <3>3. o \in (Registrations \cup Direct) \ raced => o \in Made' /\ registration'[o].supplier = t
      BY <1>11, <2>2 DEF OnboardingInv, MadeForOne
    <3> QED BY <2>2, <3>2, <3>3
  <2> QED BY <1>7, <2>1, <2>2
<1>24. ApprovalsInTurn'
  <2> SUFFICES ASSUME NEW g \in Flows, Runs(g)', flow'[g].req \notin raced
               PROVE  InTurn(g)'
    BY <1>15 DEF ApprovalsInTurn
  <2>1. g # f /\ flow'[g] = flow[g] /\ Runs(g) /\ flow[g].req \in Requests
    BY <1>14 DEF Runs, OnboardingInv, FlowsFit
  <2>2. InTurn(g)
    BY <2>1 DEF OnboardingInv, ApprovalsInTurn
  <2>3. flow[g].req # q
    BY <1>1, <2>1, <2>2 DEF InTurn
  <2>4. \A h \in Flows : Runs(h)' => Runs(h) /\ flow'[h] = flow[h]
    BY <1>14 DEF Runs
  <2> QED BY <1>3, <1>9, <1>13, <2>1, <2>2, <2>3, <2>4 DEF InTurn
<1>25. ConversionsInTurn'
  BY <1>11, <1>15 DEF OnboardingInv, ConversionsInTurn
<1>26. OrphansWereDeleted'
  <2> SUFFICES ASSUME NEW p \in Requests \ raced, NEW x \in Of(p)', ~ WasDeleted(p)'
               PROVE  /\ registration'[x].supplier = request'[p].supplier
                      /\ request'[p].supplier # NoSupplier
                      /\ converting[x] = 0
    BY <1>15 DEF OrphansWereDeleted
  <2>1. ~ WasDeleted(p)
    BY <1>9
  <2>2. CASE x \in Of(p)
    <3>1. /\ registration[x].supplier = request[p].supplier
          /\ request[p].supplier # NoSupplier
          /\ converting[x] = 0
      BY <2>1, <2>2 DEF OnboardingInv, OrphansWereDeleted
    <3>2. p = q => new = NoSupplier
      BY <1>17, <3>1 DEF InTurn
    <3> QED BY <1>3, <1>11, <2>2, <3>1, <3>2 DEF Of
  <2>3. CASE x \notin Of(p)
    <3>1. p = q /\ opens /\ x = r
      BY <1>13, <2>3
    <3>2. converting[r] = 0
      BY <1>10, <3>1 DEF OnboardingInv, ConversionsInTurn, TypeInv
    <3>3. request'[q].supplier = s
      BY <1>2, <1>3, <1>17, <2>1, <3>1 DEF InTurn
    <3> QED BY <1>2, <1>11, <3>1, <3>2, <3>3, OnboardingAssumption
  <2> QED BY <2>2, <2>3
<1>27. \A p \in Requests \ raced' : \A x, y \in Of(p)' : x = y
  <2>1. opens /\ q \notin raced => Of(q) = {}
    BY <1>1, <1>17 DEF InTurn, opens
  <2> QED BY <1>13, <1>15, <2>1 DEF OnboardingInv
<1>28. OnboardedIsCleared'
  <2> SUFFICES ASSUME NEW t \in Suppliers
               PROVE  /\ supplier'[t].state = "onboarded" => t \in cleared'
                      /\ t \in active' => t \in cleared' \cup byHand'
    BY DEF OnboardedIsCleared
  <2>1. supplier'[t].state = supplier[t].state /\ supplier[t].state = "onboarded" => t \in cleared'
    BY <1>16 DEF OnboardingInv, OnboardedIsCleared
  <2>2. supplier'[t].state = "onboarded" => t \in cleared'
    BY <1>4, <1>5, <1>6, <1>16, <2>1
  <2>3. t \in active' => t \in cleared' \cup byHand'
    BY <1>16 DEF OnboardingInv, OnboardedIsCleared
  <2> QED BY <2>2, <2>3
<1> QED BY <1>19, <1>20, <1>21, <1>22, <1>23, <1>24, <1>25, <1>26, <1>27, <1>28 DEF OnboardingInv

-----------------------------------------------------------------------------
(***************************************************************************)
(* Steps of registrations and suppliers                                     *)
(***************************************************************************)
\* What approvals have read is not touched by what happens to registrations, as long
\* as it takes no supplier or key from them and opens no registration of a request.
LEMMA ApprovalsStay ==
  ASSUME OnboardingInv, UNCHANGED <<request, flow>>,
         raced \subseteq raced', raced' \cap Requests \subseteq raced,
         \A q \in Requests : Of(q)' = Of(q) /\ (WasDeleted(q) => WasDeleted(q)'),
         Born \subseteq Born', Born' \cap Reserved \subseteq Born
  PROVE  FlowsFit' /\ KeysAreKept' /\ ApprovalsInTurn'
<1>1. FlowsFit'
  BY DEF OnboardingInv, FlowsFit, Runs
<1>2. KeysAreKept'
  <2>1. \A f \in Flows : flow[f].seen.new \in Reserved
    BY DEF Reserved
  <2> QED BY <2>1 DEF OnboardingInv, KeysAreKept
<1>3. ApprovalsInTurn'
  <2> SUFFICES ASSUME NEW f \in Flows, Runs(f)', flow'[f].req \notin raced'
               PROVE  InTurn(f)'
    BY DEF ApprovalsInTurn
  <2>1. Runs(f) /\ flow[f].req \in Requests /\ flow[f].req \notin raced
    BY DEF Runs, OnboardingInv, FlowsFit
  <2>2. InTurn(f)
    BY <2>1 DEF OnboardingInv, ApprovalsInTurn
  <2> QED BY <2>1, <2>2 DEF InTurn, Runs
<1> QED BY <1>1, <1>2, <1>3

\* A registration that keeps its request and its supplier changes nothing that matters.
LEMMA ReferencesStay ==
  ASSUME OnboardingInv, UNCHANGED <<request, flow, raced, converting, supplier, traders>>,
         NEW r \in Made, NEW row \in RegistrationRows,
         row.req = registration[r].req, row.supplier = registration[r].supplier,
         registration' = [registration EXCEPT ![r] = row]
  PROVE  OnboardingInv'
<1>1. /\ registration' \in [Made -> RegistrationRows] /\ Made' = Made /\ Born' = Born
      /\ \A x \in Made : /\ registration'[x].req = registration[x].req
                         /\ registration'[x].supplier = registration[x].supplier
  BY DEF OnboardingInv, TypeInv, Made, Born
<1>2. \A q : Of(q)' = Of(q) /\ WasDeleted(q)' = WasDeleted(q)
  BY <1>1 DEF Of, WasDeleted
<1>3. FlowsFit' /\ KeysAreKept' /\ ApprovalsInTurn'
  BY <1>1, <1>2, ApprovalsStay
<1>4. TypeInv'
  BY <1>1 DEF traders, OnboardingInv, TypeInv
<1>5. ReferencesLive' /\ MadeForOne' /\ ConversionsInTurn' /\ OnboardedIsCleared'
  BY <1>1 DEF traders, OnboardingInv, ReferencesLive, MadeForOne, ConversionsInTurn, OnboardedIsCleared
<1>6. OrphansWereDeleted'
  BY <1>1, <1>2 DEF OnboardingInv, OrphansWereDeleted, Of
<1> QED BY <1>2, <1>3, <1>4, <1>5, <1>6 DEF OnboardingInv

LEMMA TransitionRegistrationStep ==
  ASSUME OnboardingInv, NEW r \in Registrations \cup Direct, TransitionRegistration(r)
  PROVE  OnboardingInv'
<1> DEFINE approved == ~ registration[r].approved
<1>1. r \in Made /\ registration' = [registration EXCEPT ![r].approved = approved]
  BY DEF TransitionRegistration
<1> DEFINE row == [registration[r] EXCEPT !.approved = approved]
<1>2. registration[r] \in RegistrationRows
  BY <1>1 DEF OnboardingInv, TypeInv
<1>3. /\ row \in RegistrationRows
      /\ row.req = registration[r].req /\ row.supplier = registration[r].supplier
  BY <1>2 DEF RegistrationRows
<1>4. registration' = [registration EXCEPT ![r] = row]
  BY <1>1
<1> HIDE DEF row
<1> QED BY <1>1, <1>3, <1>4, ReferencesStay DEF TransitionRegistration, Unchanged

LEMMA SendWorkbookStep ==
  ASSUME OnboardingInv, NEW r \in Registrations \cup Direct, SendWorkbook(r)
  PROVE  OnboardingInv'
<1> DEFINE row == [registration[r] EXCEPT !.sent = TRUE]
<1>1. r \in Made /\ registration[r] \in RegistrationRows
  BY DEF OnboardingInv, TypeInv, SendWorkbook
<1>2. /\ row \in RegistrationRows
      /\ row.req = registration[r].req /\ row.supplier = registration[r].supplier
  BY <1>1 DEF RegistrationRows
<1>3. registration' = [registration EXCEPT ![r] = row]
  BY DEF SendWorkbook
<1> HIDE DEF row
<1> QED BY <1>1, <1>2, <1>3, ReferencesStay DEF SendWorkbook, Unchanged

LEMMA CreateRegistrationStep ==
  ASSUME OnboardingInv, NEW r \in Registrations \cup Direct, CreateRegistration(r)
  PROVE  OnboardingInv'
<1>1. /\ r \in Direct \ Made /\ Made' = Made \cup {r} /\ Born' = Born
      /\ \A x \in Made : registration'[x] = registration[x]
      /\ registration'[r].req = NoRequest /\ registration'[r].supplier = NoSupplier
  BY DEF CreateRegistration, Made, Born
<1>2. \A q \in Requests : Of(q)' = Of(q) /\ WasDeleted(q)' = WasDeleted(q)
  BY <1>1, OnboardingAssumption DEF Of, WasDeleted, CreateRegistration
<1>3. FlowsFit' /\ KeysAreKept' /\ ApprovalsInTurn'
  BY <1>1, <1>2, ApprovalsStay DEF CreateRegistration, Unchanged
<1>4. TypeInv'
  <2>1. registration' \in [Made' -> RegistrationRows]
    BY <1>1 DEF CreateRegistration, OnboardingInv, TypeInv, RegistrationRows, SupplierRef
  <2> QED BY <1>1, <2>1 DEF traders, CreateRegistration, Unchanged, OnboardingInv, TypeInv
<1>5. ReferencesLive' /\ MadeForOne' /\ ConversionsInTurn' /\ OnboardedIsCleared'
  BY <1>1 DEF traders, CreateRegistration, Unchanged, OnboardingInv, ReferencesLive, MadeForOne,
              ConversionsInTurn, OnboardedIsCleared
<1>6. OrphansWereDeleted'
  BY <1>1, <1>2 DEF traders, CreateRegistration, Unchanged, OnboardingInv, OrphansWereDeleted, Of
<1> QED BY <1>2, <1>3, <1>4, <1>5, <1>6 DEF CreateRegistration, Unchanged, OnboardingInv

LEMMA ImportStep ==
  ASSUME OnboardingInv, NEW r \in Registrations \cup Direct, Import(r)
  PROVE  OnboardingInv'
<1>1. PICK qualified \in BOOLEAN :
        /\ r \in Made
        /\ registration' = [registration EXCEPT ![r].approved = qualified]
        /\ IF qualified /\ registration[r].supplier # NoSupplier
           THEN /\ supplier' = [supplier EXCEPT ![registration[r].supplier].state = "onboarded"]
                /\ active' = active \cup {registration[r].supplier}
                /\ byHand' = byHand \ {registration[r].supplier}
                /\ cleared' = cleared \cup {registration[r].supplier}
           ELSE UNCHANGED <<supplier, traders>>
  BY DEF Import
<1> DEFINE row == [registration[r] EXCEPT !.approved = qualified]
           s == registration[r].supplier
<1>2. registration[r] \in RegistrationRows
  BY <1>1 DEF OnboardingInv, TypeInv
<1>3. /\ row \in RegistrationRows
      /\ row.req = registration[r].req /\ row.supplier = s
  BY <1>2 DEF RegistrationRows
<1>4. registration' = [registration EXCEPT ![r] = row]
  BY <1>1
<1> HIDE DEF row
<1>5. CASE ~ (qualified /\ s # NoSupplier)
  BY <1>1, <1>3, <1>4, <1>5, ReferencesStay DEF Import, Unchanged
<1>6. CASE qualified /\ s # NoSupplier
  <2>1. s \in Suppliers /\ supplier[s].state \in Trading
    BY <1>1, <1>2, <1>6 DEF OnboardingInv, ReferencesLive, RegistrationRows, SupplierRef
  <2>2. /\ supplier' = [supplier EXCEPT ![s].state = "onboarded"]
        /\ cleared' = cleared \cup {s}
        /\ active' = active \cup {s} /\ byHand' = byHand \ {s}
    BY <1>1, <1>6
  <2>3. /\ \A t \in Suppliers \ {s} : supplier'[t] = supplier[t]
        /\ supplier'[s].state = "onboarded" /\ supplier'[s].origin = supplier[s].origin
        /\ supplier' \in [Suppliers -> [state : States, origin : Origins \cup {NoRequest}]]
    BY <2>1, <2>2 DEF OnboardingInv, TypeInv, States, Trading
  <2>4. \A t \in Suppliers :
          /\ supplier'[t].origin = supplier[t].origin
          /\ supplier'[t].state \in Trading <=> supplier[t].state \in Trading
          /\ supplier'[t].state = "deleted" <=> supplier[t].state = "deleted"
          /\ supplier'[t].state = "unused" <=> supplier[t].state = "unused"
    BY <2>1, <2>3 DEF Trading
  <2> HIDE DEF s
  <2>5. /\ registration' \in [Made -> RegistrationRows] /\ Made' = Made /\ Born' = Born
        /\ \A x \in Made : /\ registration'[x].req = registration[x].req
                           /\ registration'[x].supplier = registration[x].supplier
    BY <1>1, <1>3, <1>4, <2>4 DEF OnboardingInv, TypeInv, Made, Born, s
  <2>6. \A q : Of(q)' = Of(q) /\ WasDeleted(q)' = WasDeleted(q)
    BY <2>4, <2>5 DEF Of, WasDeleted
  <2>7. UNCHANGED <<request, flow, raced, converting>>
    BY DEF Import, Unchanged
  <2>8. FlowsFit' /\ KeysAreKept' /\ ApprovalsInTurn'
    BY <2>5, <2>6, <2>7, ApprovalsStay
  <2>9. TypeInv'
    BY <2>1, <2>2, <2>3, <2>5, <2>7 DEF OnboardingInv, TypeInv, Born, Trading
  <2>10. ReferencesLive'
    <3>1. ASSUME NEW q \in Requests, request[q].supplier # NoSupplier
          PROVE  /\ supplier'[request[q].supplier].state \in Trading
                 /\ supplier'[request[q].supplier].origin = q
      BY <2>4, <3>1 DEF OnboardingInv, ReferencesLive, TypeInv, SupplierRef
    <3>2. ASSUME NEW x \in Made, registration[x].supplier # NoSupplier
          PROVE  supplier'[registration[x].supplier].state \in Trading
      BY <2>4, <3>2 DEF OnboardingInv, ReferencesLive, TypeInv, SupplierRef, RegistrationRows
    <3> QED BY <2>5, <2>7, <3>1, <3>2 DEF ReferencesLive
  <2>11. MadeForOne'
    BY <2>4, <2>5, <2>7 DEF OnboardingInv, MadeForOne
  <2>12. ConversionsInTurn'
    BY <2>5, <2>7 DEF OnboardingInv, ConversionsInTurn
  <2>13. OrphansWereDeleted'
    BY <2>5, <2>6, <2>7 DEF OnboardingInv, OrphansWereDeleted, Of
  <2>14. OnboardedIsCleared'
    BY <2>1, <2>2, <2>3 DEF OnboardingInv, OnboardedIsCleared
  <2> QED BY <2>6, <2>7, <2>8, <2>9, <2>10, <2>11, <2>12, <2>13, <2>14 DEF OnboardingInv
<1> QED BY <1>5, <1>6

LEMMA BeginConvertStep ==
  ASSUME OnboardingInv, NEW r \in Registrations \cup Direct, BeginConvert(r)
  PROVE  OnboardingInv'
<1>1. /\ converting' \in [Registrations \cup Direct -> 0 .. Converters]
      /\ converting'[r] = converting[r] + 1
      /\ \A x \in (Registrations \cup Direct) \ {r} : converting'[x] = converting[x]
  BY OnboardingAssumption DEF BeginConvert, OnboardingInv, TypeInv
<1>2. /\ raced \subseteq raced' /\ raced' \subseteq raced \cup {r}
      /\ converting[r] > 0 => r \in raced'
  BY DEF BeginConvert
<1>3. r \notin Requests
  BY OnboardingAssumption
<1>4. \A q : Of(q)' = Of(q) /\ WasDeleted(q)' = WasDeleted(q)
  BY DEF Of, Made, WasDeleted, BeginConvert
<1>5. Made' = Made /\ Born' = Born
  BY DEF Made, Born, BeginConvert
<1>6. FlowsFit' /\ KeysAreKept' /\ ApprovalsInTurn'
  BY <1>2, <1>3, <1>4, <1>5, ApprovalsStay DEF BeginConvert
<1>7. TypeInv'
  BY <1>1, <1>5 DEF traders, BeginConvert, OnboardingInv, TypeInv
<1>8. ReferencesLive' /\ OnboardedIsCleared'
  BY <1>5 DEF traders, BeginConvert, OnboardingInv, ReferencesLive, OnboardedIsCleared
<1>9. MadeForOne'
  BY <1>2, <1>5 DEF BeginConvert, OnboardingInv, MadeForOne
<1>10. ConversionsInTurn'
  <2>1. converting[r] \in Nat
    BY OnboardingAssumption DEF OnboardingInv, TypeInv
  <2> QED BY <1>1, <1>2, <1>5, <2>1 DEF BeginConvert, OnboardingInv, ConversionsInTurn
<1>11. OrphansWereDeleted'
  <2> SUFFICES ASSUME NEW q \in Requests \ raced', NEW x \in Of(q), ~ WasDeleted(q)
               PROVE  /\ registration[x].supplier = request[q].supplier
                      /\ request[q].supplier # NoSupplier
                      /\ converting'[x] = 0
    BY <1>4 DEF OrphansWereDeleted, BeginConvert
  <2>1. /\ registration[x].supplier = request[q].supplier
        /\ request[q].supplier # NoSupplier /\ converting[x] = 0
    BY <1>2 DEF OnboardingInv, OrphansWereDeleted
  <2>2. x # r
    BY <2>1 DEF BeginConvert
  <2> QED BY <1>1, <2>1, <2>2 DEF Of, OnboardingInv, TypeInv
<1> QED BY <1>2, <1>4, <1>6, <1>7, <1>8, <1>9, <1>10, <1>11 DEF OnboardingInv

LEMMA ConvertStep ==
  ASSUME OnboardingInv, NEW r \in Registrations \cup Direct, Convert(r)
  PROVE  OnboardingInv'
<1> DEFINE s == Key(Free)
           row == [registration[r] EXCEPT !.supplier = s]
<1>1. s \in Suppliers /\ s \notin Born /\ s \notin Reserved
  BY KeyIsUnused DEF Convert, Free
<1>2. /\ r \in Made /\ registration[r] \in RegistrationRows /\ r \notin Requests
      /\ converting[r] \in 1 .. Converters
  BY OnboardingAssumption DEF Convert, OnboardingInv, TypeInv
<1>3. /\ supplier' = [supplier EXCEPT ![s] = [state |-> "onboarded", origin |-> r]]
      /\ registration' = [registration EXCEPT ![r] = row]
      /\ converting' = [converting EXCEPT ![r] = converting[r] - 1]
      /\ active' = active \cup {s} /\ cleared' = cleared \cup {s}
      /\ UNCHANGED <<request, flow, raced, byHand>>
  BY DEF Convert, NewSupplier
<1>4. row \in RegistrationRows /\ row.req = registration[r].req /\ row.supplier = s
  BY <1>1, <1>2 DEF RegistrationRows, SupplierRef
<1> HIDE DEF s, row
<1>5. /\ \A t \in Suppliers \ {s} : supplier'[t] = supplier[t]
      /\ supplier'[s].state = "onboarded" /\ supplier'[s].origin = r
      /\ supplier' \in [Suppliers -> [state : States, origin : Origins \cup {NoRequest}]]
  BY <1>1, <1>3 DEF OnboardingInv, TypeInv, States, Trading, Origins
<1>6. /\ registration' \in [Made -> RegistrationRows] /\ Made' = Made
      /\ \A x \in Made : registration'[x].req = registration[x].req
      /\ \A x \in Made \ {r} : registration'[x] = registration[x]
      /\ registration'[r].supplier = s
  BY <1>2, <1>3, <1>4 DEF OnboardingInv, TypeInv, Made
<1>7. /\ converting' \in [Registrations \cup Direct -> 0 .. Converters]
      /\ converting'[r] = converting[r] - 1
      /\ \A x \in (Registrations \cup Direct) \ {r} : converting'[x] = converting[x]
  BY <1>2, <1>3, OnboardingAssumption DEF OnboardingInv, TypeInv
<1>8. Born' = Born \cup {s}
  BY <1>1, <1>5 DEF Born
<1>9. \A q : Of(q)' = Of(q) /\ (WasDeleted(q) => WasDeleted(q)')
  BY <1>1, <1>5, <1>6 DEF Of, WasDeleted, Born
<1>10. FlowsFit' /\ KeysAreKept' /\ ApprovalsInTurn'
  BY <1>1, <1>3, <1>8, <1>9, ApprovalsStay
<1>11. TypeInv'
  BY <1>3, <1>5, <1>6, <1>7, <1>8 DEF OnboardingInv, TypeInv
<1>12. ReferencesLive'
  <2>1. ASSUME NEW q \in Requests, request[q].supplier # NoSupplier
        PROVE  /\ supplier'[request[q].supplier].state \in Trading
               /\ supplier'[request[q].supplier].origin = q
    <3>1. /\ supplier[request[q].supplier].state \in Trading
          /\ supplier[request[q].supplier].origin = q
          /\ request[q].supplier \in Suppliers
      BY <2>1 DEF OnboardingInv, ReferencesLive, TypeInv, SupplierRef
    <3> QED BY <1>1, <1>5, <3>1 DEF Born, Trading
  <2>2. ASSUME NEW x \in Made, registration'[x].supplier # NoSupplier
        PROVE  supplier'[registration'[x].supplier].state \in Trading
    <3>1. CASE x = r
      BY <1>5, <1>6, <3>1 DEF Trading
    <3>2. CASE x # r
      <4>1. registration[x].supplier \in Suppliers /\ supplier[registration[x].supplier].state \in Trading
        BY <1>6, <2>2, <3>2 DEF OnboardingInv, ReferencesLive, TypeInv, SupplierRef, RegistrationRows
      <4> QED BY <1>1, <1>5, <1>6, <3>2, <4>1 DEF Born, Trading
    <3> QED BY <3>1, <3>2
  <2> QED BY <1>3, <1>6, <2>1, <2>2 DEF ReferencesLive
<1>13. MadeForOne'
  <2> SUFFICES ASSUME NEW t \in Suppliers, supplier'[t].state \in Trading
               PROVE  LET o == supplier'[t].origin IN
                      /\ o \in Requests \ raced => request[o].supplier = t
                      /\ o \in (Registrations \cup Direct) \ raced =>
                           o \in Made /\ registration'[o].supplier = t
    BY <1>3, <1>6 DEF MadeForOne
  <2>1. CASE t = s
    BY <1>2, <1>5, <1>6, <2>1
  <2>2. CASE t # s
    <3> DEFINE o == supplier[t].origin
    <3>1. /\ supplier'[t] = supplier[t]
          /\ o \in Requests \ raced => request[o].supplier = t
          /\ o \in (Registrations \cup Direct) \ raced => o \in Made /\ registration[o].supplier = t
      BY <1>5, <2>2 DEF OnboardingInv, MadeForOne
    <3>2. r \notin raced => registration[r].supplier = NoSupplier
      BY <1>2 DEF OnboardingInv, ConversionsInTurn
    <3> QED BY <1>6, <3>1, <3>2, OnboardingAssumption
  <2> QED BY <2>1, <2>2
<1>14. ConversionsInTurn'
  BY <1>2, <1>3, <1>6, <1>7 DEF OnboardingInv, ConversionsInTurn
<1>15. OrphansWereDeleted'
  <2> SUFFICES ASSUME NEW q \in Requests \ raced, NEW x \in Of(q), ~ WasDeleted(q)
               PROVE  /\ registration'[x].supplier = request[q].supplier
                      /\ request[q].supplier # NoSupplier
                      /\ converting'[x] = 0
    BY <1>3, <1>9 DEF OrphansWereDeleted
  <2>1. /\ registration[x].supplier = request[q].supplier
        /\ request[q].supplier # NoSupplier /\ converting[x] = 0
    BY DEF OnboardingInv, OrphansWereDeleted
  <2> QED BY <1>2, <1>6, <1>7, <2>1 DEF Of, OnboardingInv, TypeInv
<1>16. OnboardedIsCleared'
  BY <1>2, <1>3, <1>5 DEF OnboardingInv, OnboardedIsCleared
<1> QED BY <1>3, <1>9, <1>10, <1>11, <1>12, <1>13, <1>14, <1>15, <1>16 DEF OnboardingInv

LEMMA DeleteSupplierStep ==
  ASSUME OnboardingInv, NEW s \in Suppliers, DeleteSupplier(s)
  PROVE  OnboardingInv'
<1>1. /\ supplier[s].state \in Trading
      /\ supplier' = [supplier EXCEPT ![s].state = "deleted"]
      /\ request' = [q \in Requests |->
           IF request[q].supplier = s THEN [request[q] EXCEPT !.supplier = NoSupplier]
           ELSE request[q]]
      /\ registration' = [r \in Made |->
           IF registration[r].supplier = s THEN [registration[r] EXCEPT !.supplier = NoSupplier]
           ELSE registration[r]]
      /\ active' = active \ {s} /\ cleared' = cleared \ {s} /\ byHand' = byHand \ {s}
      /\ UNCHANGED <<flow, converting, raced>>
  BY DEF DeleteSupplier, Trading
<1>2. /\ \A t \in Suppliers \ {s} : supplier'[t] = supplier[t]
      /\ supplier'[s].state = "deleted" /\ supplier'[s].origin = supplier[s].origin
      /\ supplier' \in [Suppliers -> [state : States, origin : Origins \cup {NoRequest}]]
  BY <1>1 DEF OnboardingInv, TypeInv, States
<1>3. /\ request' \in [Requests -> [stamped : BOOLEAN, supplier : SupplierRef]]
      /\ \A q \in Requests : request'[q].supplier =
           IF request[q].supplier = s THEN NoSupplier ELSE request[q].supplier
  BY <1>1 DEF OnboardingInv, TypeInv, SupplierRef
<1>4. /\ registration' \in [Made -> RegistrationRows] /\ Made' = Made
      /\ \A x \in Made :
           /\ registration'[x].req = registration[x].req
           /\ registration'[x].supplier =
                IF registration[x].supplier = s THEN NoSupplier ELSE registration[x].supplier
  BY <1>1 DEF OnboardingInv, TypeInv, RegistrationRows, SupplierRef, Made
<1>5. Born' = Born
  BY <1>1, <1>2 DEF Born, Trading
<1>6. \A q : Of(q)' = Of(q) /\ (WasDeleted(q) => WasDeleted(q)')
  BY <1>2, <1>4 DEF Of, WasDeleted
<1>7. WasDeleted(supplier[s].origin)'
  BY <1>2 DEF WasDeleted
<1>8. \A q \in Requests : request[q].supplier = s => WasDeleted(q)'
  BY <1>2, OnboardingAssumption DEF OnboardingInv, ReferencesLive, WasDeleted
<1>9. TypeInv'
  BY <1>1, <1>2, <1>3, <1>4, <1>5 DEF OnboardingInv, TypeInv
<1>10. FlowsFit'
  BY <1>1, <1>5 DEF OnboardingInv, FlowsFit, Runs
<1>11. KeysAreKept'
  BY <1>1, <1>5 DEF OnboardingInv, KeysAreKept
<1>12. ReferencesLive'
  <2>1. ASSUME NEW q \in Requests, request'[q].supplier # NoSupplier
        PROVE  /\ supplier'[request'[q].supplier].state \in Trading
               /\ supplier'[request'[q].supplier].origin = q
    <3>1. /\ request'[q].supplier = request[q].supplier /\ request[q].supplier # s
          /\ request[q].supplier \in Suppliers
      BY <1>3, <2>1 DEF OnboardingInv, TypeInv, SupplierRef
    <3> QED BY <1>2, <2>1, <3>1 DEF OnboardingInv, ReferencesLive
  <2>2. ASSUME NEW x \in Made, registration'[x].supplier # NoSupplier
        PROVE  supplier'[registration'[x].supplier].state \in Trading
    <3>1. /\ registration'[x].supplier = registration[x].supplier /\ registration[x].supplier # s
          /\ registration[x].supplier \in Suppliers
      BY <1>4, <2>2 DEF OnboardingInv, TypeInv, SupplierRef, RegistrationRows
    <3> QED BY <1>2, <2>2, <3>1 DEF OnboardingInv, ReferencesLive
  <2> QED BY <1>4, <2>1, <2>2 DEF ReferencesLive
<1>13. MadeForOne'
  <2> SUFFICES ASSUME NEW t \in Suppliers, supplier'[t].state \in Trading
               PROVE  LET o == supplier'[t].origin IN
                      /\ o \in Requests \ raced => request'[o].supplier = t
                      /\ o \in (Registrations \cup Direct) \ raced =>
                           o \in Made /\ registration'[o].supplier = t
    BY <1>1, <1>4 DEF MadeForOne
  <2>1. t # s /\ supplier'[t] = supplier[t]
    BY <1>2 DEF Trading
  <2> DEFINE o == supplier[t].origin
  <2>2. /\ o \in Requests \ raced => request[o].supplier = t
        /\ o \in (Registrations \cup Direct) \ raced => o \in Made /\ registration[o].supplier = t
    BY <2>1 DEF OnboardingInv, MadeForOne
  <2> QED BY <1>3, <1>4, <2>1, <2>2
<1>14. ApprovalsInTurn'
  <2> SUFFICES ASSUME NEW f \in Flows, Runs(f), flow[f].req \notin raced
               PROVE  InTurn(f)'
    BY <1>1 DEF ApprovalsInTurn, Runs
  <2>1. InTurn(f) /\ flow[f].req \in Requests
    BY DEF OnboardingInv, ApprovalsInTurn, FlowsFit, Runs
  <2> QED BY <1>1, <1>3, <1>6, <1>8, <2>1 DEF InTurn, Runs
<1>15. ConversionsInTurn'
  BY <1>1, <1>4 DEF OnboardingInv, ConversionsInTurn
<1>16. OrphansWereDeleted'
  <2> SUFFICES ASSUME NEW q \in Requests \ raced, NEW x \in Of(q), ~ WasDeleted(q)'
               PROVE  /\ registration'[x].supplier = request'[q].supplier
                      /\ request'[q].supplier # NoSupplier
                      /\ converting[x] = 0
    BY <1>1, <1>6 DEF OrphansWereDeleted
  <2>1. /\ registration[x].supplier = request[q].supplier
        /\ request[q].supplier # NoSupplier /\ converting[x] = 0
    BY <1>6 DEF OnboardingInv, OrphansWereDeleted
  <2> QED BY <1>3, <1>4, <1>8, <2>1 DEF Of
<1>17. OnboardedIsCleared'
  BY <1>1, <1>2 DEF OnboardingInv, OnboardedIsCleared
<1> QED BY <1>1, <1>6, <1>9, <1>10, <1>11, <1>12, <1>13, <1>14, <1>15, <1>16, <1>17 DEF OnboardingInv

\* An edit is of a supplier that is there, and whoever it activates before time is named.
LEMMA UpdateSupplierStep ==
  ASSUME OnboardingInv, NEW s \in Suppliers, UpdateSupplier(s)
  PROVE  OnboardingInv'
<1>1. /\ s \in Born
      /\ UNCHANGED <<request, flow, registration, supplier, converting, raced, cleared>>
      /\ \/ active' = active \ {s} /\ byHand' = byHand \ {s}
         \/ active' = active \cup {s} /\ byHand' = byHand \cup ({s} \ cleared)
  BY DEF UpdateSupplier, Born
<1>2. Made' = Made /\ Born' = Born /\ \A q : Of(q)' = Of(q) /\ WasDeleted(q)' = WasDeleted(q)
  BY <1>1 DEF Made, Born, Of, WasDeleted
<1>3. FlowsFit' /\ KeysAreKept' /\ ApprovalsInTurn'
  BY <1>1, <1>2, ApprovalsStay
<1>4. TypeInv'
  BY <1>1, <1>2 DEF OnboardingInv, TypeInv
<1>5. ReferencesLive' /\ MadeForOne' /\ ConversionsInTurn' /\ OrphansWereDeleted'
  BY <1>1, <1>2 DEF OnboardingInv, ReferencesLive, MadeForOne, ConversionsInTurn, OrphansWereDeleted
<1>6. OnboardedIsCleared'
  BY <1>1 DEF OnboardingInv, OnboardedIsCleared
<1> QED BY <1>1, <1>2, <1>3, <1>4, <1>5, <1>6 DEF OnboardingInv

-----------------------------------------------------------------------------
(***************************************************************************)
(* The theorems                                                             *)
(***************************************************************************)
LEMMA OnboardingStep == OnboardingInv /\ [Next]_vars => OnboardingInv'
<1> SUFFICES ASSUME OnboardingInv, [Next]_vars PROVE OnboardingInv'
  OBVIOUS
<1>1. CASE UNCHANGED vars
  BY <1>1 DEF vars, traders, OnboardingInv, TypeInv, FlowsFit, KeysAreKept, ReferencesLive, MadeForOne,
     ApprovalsInTurn, InTurn, ConversionsInTurn, OrphansWereDeleted, OnboardedIsCleared, Runs,
     WasDeleted, Of, Made, Born
<1>2. ASSUME NEW q \in Requests, Submit(q) \/ Decide(q)
      PROVE  OnboardingInv'
  BY <1>2, SubmitStep, DecideStep
<1>3. ASSUME NEW f \in Flows, Answer(f) \/ Refuse(f) \/ Read(f) \/ Completing(f) \/ Crash(f)
      PROVE  OnboardingInv'
  BY <1>3, AnswerStep, RefuseStep, ReadStep, LookUpStep, ApproveStep, RolledBackStep
     DEF Completing, Raise, Crash, Runs
<1>4. ASSUME NEW r \in Registrations \cup Direct,
             \/ CreateRegistration(r) \/ TransitionRegistration(r) \/ SendWorkbook(r)
             \/ Import(r) \/ BeginConvert(r) \/ Convert(r)
      PROVE  OnboardingInv'
  BY <1>4, CreateRegistrationStep, TransitionRegistrationStep, SendWorkbookStep, ImportStep,
     BeginConvertStep, ConvertStep
<1>5. ASSUME NEW s \in Suppliers, UpdateSupplier(s) \/ DeleteSupplier(s)
      PROVE  OnboardingInv'
  BY <1>5, UpdateSupplierStep, DeleteSupplierStep
<1> QED BY <1>1, <1>2, <1>3, <1>4, <1>5 DEF Next

\* Every variable keeps its type, and what runs has a request and a supplier, or the
\* key of one, that it has read.
THEOREM OnboardingTypeCorrect == Spec => []TypeOK
<1>1. OnboardingInv => TypeOK
  <2> SUFFICES ASSUME OnboardingInv PROVE TypeOK
    OBVIOUS
  <2>1. \A f \in Flows : flow[f].stage \in Stages /\ flow[f].step \in 1 .. Len(Definition)
    BY DEF OnboardingInv, TypeInv, FlowRows
  <2>2. \A f \in Flows :
          /\ IF flow[f].stage = "unused" THEN flow[f].req = NoRequest ELSE flow[f].req \in Requests
          /\ flow[f].stage \notin {"read", "looked"} <=> flow[f].seen = Blank
    BY DEF OnboardingInv, FlowsFit, Runs
  <2>3. \A s \in Suppliers : supplier[s].state \in States
    BY DEF OnboardingInv, TypeInv
  <2>4. \A r \in Made : registration[r] \in RegistrationRows
    BY DEF OnboardingInv, TypeInv
  <2> QED BY <2>1, <2>2, <2>3, <2>4
          DEF OnboardingInv, TypeInv, TypeOK, States, Trading, RegistrationRows, SupplierRef
<1> QED BY OnboardingInit, OnboardingStep, <1>1, PTL DEF Spec

LEMMA OneOrNone ==
  ASSUME NEW S, NEW x, S \subseteq {x}
  PROVE  Cardinality(S) <= 1
<1>1. IsFiniteSet({x}) /\ Cardinality({x}) = 1
  BY FS_Singleton
<1> QED BY <1>1, FS_Subset

\* However often a request is submitted, approved and converted, and whoever dies at
\* it, one supplier and one registration come of it and they agree, unless two
\* approvals or two conversions overlapped (on_supplier_request_approved,
\* convert_registration).
THEOREM OneOnboarding == Spec => []OneOfEach
<1>1. OnboardingInv => OneOfEach
  <2> SUFFICES ASSUME OnboardingInv PROVE OneOfEach
    OBVIOUS
  <2>1. OneSupplierEach
    <3> SUFFICES ASSUME NEW o \in (Requests \cup Registrations \cup Direct) \ raced
                 PROVE  Cardinality(From(o)) <= 1
      BY DEF OneSupplierEach
    <3>1. CASE o \in Requests
      <4>1. From(o) \subseteq {request[o].supplier}
        BY <3>1 DEF From, OnboardingInv, MadeForOne, Trading
      <4> QED BY <4>1, OneOrNone
    <3>2. CASE o \in Registrations \cup Direct
      <4>1. From(o) \subseteq {registration[o].supplier}
        BY <3>2 DEF From, OnboardingInv, MadeForOne, Trading
      <4> QED BY <4>1, OneOrNone
    <3> QED BY <3>1, <3>2
  <2>2. OneRegistrationEach
    <3> SUFFICES ASSUME NEW q \in Requests \ raced PROVE Cardinality(Of(q)) <= 1
      BY DEF OneRegistrationEach
    <3>1. PICK x : Of(q) \subseteq {x}
      BY DEF OnboardingInv
    <3> QED BY <3>1, OneOrNone
  <2>3. RowsAgree
    BY DEF RowsAgree, OnboardingInv, OrphansWereDeleted, WasDeleted
  <2> QED BY <2>1, <2>2, <2>3 DEF OneOfEach
<1> QED BY OnboardingInit, OnboardingStep, <1>1, PTL DEF Spec

\* The onboarding of a supplier ends only when its registration has qualified or is
\* converted, or an approval found that none is needed, and before that only an edit of
\* is_active lets orders be made to it, whatever overlaps (apply_import_result,
\* on_supplier_request_approved, convert_registration_to_supplier, update_supplier).
THEOREM TradersAreCleared == Spec => []OnboardedIsCleared
<1>1. OnboardingInv => OnboardedIsCleared
  BY DEF OnboardingInv
<1> QED BY OnboardingInit, OnboardingStep, <1>1, PTL DEF Spec

-----------------------------------------------------------------------------
(***************************************************************************)
(* Proofs about TemplateEditor, for any number of drafts, questions, edits  *)
(* and requests: what a form, its requests and the rows know of each other  *)
(***************************************************************************)

(* Clicks in a list leave a list *)
LEMMA OneLess ==
  ASSUME NEW S, NEW s \in Seq(S), NEW k \in DOMAIN s
  PROVE  RemoveAt(s, k) \in Seq(S)
<1>1. k \in 1..Len(s) /\ Len(s) \in Nat
  OBVIOUS
<1>2. SubSeq(s, 1, k - 1) \in Seq(S)
  BY <1>1
<1>3. SubSeq(s, k + 1, Len(s)) \in Seq(S)
  BY <1>1
<1>4. ASSUME NEW a \in Seq(S), NEW b \in Seq(S) PROVE a \o b \in Seq(S)
  OBVIOUS
<1> QED BY <1>2, <1>3, <1>4 DEF RemoveAt

LEMMA OneReplaced ==
  ASSUME NEW S, NEW s \in Seq(S), NEW k \in DOMAIN s, NEW x \in S
  PROVE  [s EXCEPT ![k] = x] \in Seq(S)
<1>1. DOMAIN s = 1..Len(s) /\ Len(s) \in Nat /\ \A j \in 1..Len(s) : s[j] \in S
  OBVIOUS
<1>2. DOMAIN [s EXCEPT ![k] = x] = 1..Len(s)
  BY <1>1
<1>3. \A j \in 1..Len(s) : [s EXCEPT ![k] = x][j] \in S
  BY <1>1
<1> QED BY <1>1, <1>2, <1>3

LEMMA ListEdits ==
  ASSUME NEW S, NEW s \in Seq(S)
  PROVE  Moved(s) \subseteq Seq(S) /\ Less(s) \subseteq Seq(S)
<1>1. DOMAIN s = 1..Len(s) /\ Len(s) \in Nat
  OBVIOUS
<1>2. ASSUME NEW i \in 1..(Len(s) - 1) PROVE Swapped(s, i) \in Seq(S)
  <2>1. i \in DOMAIN s /\ i + 1 \in DOMAIN s
    BY <1>1
  <2>2. s[i] \in S /\ s[i + 1] \in S
    BY <2>1
  <2>3. [s EXCEPT ![i] = s[i + 1]] \in Seq(S) /\ DOMAIN [s EXCEPT ![i] = s[i + 1]] = DOMAIN s
    BY <2>1, <2>2, OneReplaced
  <2>4. [[s EXCEPT ![i] = s[i + 1]] EXCEPT ![i + 1] = s[i]] \in Seq(S)
    BY <2>1, <2>2, <2>3, OneReplaced
  <2>5. Swapped(s, i) = [[s EXCEPT ![i] = s[i + 1]] EXCEPT ![i + 1] = s[i]]
    BY <2>1 DEF Swapped
  <2> QED BY <2>4, <2>5
<1>3. Moved(s) \subseteq Seq(S)
  BY <1>2 DEF Moved
<1>4. Less(s) \subseteq Seq(S)
  BY OneLess DEF Less
<1> QED BY <1>3, <1>4

LEMMA QuestionEditsAreLists ==
  ASSUME NEW section \in Seq(FormQuestions), NEW keys, keys \subseteq FieldKeys
  PROVE  QuestionEdits(section, keys) \subseteq Seq(FormQuestions)
<1>1. Moved(section) \subseteq Seq(FormQuestions) /\ Less(section) \subseteq Seq(FormQuestions)
  BY ListEdits
<1>2. EmptyQuestion \in FormQuestions
  BY DEF EmptyQuestion, FormQuestions
<1>3. Append(section, EmptyQuestion) \in Seq(FormQuestions)
  BY <1>2
<1>4. \A j \in DOMAIN section : Keyed(section[j]) \cup Ruled(section[j], keys) \subseteq FormQuestions
  <2> SUFFICES ASSUME NEW j \in DOMAIN section
               PROVE  Keyed(section[j]) \cup Ruled(section[j], keys) \subseteq FormQuestions
    OBVIOUS
  <2>1. section[j] \in FormQuestions
    OBVIOUS
  <2>2. Keyed(section[j]) \subseteq FormQuestions
    BY <2>1 DEF Keyed, FormQuestions
  <2>3. Ruled(section[j], keys) \subseteq FormQuestions
    BY <2>1 DEF Ruled, FormQuestions
  <2> QED BY <2>2, <2>3
<1>5. \A j \in DOMAIN section : \A q \in Keyed(section[j]) \cup Ruled(section[j], keys) :
        [section EXCEPT ![j] = q] \in Seq(FormQuestions)
  BY <1>4, OneReplaced
<1> QED BY <1>1, <1>3, <1>5 DEF QuestionEdits

LEMMA SectionEditsAreForms == ASSUME NEW s \in Forms PROVE SectionEdits(s) \subseteq Forms
<1>1. s \in Seq(Seq(FormQuestions))
  BY DEF Forms
<1>2. Moved(s) \subseteq Forms /\ Less(s) \subseteq Forms
  BY <1>1, ListEdits DEF Forms
<1>3. Append(s, << >>) \in Forms
  <2>1. << >> \in Seq(FormQuestions)
    OBVIOUS
  <2> QED BY <1>1, <2>1 DEF Forms
<1>4. \A i \in DOMAIN s : KeysOf(s) \subseteq FieldKeys /\ s[i] \in Seq(FormQuestions)
  <2>1. \A i \in DOMAIN s : s[i] \in Seq(FormQuestions)
    BY <1>1
  <2>2. ASSUME NEW i \in DOMAIN s, NEW j \in DOMAIN s[i] PROVE s[i][j].key \in FieldKeys \cup {NoKey}
    <3>1. s[i][j] \in FormQuestions
      BY <2>1
    <3> QED BY <3>1 DEF FormQuestions
  <2> QED BY <2>1, <2>2 DEF KeysOf
<1>5. \A i \in DOMAIN s : \A section \in QuestionEdits(s[i], KeysOf(s)) :
        [s EXCEPT ![i] = section] \in Forms
  <2> SUFFICES ASSUME NEW i \in DOMAIN s, NEW section \in QuestionEdits(s[i], KeysOf(s))
               PROVE  [s EXCEPT ![i] = section] \in Forms
    OBVIOUS
  <2>1. section \in Seq(FormQuestions)
    BY <1>4, QuestionEditsAreLists
  <2> QED BY <1>1, <2>1, OneReplaced DEF Forms
<1> DEFINE Within == UNION {{[s EXCEPT ![i] = section] : section \in QuestionEdits(s[i], KeysOf(s))} : i \in DOMAIN s}
           One == IF Len(s) < MaxSections THEN {Append(s, << >>)} ELSE {}
<1>6. Within \subseteq Forms
  BY <1>5
<1>7. One \subseteq Forms
  BY <1>3
<1>8. SectionEdits(s) = Moved(s) \cup Less(s) \cup One \cup Within
  BY DEF SectionEdits
<1> HIDE DEF Within, One
<1> QED BY <1>2, <1>6, <1>7, <1>8

(***************************************************************************)
(* The invariant                                                            *)
(***************************************************************************)
(* A request is about a row; only the creation of one is not yet. *)
RowsAreKnown ==
  \A k \in Kinds : requests[k] # NoCall =>
    requests[k].def \in Templates \/ (k = "save" /\ requests[k].new /\ requests[k].stage = "sent")

(* A row, if there still is one, holds these sections. *)
Tells(d, sections) == templates[d] # Absent => templates[d].sections = sections

(* What a request that nothing happened behind knows of its row, and of the form *)
PublishKnows ==
  requests["publish"] # NoCall /\ requests["publish"].stage = "sent" /\ requests["publish"].clean =>
    Tells(requests["publish"].def, requests["publish"].sections)
GetKnows ==
  /\ requests["get"] # NoCall /\ requests["get"].stage = "handled" /\ requests["get"].ok
  /\ requests["get"].clean
  => Tells(requests["get"].def, requests["get"].sections)
SaveKnows ==
  requests["save"] # NoCall /\ requests["save"].mine =>
    /\ ~requests["save"].new => requests["save"].def = editing
    /\ requests["save"].clean => sheet = requests["save"].sections
    /\ requests["save"].stage = "handled" /\ requests["save"].ok /\ requests["save"].clean =>
         Tells(requests["save"].def, requests["save"].sections)

(* What a saved form knows of its draft; a form that was left early may have been
   saved into another one than it was read from. *)
FormKnows ==
  saved =>
    \/ origin \in Templates /\ Tells(origin, sheet)
    \/ /\ editing \in Templates /\ editing # origin
       /\ ~(requests["save"] # NoCall /\ requests["save"].new)

EditorInv ==
  /\ EditorTypeOK /\ RowsAreKnown
  /\ PublishKnows /\ GetKnows /\ SaveKnows /\ FormKnows
  /\ SavesWhereItBelongs /\ ReleasedAsShown

LEMMA EditorInvInit == EditorInit => EditorInv
<1> SUFFICES ASSUME EditorInit PROVE EditorInv
  OBVIOUS
<1>1. requests = [k \in Kinds |-> NoCall] /\ \A k \in Kinds : requests[k] = NoCall
  BY DEF EditorInit
<1>2. requests["publish"] = NoCall /\ requests["get"] = NoCall /\ requests["save"] = NoCall
  BY <1>1 DEF Kinds
<1>3. templates \in [Templates -> Rows \cup {Absent}]
  <2>1. Row("draft", FirstDraft) \in Rows
    BY EditorAssumption DEF Row, Rows
  <2> QED BY <2>1 DEF EditorInit
<1>4. EditorTypeOK
  <2>1. sheet \in Forms /\ {editing, origin} \subseteq Templates \cup {NoDraft}
    BY DEF EditorInit, Forms
  <2>2. formEdits \in 0..MaxEdits /\ sent \in 0..MaxPageCalls
    BY EditorAssumption DEF EditorInit
  <2>3. {saved, leftEarly} \subseteq BOOLEAN
    BY DEF EditorInit
  <2> QED BY <1>1, <1>3, <2>1, <2>2, <2>3 DEF EditorTypeOK
<1> QED BY <1>1, <1>2, <1>4
        DEF EditorInit, EditorInv, RowsAreKnown, PublishKnows, GetKnows, SaveKnows, FormKnows,
            SavesWhereItBelongs, ReleasedAsShown

(***************************************************************************)
(* Steps of the page that send, edit or leave                               *)
(***************************************************************************)
LEMMA Sends ==
  ASSUME EditorInv, NEW k \in Kinds, NEW d \in Templates \cup {NoDraft}, NEW sections \in Forms,
         NEW clean \in BOOLEAN, Send(k, PageCall(d, sections, clean)),
         d \in Templates \/ k = "save",
         k = "save" => d = editing /\ sections = sheet,
         k = "publish" /\ clean => Tells(d, sections)
  PROVE  EditorInv'
<1> DEFINE call == PageCall(d, sections, clean)
<1>0. EditorTypeOK /\ NoDraft \notin Templates
  BY EditorAssumption DEF EditorInv
<1>1. /\ call \in PageCalls /\ call.stage = "sent" /\ call.def = d /\ call.sections = sections
      /\ call.clean = clean /\ call.new = (d = NoDraft) /\ call.mine = TRUE
  BY <1>0 DEF PageCall, PageCalls, EditorTypeOK
<1>2. call # NoCall
  BY <1>1 DEF NoCall, PageCalls
<1> HIDE DEF call
<1>3. /\ sent' = sent + 1 /\ sent < MaxPageCalls /\ requests' = [requests EXCEPT ![k] = call]
      /\ UNCHANGED <<templates, sheet, editing, origin, saved, formEdits, leftEarly, released>>
  BY DEF Send, call
<1>4. requests'[k] = call /\ \A x \in Kinds \ {k} : requests'[x] = requests[x]
  BY <1>0, <1>3 DEF EditorTypeOK
<1>5. requests' \in [Kinds -> PageCalls \cup {NoCall}]
  BY <1>0, <1>1, <1>3 DEF EditorTypeOK
<1>6. EditorTypeOK'
  <2>1. sent' \in 0..MaxPageCalls
    BY <1>0, <1>3, EditorAssumption DEF EditorTypeOK
  <2> QED BY <1>0, <1>3, <1>5, <2>1 DEF EditorTypeOK
<1>7. RowsAreKnown'
  <2> SUFFICES ASSUME NEW x \in Kinds, requests'[x] # NoCall
               PROVE  \/ requests'[x].def \in Templates
                      \/ x = "save" /\ requests'[x].new /\ requests'[x].stage = "sent"
    BY DEF RowsAreKnown
  <2>1. CASE x = k
    BY <1>1, <1>4, <2>1
  <2>2. CASE x # k
    BY <1>4, <2>2 DEF EditorInv, RowsAreKnown
  <2> QED BY <2>1, <2>2
<1>8. \A e, s : Tells(e, s)' = Tells(e, s)
  BY <1>3 DEF Tells
<1>9. {"publish", "get", "save"} \subseteq Kinds
  BY DEF Kinds
<1>10. PublishKnows'
  <2>1. CASE k = "publish"
    BY <1>1, <1>4, <1>8, <2>1 DEF PublishKnows
  <2>2. CASE k # "publish"
    BY <1>4, <1>8, <1>9, <2>2 DEF PublishKnows, EditorInv
  <2> QED BY <2>1, <2>2
<1>11. GetKnows'
  <2>1. CASE k = "get"
    BY <1>1, <1>4, <1>8, <2>1 DEF GetKnows
  <2>2. CASE k # "get"
    BY <1>4, <1>8, <1>9, <2>2 DEF GetKnows, EditorInv
  <2> QED BY <2>1, <2>2
<1>12. SaveKnows'
  <2>1. CASE k = "save"
    BY <1>1, <1>3, <1>4, <2>1 DEF SaveKnows
  <2>2. CASE k # "save"
    BY <1>3, <1>4, <1>8, <1>9, <2>2 DEF SaveKnows, EditorInv
  <2> QED BY <2>1, <2>2
<1>13. FormKnows'
  <2>1. CASE k = "save"
    BY <1>0, <1>1, <1>3, <1>4, <1>8, <2>1 DEF FormKnows, EditorInv
  <2>2. CASE k # "save"
    BY <1>3, <1>4, <1>8, <1>9, <2>2 DEF FormKnows, EditorInv
  <2> QED BY <2>1, <2>2
<1>14. SavesWhereItBelongs' /\ ReleasedAsShown'
  BY <1>3 DEF EditorInv, SavesWhereItBelongs, ReleasedAsShown
<1> QED BY <1>6, <1>7, <1>10, <1>11, <1>12, <1>13, <1>14 DEF EditorInv

LEMMA SendStep ==
  ASSUME EditorInv,
         \/ ClickSave \/ ClickPublish
         \/ \E d \in Templates : ClickEdit(d)
         \/ \E k \in Kinds, d \in Templates : ClickRow(k, d)
  PROVE  EditorInv'
<1>0. /\ sheet \in Forms /\ editing \in Templates \cup {NoDraft} /\ saved \in BOOLEAN
      /\ NoDraft \notin Templates /\ << >> \in Forms
  BY EditorAssumption DEF EditorInv, EditorTypeOK, Forms
<1>1. CASE ClickSave
  <2>1. Send("save", PageCall(editing, sheet, TRUE)) /\ "save" \in Kinds
    BY <1>1 DEF ClickSave, Kinds
  <2> QED BY <1>0, <2>1, Sends
<1>2. CASE ClickPublish
  <2> DEFINE clean == saved /\ editing = origin
  <2>1. Send("publish", PageCall(editing, sheet, clean)) /\ "publish" \in Kinds /\ editing \in Templates
    BY <1>0, <1>2 DEF ClickPublish, Kinds
  <2>2. clean \in BOOLEAN
    OBVIOUS
  <2>3. clean => Tells(editing, sheet)
    BY DEF EditorInv, FormKnows
  <2> HIDE DEF clean
  <2> QED BY <1>0, <2>1, <2>2, <2>3, Sends
<1>3. ASSUME NEW d \in Templates, ClickEdit(d) PROVE EditorInv'
  <2>1. Send("get", PageCall(d, << >>, TRUE)) /\ "get" \in Kinds
    BY <1>3 DEF ClickEdit, Kinds
  <2> QED BY <1>0, <2>1, Sends
<1>4. ASSUME NEW k \in Kinds, NEW d \in Templates, ClickRow(k, d) PROVE EditorInv'
  <2>1. Send(k, PageCall(d, << >>, TRUE)) /\ k # "save" /\ k # "publish"
    BY <1>4 DEF ClickRow
  <2> QED BY <1>0, <2>1, Sends
<1> QED BY <1>1, <1>2, <1>3, <1>4

LEMMA EditFormStep == ASSUME EditorInv, EditForm PROVE EditorInv'
<1>0. EditorTypeOK /\ {"publish", "get", "save"} \subseteq Kinds
  BY DEF EditorInv, Kinds
<1>1. /\ sheet' \in Forms /\ saved' = FALSE /\ formEdits' \in 0..MaxEdits
      /\ UNCHANGED <<templates, editing, origin, sent, leftEarly, released>>
  BY <1>0, SectionEditsAreForms, EditorAssumption DEF EditForm, EditorTypeOK
<1>2. /\ requests["save"] = NoCall => requests' = requests
      /\ requests["save"] # NoCall => requests' = [requests EXCEPT !["save"].clean = FALSE]
  BY DEF EditForm
<1>3. \A x \in Kinds \ {"save"} : requests'[x] = requests[x]
  BY <1>0, <1>2 DEF EditorTypeOK
<1>4. /\ requests["save"] = NoCall => requests'["save"] = NoCall
      /\ requests["save"] # NoCall => /\ requests'["save"] = [requests["save"] EXCEPT !.clean = FALSE]
                                      /\ requests["save"] \in PageCalls
  BY <1>0, <1>2 DEF EditorTypeOK
<1>5. requests' \in [Kinds -> PageCalls \cup {NoCall}]
  <2>1. requests["save"] # NoCall => [requests["save"] EXCEPT !.clean = FALSE] \in PageCalls
    BY <1>4 DEF PageCalls
  <2> QED BY <1>0, <1>2, <1>4, <2>1 DEF EditorTypeOK
<1>6. EditorTypeOK'
  BY <1>0, <1>1, <1>5 DEF EditorTypeOK
<1>7. requests["save"] # NoCall => /\ ~requests'["save"].clean /\ requests'["save"].new = requests["save"].new
                                   /\ requests'["save"].def = requests["save"].def
                                   /\ requests'["save"].stage = requests["save"].stage
                                   /\ requests'["save"].mine = requests["save"].mine
  BY <1>4 DEF PageCalls
<1>8. \A e, s : Tells(e, s)' = Tells(e, s)
  BY <1>1 DEF Tells
<1>9. RowsAreKnown'
  BY <1>0, <1>3, <1>4, <1>7 DEF EditorInv, RowsAreKnown
<1>10. PublishKnows' /\ GetKnows'
  BY <1>0, <1>3, <1>8 DEF EditorInv, PublishKnows, GetKnows
<1>11. SaveKnows'
  BY <1>1, <1>4, <1>7 DEF EditorInv, SaveKnows
<1>12. FormKnows' /\ SavesWhereItBelongs' /\ ReleasedAsShown'
  BY <1>1 DEF EditorInv, FormKnows, SavesWhereItBelongs, ReleasedAsShown
<1> QED BY <1>6, <1>9, <1>10, <1>11, <1>12 DEF EditorInv

(* The form is left: of what is under way nothing is its own any more. *)
LEMMA LeftCalls ==
  ASSUME NEW cs \in [Kinds -> PageCalls \cup {NoCall}]
  PROVE  /\ Left(cs) \in [Kinds -> PageCalls \cup {NoCall}]
         /\ \A k \in Kinds :
              /\ cs[k] = NoCall <=> Left(cs)[k] = NoCall
              /\ cs[k] # NoCall =>
                   /\ ~Left(cs)[k].mine /\ Left(cs)[k].def = cs[k].def /\ Left(cs)[k].new = cs[k].new
                   /\ Left(cs)[k].stage = cs[k].stage /\ Left(cs)[k].clean = cs[k].clean
                   /\ Left(cs)[k].ok = cs[k].ok /\ Left(cs)[k].sections = cs[k].sections
<1> SUFFICES ASSUME NEW k \in Kinds
             PROVE  /\ Left(cs)[k] \in PageCalls \cup {NoCall}
                    /\ cs[k] = NoCall <=> Left(cs)[k] = NoCall
                    /\ cs[k] # NoCall =>
                         /\ ~Left(cs)[k].mine /\ Left(cs)[k].def = cs[k].def /\ Left(cs)[k].new = cs[k].new
                         /\ Left(cs)[k].stage = cs[k].stage /\ Left(cs)[k].clean = cs[k].clean
                         /\ Left(cs)[k].ok = cs[k].ok /\ Left(cs)[k].sections = cs[k].sections
  BY DEF Left
<1>1. CASE cs[k] = NoCall
  BY <1>1 DEF Left
<1>2. CASE cs[k] # NoCall
  <2>1. cs[k] \in PageCalls /\ Left(cs)[k] = [cs[k] EXCEPT !.mine = FALSE]
    BY <1>2 DEF Left
  <2>2. Left(cs)[k] \in PageCalls
    BY <2>1 DEF PageCalls
  <2>3. Left(cs)[k] # NoCall
    BY <2>2 DEF PageCalls, NoCall
  <2> QED BY <1>2, <2>1, <2>2, <2>3 DEF PageCalls
<1> QED BY <1>1, <1>2

(* What requests know stays, when rows and form stay and some requests are done with. *)
LEMMA DoneCalls ==
  ASSUME EditorTypeOK, NEW k \in Kinds
  PROVE  /\ Done(k) \in [Kinds -> PageCalls \cup {NoCall}]
         /\ Done(k)[k] = NoCall /\ \A x \in Kinds \ {k} : Done(k)[x] = requests[x]
BY DEF EditorTypeOK, Done

LEMMA FormChanges ==
  ASSUME EditorInv, NEW cs \in [Kinds -> PageCalls \cup {NoCall}],
         \A x \in Kinds : cs[x] = NoCall \/ cs[x] = requests[x],
         requests' = Left(cs), UNCHANGED <<templates, formEdits, sent, leftEarly, released>>,
         sheet' \in Forms, editing' = origin', editing' \in Templates \cup {NoDraft}, saved' \in BOOLEAN,
         saved' => editing' \in Templates /\ Tells(editing', sheet')
  PROVE  EditorInv'
<1>0. EditorTypeOK /\ {"publish", "get", "save"} \subseteq Kinds
  BY DEF EditorInv, Kinds
<1>1. requests' \in [Kinds -> PageCalls \cup {NoCall}]
  BY LeftCalls
<1>2. \A k \in Kinds : requests'[k] # NoCall =>
        /\ requests[k] # NoCall
        /\ ~requests'[k].mine /\ requests'[k].def = requests[k].def /\ requests'[k].new = requests[k].new
        /\ requests'[k].stage = requests[k].stage /\ requests'[k].clean = requests[k].clean
        /\ requests'[k].ok = requests[k].ok /\ requests'[k].sections = requests[k].sections
  BY LeftCalls
<1>3. EditorTypeOK'
  BY <1>0, <1>1 DEF EditorTypeOK
<1>4. \A e, s : Tells(e, s)' = Tells(e, s)
  BY DEF Tells
<1>5. RowsAreKnown'
  BY <1>2 DEF EditorInv, RowsAreKnown
<1>6. PublishKnows'
  BY <1>0, <1>2, <1>4 DEF EditorInv, PublishKnows
<1>7. GetKnows'
  BY <1>0, <1>2, <1>4 DEF EditorInv, GetKnows
<1>8. SaveKnows'
  BY <1>0, <1>2 DEF SaveKnows
<1>9. FormKnows'
  BY DEF FormKnows, Tells
<1>10. SavesWhereItBelongs' /\ ReleasedAsShown'
  BY DEF EditorInv, SavesWhereItBelongs, ReleasedAsShown
<1> QED BY <1>3, <1>5, <1>6, <1>7, <1>8, <1>9, <1>10 DEF EditorInv

LEMMA LeaveStep ==
  ASSUME EditorInv, ResetForm \/ FormOpens \/ (\E k \in Kinds : FormIsDone(k))
  PROVE  EditorInv'
<1>0. EditorTypeOK /\ NoDraft \notin Templates /\ << >> \in Forms /\ requests \in [Kinds -> PageCalls \cup {NoCall}]
  BY EditorAssumption DEF EditorInv, EditorTypeOK, Forms
<1>1. CASE ResetForm
  <2>1. /\ sheet' = << >> /\ editing' = NoDraft /\ origin' = NoDraft /\ saved' = FALSE
        /\ requests' = Left(requests) /\ UNCHANGED <<templates, formEdits, sent, leftEarly, released>>
    BY <1>1 DEF ResetForm, EmptyForm
  <2> QED BY <1>0, <2>1, FormChanges
<1>2. ASSUME NEW k \in Kinds, FormIsDone(k) PROVE EditorInv'
  <2>1. /\ sheet' = << >> /\ editing' = NoDraft /\ origin' = NoDraft /\ saved' = FALSE
        /\ requests' = Left(Done(k)) /\ UNCHANGED <<templates, formEdits, sent, leftEarly, released>>
    BY <1>2 DEF FormIsDone, EmptyForm
  <2>2. Done(k) \in [Kinds -> PageCalls \cup {NoCall}] /\ \A x \in Kinds : Done(k)[x] = NoCall \/ Done(k)[x] = requests[x]
    BY <1>0, DoneCalls
  <2> QED BY <1>0, <2>1, <2>2, FormChanges
<1>3. CASE FormOpens
  <2> DEFINE c == requests["get"]
  <2>1. "get" \in Kinds /\ c # NoCall /\ c.stage = "handled" /\ c.ok /\ c \in PageCalls
    BY <1>0, <1>3 DEF FormOpens, Accepted, Kinds, NoCall
  <2>2. c.def \in Templates /\ c.sections \in Forms /\ c.new \in BOOLEAN /\ c.clean \in BOOLEAN
    BY <2>1 DEF EditorInv, RowsAreKnown, PageCalls
  <2>3. /\ sheet' = c.sections /\ editing' = SavesInto(c) /\ origin' = (IF c.new THEN NoDraft ELSE c.def)
        /\ saved' = (c.clean /\ ~c.new)
        /\ requests' = Left(Done("get")) /\ UNCHANGED <<templates, formEdits, sent, leftEarly, released>>
    BY <1>3 DEF FormOpens
  <2>4. c.clean /\ ~c.new => Tells(c.def, c.sections)
    BY <2>1 DEF EditorInv, GetKnows
  <2>5. editing' = origin' /\ editing' \in Templates \cup {NoDraft} /\ saved' \in BOOLEAN
    BY <2>2, <2>3 DEF SavesInto
  <2>6. saved' => editing' \in Templates /\ Tells(editing', sheet')
    BY <2>2, <2>3, <2>4 DEF SavesInto
  <2>7. Done("get") \in [Kinds -> PageCalls \cup {NoCall}]
        /\ \A x \in Kinds : Done("get")[x] = NoCall \/ Done("get")[x] = requests[x]
    BY <1>0, <2>1, DoneCalls
  <2> QED BY <2>2, <2>3, <2>5, <2>6, <2>7, FormChanges
<1> QED BY <1>1, <1>2, <1>3

(* An answer that is only shown, or is lost; and that of a save *)
LEMMA PageAnswerStep ==
  ASSUME EditorInv, DraftIsSaved \/ (\E k \in Kinds : AnswerIsShown(k))
  PROVE  EditorInv'
<1>0. EditorTypeOK /\ NoDraft \notin Templates /\ {"publish", "get", "save"} \subseteq Kinds
  BY EditorAssumption DEF EditorInv, Kinds
<1>1. ASSUME NEW k \in Kinds, requests' = Done(k), UNCHANGED <<templates, sheet, formEdits, sent, released>>
      PROVE  /\ requests' \in [Kinds -> PageCalls \cup {NoCall}]
             /\ requests'[k] = NoCall /\ \A x \in Kinds \ {k} : requests'[x] = requests[x]
             /\ RowsAreKnown' /\ PublishKnows' /\ GetKnows' /\ ReleasedAsShown'
             /\ \A e, s : Tells(e, s)' = Tells(e, s)
  <2>1. /\ requests' \in [Kinds -> PageCalls \cup {NoCall}]
        /\ requests'[k] = NoCall /\ \A x \in Kinds \ {k} : requests'[x] = requests[x]
    BY <1>0, <1>1, DoneCalls
  <2>2. \A e, s : Tells(e, s)' = Tells(e, s)
    BY <1>1 DEF Tells
  <2>3. RowsAreKnown'
    BY <2>1 DEF EditorInv, RowsAreKnown
  <2>4. PublishKnows'
    BY <1>0, <2>1, <2>2 DEF EditorInv, PublishKnows
  <2>5. GetKnows'
    BY <1>0, <2>1, <2>2 DEF EditorInv, GetKnows
  <2>6. ReleasedAsShown'
    BY <1>1 DEF EditorInv, ReleasedAsShown
  <2> QED BY <2>1, <2>2, <2>3, <2>4, <2>5, <2>6
<1>2. ASSUME NEW k \in Kinds, AnswerIsShown(k) PROVE EditorInv'
  <2>1. requests' = Done(k)
        /\ UNCHANGED <<templates, sheet, editing, origin, saved, formEdits, sent, leftEarly, released>>
    BY <1>2 DEF AnswerIsShown
  <2>2. /\ requests' \in [Kinds -> PageCalls \cup {NoCall}]
        /\ requests'[k] = NoCall /\ \A x \in Kinds \ {k} : requests'[x] = requests[x]
        /\ RowsAreKnown' /\ PublishKnows' /\ GetKnows' /\ ReleasedAsShown'
        /\ \A e, s : Tells(e, s)' = Tells(e, s)
    BY <1>1, <2>1
  <2>3. EditorTypeOK'
    BY <1>0, <2>1, <2>2 DEF EditorTypeOK
  <2>4. requests'["save"] = NoCall \/ requests'["save"] = requests["save"]
    BY <1>0, <2>2
  <2>5. SaveKnows'
    BY <2>1, <2>2, <2>4 DEF EditorInv, SaveKnows
  <2>6. FormKnows'
    BY <2>1, <2>2, <2>4 DEF EditorInv, FormKnows
  <2> QED BY <2>1, <2>2, <2>3, <2>5, <2>6 DEF EditorInv, SavesWhereItBelongs
<1>3. CASE DraftIsSaved
  <2> DEFINE c == requests["save"]
  <2>1. /\ c # NoCall /\ c.stage = "handled" /\ c.ok /\ c \in PageCalls
        /\ editing' = (IF c.new THEN c.def ELSE editing)
        /\ origin' = (IF c.new /\ c.mine THEN c.def ELSE origin)
        /\ leftEarly' = (leftEarly \/ (c.new /\ ~c.mine))
        /\ saved' = (IF c.mine THEN c.clean ELSE saved)
        /\ requests' = Done("save")
        /\ UNCHANGED <<templates, sheet, formEdits, sent, released>>
    BY <1>0, <1>3 DEF DraftIsSaved, Accepted, NoCall, EditorTypeOK
  <2>2. c.def \in Templates /\ c.new \in BOOLEAN /\ c.clean \in BOOLEAN /\ c.mine \in BOOLEAN
    BY <1>0, <2>1 DEF EditorInv, RowsAreKnown, PageCalls
  <2>3. /\ requests' \in [Kinds -> PageCalls \cup {NoCall}] /\ requests'["save"] = NoCall
        /\ RowsAreKnown' /\ PublishKnows' /\ GetKnows' /\ ReleasedAsShown'
        /\ \A e, s : Tells(e, s)' = Tells(e, s)
    BY <1>0, <1>1, <2>1
  <2>4. c.mine => /\ ~c.new => c.def = editing
                  /\ c.clean => sheet = c.sections /\ Tells(c.def, c.sections)
    BY <2>1 DEF EditorInv, SaveKnows
  <2>5. FormKnows \/ ~saved
    BY DEF EditorInv
  <2>6. saved => \/ origin \in Templates /\ Tells(origin, sheet)
                 \/ editing \in Templates /\ editing # origin /\ ~c.new
    BY <2>1 DEF EditorInv, FormKnows
  <2>7. leftEarly \/ editing = origin
    BY DEF EditorInv, SavesWhereItBelongs
  <2> HIDE DEF c
  <2>8. EditorTypeOK'
    <3>1. {editing', origin'} \subseteq Templates \cup {NoDraft} /\ {saved', leftEarly'} \subseteq BOOLEAN
      BY <1>0, <2>1, <2>2 DEF EditorTypeOK
    <3> QED BY <1>0, <2>1, <2>3, <3>1 DEF EditorTypeOK
  <2>9. SaveKnows'
    BY <2>3 DEF SaveKnows
  <2>10. saved' => (origin' \in Templates /\ Tells(origin', sheet)) \/ (editing' \in Templates /\ editing' # origin')
    BY <2>1, <2>2, <2>4, <2>6
  <2>11. FormKnows'
    <3>1. saved' => \/ origin' \in Templates /\ (templates[origin'] # Absent => templates[origin'].sections = sheet)
                    \/ editing' \in Templates /\ editing' # origin'
      BY <2>10 DEF Tells
    <3>2. templates' = templates /\ sheet' = sheet /\ requests'["save"] = NoCall
      BY <2>1, <2>3
    <3> QED BY <3>1, <3>2 DEF FormKnows, Tells
  <2>12. SavesWhereItBelongs'
    BY <2>1, <2>2, <2>7 DEF SavesWhereItBelongs
  <2> QED BY <2>3, <2>8, <2>9, <2>11, <2>12 DEF EditorInv
<1> QED BY <1>2, <1>3

(***************************************************************************)
(* Steps of the server                                                      *)
(***************************************************************************)
(* The same request, about which the same is known or less *)
SameCall(c, was) ==
  /\ c \in PageCalls /\ c.stage = was.stage /\ c.def = was.def /\ c.new = was.new
  /\ c.sections = was.sections /\ c.ok = was.ok /\ c.mine = was.mine /\ (c.clean => was.clean)

(* The requests cs after those about row d, other than that of kind k, were overtaken *)
Overtaken(cs, k, d) ==
  \A x \in Kinds \ {k} :
    /\ requests[x] = NoCall => cs[x] = NoCall
    /\ requests[x] # NoCall => SameCall(cs[x], requests[x]) /\ (requests[x].def = d => ~cs[x].clean)

LEMMA BehindIsOvertaken ==
  ASSUME EditorTypeOK, NEW k, NEW d
  PROVE  /\ BehindOf(k, d) \in [Kinds -> PageCalls \cup {NoCall}] /\ Overtaken(BehindOf(k, d), k, d)
         /\ k \in Kinds => BehindOf(k, d)[k] = requests[k]
<1> SUFFICES ASSUME NEW x \in Kinds
             PROVE  /\ BehindOf(k, d)[x] \in PageCalls \cup {NoCall}
                    /\ x = k => BehindOf(k, d)[x] = requests[x]
                    /\ x # k => /\ requests[x] = NoCall => BehindOf(k, d)[x] = NoCall
                                /\ requests[x] # NoCall => /\ SameCall(BehindOf(k, d)[x], requests[x])
                                                           /\ requests[x].def = d => ~BehindOf(k, d)[x].clean
  BY DEF BehindOf, Overtaken
<1>1. requests[x] \in PageCalls \cup {NoCall}
  BY DEF EditorTypeOK
<1>2. CASE requests[x] # NoCall /\ requests[x].def = d /\ x # k
  <2>1. BehindOf(k, d)[x] = [requests[x] EXCEPT !.clean = FALSE] /\ requests[x] \in PageCalls
    BY <1>1, <1>2 DEF BehindOf
  <2> QED BY <1>2, <2>1 DEF PageCalls, SameCall
<1>3. CASE ~(requests[x] # NoCall /\ requests[x].def = d /\ x # k)
  <2>1. BehindOf(k, d)[x] = requests[x]
    BY <1>3 DEF BehindOf
  <2> QED BY <1>1, <1>3, <2>1 DEF SameCall
<1> QED BY <1>2, <1>3

LEMMA HandledCalls ==
  ASSUME EditorTypeOK, NEW k \in Kinds, NEW d \in Templates, NEW ok \in BOOLEAN,
         requests[k] # NoCall, Handled(k, d, ok)
  PROVE  /\ requests' \in [Kinds -> PageCalls \cup {NoCall}]
         /\ requests'[k].stage = "handled" /\ requests'[k].def = d /\ requests'[k].ok = ok
         /\ requests'[k].new = requests[k].new /\ requests'[k].mine = requests[k].mine
         /\ requests'[k].clean = requests[k].clean /\ requests'[k].sections = requests[k].sections
         /\ ok => Overtaken(requests', k, d)
         /\ ~ok => \A x \in Kinds \ {k} : requests'[x] = requests[x]
<1> DEFINE cs == IF ok THEN BehindOf(k, d) ELSE requests
           done == [requests[k] EXCEPT !.stage = "handled", !.ok = ok, !.def = d]
<1>1. requests \in [Kinds -> PageCalls \cup {NoCall}] /\ requests[k] \in PageCalls
  BY DEF EditorTypeOK
<1>2. cs \in [Kinds -> PageCalls \cup {NoCall}] /\ cs[k] = requests[k]
      /\ (ok => Overtaken(cs, k, d)) /\ (~ok => cs = requests)
  BY <1>1, BehindIsOvertaken
<1>3. requests' = [cs EXCEPT ![k].stage = "handled", ![k].ok = ok, ![k].def = d]
  BY DEF Handled
<1> HIDE DEF cs
<1>4. requests' = [cs EXCEPT ![k] = done]
  BY <1>2, <1>3
<1>5. /\ done \in PageCalls /\ done.stage = "handled" /\ done.def = d /\ done.ok = ok
      /\ done.new = requests[k].new /\ done.mine = requests[k].mine
      /\ done.clean = requests[k].clean /\ done.sections = requests[k].sections
  BY <1>1 DEF PageCalls
<1> HIDE DEF done
<1>6. requests' \in [Kinds -> PageCalls \cup {NoCall}] /\ requests'[k] = done
      /\ \A x \in Kinds \ {k} : requests'[x] = cs[x]
  BY <1>2, <1>4, <1>5
<1>7. ok => Overtaken(requests', k, d)
  BY <1>2, <1>6 DEF Overtaken
<1> QED BY <1>2, <1>5, <1>6, <1>7

(* What the other requests know, after row d was changed by a request of kind k *)
LEMMA OthersKnow ==
  ASSUME EditorInv, NEW k, NEW d \in Templates, Overtaken(requests', k, d),
         \A e \in Templates \ {d} : templates'[e] = templates[e], UNCHANGED <<sheet, editing>>
  PROVE  /\ \A x \in Kinds \ {k} : requests'[x] # NoCall =>
              requests'[x].def \in Templates \/ (x = "save" /\ requests'[x].new /\ requests'[x].stage = "sent")
         /\ k # "publish" => PublishKnows'
         /\ k # "get" => GetKnows'
         /\ k # "save" => SaveKnows'
<1>0. {"publish", "get", "save"} \subseteq Kinds
  BY DEF Kinds
<1>1. \A x \in Kinds \ {k} : requests'[x] # NoCall =>
        /\ requests[x] # NoCall /\ SameCall(requests'[x], requests[x]) /\ (requests[x].def = d => ~requests'[x].clean)
        /\ requests[x].def \in Templates \/ (x = "save" /\ requests[x].new /\ requests[x].stage = "sent")
  BY DEF Overtaken, EditorInv, RowsAreKnown
<1>2. \A e \in Templates \ {d} : \A s : Tells(e, s)' = Tells(e, s)
  BY DEF Tells
<1>3. k # "publish" => PublishKnows'
  BY <1>0, <1>1, <1>2 DEF EditorInv, PublishKnows, SameCall
<1>4. k # "get" => GetKnows'
  BY <1>0, <1>1, <1>2 DEF EditorInv, GetKnows, SameCall
<1>5. k # "save" => SaveKnows'
  <2> SUFFICES ASSUME k # "save", requests'["save"] # NoCall, requests'["save"].mine PROVE SaveKnows'
    BY DEF SaveKnows
  <2>1. /\ requests["save"] # NoCall /\ SameCall(requests'["save"], requests["save"])
        /\ requests["save"].def = d => ~requests'["save"].clean
        /\ requests["save"].def \in Templates \/ requests["save"].stage = "sent"
    BY <1>0, <1>1
  <2>2. requests["save"].mine
    BY <2>1 DEF SameCall
  <2> QED BY <1>2, <2>1, <2>2 DEF EditorInv, SaveKnows, SameCall
<1> QED BY <1>1, <1>3, <1>4, <1>5 DEF SameCall

(* A served request: what everyone knows, when its row d was changed, and when not *)
LEMMA Served ==
  ASSUME EditorInv, NEW k \in {"save", "publish", "rowPublish", "rowDelete"}, NEW d \in Templates,
         NEW ok \in BOOLEAN, requests[k] # NoCall, Handled(k, d, ok),
         \A e \in Templates : e # d \/ ~ok => templates'[e] = templates[e], UNCHANGED <<sheet, editing>>
  PROVE  /\ requests' \in [Kinds -> PageCalls \cup {NoCall}]
         /\ RowsAreKnown' /\ PublishKnows' /\ GetKnows' /\ (k # "save" => SaveKnows')
         /\ requests["save"] = NoCall => requests'["save"] = NoCall
         /\ requests["save"] # NoCall => requests'["save"].new = requests["save"].new
<1>0. EditorTypeOK /\ k \in Kinds /\ {"publish", "get", "save"} \subseteq Kinds /\ k # "get"
  BY DEF EditorInv, Kinds
<1>1. /\ requests' \in [Kinds -> PageCalls \cup {NoCall}]
      /\ requests'[k].stage = "handled" /\ requests'[k].def = d /\ requests'[k].new = requests[k].new
      /\ ok => Overtaken(requests', k, d)
      /\ ~ok => \A x \in Kinds \ {k} : requests'[x] = requests[x]
  BY <1>0, HandledCalls
<1>2. requests'["publish"].stage = "handled" => PublishKnows'
  BY DEF PublishKnows
<1>3. CASE ok
  <2>1. Overtaken(requests', k, d) /\ \A e \in Templates \ {d} : templates'[e] = templates[e]
    BY <1>1, <1>3
  <2>2. /\ \A x \in Kinds \ {k} : requests'[x] # NoCall =>
              requests'[x].def \in Templates \/ (x = "save" /\ requests'[x].new /\ requests'[x].stage = "sent")
        /\ k # "publish" => PublishKnows'
        /\ k # "get" => GetKnows'
        /\ k # "save" => SaveKnows'
    BY <2>1, OthersKnow
  <2>3. RowsAreKnown'
    BY <1>1, <2>2 DEF RowsAreKnown
  <2>4. k # "save" => /\ requests["save"] = NoCall => requests'["save"] = NoCall
                      /\ requests["save"] # NoCall => requests'["save"].new = requests["save"].new
    BY <1>0, <2>1 DEF Overtaken, SameCall
  <2> QED BY <1>0, <1>1, <1>2, <2>2, <2>3, <2>4
<1>4. CASE ~ok
  <2>1. \A x \in Kinds \ {k} : requests'[x] = requests[x]
    BY <1>1, <1>4
  <2>2. \A e \in Templates : \A s : Tells(e, s)' = Tells(e, s)
    BY <1>4 DEF Tells
  <2>3. RowsAreKnown'
    BY <1>1, <2>1 DEF EditorInv, RowsAreKnown
  <2>4. k # "publish" => PublishKnows'
    BY <1>0, <2>1, <2>2 DEF EditorInv, PublishKnows, RowsAreKnown
  <2>5. GetKnows'
    BY <1>0, <2>1, <2>2 DEF EditorInv, GetKnows, RowsAreKnown
  <2>6. k # "save" => SaveKnows'
    <3>1. SUFFICES ASSUME k # "save", requests["save"] # NoCall, requests["save"].stage = "handled"
                   PROVE  requests["save"].def \in Templates
      BY <1>0, <2>1, <2>2 DEF EditorInv, SaveKnows
    <3> QED BY <1>0, <3>1 DEF EditorInv, RowsAreKnown
  <2> QED BY <1>0, <1>1, <1>2, <2>1, <2>3, <2>4, <2>5, <2>6
<1> QED BY <1>3, <1>4

LEMMA ServePublishStep == ASSUME EditorInv, NEW k \in Kinds, ServePublish(k) PROVE EditorInv'
<1> DEFINE c == requests[k]
           ok == IsDraft(c.def) /\ templates[c.def].sections # << >>
<1>0. EditorTypeOK /\ templates \in [Templates -> Rows \cup {Absent}]
  BY DEF EditorInv, EditorTypeOK
<1>1. /\ k \in {"publish", "rowPublish"} /\ c.stage = "sent" /\ c # NoCall
      /\ templates' = (IF ok THEN [templates EXCEPT ![c.def].status = "published"] ELSE templates)
      /\ Handled(k, c.def, ok)
      /\ released' = (IF ok /\ k = "publish"
                      THEN released \cup {[shown |-> c.sections, got |-> templates[c.def].sections,
                                           due |-> c.clean]}
                      ELSE released)
      /\ UNCHANGED <<sheet, editing, origin, saved, formEdits, sent, leftEarly>>
  BY DEF ServePublish, NoCall
<1>2. c.def \in Templates /\ ok \in BOOLEAN
  BY <1>1 DEF EditorInv, RowsAreKnown, IsDraft
<1>3. ok => templates[c.def] # Absent /\ templates[c.def] \in Rows
  BY <1>0, <1>2 DEF IsDraft, Absent
<1> DEFINE d == c.def
<1>4. /\ \A e \in Templates : e # d \/ ~ok => templates'[e] = templates[e]
      /\ ok => templates'[d] = [templates[d] EXCEPT !.status = "published"]
  BY <1>0, <1>1, <1>2
<1>5. ok => templates'[d] \in Rows /\ templates'[d].sections = templates[d].sections
  BY <1>3, <1>4 DEF Rows
<1>6. templates' \in [Templates -> Rows \cup {Absent}]
  <2>1. ok => [templates[d] EXCEPT !.status = "published"] \in Rows
    BY <1>4, <1>5
  <2> QED BY <1>0, <1>1, <1>2, <2>1
<1>7. \A e \in Templates : \A s : Tells(e, s)' = Tells(e, s)
  <2> SUFFICES ASSUME NEW e \in Templates, NEW s PROVE Tells(e, s)' = Tells(e, s)
    OBVIOUS
  <2>1. CASE ok /\ e = d
    <3>1. templates'[d] # Absent
      BY <1>5, <2>1 DEF Rows, Absent
    <3> QED BY <1>3, <1>5, <2>1, <3>1 DEF Tells
  <2>2. CASE ~(ok /\ e = d)
    BY <1>4, <2>2 DEF Tells
  <2> QED BY <2>1, <2>2
<1>8. /\ k \in {"save", "publish", "rowPublish", "rowDelete"} /\ k # "save" /\ d \in Templates
      /\ Handled(k, d, ok) /\ requests[k] # NoCall
      /\ UNCHANGED <<sheet, editing, origin, saved, formEdits, sent, leftEarly>>
  BY <1>1, <1>2
<1>9. c.clean /\ k = "publish" => Tells(d, c.sections)
  BY <1>1 DEF EditorInv, PublishKnows
<1>10. ReleasedAsShown'
  BY <1>1, <1>3, <1>9 DEF EditorInv, ReleasedAsShown, Tells
<1> HIDE DEF ok, d, c
<1>11. /\ requests' \in [Kinds -> PageCalls \cup {NoCall}]
       /\ RowsAreKnown' /\ PublishKnows' /\ GetKnows' /\ SaveKnows'
       /\ requests["save"] = NoCall => requests'["save"] = NoCall
       /\ requests["save"] # NoCall => requests'["save"].new = requests["save"].new
  BY <1>2, <1>4, <1>8, Served
<1>12. EditorTypeOK'
  BY <1>0, <1>6, <1>8, <1>11 DEF EditorTypeOK
<1>13. FormKnows'
  BY <1>7, <1>8, <1>11 DEF EditorInv, FormKnows
<1>14. SavesWhereItBelongs'
  BY <1>8 DEF EditorInv, SavesWhereItBelongs
<1> QED BY <1>10, <1>11, <1>12, <1>13, <1>14 DEF EditorInv

LEMMA ServeDeleteStep == ASSUME EditorInv, ServeDelete PROVE EditorInv'
<1> DEFINE d == requests["rowDelete"].def
           ok == IsDraft(d)
<1>0. EditorTypeOK /\ templates \in [Templates -> Rows \cup {Absent}] /\ "rowDelete" \in Kinds
  BY DEF EditorInv, EditorTypeOK, Kinds
<1>1. /\ requests["rowDelete"] # NoCall
      /\ templates' = (IF ok THEN [templates EXCEPT ![d] = Absent] ELSE templates)
      /\ Handled("rowDelete", d, ok)
      /\ UNCHANGED <<sheet, editing, origin, saved, formEdits, sent, leftEarly, released>>
  BY DEF ServeDelete, NoCall
<1>2. d \in Templates /\ ok \in BOOLEAN
  BY <1>0, <1>1 DEF EditorInv, RowsAreKnown, IsDraft
<1> HIDE DEF ok, d
<1>3. /\ \A e \in Templates : e # d \/ ~ok => templates'[e] = templates[e]
      /\ ok => templates'[d] = Absent
      /\ templates' \in [Templates -> Rows \cup {Absent}]
  BY <1>0, <1>1, <1>2
<1>4. \A e \in Templates : \A s : Tells(e, s) => Tells(e, s)'
  BY <1>3 DEF Tells
<1>5. /\ requests' \in [Kinds -> PageCalls \cup {NoCall}]
      /\ RowsAreKnown' /\ PublishKnows' /\ GetKnows' /\ SaveKnows'
      /\ requests["save"] = NoCall => requests'["save"] = NoCall
      /\ requests["save"] # NoCall => requests'["save"].new = requests["save"].new
  BY <1>1, <1>2, <1>3, Served
<1>6. EditorTypeOK'
  BY <1>0, <1>1, <1>3, <1>5 DEF EditorTypeOK
<1>7. FormKnows'
  BY <1>1, <1>4, <1>5 DEF EditorInv, FormKnows
<1>8. SavesWhereItBelongs' /\ ReleasedAsShown'
  BY <1>1 DEF EditorInv, SavesWhereItBelongs, ReleasedAsShown
<1> QED BY <1>5, <1>6, <1>7, <1>8 DEF EditorInv

LEMMA ServeSaveStep == ASSUME EditorInv, NEW d \in Templates, ServeSave(d) PROVE EditorInv'
<1> DEFINE c == requests["save"]
           ok == IF c.new THEN templates[d] = Absent ELSE IsDraft(d)
           now == Row("draft", c.sections)
<1>0. EditorTypeOK /\ templates \in [Templates -> Rows \cup {Absent}] /\ "save" \in Kinds
  BY DEF EditorInv, EditorTypeOK, Kinds
<1>1. /\ c # NoCall /\ c.stage = "sent" /\ (IF c.new THEN ok ELSE d = c.def)
      /\ templates' = (IF ok THEN [templates EXCEPT ![d] = now] ELSE templates)
      /\ Handled("save", d, ok)
      /\ saved' = (saved /\ ~(ok /\ origin = d))
      /\ UNCHANGED <<sheet, editing, origin, formEdits, sent, leftEarly, released>>
  BY DEF ServeSave, NoCall, SectionsBuilt
<1>2. c \in PageCalls
  BY <1>0, <1>1 DEF EditorTypeOK
<1>3. ok \in BOOLEAN
  BY DEF IsDraft
<1>4. now \in Rows /\ now.sections = c.sections
  BY <1>2 DEF Row, Rows, PageCalls
<1>5. c.mine => /\ ~c.new => c.def = editing
                /\ c.clean => sheet = c.sections
  BY <1>1 DEF EditorInv, SaveKnows
<1> HIDE DEF ok, now
<1>6. /\ requests' \in [Kinds -> PageCalls \cup {NoCall}]
      /\ requests'["save"].stage = "handled" /\ requests'["save"].def = d /\ requests'["save"].ok = ok
      /\ requests'["save"].new = c.new /\ requests'["save"].mine = c.mine
      /\ requests'["save"].clean = c.clean /\ requests'["save"].sections = c.sections
  BY <1>0, <1>1, <1>3, HandledCalls
<1>7. c.new \in BOOLEAN /\ c.mine \in BOOLEAN /\ c.clean \in BOOLEAN
  BY <1>2 DEF PageCalls
<1> HIDE DEF c
<1>8. /\ \A e \in Templates : e # d \/ ~ok => templates'[e] = templates[e]
      /\ ok => templates'[d] = now
      /\ templates' \in [Templates -> Rows \cup {Absent}]
  BY <1>0, <1>1, <1>3, <1>4
<1>9. /\ RowsAreKnown' /\ PublishKnows' /\ GetKnows'
      /\ requests["save"] = NoCall => requests'["save"] = NoCall
      /\ requests["save"] # NoCall => requests'["save"].new = requests["save"].new
  BY <1>1, <1>3, <1>8, Served DEF c
<1>10. SaveKnows'
  BY <1>1, <1>4, <1>5, <1>6, <1>8 DEF SaveKnows, Tells
<1>11. saved' \in BOOLEAN
  BY <1>0, <1>1 DEF EditorTypeOK
<1>12. EditorTypeOK'
  BY <1>0, <1>1, <1>6, <1>8, <1>11 DEF EditorTypeOK
<1>13. FormKnows'
  BY <1>1, <1>3, <1>8, <1>9 DEF EditorInv, FormKnows, Tells
<1>14. SavesWhereItBelongs' /\ ReleasedAsShown'
  BY <1>1 DEF EditorInv, SavesWhereItBelongs, ReleasedAsShown
<1> QED BY <1>9, <1>10, <1>12, <1>13, <1>14 DEF EditorInv

LEMMA ServeGetStep == ASSUME EditorInv, ServeGet PROVE EditorInv'
<1> DEFINE c == requests["get"]
           back == IF templates[c.def] = Absent THEN [c EXCEPT !.stage = "handled"]
                   ELSE [c EXCEPT !.stage = "handled", !.ok = TRUE, !.new = ~IsDraft(c.def), !.clean = TRUE,
                                  !.sections = templates[c.def].sections]
<1>0. EditorTypeOK /\ templates \in [Templates -> Rows \cup {Absent}] /\ {"publish", "get", "save"} \subseteq Kinds
  BY DEF EditorInv, EditorTypeOK, Kinds
<1>1. /\ c # NoCall /\ requests' = [requests EXCEPT !["get"] = back]
      /\ UNCHANGED <<templates, sheet, editing, origin, saved, formEdits, sent, leftEarly, released>>
  BY DEF ServeGet, NoCall
<1>2. c \in PageCalls /\ c.def \in Templates
  BY <1>0, <1>1 DEF EditorTypeOK, EditorInv, RowsAreKnown
<1>3. back \in PageCalls /\ back.def = c.def /\ Tells(c.def, back.sections)
  <2>1. CASE templates[c.def] = Absent
    BY <1>2, <2>1 DEF PageCalls, Tells
  <2>2. CASE templates[c.def] # Absent
    <3>1. templates[c.def].sections \in Forms
      BY <1>0, <1>2, <2>2 DEF Rows
    <3>2. (~IsDraft(c.def)) \in BOOLEAN
      BY DEF IsDraft
    <3> QED BY <1>2, <2>2, <3>1, <3>2 DEF PageCalls, Tells
  <2> QED BY <2>1, <2>2
<1> HIDE DEF back, c
<1>4. requests'["get"] = back /\ \A x \in Kinds \ {"get"} : requests'[x] = requests[x]
  BY <1>0, <1>1 DEF EditorTypeOK
<1>5. EditorTypeOK'
  BY <1>0, <1>1, <1>3 DEF EditorTypeOK
<1>6. \A e, s : Tells(e, s)' = Tells(e, s)
  BY <1>1 DEF Tells
<1>7. RowsAreKnown'
  BY <1>2, <1>3, <1>4 DEF EditorInv, RowsAreKnown
<1>8. PublishKnows' /\ SaveKnows'
  BY <1>0, <1>1, <1>4, <1>6 DEF EditorInv, PublishKnows, SaveKnows
<1>9. GetKnows'
  BY <1>3, <1>4, <1>6 DEF GetKnows
<1>10. FormKnows' /\ SavesWhereItBelongs' /\ ReleasedAsShown'
  BY <1>0, <1>1, <1>4, <1>6 DEF EditorInv, FormKnows, SavesWhereItBelongs, ReleasedAsShown
<1> QED BY <1>5, <1>7, <1>8, <1>9, <1>10 DEF EditorInv

LEMMA SavedByAnotherStep == ASSUME EditorInv, NEW d \in Templates, SavedByAnother(d) PROVE EditorInv'
<1>0. /\ EditorTypeOK /\ templates \in [Templates -> Rows \cup {Absent}] /\ {"publish", "get", "save"} \subseteq Kinds
      /\ "none" \notin Kinds
  BY DEF EditorInv, EditorTypeOK, Kinds
<1>1. templates[d] # Absent /\ templates[d] \in Rows
  BY <1>0 DEF SavedByAnother, IsDraft, Absent
<1>2. PICK s \in SectionEdits(templates[d].sections) : templates' = [templates EXCEPT ![d].sections = s]
  BY DEF SavedByAnother
<1>3. s \in Forms
  <2>1. templates[d].sections \in Forms
    BY <1>1 DEF Rows
  <2> QED BY <1>2, <2>1, SectionEditsAreForms
<1>4. templates' \in [Templates -> Rows \cup {Absent}] /\ \A e \in Templates \ {d} : templates'[e] = templates[e]
  <2>1. [templates[d] EXCEPT !.sections = s] \in Rows
    BY <1>1, <1>3 DEF Rows
  <2> QED BY <1>0, <1>2, <2>1
<1>5. /\ requests' = BehindOf("none", d) /\ saved' = (saved /\ origin # d)
      /\ formEdits' = formEdits + 1 /\ formEdits < MaxEdits
      /\ UNCHANGED <<sheet, editing, origin, sent, leftEarly, released>>
  BY DEF SavedByAnother
<1>6. requests' \in [Kinds -> PageCalls \cup {NoCall}] /\ Overtaken(requests', "none", d)
  BY <1>0, <1>5, BehindIsOvertaken
<1>7. RowsAreKnown' /\ PublishKnows' /\ GetKnows' /\ SaveKnows'
  BY <1>0, <1>4, <1>5, <1>6, OthersKnow DEF RowsAreKnown
<1>8. EditorTypeOK'
  <2>1. formEdits' \in 0..MaxEdits /\ saved' \in BOOLEAN
    BY <1>0, <1>5, EditorAssumption DEF EditorTypeOK
  <2> QED BY <1>0, <1>4, <1>5, <1>6, <2>1 DEF EditorTypeOK
<1>9. FormKnows'
  <2>1. /\ requests["save"] = NoCall => requests'["save"] = NoCall
        /\ requests["save"] # NoCall => requests'["save"].new = requests["save"].new
    BY <1>0, <1>6 DEF Overtaken, SameCall
  <2> QED BY <1>4, <1>5, <2>1 DEF EditorInv, FormKnows, Tells
<1>10. SavesWhereItBelongs' /\ ReleasedAsShown'
  BY <1>5 DEF EditorInv, SavesWhereItBelongs, ReleasedAsShown
<1> QED BY <1>7, <1>8, <1>9, <1>10 DEF EditorInv

LEMMA EditorInvIsInvariant == EditorSpec => []EditorInv
<1>1. EditorInv /\ [EditorNext]_editorVars => EditorInv'
  <2> SUFFICES ASSUME EditorInv, [EditorNext]_editorVars PROVE EditorInv'
    OBVIOUS
  <2>1. CASE EditForm
    BY <2>1, EditFormStep
  <2>2. CASE ClickSave \/ ClickPublish \/ (\E d \in Templates : ClickEdit(d))
             \/ (\E k \in Kinds, d \in Templates : ClickRow(k, d))
    BY <2>2, SendStep
  <2>3. CASE ResetForm \/ FormOpens \/ (\E k \in Kinds : FormIsDone(k))
    BY <2>3, LeaveStep
  <2>4. CASE DraftIsSaved \/ (\E k \in Kinds : AnswerIsShown(k))
    BY <2>4, PageAnswerStep
  <2>5. CASE ServeGet
    BY <2>5, ServeGetStep
  <2>6. CASE ServeDelete
    BY <2>6, ServeDeleteStep
  <2>7. CASE \E d \in Templates : ServeSave(d)
    BY <2>7, ServeSaveStep
  <2>8. CASE \E d \in Templates : SavedByAnother(d)
    BY <2>8, SavedByAnotherStep
  <2>9. CASE \E k \in Kinds : ServePublish(k)
    BY <2>9, ServePublishStep
  <2>10. CASE UNCHANGED editorVars
    BY <2>10 DEF editorVars, EditorInv, EditorTypeOK, RowsAreKnown, PublishKnows, GetKnows, SaveKnows,
                 FormKnows, SavesWhereItBelongs, ReleasedAsShown, Tells
  <2> QED BY <2>1, <2>2, <2>3, <2>4, <2>5, <2>6, <2>7, <2>8, <2>9, <2>10 DEF EditorNext
<1> QED BY EditorInvInit, <1>1, PTL DEF EditorSpec

(* Rows, form and requests are what their declarations say, whatever comes back in which order. *)
THEOREM EditorTypeCorrect == EditorSpec => []EditorTypeOK
<1>1. EditorInv => EditorTypeOK
  BY DEF EditorInv
<1> QED BY EditorInvIsInvariant, <1>1, PTL

(* A form saves into the draft its sections belong to, unless it was left while that draft
   was being created; and what was not edited since, here or by others, is published as it
   was shown, though publishing sends no sections. *)
THEOREM FormsFaithful == EditorSpec => []FormsAreFaithful
<1>1. EditorInv => FormsAreFaithful
  BY DEF EditorInv, FormsAreFaithful
<1> QED BY EditorInvIsInvariant, <1>1, PTL

-----------------------------------------------------------------------------
(***************************************************************************)
(* Proofs about RegistrationWorkbook, for any templates, edits, officers    *)
(* and calls: what the hash tells of a workbook that comes back             *)
(***************************************************************************)

(* A workbook of which nothing but the responses changed has the sheets, rows and flags
   of the templates it was made from. *)
LEMMA WhatTheHashTells ==
  ASSUME NEW book, NEW made,
         ExtractSheetMeta(book) = ExtractSheetMeta(GenerateWorkbook(made))
  PROVE  /\ book.edited = {} /\ book.owner = "this"
         /\ DOMAIN book.sheets = DOMAIN made
         /\ \A c \in DOMAIN made :
              /\ book.sheets[c].headers /\ book.sheets[c].hidden
              /\ DOMAIN book.sheets[c].rows = DOMAIN made[c]
              /\ \A q \in DOMAIN made[c] :
                   /\ book.sheets[c].rows[q].must = made[c][q].must
                   /\ book.sheets[c].rows[q].edited = {}
<1> DEFINE Told(b) == [c \in DOMAIN b.sheets |->
             [headers |-> b.sheets[c].headers, hidden |-> b.sheets[c].hidden,
              rows |-> [q \in DOMAIN b.sheets[c].rows |->
                          [must |-> b.sheets[c].rows[q].must, edited |-> b.sheets[c].rows[q].edited]]]]
           new == GenerateWorkbook(made)
<1>1. \A b : ExtractSheetMeta(b) = [edited |-> b.edited, owner |-> b.owner, sheets |-> Told(b)]
  BY DEF ExtractSheetMeta
<1>2. new.edited = {} /\ new.owner = "this" /\ new.sheets = [c \in DOMAIN made |-> ModuleSheet(made[c])]
  BY DEF GenerateWorkbook
<1>3. \A c \in DOMAIN made :
        /\ new.sheets[c].headers /\ new.sheets[c].hidden
        /\ new.sheets[c].rows = [q \in DOMAIN made[c] |->
                                   [must |-> made[c][q].must, edited |-> {}, reply |-> NoBook]]
  <2> SUFFICES ASSUME NEW c \in DOMAIN made
               PROVE  /\ new.sheets[c].headers /\ new.sheets[c].hidden
                      /\ new.sheets[c].rows = [q \in DOMAIN made[c] |->
                                   [must |-> made[c][q].must, edited |-> {}, reply |-> NoBook]]
    OBVIOUS
  <2>1. new.sheets[c] = ModuleSheet(made[c])
    BY <1>2
  <2> HIDE DEF new
  <2> DEFINE lines == [q \in DOMAIN made[c] |->
                         [must |-> made[c][q].must, edited |-> {}, reply |-> NoBook]]
  <2>2. ModuleSheet(made[c]) = [headers |-> TRUE, hidden |-> TRUE, rows |-> lines]
    BY DEF ModuleSheet
  <2> HIDE DEF lines
  <2>3. new.sheets[c].rows = lines
    BY <2>1, <2>2
  <2>4. new.sheets[c].headers /\ new.sheets[c].hidden
    BY <2>1, <2>2
  <2> QED BY <2>3, <2>4 DEF lines
<1> HIDE DEF new
<1>4. book.edited = new.edited /\ book.owner = new.owner /\ Told(book) = Told(new)
  <2> HIDE DEF Told
  <2>1. [edited |-> book.edited, owner |-> book.owner, sheets |-> Told(book)]
          = [edited |-> new.edited, owner |-> new.owner, sheets |-> Told(new)]
    BY <1>1 DEF new
  <2> QED BY <2>1
<1>5. DOMAIN book.sheets = DOMAIN made
  <2>1. \A b : DOMAIN Told(b) = DOMAIN b.sheets
    OBVIOUS
  <2> HIDE DEF Told
  <2> QED BY <1>2, <1>4, <2>1
<1>6. ASSUME NEW c \in DOMAIN made
      PROVE  /\ book.sheets[c].headers /\ book.sheets[c].hidden
             /\ DOMAIN book.sheets[c].rows = DOMAIN made[c]
             /\ \A q \in DOMAIN made[c] :
                  book.sheets[c].rows[q].must = made[c][q].must /\ book.sheets[c].rows[q].edited = {}
  <2> DEFINE SheetRows(b) == [q \in DOMAIN b.sheets[c].rows |->
                [must |-> b.sheets[c].rows[q].must, edited |-> b.sheets[c].rows[q].edited]]
  <2>1. c \in DOMAIN book.sheets /\ c \in DOMAIN new.sheets
    BY <1>2, <1>5
  <2>2. \A b : c \in DOMAIN b.sheets =>
          /\ Told(b)[c].headers = b.sheets[c].headers /\ Told(b)[c].hidden = b.sheets[c].hidden
          /\ Told(b)[c].rows = SheetRows(b)
    OBVIOUS
  <2>3. /\ book.sheets[c].headers = new.sheets[c].headers /\ book.sheets[c].hidden = new.sheets[c].hidden
        /\ SheetRows(book) = SheetRows(new)
    <3> HIDE DEF Told, SheetRows
    <3> QED BY <1>4, <2>1, <2>2
  <2>4. DOMAIN new.sheets[c].rows = DOMAIN made[c]
        /\ \A q \in DOMAIN made[c] : new.sheets[c].rows[q].must = made[c][q].must /\ new.sheets[c].rows[q].edited = {}
    <3> DEFINE lines == [q \in DOMAIN made[c] |->
                           [must |-> made[c][q].must, edited |-> {}, reply |-> NoBook]]
    <3>1. DOMAIN lines = DOMAIN made[c]
          /\ \A q \in DOMAIN made[c] : lines[q].must = made[c][q].must /\ lines[q].edited = {}
      OBVIOUS
    <3>2. new.sheets[c].rows = lines
      BY <1>3
    <3> HIDE DEF lines
    <3> QED BY <3>1, <3>2
  <2>5. \A b : DOMAIN SheetRows(b) = DOMAIN b.sheets[c].rows
               /\ \A q \in DOMAIN b.sheets[c].rows :
                    SheetRows(b)[q].must = b.sheets[c].rows[q].must /\ SheetRows(b)[q].edited = b.sheets[c].rows[q].edited
    OBVIOUS
  <2> HIDE DEF SheetRows, Told
  <2>6. DOMAIN book.sheets[c].rows = DOMAIN made[c]
    BY <2>3, <2>4, <2>5
  <2>7. book.sheets[c].headers /\ book.sheets[c].hidden
    BY <1>3, <2>3
  <2>8. ASSUME NEW q \in DOMAIN made[c]
        PROVE  book.sheets[c].rows[q].must = made[c][q].must /\ book.sheets[c].rows[q].edited = {}
    <3>1. q \in DOMAIN book.sheets[c].rows /\ q \in DOMAIN new.sheets[c].rows
      BY <2>4, <2>6
    <3>2. /\ SheetRows(book)[q].must = book.sheets[c].rows[q].must
          /\ SheetRows(book)[q].edited = book.sheets[c].rows[q].edited
      BY <2>5, <3>1
    <3>3. /\ SheetRows(new)[q].must = new.sheets[c].rows[q].must
          /\ SheetRows(new)[q].edited = new.sheets[c].rows[q].edited
      BY <2>5, <3>1
    <3> QED BY <2>3, <2>4, <3>2, <3>3
  <2> QED BY <2>6, <2>7, <2>8
<1> QED BY <1>2, <1>4, <1>5, <1>6

(* What was accepted is sound, when the hash is of the templates that were sent. *)
LEMMA AcceptedIsSound ==
  ASSUME NEW book, NEW live, NEW from,
         ImportIsOk(book, live, ExtractSheetMeta(GenerateWorkbook(from)))
  PROVE  LET answered == AnswersByModule(book, live) IN
         /\ DOMAIN answered = DOMAIN from
         /\ \A c \in DOMAIN answered :
              /\ {q \in DOMAIN from[c] : from[c][q].must} \subseteq DOMAIN answered[c]
              /\ DOMAIN answered[c] \subseteq Asked(from)[c]
              /\ \A q \in DOMAIN answered[c] :
                   live[c][q].options # {} => answered[c][q] \in live[c][q].options
<1> DEFINE answered == AnswersByModule(book, live)
           SheetRows(c) == book.sheets[c].rows
<1>1. DOMAIN book.sheets = DOMAIN live
      /\ ExtractSheetMeta(book) = ExtractSheetMeta(GenerateWorkbook(from))
      /\ AnswersAreValid(book, live)
  BY DEF ImportIsOk, StructureIsValid, ExpectedSheets
<1>2. /\ DOMAIN book.sheets = DOMAIN from
      /\ \A c \in DOMAIN from : DOMAIN SheetRows(c) = DOMAIN from[c]
                                /\ \A q \in DOMAIN from[c] : SheetRows(c)[q].must = from[c][q].must
  BY <1>1, WhatTheHashTells
<1>3. DOMAIN answered = DOMAIN live
      /\ \A c \in DOMAIN live :
           /\ DOMAIN answered[c] = {q \in DOMAIN SheetRows(c) : SheetRows(c)[q].reply # NoBook}
           /\ \A q \in DOMAIN answered[c] : answered[c][q] = SheetRows(c)[q].reply
  BY DEF AnswersByModule
<1>4. \A c \in DOMAIN live : \A q \in DOMAIN SheetRows(c) :
        /\ SheetRows(c)[q].must => SheetRows(c)[q].reply # NoBook
        /\ SheetRows(c)[q].reply # NoBook /\ live[c][q].options # {} =>
             SheetRows(c)[q].reply \in live[c][q].options
  BY <1>1 DEF AnswersAreValid, AnswerIsValid
<1> HIDE DEF answered, SheetRows
<1>5. \A c \in DOMAIN from : Asked(from)[c] = DOMAIN from[c]
  BY DEF Asked
<1>6. ASSUME NEW c \in DOMAIN answered
      PROVE  /\ {q \in DOMAIN from[c] : from[c][q].must} \subseteq DOMAIN answered[c]
             /\ DOMAIN answered[c] \subseteq Asked(from)[c]
             /\ \A q \in DOMAIN answered[c] :
                  live[c][q].options # {} => answered[c][q] \in live[c][q].options
  <2>1. c \in DOMAIN live /\ c \in DOMAIN from
    BY <1>1, <1>2, <1>3
  <2>2. \A q \in DOMAIN from[c] : from[c][q].must => q \in DOMAIN answered[c]
    BY <1>2, <1>3, <1>4, <2>1
  <2>3. DOMAIN answered[c] \subseteq DOMAIN from[c]
    BY <1>2, <1>3, <2>1
  <2>4. \A q \in DOMAIN answered[c] :
          live[c][q].options # {} => answered[c][q] \in live[c][q].options
    BY <1>3, <1>4, <2>1
  <2> QED BY <1>5, <2>1, <2>2, <2>3, <2>4
<1>7. DOMAIN answered = DOMAIN from
  BY <1>1, <1>2, <1>3
<1> QED BY <1>6, <1>7 DEF answered

(* What nobody altered and somebody filled in is accepted, when no template moved. *)
LEMMA HonestIsAccepted ==
  ASSUME NEW book, Honest(book), FilledCompletely(book)
  PROVE  ImportIsOk(book, book.made, ExtractSheetMeta(GenerateWorkbook(book.made)))
<1> DEFINE made == book.made
<1>1. /\ ExtractSheetMeta(book) = ExtractSheetMeta(GenerateWorkbook(made))
      /\ book.edited = {} /\ book.owner = "this"
      /\ DOMAIN book.sheets = DOMAIN made
      /\ \A c \in DOMAIN made :
           /\ book.sheets[c].headers /\ book.sheets[c].hidden
           /\ DOMAIN book.sheets[c].rows = DOMAIN made[c]
           /\ \A q \in DOMAIN made[c] :
                /\ book.sheets[c].rows[q].must = made[c][q].must
                /\ book.sheets[c].rows[q].edited = {}
  BY WhatTheHashTells DEF Honest
<1>2. /\ book.wellFilled
      /\ \A c \in DOMAIN made : \A q \in DOMAIN made[c] :
           /\ made[c][q].must => book.sheets[c].rows[q].reply # NoBook
           /\ book.sheets[c].rows[q].reply # NoBook /\ made[c][q].options # {} =>
                book.sheets[c].rows[q].reply \in made[c][q].options
  BY DEF FilledCompletely
<1> HIDE DEF made
<1>3. StructureIsValid(book, made, ExtractSheetMeta(GenerateWorkbook(made)))
  BY <1>1 DEF StructureIsValid, ExpectedSheets
<1>4. AnswersAreValid(book, made)
  BY <1>1, <1>2 DEF AnswersAreValid, AnswerIsValid
<1>5. InfoIsValid(book)
  BY <1>2 DEF InfoIsValid
<1> QED BY <1>3, <1>4, <1>5 DEF ImportIsOk, made

(***************************************************************************)
(* The invariant                                                            *)
(***************************************************************************)
(* The hash held is of the templates that the committed send read. *)
HashIsOfTheSend ==
  registered.hash # NoBook => registered.hash = ExtractSheetMeta(GenerateWorkbook(sentFrom))

WorkbookInv ==
  /\ WorkbookTypeOK
  /\ DOMAIN registered = {"hash", "status", "responses"}
  /\ DOMAIN officer = Officers
  /\ \A u \in Officers : officer[u].doing = "sending" => DOMAIN officer[u].read \subseteq Codes
  /\ HashIsOfTheSend /\ ImportsAreSoundAndFair

LEMMA TemplatesOfCodes == required \subseteq Codes => DOMAIN ResolveTemplates \subseteq Codes
BY DEF ResolveTemplates

LEMMA WorkbookInvInit == WorkbookInit => WorkbookInv
<1> SUFFICES ASSUME WorkbookInit PROVE WorkbookInv
  OBVIOUS
<1> USE DEF WorkbookInit
<1>1. \A u \in Officers : officer[u].doing = "none"
  BY DEF IdleOfficer
<1>2. DOMAIN << >> \subseteq Codes
  OBVIOUS
<1>3. bookCalls \in 0 .. MaxBookCalls
  BY WorkbookAssumption
<1>4. registered.hash = NoBook /\ registered.status = "approved" /\ DOMAIN registered.responses = Codes
      /\ DOMAIN registered = {"hash", "status", "responses"}
  BY DEF NoResponses
<1>5. DOMAIN files = {"sent", "returned", "report"} /\ files.report \in BOOLEAN
  BY DEF NoFiles
<1>6. published \in [Codes -> Contents \cup {NoBook}] /\ required \subseteq Codes
  OBVIOUS
<1>7. WorkbookTypeOK
  BY <1>1, <1>2, <1>3, <1>4, <1>5, <1>6 DEF WorkbookTypeOK
<1> QED BY <1>1, <1>4, <1>7 DEF WorkbookInv, HashIsOfTheSend, ImportsAreSoundAndFair

LEMMA WorkbookInvStep == WorkbookInv /\ [WorkbookNext]_workbookVars => WorkbookInv'
<1> SUFFICES ASSUME WorkbookInv, [WorkbookNext]_workbookVars PROVE WorkbookInv'
  OBVIOUS
<1>0. WorkbookTypeOK /\ DOMAIN officer = Officers /\ DOMAIN registered = {"hash", "status", "responses"}
      /\ HashIsOfTheSend
  BY DEF WorkbookInv
<1>1. BookCall => bookCalls' \in 0 .. MaxBookCalls
  BY <1>0, WorkbookAssumption DEF BookCall, WorkbookTypeOK
(* A call that leaves the registration, the officers and the verdict *)
<1>2. ASSUME UNCHANGED <<registered, sentFrom, officer, verdict>>,
             published' \in [Codes -> Contents \cup {NoBook}], required' \subseteq Codes,
             files' = files, bookCalls' \in 0 .. MaxBookCalls
      PROVE  WorkbookInv'
  <2>1. WorkbookTypeOK'
    BY <1>0, <1>2 DEF WorkbookTypeOK
  <2>2. ImportsAreSoundAndFair'
    BY <1>2 DEF WorkbookInv, ImportsAreSoundAndFair
  <2> QED BY <1>2, <2>1, <2>2 DEF WorkbookInv, HashIsOfTheSend
<1>3. ASSUME NEW c \in Codes, NEW t \in Contents \cup {NoBook}, ChangeTemplate(c, t) PROVE WorkbookInv'
  BY <1>0, <1>1, <1>2, <1>3 DEF ChangeTemplate, WorkbookTypeOK
<1>4. ASSUME NEW C \in SUBSET Codes, ChangeRequired(C) PROVE WorkbookInv'
  BY <1>0, <1>1, <1>2, <1>4 DEF ChangeRequired, WorkbookTypeOK
<1>5. CASE DownloadWorkbook
  BY <1>0, <1>1, <1>2, <1>5 DEF DownloadWorkbook, WorkbookTypeOK
<1>6. CASE FillIn
  BY <1>0, <1>1, <1>2, <1>6 DEF FillIn, WorkbookTypeOK
<1>7. CASE Alter
  BY <1>0, <1>1, <1>2, <1>7 DEF Alter, WorkbookTypeOK
<1>8. ASSUME NEW u \in Officers, SaveSent(u) PROVE WorkbookInv'
  <2>1. /\ officer' = [officer EXCEPT ![u] = [doing |-> "sending", read |-> ResolveTemplates]]
        /\ files' = [files EXCEPT !.sent = GenerateWorkbook(ResolveTemplates)]
        /\ UNCHANGED <<published, required, registered, sentFrom, inHand, verdict>>
    BY <1>8 DEF SaveSent
  <2>2. /\ DOMAIN officer' = Officers /\ officer'[u] = [doing |-> "sending", read |-> ResolveTemplates]
        /\ \A v \in Officers \ {u} : officer'[v] = officer[v]
    BY <1>0, <2>1
  <2>3. \A v \in Officers : /\ officer'[v].doing \in {"none", "sending", "applying"}
                            /\ officer'[v].doing = "sending" => DOMAIN officer'[v].read \subseteq Codes
    BY <1>0, <2>2, TemplatesOfCodes DEF WorkbookTypeOK, WorkbookInv
  <2>4. DOMAIN files' = {"sent", "returned", "report"} /\ files'.report = files.report
    BY <1>0, <2>1 DEF WorkbookTypeOK
  <2>5. WorkbookTypeOK'
    BY <1>0, <1>1, <1>8, <2>1, <2>3, <2>4 DEF WorkbookTypeOK, SaveSent
  <2>6. ImportsAreSoundAndFair'
    BY <2>1 DEF WorkbookInv, ImportsAreSoundAndFair
  <2> QED BY <1>0, <2>1, <2>2, <2>3, <2>5, <2>6 DEF WorkbookInv, HashIsOfTheSend
<1>9. ASSUME NEW u \in Officers, officer' = [officer EXCEPT ![u] = IdleOfficer]
      PROVE  /\ DOMAIN officer' = Officers
             /\ \A v \in Officers : /\ officer'[v].doing \in {"none", "sending", "applying"}
                                    /\ officer'[v].doing = "sending" => DOMAIN officer'[v].read \subseteq Codes
  <2>1. DOMAIN officer' = Officers /\ officer'[u] = IdleOfficer /\ \A v \in Officers \ {u} : officer'[v] = officer[v]
    BY <1>0, <1>9
  <2>2. IdleOfficer.doing = "none"
    BY DEF IdleOfficer
  <2> QED BY <1>0, <2>1, <2>2 DEF WorkbookTypeOK, WorkbookInv
<1>10. ASSUME NEW u \in Officers, CommitSent(u) PROVE WorkbookInv'
  <2> DEFINE T == officer[u].read
             hash == ExtractSheetMeta(GenerateWorkbook(T))
  <2>1. /\ registered' = [registered EXCEPT !.hash = hash, !.status = "sent"]
        /\ sentFrom' = T /\ officer' = [officer EXCEPT ![u] = IdleOfficer] /\ officer[u].doing = "sending"
        /\ UNCHANGED <<published, required, files, inHand, verdict, bookCalls>>
    BY <1>10 DEF CommitSent, Sent
  <2>2. DOMAIN T \subseteq Codes
    BY <2>1 DEF WorkbookInv
  <2>3. /\ DOMAIN registered' = {"hash", "status", "responses"} /\ registered'.hash = hash
        /\ registered'.status = "sent" /\ registered'.responses = registered.responses
    <3> HIDE DEF hash
    <3> QED BY <1>0, <2>1
  <2>4. HashIsOfTheSend'
    BY <2>1, <2>3 DEF HashIsOfTheSend
  <2> HIDE DEF T
  <2>5. WorkbookTypeOK'
    BY <1>0, <1>9, <2>1, <2>2, <2>3 DEF WorkbookTypeOK
  <2>6. ImportsAreSoundAndFair'
    BY <2>1 DEF WorkbookInv, ImportsAreSoundAndFair
  <2> QED BY <1>9, <2>1, <2>3, <2>4, <2>5, <2>6 DEF WorkbookInv
<1>11. ASSUME NEW u \in Officers, DieInCall(u) PROVE WorkbookInv'
  <2>1. /\ officer' = [officer EXCEPT ![u] = IdleOfficer]
        /\ UNCHANGED <<published, required, files, registered, sentFrom, inHand, verdict, bookCalls>>
    BY <1>11 DEF DieInCall
  <2>2. WorkbookTypeOK'
    BY <1>0, <1>9, <2>1 DEF WorkbookTypeOK
  <2>3. ImportsAreSoundAndFair'
    BY <2>1 DEF WorkbookInv, ImportsAreSoundAndFair
  <2> QED BY <1>0, <1>9, <2>1, <2>2, <2>3 DEF WorkbookInv, HashIsOfTheSend
<1>12. ASSUME NEW u \in Officers, ReadReturned(u) PROVE WorkbookInv'
  <2> DEFINE live == ResolveTemplates
             ok == ImportIsOk(inHand, live, registered.hash)
             going == [doing |-> "applying", read |-> AnswersByModule(inHand, live)]
  <2>1. /\ BookCall /\ registered.hash # NoBook
        /\ files' = [files EXCEPT !.returned = inHand, !.report = Reported(files.report, ok)]
        /\ verdict' = [book |-> inHand, ok |-> ok, read |-> live, from |-> sentFrom]
        /\ officer' = (IF ok THEN [officer EXCEPT ![u] = going] ELSE officer)
        /\ UNCHANGED <<published, required, registered, sentFrom, inHand>>
    BY <1>12 DEF ReadReturned
  <2>2. registered.hash = ExtractSheetMeta(GenerateWorkbook(sentFrom))
    BY <1>0, <2>1 DEF HashIsOfTheSend
  <2>3. ok = TRUE \/ ok = FALSE
    BY DEF ImportIsOk
  <2>4. ImportsAreSoundAndFair'
    <3> DEFINE answered == AnswersByModule(inHand, live)
    <3>1. ok => /\ DOMAIN answered = DOMAIN sentFrom
                /\ \A c \in DOMAIN answered :
                     /\ {q \in DOMAIN sentFrom[c] : sentFrom[c][q].must} \subseteq DOMAIN answered[c]
                     /\ DOMAIN answered[c] \subseteq Asked(sentFrom)[c]
                     /\ \A q \in DOMAIN answered[c] :
                          live[c][q].options # {} => answered[c][q] \in live[c][q].options
      BY <2>2, AcceptedIsSound
    <3>2. Honest(inHand) /\ FilledCompletely(inHand) /\ live = inHand.made /\ sentFrom = inHand.made => ok
      BY <2>2, HonestIsAccepted
    <3> DEFINE w == verdict'
    <3>3. w.book = inHand /\ w.ok = ok /\ w.read = live /\ w.from = sentFrom
      BY <2>1
    <3> HIDE DEF ok, live, answered, w
    <3>4. AnswersByModule(w.book, w.read) = answered
      BY <3>3 DEF answered
    <3> QED BY <3>1, <3>2, <3>3, <3>4 DEF ImportsAreSoundAndFair, w
  <2>5. going.doing = "applying"
    OBVIOUS
  <2> HIDE DEF ok, live, going
  <2>6. /\ DOMAIN officer' = Officers
        /\ \A v \in Officers : officer'[v] = officer[v] \/ officer'[v] = going
    BY <1>0, <2>1
  <2>7. DOMAIN files' = {"sent", "returned", "report"} /\ files'.report \in BOOLEAN
    <3>1. Reported(files.report, ok) \in BOOLEAN
      BY DEF Reported
    <3> QED BY <1>0, <2>1, <3>1 DEF WorkbookTypeOK
  <2>8. \A v \in Officers : /\ officer'[v].doing \in {"none", "sending", "applying"}
                            /\ officer'[v].doing = "sending" => DOMAIN officer'[v].read \subseteq Codes
    BY <1>0, <2>5, <2>6 DEF WorkbookTypeOK, WorkbookInv
  <2>9. WorkbookTypeOK'
    BY <1>0, <1>1, <2>1, <2>7, <2>8 DEF WorkbookTypeOK
  <2> QED BY <1>0, <2>1, <2>4, <2>6, <2>8, <2>9 DEF WorkbookInv, HashIsOfTheSend
<1>13. ASSUME NEW u \in Officers, ApplyImport(u) PROVE WorkbookInv'
  <2> DEFINE stored == DOMAIN officer[u].read \cap DOMAIN ResolveTemplates
             held == [c \in Codes |-> IF c \in stored THEN officer[u].read[c] ELSE registered.responses[c]]
  <2>1. /\ registered' = [registered EXCEPT !.status = "imported", !.responses = held]
        /\ officer' = [officer EXCEPT ![u] = IdleOfficer]
        /\ UNCHANGED <<published, required, files, sentFrom, inHand, verdict, bookCalls>>
    BY <1>13 DEF ApplyImport
  <2>2. DOMAIN held = Codes
    OBVIOUS
  <2> HIDE DEF held
  <2>3. /\ DOMAIN registered' = {"hash", "status", "responses"} /\ registered'.hash = registered.hash
        /\ registered'.status = "imported" /\ registered'.responses = held
    BY <1>0, <2>1
  <2>4. WorkbookTypeOK'
    BY <1>0, <1>9, <2>1, <2>2, <2>3 DEF WorkbookTypeOK
  <2>5. ImportsAreSoundAndFair'
    BY <2>1 DEF WorkbookInv, ImportsAreSoundAndFair
  <2> QED BY <1>0, <1>9, <2>1, <2>3, <2>4, <2>5 DEF WorkbookInv, HashIsOfTheSend
<1>14. CASE UNCHANGED workbookVars
  BY <1>0, <1>2, <1>14 DEF workbookVars, WorkbookTypeOK
<1> QED BY <1>3, <1>4, <1>5, <1>6, <1>7, <1>8, <1>10, <1>11, <1>12, <1>13, <1>14 DEF WorkbookNext

(* An accepted import answers what had to be answered when the workbook was sent, nothing
   that was not asked, and nothing the templates do not allow; and a workbook that nobody
   altered is refused only when its templates, or those of the last send, are others now. *)
THEOREM WorkbookImports == WorkbookSpec => []ImportsAreSoundAndFair
<1>1. WorkbookInv => ImportsAreSoundAndFair
  BY DEF WorkbookInv
<1> QED BY WorkbookInvInit, WorkbookInvStep, <1>1, PTL DEF WorkbookSpec

-----------------------------------------------------------------------------
(***************************************************************************)
(* The questionnaire of a request                                           *)
(*                                                                          *)
(* Whether a rule lets something be seen is decided from its leaves to its    *)
(* root, on the screen and on the server by the same steps: they agree as     *)
(* soon as they agree on each comparison.  A plain comparison is read alike of *)
(* the same answer, and what is stored of an answer is that answer once the    *)
(* yes/no questions that are columns are answered.  Then the questions that    *)
(* are open, that are missing and that count are the same ones.              *)
(***************************************************************************)
ReadAlike(r, here, there) ==
  \/ r = Shown \/ IsGroup(r)
  \/ ServerCompares(r.op, Given(there, r.field), r.value)
       <=> ClientCompares(r.op, Given(here, r.field), r.value)

LEMMA MetAlike ==
  ASSUME NEW rules, NEW inner, NEW here, NEW there,
         \A r \in rules : ReadAlike(r, here, there)
  PROVE  Met(rules, inner, there, TRUE) = Met(rules, inner, here, FALSE)
BY DEF Met, ReadAlike, IsGroup

LEMMA VisibleAlike ==
  ASSUME NEW rule, NEW here, NEW there,
         \A n \in 1..7 : \A r \in Depths(rule)[n] : ReadAlike(r, here, there)
  PROVE  Visible(rule, there, TRUE) = Visible(rule, here, FALSE)
<1> DEFINE d == Depths(rule)
           s7 == Met(d[7], {}, there, TRUE)   c7 == Met(d[7], {}, here, FALSE)
           s6 == Met(d[6], s7, there, TRUE)   c6 == Met(d[6], c7, here, FALSE)
           s5 == Met(d[5], s6, there, TRUE)   c5 == Met(d[5], c6, here, FALSE)
           s4 == Met(d[4], s5, there, TRUE)   c4 == Met(d[4], c5, here, FALSE)
           s3 == Met(d[3], s4, there, TRUE)   c3 == Met(d[3], c4, here, FALSE)
           s2 == Met(d[2], s3, there, TRUE)   c2 == Met(d[2], c3, here, FALSE)
<1>1. Visible(rule, there, TRUE) = (rule \in Met(d[1], s2, there, TRUE))
  BY DEF Visible
<1>2. Visible(rule, here, FALSE) = (rule \in Met(d[1], c2, here, FALSE))
  BY DEF Visible
<1>3. ASSUME NEW n \in 1..7, NEW inner
      PROVE  Met(d[n], inner, there, TRUE) = Met(d[n], inner, here, FALSE)
  BY MetAlike
<1> SUFFICES Met(d[1], s2, there, TRUE) = Met(d[1], c2, here, FALSE)
  BY <1>1, <1>2
<1> HIDE DEF d, s7, c7, s6, c6, s5, c5, s4, c4, s3, c3, s2, c2
<1>0. {2, 3, 4, 5, 6, 7, 1} \subseteq 1..7
  OBVIOUS
<1>4. s7 = c7
  BY <1>0, <1>3, Zenon DEF s7, c7
<1>5. s6 = c6
  BY <1>0, <1>3, <1>4, Zenon DEF s6, c6
<1>6. s5 = c5
  BY <1>0, <1>3, <1>5, Zenon DEF s5, c5
<1>7. s4 = c4
  BY <1>0, <1>3, <1>6, Zenon DEF s4, c4
<1>8. s3 = c3
  BY <1>0, <1>3, <1>7, Zenon DEF s3, c3
<1>9. s2 = c2
  BY <1>0, <1>3, <1>8, Zenon DEF s2, c2
<1> QED BY <1>0, <1>3, <1>9, Zenon

LEMMA ComparedAlike ==
  ASSUME NEW r, NEW v, NEW keys, Plain(r, keys), r.op \in OrderingOps \cup {"eq", "neq", "in"}
  PROVE  ServerCompares(r.op, v, r.value) <=> ClientCompares(r.op, v, r.value)
<1>1. CASE r.op \in {"eq", "neq", "in"}
  BY <1>1 DEF Plain, ServerCompares, ClientCompares
<1>2. CASE r.op \in OrderingOps
  <2>1. ~ IsText(Coerced(r.value))
    BY <1>2 DEF Plain, Coerced, Figure, IsText
  <2>2. r.op \notin {"eq", "neq", "in"}
    BY <1>2 DEF OrderingOps
  <2> QED BY <2>1, <2>2 DEF ServerCompares, ClientCompares
<1> QED BY <1>1, <1>2

LEMMA StoredAsGiven ==
  ASSUME NEW given, NEW k, k \in LegacyChecks => Given(given, k) # Unset
  PROVE  Given(Stored(given), k) = Given(given, k)
<1>1. CASE k \notin LegacyChecks
  BY <1>1 DEF Stored, Given
<1>2. CASE k \in LegacyChecks
  BY <1>2 DEF Stored, Given
<1> QED BY <1>1, <1>2

ColumnsAnswered(t, given) ==
  \A k \in LegacyChecks \cap KeysIn(QuestionsOf(t)) : Given(given, k) # Unset

LEMMA RulesAlike ==
  ASSUME NEW t \in Questionnaires, AllPlain(t), NEW given, ColumnsAnswered(t, given),
         NEW rule \in RulesOf(t)
  PROVE  Visible(rule, Stored(given), TRUE) = Visible(rule, given, FALSE)
<1>1. ValidRule(rule)
  BY QuestionnaireAssumption DEF ValidTemplate
<1>2. ASSUME NEW n \in 1..7, NEW r \in Depths(rule)[n]
      PROVE  ReadAlike(r, given, Stored(given))
  <2>1. CASE r = Shown \/ IsGroup(r)
    BY <2>1 DEF ReadAlike
  <2>2. CASE r # Shown /\ ~IsGroup(r)
    <3>1. Plain(r, KeysIn(QuestionsOf(t)))
      BY <2>2 DEF AllPlain
    <3>2. n \in 1..6
      BY <1>1, <2>2 DEF ValidRule
    <3>3. r.op \in OrderingOps \cup {"eq", "neq", "in"}
      BY <1>1, <2>2, <3>2 DEF ValidRule
    <3>4. Given(Stored(given), r.field) = Given(given, r.field)
      BY <3>1, StoredAsGiven DEF Plain, ColumnsAnswered
    <3> QED BY <3>1, <3>3, <3>4, ComparedAlike DEF ReadAlike
  <2> QED BY <2>1, <2>2
<1> QED BY <1>2, VisibleAlike

LEMMA OpenAlike ==
  ASSUME NEW t \in Questionnaires, AllPlain(t), NEW given, ColumnsAnswered(t, given)
  PROVE  Open(t, Stored(given), TRUE) = Open(t, given, FALSE)
<1>1. \A i \in DOMAIN t : Visible(t[i].rule, Stored(given), TRUE) = Visible(t[i].rule, given, FALSE)
  BY RulesAlike DEF RulesOf
<1>2. \A i \in DOMAIN t : \A q \in ToSet(t[i].questions) :
        Visible(q.rule, Stored(given), TRUE) = Visible(q.rule, given, FALSE)
  BY RulesAlike DEF RulesOf, QuestionsOf
<1> DEFINE seen(g, byServer) == {j \in DOMAIN t : Visible(t[j].rule, g, byServer)}
           asked(i, g, byServer) ==
             {q \in ToSet(t[i].questions) : q.enabled /\ Visible(q.rule, g, byServer)}
<1>3. seen(Stored(given), TRUE) = seen(given, FALSE)
  BY <1>1
<1>4. \A i \in DOMAIN t : asked(i, Stored(given), TRUE) = asked(i, given, FALSE)
  BY <1>2
<1>5. seen(given, FALSE) \subseteq DOMAIN t
  OBVIOUS
<1>6. Open(t, Stored(given), TRUE)
        = UNION {asked(i, Stored(given), TRUE) : i \in seen(Stored(given), TRUE)}
  BY DEF Open
<1>7. Open(t, given, FALSE) = UNION {asked(i, given, FALSE) : i \in seen(given, FALSE)}
  BY DEF Open
<1> HIDE DEF seen, asked
<1> QED BY <1>3, <1>4, <1>5, <1>6, <1>7

LEMMA OpenAreAsked ==
  ASSUME NEW t, NEW given, NEW byServer, NEW q \in Open(t, given, byServer)
  PROVE  q.key \in KeysIn(QuestionsOf(t))
BY DEF Open, KeysIn, QuestionsOf

LEMMA ScoredAlike ==
  ASSUME NEW questions, NEW here, NEW there,
         \A q \in questions : Given(there, q.key) = Given(here, q.key)
  PROVE  ScoreOf(questions, there) = ScoreOf(questions, here)
<1> DEFINE scored == {q \in questions : q.score.weight > 0}
           points(given) == [q \in scored |-> q.score.weight * Score(q.score, Given(given, q.key)) * 10]
<1>1. points(there) = points(here)
  OBVIOUS
<1> HIDE DEF points
<1> QED BY <1>1 DEF ScoreOf, points

LEMMA ScreenAlike ==
  ASSUME NEW t \in Questionnaires, AllPlain(t), NEW given, ColumnsAnswered(t, given)
  PROVE  LET screen == Open(t, given, FALSE) IN
         /\ Missing(t, Stored(given))
              = {q \in screen : q.mandatory /\ Unanswered(Given(given, q.key))}
         /\ ScoreOf(Open(t, Stored(given), TRUE), Stored(given)) = ScoreOf(screen, given)
<1> DEFINE screen == Open(t, given, FALSE)
<1>1. Open(t, Stored(given), TRUE) = screen
  BY OpenAlike
<1>2. \A q \in screen : Given(Stored(given), q.key) = Given(given, q.key)
  BY OpenAreAsked, StoredAsGiven DEF ColumnsAnswered
<1> HIDE DEF screen
<1>3. Missing(t, Stored(given)) = {q \in screen : q.mandatory /\ Unanswered(Given(given, q.key))}
  BY <1>1, <1>2 DEF Missing
<1>4. ScoreOf(screen, Stored(given)) = ScoreOf(screen, given)
  BY <1>2, ScoredAlike
<1> QED BY <1>1, <1>3, <1>4 DEF screen

(* While no answer of the server was lost, the page that has a submitted      *)
(* request is being left, and the request is the one it stored last.        *)
Submitted(stored) == {i \in DOMAIN stored : stored[i].status = "submitted"}
FormInv ==
  /\ {inForce, form} \subseteq Questionnaires \cup {NoForm}
  /\ \E S : filed \in Seq(S)
  /\ ~lostAnswer => \/ Submitted(filed) = {}
                    \/ step.waits \in {"leave", "left"} /\ \E n \in Nat : Submitted(filed) = {n}

LEMMA FormInit == QuestionnaireInit => FormInv
<1> SUFFICES ASSUME QuestionnaireInit PROVE FormInv
  OBVIOUS
<1>1. filed \in Seq({}) /\ Submitted(filed) = {}
  BY DEF QuestionnaireInit, Submitted
<1> QED BY <1>1 DEF QuestionnaireInit, FormInv

LEMMA FormStep == FormInv /\ [QuestionnaireNext]_questionnaireVars => FormInv'
<1> SUFFICES ASSUME FormInv, [QuestionnaireNext]_questionnaireVars PROVE FormInv'
  OBVIOUS
<1> USE DEF FormInv
<1>1. CASE LoadForm
  BY <1>1 DEF LoadForm, Ready
<1>2. CASE Create
  <2>1. PICK S : filed \in Seq(S)
    OBVIOUS
  <2> DEFINE new == Filed(answers, inForce # NoForm)
  <2>2. filed' = Append(filed, new) /\ new.status = "draft"
    BY <1>2 DEF Create, Filed
  <2> HIDE DEF new
  <2>3. filed \in Seq(S \cup {new}) /\ filed' \in Seq(S \cup {new})
    BY <2>1, <2>2
  <2>4. Submitted(filed') = Submitted(filed)
    BY <2>2, <2>3 DEF Submitted
  <2> QED BY <1>2, <2>3, <2>4 DEF Create
<1>3. CASE SubmitRequest
  <2>1. PICK S : filed \in Seq(S)
    OBVIOUS
  <2>2. CASE filed' = filed
    BY <1>3, <2>2 DEF SubmitRequest, Ready
  <2>3. CASE filed' # filed
    <3>1. PICK score : filed' = [filed EXCEPT ![Len(filed)].status = "submitted", ![Len(filed)].score = score]
      BY <1>3, <2>3 DEF SubmitRequest
    <3>2. step' = [waits |-> "leave"]
      BY <1>3, <2>3 DEF SubmitRequest
    <3>3. DOMAIN filed' = DOMAIN filed /\ \A i \in DOMAIN filed : i # Len(filed) => filed'[i] = filed[i]
      BY <3>1
    <3>4. filed' \in Seq(S \cup {filed'[Len(filed)]})
      <4> DEFINE last == filed'[Len(filed)]
                 n == Len(filed)
      <4>1. n \in Nat /\ DOMAIN filed' = 1..n
        BY <2>1, <3>3
      <4>2. \A i \in 1..n : filed'[i] \in S \cup {last}
        BY <2>1, <3>3
      <4>3. filed' = [i \in 1..n |-> filed'[i]]
        BY <2>1, <3>1, <4>1
      <4> HIDE DEF n
      <4>4. filed' \in [1..n -> S \cup {last}]
        BY <4>2, <4>3
      <4> QED BY <4>1, <4>4
    <3>5. ~lostAnswer => Submitted(filed) = {}
      BY <1>3 DEF SubmitRequest
    <3>6. ~lostAnswer => Submitted(filed') = {} \/ Submitted(filed') = {Len(filed)}
      BY <3>3, <3>5 DEF Submitted
    <3>7. Len(filed) \in Nat
      BY <2>1
    <3> QED BY <1>3, <3>2, <3>4, <3>6, <3>7 DEF SubmitRequest
  <2> QED BY <2>2, <2>3
<1>4. CASE LeavePage
  BY <1>4 DEF LeavePage
<1>5. CASE CallFails
  BY <1>5 DEF CallFails
<1>6. ASSUME NEW t \in Questionnaires, PublishForm(t) PROVE FormInv'
  BY <1>6 DEF PublishForm
<1>7. ASSUME NEW s \in BOOLEAN, Save(s) PROVE FormInv'
  BY <1>7 DEF Save, Ready
<1>8. ASSUME NEW q, NEW v, AnswerField(q, v) PROVE FormInv'
  BY <1>8 DEF AnswerField
<1>9. CASE UNCHANGED questionnaireVars
  BY <1>9 DEF questionnaireVars
<1> QED BY <1>1, <1>2, <1>3, <1>4, <1>5, <1>6, <1>7, <1>8, <1>9 DEF QuestionnaireNext

LEMMA FormShows == FormInv => SubmittedAsShown
<1> SUFFICES ASSUME FormInv PROVE ScreenDecides /\ OneSubmitted
  BY DEF SubmittedAsShown
<1>1. ScreenDecides
  BY ScreenAlike DEF FormInv, ScreenDecides, ColumnsAnswered
<1>2. OneSubmitted
  <2>1. ~lostAnswer => Submitted(filed) = {} \/ \E n \in Nat : Submitted(filed) = {n}
    BY DEF FormInv
  <2>2. Cardinality({}) = 0 /\ \A n \in Nat : Cardinality({n}) = 1
    BY FS_EmptySet, FS_Singleton
  <2>3. lostAnswer \/ Cardinality(Submitted(filed)) =< 1
    BY <2>1, <2>2
  <2> QED BY <2>3 DEF OneSubmitted, Submitted
<1> QED BY <1>1, <1>2

(* What the page shows as asked, as missing and as scored is what the server  *)
(* asks, misses and scores, for every valid template whose rules are plain and *)
(* all answers; and unless an answer of the server was lost, a page submits    *)
(* one request at most (evaluate_visibility and evaluateVisibility,            *)
(* score_response, validate_mandatory).                                     *)
THEOREM SubmissionsAreAsShown == QuestionnaireSpec => []SubmittedAsShown
<1>1. QuestionnaireSpec => []FormInv
  BY FormInit, FormStep, PTL DEF QuestionnaireSpec
<1> QED BY <1>1, FormShows, PTL
=============================================================================
