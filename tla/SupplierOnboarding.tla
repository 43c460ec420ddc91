-------------------------- MODULE SupplierOnboarding --------------------------
(***************************************************************************)
(* How a supplier comes to be: a request, the workflow instances that its   *)
(* submissions start, the registration that its approval opens, the         *)
(* workbook that is sent and imported; registrations that nobody requested,  *)
(* which are converted; and whoever edits a supplier by hand.               *)
(*                                                                          *)
(* The answer that completes an instance runs on_supplier_request_approved  *)
(* in its transaction: it reads the request, looks for a registration, and  *)
(* commits.  Its first flush writes the request and so holds the row until  *)
(* the end, but only if a column has changed.  A conversion reads and        *)
(* commits.  Everything else is one step.                                    *)
(***************************************************************************)
EXTENDS Integers, Sequences, FiniteSets

CONSTANTS
  Requests, Flows, Suppliers,   \* rows that may be made
  Registrations, Direct,        \* those of approvals, and those nobody requested
  Chain,          \* approval_workflow_config of the supplier type: roles
  Definition,     \* the steps of the supplier_request definition: roles
  Converters,     \* bound: conversions of a registration under way at once
  MaxDeleted,     \* bound: suppliers deleted
  NoSupplier, NoRequest, NoFlow

ASSUME OnboardingAssumption ==
  /\ NoSupplier \notin Suppliers /\ NoRequest \notin Requests /\ NoFlow \notin Flows
  /\ Chain \in Seq(STRING) /\ Definition \in Seq(STRING) /\ Definition # <<>>
  /\ Registrations \cap Direct = {} /\ Requests \cap (Registrations \cup Direct) = {}
  /\ Converters \in Nat /\ MaxDeleted \in Nat

VARIABLES
  request,        \* of each: whether its status columns say approved, its supplier
  flow,           \* instances: what they wait for, and what an approval has read
  registration,   \* the registrations made so far
  supplier,       \* the suppliers made so far, "deleted" ones included
  active,         \* those whose is_active says that they may trade
  converting,     \* conversions that have read the registration
  raced,          \* history: requests, registrations whose transactions overlapped
  cleared,        \* history: suppliers that need no registration, qualified or converted
  byHand          \* history: suppliers that an edit activated before they were cleared

traders == <<active, cleared, byHand>>
vars == <<request, flow, registration, supplier, converting, raced, traders>>

Stages == {"unused", "open", "read", "looked", "approved", "rejected"}
Modes == {"none", "auto", "manual"}
Blank == [mode |-> "none", supplier |-> NoSupplier, dirty |-> FALSE, new |-> NoSupplier,
          was |-> "unused", active |-> FALSE, found |-> FALSE]

Made == DOMAIN registration
Born == {s \in Suppliers : supplier[s].state # "unused"}
NewSupplier(s, state, origin) == [supplier EXCEPT ![s] = [state |-> state, origin |-> origin]]
Reserved == {flow[f].seen.new : f \in Flows}
(* Keys are random: which unused one is taken makes no difference *)
Free == (Suppliers \ Born) \ Reserved
Key(unused) == CHOOSE key \in unused : TRUE

Running(q) == {f \in Flows : flow[f].req = q /\ flow[f].stage \in {"read", "looked"}}

(* The row of a request is locked from the first flush that writes it *)
Holds(f) == flow[f].stage = "looked" /\ flow[f].seen.dirty /\ flow[f].seen.new # NoSupplier
Unlocked(q, f) == \A g \in Flows \ {f} : flow[g].req = q => ~Holds(g)

Of(q) == {r \in Made : registration[r].req = q}

-----------------------------------------------------------------------------
Init ==
  /\ request = [q \in Requests |->
                  [stamped |-> FALSE, supplier |-> NoSupplier]]
  /\ flow = [f \in Flows |->
               [req |-> NoRequest, stage |-> "unused", step |-> 1, signed |-> {}, seen |-> Blank]]
  /\ registration = [r \in {} |-> {}]
  /\ supplier = [s \in Suppliers |-> [state |-> "unused", origin |-> NoRequest]]
  /\ converting = [r \in Registrations \cup Direct |-> 0]
  /\ raced = {} /\ active = {} /\ cleared = {} /\ byHand = {}

(* The role that a step of an instance asks: the chain stands in for the steps *)
(* when the instance starts; whoever answers later is led on by the definition *)
RoleAt(k) == IF k = 1 /\ Chain # <<>> THEN Chain[1] ELSE Definition[k]

(* A request is stamped when its status, lifecycle and approval columns all say *)
(* "approved": an approval then has nothing to write to it                      *)
Stamp(q, stamped) == request' = [request EXCEPT ![q].stamped = stamped]

(* Submitting, from any state: without a definition the evaluator decides on the *)
(* approval status; starting the instance may fail after the request has been    *)
(* submitted                                                                      *)
Submit(q) ==
  /\ Unlocked(q, NoFlow)
  /\ Stamp(q, FALSE)
  /\ \/ UNCHANGED flow
     \/ LET unused == {f \in Flows : flow[f].stage = "unused"} IN
        /\ unused # {}
        /\ flow' = [flow EXCEPT ![Key(unused)].req = q, ![Key(unused)].stage = "open"]
  /\ UNCHANGED <<registration, supplier, converting, raced, traders>>

(* Approving, rejecting and cancelling at the endpoint, from any state.  The     *)
(* evaluator then writes its own verdict: only the approval of what is harmless   *)
(* stays one.  No supplier comes of it.                                           *)
Decide(q) ==
  /\ Unlocked(q, NoFlow)
  /\ \E harmless \in BOOLEAN : Stamp(q, harmless)
  /\ UNCHANGED <<flow, registration, supplier, converting, raced, traders>>

(* An approval with more steps to come *)
Answer(f) ==
  /\ flow[f].stage = "open" /\ flow[f].step < Len(Definition)
  /\ flow' = [flow EXCEPT ![f].step = @ + 1, ![f].signed = @ \cup {RoleAt(flow[f].step)}]
  /\ UNCHANGED <<request, registration, supplier, converting, raced, traders>>

Refuse(f) ==
  LET q == flow[f].req IN
  /\ flow[f].stage = "open"
  /\ Unlocked(q, NoFlow)
  /\ flow' = [flow EXCEPT ![f].stage = "rejected"]
  /\ Stamp(q, FALSE)
  /\ UNCHANGED <<registration, supplier, converting, raced, traders>>

-----------------------------------------------------------------------------
(***************************************************************************)
(* The transaction of the last approval                                     *)
(***************************************************************************)

(* mutant: the request's supplier is not looked at *)
ReadAnew(f) ==
  LET q == flow[f].req IN
  /\ flow[f].stage = "open" /\ flow[f].step >= Len(Definition)
  /\ Free # {}
  /\ \E mode \in Modes, new \in {Key(Free)} :
       flow' = [flow EXCEPT ![f].stage = "read",
                  ![f].seen = [mode |-> mode, supplier |-> request[q].supplier, new |-> new,
                               dirty |-> TRUE, was |-> "unused", active |-> FALSE,
                               found |-> FALSE]]
  /\ raced' = IF Running(q) # {} THEN raced \cup {q} ELSE raced
  /\ UNCHANGED <<request, registration, supplier, converting, traders>>

(* What on_supplier_request_approved reads, and the supplier it adds if the *)
(* request has none.  The mode is what the supplier's type says today.       *)
Read(f) ==
  LET q == flow[f].req IN
  /\ flow[f].stage = "open" /\ flow[f].step >= Len(Definition)
  /\ \E mode \in Modes :
       \E new \in IF request[q].supplier # NoSupplier THEN {NoSupplier}
                  ELSE IF Free = {} THEN {} ELSE {Key(Free)} :
         flow' = [flow EXCEPT ![f].stage = "read",
                    ![f].seen = [mode |-> mode, supplier |-> request[q].supplier, new |-> new,
                                 dirty |-> ~request[q].stamped,
                                 was |-> IF new = NoSupplier
                                         THEN supplier[request[q].supplier].state ELSE "unused",
                                 active |-> new = NoSupplier /\ request[q].supplier \in active,
                                 found |-> FALSE]]
  /\ raced' = IF Running(q) # {} THEN raced \cup {q} ELSE raced
  /\ UNCHANGED <<request, registration, supplier, converting, traders>>

(* mutant: who is to look waits until nobody else runs *)
LookUpAlone(f) ==
  LET q == flow[f].req
      seen == flow[f].seen
  IN
  /\ flow[f].stage = "read" /\ Running(q) = {f}
  /\ seen.mode # "none" => Cardinality(Of(q)) <= 1
  /\ flow' = [flow EXCEPT ![f].stage = "looked", ![f].seen.found = Of(q) # {}]
  /\ UNCHANGED <<request, registration, supplier, converting, raced, traders>>

(* The flush, which may wait for the row, and the look for a registration *)
LookUp(f) ==
  LET q == flow[f].req
      seen == flow[f].seen
  IN
  /\ flow[f].stage = "read"
  /\ seen.dirty /\ seen.new # NoSupplier => Unlocked(q, f)
  /\ seen.mode # "none" => Cardinality(Of(q)) <= 1
  /\ flow' = [flow EXCEPT ![f].stage = "looked", ![f].seen.found = Of(q) # {}]
  /\ UNCHANGED <<request, registration, supplier, converting, raced, traders>>

(* The supplier that the transaction is about, and whether it is still there *)
Subject(seen) == IF seen.new # NoSupplier THEN seen.new ELSE seen.supplier

(* A supplier that was deleted meanwhile matters if a row is to refer to it, *)
(* or if it would be activated                                               *)
Lasts(seen) ==
  seen.new = NoSupplier /\ supplier[seen.supplier].state = "deleted"
    => IF seen.mode = "none" THEN seen.was = "onboarded" /\ seen.active ELSE seen.found

(* The registration that an approval opens: sent at once, or left to the gate, an *)
(* instance of one step whose approval sends it                                    *)
Opened(q, s, mode) ==
  [req |-> q, supplier |-> s, approved |-> FALSE, sent |-> mode = "auto"]

(* The lifecycle of the request goes on to "completed" or to the registration *)
Moves(seen) == seen.mode = "none" \/ ~seen.found

Approve(f) ==
  LET q == flow[f].req
      seen == flow[f].seen
      s == Subject(seen)
      state == IF seen.mode = "none" THEN "onboarded" ELSE "pending_registration"
  IN
  /\ flow[f].stage = "looked"
  /\ Unlocked(q, f)
  /\ Lasts(seen)
  /\ request' = [request EXCEPT ![q] =
       [stamped |-> (seen.dirty \/ @.stamped) /\ ~Moves(seen),
        supplier |-> IF seen.new # NoSupplier THEN s ELSE @.supplier]]
  /\ supplier' = IF seen.new # NoSupplier THEN NewSupplier(s, state, q)
                 ELSE IF seen.mode = "none" /\ seen.was # state
                      THEN [supplier EXCEPT ![s].state = state]
                 ELSE supplier
  /\ active' = IF seen.mode = "none" /\ ~seen.active THEN active \cup {s} ELSE active
  /\ cleared' = IF seen.mode = "none" THEN cleared \cup {s} ELSE cleared
  /\ IF seen.mode = "none" \/ seen.found THEN UNCHANGED registration
     ELSE LET r == Key(Registrations \ Made) IN
            /\ Registrations \ Made # {}
            /\ registration' = [x \in Made \cup {r} |->
                 IF x = r THEN Opened(q, s, seen.mode) ELSE registration[x]]
  /\ flow' = [flow EXCEPT ![f].stage = "approved", ![f].seen = Blank,
                          ![f].signed = @ \cup {RoleAt(flow[f].step)}]
  /\ UNCHANGED <<converting, raced, byHand>>

(* The transaction is rolled back, and the task is pending again *)
RolledBack(f) ==
  /\ flow' = [flow EXCEPT ![f].stage = "open", ![f].seen = Blank]
  /\ UNCHANGED <<request, registration, supplier, converting, raced, traders>>

(* The look-up finds more than the one registration it allows for, or the *)
(* supplier has been deleted                                               *)
Raise(f) ==
  /\ \/ /\ flow[f].stage = "read" /\ flow[f].seen.mode # "none"
        /\ Cardinality(Of(flow[f].req)) > 1
     \/ flow[f].stage = "looked" /\ ~Lasts(flow[f].seen)
  /\ RolledBack(f)

Crash(f) ==
  /\ flow[f].stage \in {"read", "looked"}
  /\ RolledBack(f)

-----------------------------------------------------------------------------
(***************************************************************************)
(* Registrations                                                            *)
(***************************************************************************)
Unchanged == UNCHANGED <<request, flow, raced>>

CreateRegistration(r) ==
  /\ r \in Direct \ Made
  /\ registration' = [x \in Made \cup {r} |->
       IF x = r THEN [req |-> NoRequest, supplier |-> NoSupplier, approved |-> FALSE,
                      sent |-> FALSE]
       ELSE registration[x]]
  /\ Unchanged /\ UNCHANGED <<supplier, converting, traders>>

(* Submitting (which approves what is harmless), reviewing, approving, rejecting, *)
(* cancelling and editing, from any state, leave the approval status as it is or    *)
(* change it                                                                         *)
TransitionRegistration(r) ==
  /\ r \in Made
  /\ registration' = [registration EXCEPT ![r].approved = ~@]
  /\ Unchanged /\ UNCHANGED <<supplier, converting, traders>>

(* By the endpoint, at any time, and by whoever completes the gate, which may be *)
(* after it was sent, returned and imported                                       *)
SendWorkbook(r) ==
  /\ r \in Made /\ ~registration[r].sent
  /\ registration' = [registration EXCEPT ![r].sent = TRUE]
  /\ Unchanged /\ UNCHANGED <<supplier, converting, traders>>

(* mutant: whoever fails is activated too *)
ImportAnyway(r) ==
  /\ r \in Made /\ registration[r].sent
  /\ \E qualified \in BOOLEAN :
       /\ registration' = [registration EXCEPT ![r].approved = qualified]
       /\ IF registration[r].supplier # NoSupplier
          THEN /\ supplier' = [supplier EXCEPT ![registration[r].supplier].state = "onboarded"]
               /\ active' = active \cup {registration[r].supplier}
               /\ cleared' = IF qualified THEN cleared \cup {registration[r].supplier}
                             ELSE cleared
               /\ UNCHANGED byHand
          ELSE UNCHANGED <<supplier, traders>>
  /\ Unchanged /\ UNCHANGED converting

(* A workbook of the right structure comes back, and its answers qualify the *)
(* supplier or do not; it may come back again                                *)
Import(r) ==
  /\ r \in Made /\ registration[r].sent
  /\ \E qualified \in BOOLEAN :
       /\ registration' = [registration EXCEPT ![r].approved = qualified]
       /\ IF qualified /\ registration[r].supplier # NoSupplier
          THEN /\ supplier' = [supplier EXCEPT ![registration[r].supplier].state = "onboarded"]
               /\ active' = active \cup {registration[r].supplier}
               /\ cleared' = cleared \cup {registration[r].supplier}
               /\ byHand' = byHand \ {registration[r].supplier}
          ELSE UNCHANGED <<supplier, traders>>
  /\ Unchanged /\ UNCHANGED converting

BeginConvert(r) ==
  /\ r \in Made /\ converting[r] < Converters
  /\ registration[r].approved /\ registration[r].supplier = NoSupplier
  /\ converting' = [converting EXCEPT ![r] = @ + 1]
  /\ raced' = IF converting[r] > 0 THEN raced \cup {r} ELSE raced
  /\ UNCHANGED <<request, flow, registration, supplier, traders>>

Convert(r) ==
  /\ r \in Made /\ converting[r] > 0
  /\ converting' = [converting EXCEPT ![r] = @ - 1]
  /\ Free # {}
  /\ supplier' = NewSupplier(Key(Free), "onboarded", r)
  /\ active' = active \cup {Key(Free)} /\ cleared' = cleared \cup {Key(Free)}
  /\ registration' = [registration EXCEPT ![r].supplier = Key(Free)]
  /\ UNCHANGED <<request, flow, raced, byHand>>

(* Editing a supplier sets is_active as the form says, whatever its onboarding has *)
(* come to                                                                         *)
UpdateSupplier(s) ==
  /\ supplier[s].state \in {"pending_registration", "onboarded"}
  /\ IF s \in active
     THEN active' = active \ {s} /\ byHand' = byHand \ {s}
     ELSE active' = active \cup {s} /\ byHand' = byHand \cup ({s} \ cleared)
  /\ UNCHANGED <<request, flow, registration, supplier, converting, raced, cleared>>

(* Deleting a supplier clears the columns that refer to it *)
DeleteSupplier(s) ==
  /\ supplier[s].state \in {"pending_registration", "onboarded"}
  /\ Cardinality({t \in Born : supplier[t].state = "deleted"}) < MaxDeleted
  /\ \A q \in Requests : request[q].supplier = s => Unlocked(q, NoFlow)
  /\ supplier' = [supplier EXCEPT ![s].state = "deleted"]
  /\ active' = active \ {s} /\ cleared' = cleared \ {s} /\ byHand' = byHand \ {s}
  /\ request' = [q \in Requests |->
       IF request[q].supplier = s THEN [request[q] EXCEPT !.supplier = NoSupplier]
       ELSE request[q]]
  /\ registration' = [r \in Made |->
       IF registration[r].supplier = s THEN [registration[r] EXCEPT !.supplier = NoSupplier]
       ELSE registration[r]]
  /\ UNCHANGED <<flow, converting, raced>>

-----------------------------------------------------------------------------
Completing(f) == LookUp(f) \/ Approve(f) \/ Raise(f)

Next ==
  \/ \E q \in Requests : Submit(q) \/ Decide(q)
  \/ \E f \in Flows : Answer(f) \/ Refuse(f) \/ Read(f) \/ Completing(f) \/ Crash(f)
  \/ \E r \in Registrations \cup Direct :
       \/ CreateRegistration(r) \/ TransitionRegistration(r) \/ SendWorkbook(r)
       \/ Import(r) \/ BeginConvert(r) \/ Convert(r)
  \/ \E s \in Suppliers : UpdateSupplier(s) \/ DeleteSupplier(s)

Spec == Init /\ [][Next]_vars

(* The database grants a row lock in the order it was asked for, and a transaction *)
(* that runs goes on                                                               *)
FairSpec == Spec /\ \A f \in Flows : SF_vars(Completing(f))

-----------------------------------------------------------------------------
(***************************************************************************)
(* Properties                                                               *)
(***************************************************************************)

(* Every variable keeps its type, and what is running has a request. *)
TypeOK ==
  /\ request \in [Requests -> [stamped : BOOLEAN, supplier : Suppliers \cup {NoSupplier}]]
  /\ \A f \in Flows :
       /\ flow[f].stage \in Stages
       /\ IF flow[f].stage = "unused" THEN flow[f].req = NoRequest ELSE flow[f].req \in Requests
       /\ flow[f].step \in 1 .. Len(Definition)
       /\ flow[f].stage \notin {"read", "looked"} <=> flow[f].seen = Blank
  /\ Made \subseteq Registrations \cup Direct
  /\ \A r \in Made :
       registration[r] \in [req : Requests \cup {NoRequest},
                            supplier : Suppliers \cup {NoSupplier},
                            approved : BOOLEAN, sent : BOOLEAN]
  /\ \A s \in Suppliers :
       supplier[s].state \in {"unused", "pending_registration", "onboarded", "deleted"}
  /\ converting \in [Registrations \cup Direct -> 0 .. Converters]
  /\ active \subseteq Born /\ cleared \subseteq Born /\ byHand \subseteq Born

From(origin) == {s \in Suppliers : supplier[s].origin = origin
                                     /\ supplier[s].state \in {"pending_registration", "onboarded"}}

(* A request, or a registration nobody requested, has one supplier, however  *)
(* often it is submitted, approved and converted, and whoever dies at it;     *)
(* unless two approvals, or two conversions, overlapped.                      *)
OneSupplierEach ==
  \A origin \in (Requests \cup Registrations \cup Direct) \ raced : Cardinality(From(origin)) <= 1

(* An approval that runs again does not open a second registration (the        *)
(* docstring of _get_or_create_registration); two that overlap may.            *)
OneRegistrationEach ==
  \A q \in Requests \ raced : Cardinality(Of(q)) <= 1

(* A request and its registration speak of one supplier, unless approvals      *)
(* overlapped or the supplier was deleted.                                     *)
RowsAgree ==
  \A q \in Requests \ raced : \A r \in Of(q) :
    \/ registration[r].supplier = request[q].supplier
    \/ \E s \in Suppliers : supplier[s].origin = q /\ supplier[s].state = "deleted"

(* The onboarding of a supplier ends only when its registration has qualified or *)
(* is converted, or an approval found that none is needed; and it may be given    *)
(* orders before only if somebody edited is_active by hand; even when requests,   *)
(* approvals, re-sent workbooks, conversions and edits overlap.                   *)
OnboardedIsCleared ==
  \A s \in Suppliers :
    /\ supplier[s].state = "onboarded" => s \in cleared
    /\ s \in active => s \in cleared \cup byHand

(* What the supplier type's chain says decides who approves: an instance is not *)
(* approved before every role of it has answered.                              *)
ChainSigned ==
  \A f \in Flows : flow[f].stage = "approved" => {Chain[k] : k \in DOMAIN Chain} \subseteq flow[f].signed

(* The transaction of an approval comes to an end: whoever waits for the row of *)
(* a request gets it, for its holder waits for nobody.                          *)
CompletionEnds ==
  \A f \in Flows : flow[f].stage \in {"read", "looked"} ~> flow[f].stage \in {"open", "approved"}

(* One of each, and they agree: the supplier, the registration and the request    *)
(* of one onboarding.                                                          *)
OneOfEach == OneSupplierEach /\ OneRegistrationEach /\ RowsAgree
=============================================================================
