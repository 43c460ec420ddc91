---------------------- MODULE RequisitionApprovalProofs ----------------------
(***************************************************************************)
(* Proofs about requisitions, whatever their clients send, for any value of   *)
(* the PR, any gates, instances, changes and delays: the system makes one      *)
(* order, for what was signed or is known to have got past the approvers; and  *)
(* an instance that waits for its approvers is passed over only where a        *)
(* request is known to have done it.  Of a client that follows the pages: that  *)
(* it does neither, above the threshold of the naive rule.  And about the pages  *)
(* that enter a requisition.                                                 *)
(***************************************************************************)
EXTENDS RequisitionApproval, RequisitionEntry, FiniteSetTheorems, TLAPS

(***************************************************************************)
(* The inductive invariant                                                  *)
(***************************************************************************)
Made == [content : 0 .. Typed, by : {"system", "split", "client"}]

PRTypes ==
  /\ content \in 0 .. MaxEdits
  /\ flows \in [1 .. MaxFlows -> Flow]
  /\ orders \in Seq(Made)

\* The contents that may become an order: signed, or known to be past the approvers.
Accounted == signed \cup unasked

\* Before a PR is sent nobody is asked; from then on every change of it is noticed.
ChangesAreNoticed ==
  /\ lifecycle = "draft" => Started = {}
  /\ \A i \in Started : flows[i].content = content \/ content \in Accounted
  /\ approval = "approved" \/ lifecycle = "exception" => content \in Accounted

\* One instance at most is to decide, and it has not decided when the PR counts as approved.
EngineFirst ==
  ~overruled =>
    /\ \A i, j \in Undecided : i = j
    /\ approval = "approved" => Undecided = {}

PRInv == PRTypes /\ ChangesAreNoticed /\ OrdersAreSound /\ EngineFirst

-----------------------------------------------------------------------------
LEMMA RequisitionInit ==
  ASSUME Init
  PROVE  PRInv
<1>1. flows \in [1 .. MaxFlows -> Flow]
  BY RequisitionAssumption DEF Init, NoFlow, Flow, Phases
<1>2. Started = {} /\ Undecided = {}
  BY DEF Init, Started, Undecided, NoFlow
<1>3. orders \in Seq(Made) /\ content \in 0 .. MaxEdits
  BY RequisitionAssumption DEF Init
<1>4. OrdersAreSound
  BY DEF Init, OrdersAreSound, OneOrder, OrdersAreSigned
<1> QED BY <1>1, <1>2, <1>3, <1>4 DEF Init, PRInv, PRTypes, ChangesAreNoticed, EngineFirst

\* A PO more, for an accounted content or one that a client asked for; the first if the
\* system makes it.
LEMMA OneMore ==
  ASSUME orders \in Seq(Made), OrdersAreSound, Accounted \subseteq Accounted', NEW po \in Made,
         orders' = Append(orders, po),
         po.by = "client" \/ po.content \in Accounted', po.by = "system" => orders = <<>>
  PROVE  orders' \in Seq(Made) /\ OrdersAreSound'
<1>1. /\ orders' \in Seq(Made) /\ DOMAIN orders' = 1 .. Len(orders) + 1 /\ Len(orders) \in Nat
      /\ DOMAIN orders = 1 .. Len(orders)
      /\ \A n \in DOMAIN orders : orders'[n] = orders[n]
      /\ orders'[Len(orders) + 1] = po
  OBVIOUS
<1>2. OneOrder'
  BY <1>1 DEF OrdersAreSound, OneOrder
<1>3. OrdersAreSigned'
  BY <1>1 DEF OrdersAreSound, OrdersAreSigned, Accounted
<1> QED BY <1>1, <1>2, <1>3 DEF OrdersAreSound

LEMMA NoneMore ==
  ASSUME OrdersAreSound, Accounted \subseteq Accounted', UNCHANGED orders
  PROVE  OrdersAreSound'
BY DEF OrdersAreSound, OneOrder, OrdersAreSigned, Accounted

\* auto_create_po_from_requisition for an accounted content
LEMMA AutoOrderIsSound ==
  ASSUME NEW lc, NEW ap, AutoOrder(lc, ap), content \in 0 .. MaxEdits, orders \in Seq(Made),
         OrdersAreSound, Accounted \subseteq Accounted', content \in Accounted'
  PROVE  /\ orders' \in Seq(Made) /\ OrdersAreSound'
         /\ lifecycle' \in {lc, "exception", "po_created"}
         /\ approval' \in {ap, "approved"}
<1>1. /\ lifecycle' \in {lc, "exception", "po_created"} /\ approval' \in {ap, "approved"}
      /\ orders' = orders \/ (orders = <<>> /\ orders' = <<PO(content, "system")>>)
  BY DEF AutoOrder
<1>2. CASE orders' = orders
  BY <1>1, <1>2, NoneMore
<1>3. CASE orders = <<>> /\ orders' = <<PO(content, "system")>>
  <2>1. /\ PO(content, "system") \in Made /\ PO(content, "system").by = "system"
        /\ PO(content, "system").content = content
    BY RequisitionAssumption DEF PO, Made, Typed
  <2>2. orders' = Append(orders, PO(content, "system"))
    BY <1>3
  <2> QED BY <1>1, <2>1, <2>2, OneMore
<1> QED BY <1>1, <1>2, <1>3

\* The newest order follows the PR, for a content that is accounted
LEMMA ResyncIsSound ==
  ASSUME Resync(orders), content \in 0 .. MaxEdits, orders \in Seq(Made), orders # <<>>,
         OrdersAreSound, Accounted \subseteq Accounted', content \in Accounted'
  PROVE  orders' \in Seq(Made) /\ OrdersAreSound'
<1> DEFINE newest == Len(orders)
<1>1. newest \in DOMAIN orders /\ orders[newest] \in Made
  OBVIOUS
<1>2. CASE orders' = orders
  BY <1>2, NoneMore
<1>3. CASE orders' = [orders EXCEPT ![newest].content = content]
  <2> DEFINE amended == [orders[newest] EXCEPT !.content = content]
  <2>1. amended \in Made /\ amended.by = orders[newest].by /\ amended.content = content
    BY <1>1, RequisitionAssumption DEF Made, Typed
  <2>2. orders' = [orders EXCEPT ![newest] = amended]
    BY <1>3
  <2> HIDE DEF amended, newest
  <2>3. /\ orders' \in Seq(Made) /\ DOMAIN orders' = DOMAIN orders
        /\ \A n \in DOMAIN orders : orders'[n] = IF n = newest THEN amended ELSE orders[n]
    BY <1>1, <2>1, <2>2
  <2>4. OneOrder'
    BY <2>1, <2>3 DEF OrdersAreSound, OneOrder
  <2>5. OrdersAreSigned'
    BY <2>1, <2>3 DEF OrdersAreSound, OrdersAreSigned, Accounted
  <2> QED BY <2>3, <2>4, <2>5 DEF OrdersAreSound
<1>4. CASE orders' = Append(orders, PO(content, "split"))
  <2>1. /\ PO(content, "split") \in Made /\ PO(content, "split").by = "split"
        /\ PO(content, "split").content = content
    BY RequisitionAssumption DEF PO, Made, Typed
  <2> QED BY <1>4, <2>1, OneMore
<1> QED BY <1>2, <1>3, <1>4 DEF Resync

\* Only what is undecided can be granted, and what is concluded is decided.
LEMMA ConcludedIsOver ==
  ASSUME flows \in [1 .. MaxFlows -> Flow], NEW i \in DOMAIN flows, NEW f \in Flow,
         flows' = [flows EXCEPT ![i] = f], Concludes(i)
  PROVE  /\ i \in Started' /\ i \notin Undecided'
         /\ \/ /\ AutoOrder("approved", "approved") /\ signed' = signed \cup {f.content}
               /\ flows[i].phase = "absent" \/ i \in Undecided
            \/ /\ lifecycle' = "rejected" /\ approval' = "rejected"
               /\ UNCHANGED <<orders, signed>>
<1>1. flows'[i] = f /\ i \in DOMAIN flows'
  OBVIOUS
<1>2. f.phase \in {"approved", "declined"}
  BY <1>1 DEF Concludes, Engine!Grant, Engine!Decline
<1>3. Engine(i)!Grant => flows[i].phase = "absent" \/ i \in Undecided
  BY DEF Engine!Grant, Engine!Live, Undecided, Started
<1> QED BY <1>1, <1>2, <1>3 DEF Concludes, Started, Undecided

\* The other instances stay as they are.
LEMMA OthersStay ==
  ASSUME flows \in [1 .. MaxFlows -> Flow], NEW i \in DOMAIN flows, NEW f \in Flow,
         flows' = [flows EXCEPT ![i] = f]
  PROVE  /\ flows' \in [1 .. MaxFlows -> Flow]
         /\ Started' \subseteq Started \cup {i}
         /\ Undecided' \subseteq Undecided \cup {i}
         /\ \A j \in Started' : j # i => flows'[j].content = flows[j].content
BY DEF Started, Undecided

LEMMA SubmitStep ==
  ASSUME PRInv, Submit
  PROVE  PRInv'
<1>1. /\ UNCHANGED <<content, unasked>> /\ PRTypes /\ OrdersAreSound
      /\ overruled' = (overruled \/ Undecided # {})
  BY DEF Submit, PRInv
<1>2. CASE ~defined
  <2>1. UNCHANGED <<flows, orders, signed>> /\ approval' = "pending" /\ lifecycle' = "submitted"
    BY <1>2 DEF Submit
  <2>2. UNCHANGED <<Started, Undecided, Accounted>>
    BY <1>1, <2>1 DEF Started, Undecided, Accounted
  <2>3. ChangesAreNoticed' /\ EngineFirst'
    BY <1>1, <2>1, <2>2 DEF PRInv, ChangesAreNoticed, EngineFirst
  <2> QED BY <1>1, <2>1, <2>2, <2>3, NoneMore DEF PRInv, PRTypes
<1>3. CASE defined
  <2>1. PICK i \in DOMAIN flows, f \in Flow :
          /\ flows[i].phase = "absent" /\ f.content = content
          /\ flows' = [flows EXCEPT ![i] = f]
          /\ \/ /\ Engine(i)!Ask \/ Engine(i)!Stall
                /\ lifecycle' = "pending_approval" /\ approval' = "pending"
                /\ UNCHANGED <<orders, signed>>
             \/ Concludes(i)
    BY <1>3 DEF Submit
  <2>2. /\ flows' \in [1 .. MaxFlows -> Flow]
        /\ Started' \subseteq Started \cup {i}
        /\ Undecided' \subseteq Undecided \cup {i}
        /\ \A j \in Started' : j # i => flows'[j].content = flows[j].content
        /\ flows'[i].content = content
    BY <1>1, <2>1, OthersStay DEF PRTypes
  <2>3. Started \subseteq Started' /\ i \notin Started
    BY <1>1, <2>1, <2>2 DEF PRTypes, Started
  <2>4. CASE /\ lifecycle' = "pending_approval" /\ approval' = "pending"
             /\ UNCHANGED <<orders, signed>>
    <3>1. UNCHANGED Accounted
      BY <1>1, <2>4 DEF Accounted
    <3>2. ChangesAreNoticed' /\ EngineFirst'
      BY <1>1, <2>2, <2>4, <3>1 DEF PRInv, ChangesAreNoticed, EngineFirst
    <3> QED BY <1>1, <2>2, <2>4, <3>1, <3>2, NoneMore DEF PRInv, PRTypes
  <2>5. CASE Concludes(i)
    <3>1. /\ i \notin Undecided'
          /\ \/ AutoOrder("approved", "approved") /\ signed' = signed \cup {content}
             \/ /\ lifecycle' = "rejected" /\ approval' = "rejected"
                /\ UNCHANGED <<orders, signed>>
      BY <1>1, <2>1, <2>5, ConcludedIsOver DEF PRTypes
    <3>2. Accounted \subseteq Accounted'
      BY <1>1, <3>1 DEF Accounted
    <3>3. EngineFirst'
      BY <1>1, <2>2, <3>1 DEF EngineFirst
    <3>4. CASE AutoOrder("approved", "approved") /\ signed' = signed \cup {content}
      <4>1. content' \in Accounted'
        BY <1>1, <3>4 DEF Accounted
      <4>2. /\ orders' \in Seq(Made) /\ OrdersAreSound'
            /\ lifecycle' \in {"approved", "exception", "po_created"}
        BY <1>1, <3>2, <3>4, <4>1, AutoOrderIsSound DEF PRTypes
      <4>3. ChangesAreNoticed'
        BY <4>1, <4>2 DEF ChangesAreNoticed
      <4> QED BY <1>1, <2>2, <3>3, <4>2, <4>3 DEF PRInv, PRTypes
    <3>5. CASE /\ lifecycle' = "rejected" /\ approval' = "rejected" /\ UNCHANGED <<orders, signed>>
      <4>1. ChangesAreNoticed'
        BY <1>1, <2>2, <3>2, <3>5 DEF PRInv, ChangesAreNoticed
      <4> QED BY <1>1, <2>2, <3>2, <3>3, <3>5, <4>1, NoneMore DEF PRInv, PRTypes
    <3> QED BY <3>1, <3>4, <3>5
  <2> QED BY <2>1, <2>4, <2>5
<1> QED BY <1>2, <1>3

LEMMA AnswerStep ==
  ASSUME PRInv, NEW i \in DOMAIN flows, Answer(i)
  PROVE  PRInv'
<1>1. /\ UNCHANGED <<content, unasked, overruled>> /\ PRTypes /\ OrdersAreSound
  BY DEF Answer, PRInv
<1>2. PICK f \in Flow :
        /\ flows[i].phase # "absent" /\ f.content = flows[i].content
        /\ flows' = [flows EXCEPT ![i] = f]
        /\ \/ /\ Engine(i)!Ask \/ Engine(i)!Stall
              /\ UNCHANGED <<lifecycle, approval, orders, signed>>
           \/ Concludes(i)
  BY DEF Answer
<1>3. i \in Started
  BY <1>2 DEF Started
<1>4. /\ flows' \in [1 .. MaxFlows -> Flow] /\ Started' \subseteq Started
      /\ Undecided' \subseteq Undecided \cup {i}
      /\ \A j \in Started' : flows'[j].content = flows[j].content
  BY <1>1, <1>2, <1>3, OthersStay DEF PRTypes
<1>5. CASE /\ Engine(i)!Ask \/ Engine(i)!Stall
           /\ UNCHANGED <<lifecycle, approval, orders, signed>>
  <2>1. i \in Undecided
    BY <1>3, <1>5 DEF Engine!Ask, Engine!Stall, Engine!Live, Undecided, Started
  <2>2. UNCHANGED Accounted
    BY <1>1, <1>5 DEF Accounted
  <2>3. ChangesAreNoticed' /\ EngineFirst'
    BY <1>1, <1>3, <1>4, <1>5, <2>1, <2>2 DEF PRInv, ChangesAreNoticed, EngineFirst
  <2> QED BY <1>1, <1>4, <1>5, <2>2, <2>3, NoneMore DEF PRInv, PRTypes
<1>6. CASE Concludes(i)
  <2>1. /\ i \notin Undecided'
        /\ \/ /\ AutoOrder("approved", "approved") /\ signed' = signed \cup {flows[i].content}
              /\ i \in Undecided
           \/ /\ lifecycle' = "rejected" /\ approval' = "rejected"
              /\ UNCHANGED <<orders, signed>>
    BY <1>1, <1>2, <1>6, ConcludedIsOver DEF PRTypes
  <2>2. Accounted \subseteq Accounted' /\ Undecided' \subseteq Undecided
    BY <1>1, <1>4, <2>1 DEF Accounted
  <2>3. CASE AutoOrder("approved", "approved") /\ signed' = signed \cup {flows[i].content}
             /\ i \in Undecided
    <3>1. content' \in Accounted'
      BY <1>1, <1>3, <2>2, <2>3 DEF PRInv, ChangesAreNoticed, Accounted
    <3>2. /\ orders' \in Seq(Made) /\ OrdersAreSound'
          /\ lifecycle' \in {"approved", "exception", "po_created"}
      BY <1>1, <2>2, <2>3, <3>1, AutoOrderIsSound DEF PRTypes
    <3>3. ChangesAreNoticed'
      BY <3>1, <3>2 DEF ChangesAreNoticed
    <3>4. EngineFirst'
      BY <1>1, <2>1, <2>2, <2>3 DEF PRInv, EngineFirst
    <3> QED BY <1>1, <1>4, <3>2, <3>3, <3>4 DEF PRInv, PRTypes
  <2>4. CASE /\ lifecycle' = "rejected" /\ approval' = "rejected" /\ UNCHANGED <<orders, signed>>
    <3>1. ChangesAreNoticed' /\ EngineFirst'
      BY <1>1, <1>4, <2>2, <2>4 DEF PRInv, ChangesAreNoticed, EngineFirst
    <3> QED BY <1>1, <1>4, <2>2, <2>4, <3>1, NoneMore DEF PRInv, PRTypes
  <2> QED BY <2>1, <2>3, <2>4
<1> QED BY <1>2, <1>5, <1>6

LEMMA ApproveStep ==
  ASSUME PRInv, Approve
  PROVE  PRInv'
<1>1. /\ UNCHANGED <<content, unasked>> /\ signed' = signed \cup {content}
      /\ PRTypes /\ OrdersAreSound /\ Overrules
  BY DEF Approve, PRInv
<1>2. Accounted \subseteq Accounted' /\ content \in Accounted' /\ content' \in Accounted'
  BY <1>1 DEF Accounted
<1>3. /\ flows' \in [1 .. MaxFlows -> Flow] /\ Started' = Started /\ Undecided' \subseteq Undecided
  <2>1. CASE ClosesFlows
    <3>1. PICK vain \in SUBSET {i \in Started : flows[i].phase = "stalled"} :
            flows' = [i \in DOMAIN flows |->
              IF flows[i].phase = "open" \/ i \in vain THEN [flows[i] EXCEPT !.phase = "approved"]
              ELSE flows[i]]
      BY <2>1 DEF ClosesFlows
    <3>2. \A i \in DOMAIN flows :
             /\ [flows[i] EXCEPT !.phase = "approved"] \in Flow
             /\ [flows[i] EXCEPT !.phase = "approved"].phase = "approved"
      BY <1>1 DEF PRTypes, Flow, Phases
    <3> QED BY <1>1, <3>1, <3>2 DEF PRTypes, Started, Undecided
  <2>2. CASE UNCHANGED flows
    BY <1>1, <2>2 DEF PRTypes, Started, Undecided
  <2> QED BY <2>1, <2>2 DEF Approve
<1>4. orders' \in Seq(Made) /\ OrdersAreSound'
      /\ lifecycle' \in {"approved", "exception", "po_created"}
  <2>1. CASE AutoOrder("approved", Naive)
    BY <1>1, <1>2, <2>1, AutoOrderIsSound DEF PRTypes
  <2>2. CASE Resync(orders) /\ lifecycle' = "approved" /\ orders # <<>>
    BY <1>1, <1>2, <2>2, ResyncIsSound DEF PRTypes
  <2>3. CASE UNCHANGED orders /\ lifecycle' = "approved"
    BY <1>1, <1>2, <2>3, NoneMore DEF PRTypes
  <2> QED BY <2>1, <2>2, <2>3 DEF Approve
<1>5. ChangesAreNoticed'
  BY <1>2, <1>4 DEF ChangesAreNoticed
<1>6. EngineFirst'
  BY <1>1, <1>3 DEF PRInv, EngineFirst, Overrules
<1> QED BY <1>1, <1>3, <1>4, <1>5, <1>6 DEF PRInv, PRTypes

\* The other transitions, and everything that leaves the instances alone
LEMMA OtherSteps ==
  ASSUME PRInv,
         \/ Transition("pending_approval", "pending_approval") \/ Transition("reject", "rejected")
         \/ Transition("cancel", "cancelled") \/ Transition("close", "closed")
         \/ Delete \/ EditHeader \/ EditLines \/ OpenForm \/ ConvertToPO \/ RetryException
         \/ Sweep \/ DelayEnds \/ ChangeReadiness
  PROVE  PRInv'
<1>1. UNCHANGED flows /\ Started' = Started /\ Undecided' = Undecided
  BY DEF Transition, Delete, EditHeader, EditLines, OpenForm, ConvertToPO, RetryException, Sweep,
         DelayEnds, ChangeReadiness, history, Started, Undecided
<1>2. Accounted \subseteq Accounted'
  BY DEF Accounted, Transition, Delete, EditHeader, EditLines, Behind, OpenForm, ConvertToPO,
         RetryException, Sweep, DelayEnds, ChangeReadiness, history
<1>3. PRTypes /\ OrdersAreSound /\ ChangesAreNoticed /\ EngineFirst
  BY DEF PRInv
<1>4. ASSUME NEW request, NEW to \in {"pending_approval", "rejected", "cancelled", "closed"},
             Transition(request, to)
      PROVE  PRInv'
  <2>1. UNCHANGED <<content, orders>> /\ lifecycle' = to /\ Overrules
    BY <1>4 DEF Transition
  <2>2. approval' = "approved" => content \in Accounted'
    BY <1>4 DEF Transition, Naive, Accounted
  <2>3. ChangesAreNoticed'
    BY <1>1, <1>2, <1>3, <2>1, <2>2 DEF ChangesAreNoticed
  <2>4. EngineFirst'
    BY <1>1, <1>3, <2>1 DEF EngineFirst, Overrules
  <2> QED BY <1>1, <1>2, <1>3, <2>1, <2>3, <2>4, NoneMore DEF PRInv, PRTypes
<1>5. CASE Delete
  <2>1. UNCHANGED <<content, orders, approval, signed, unasked, overruled>> /\ lifecycle' = "deleted"
    BY <1>5 DEF Delete, history
  <2>2. ChangesAreNoticed' /\ EngineFirst'
    BY <1>1, <1>2, <1>3, <2>1 DEF ChangesAreNoticed, EngineFirst
  <2> QED BY <1>1, <1>2, <1>3, <2>1, <2>2, NoneMore DEF PRInv, PRTypes
<1>6. CASE EditHeader \/ EditLines
  <2>1. /\ UNCHANGED <<orders, overruled>> /\ content' = content + 1 /\ content < MaxEdits
        /\ approval' \in {approval, "pending"}
        /\ lifecycle' = lifecycle \/ (lifecycle # "draft" /\ lifecycle' = "pending_approval")
        /\ Behind
    BY <1>6 DEF EditHeader, EditLines
  <2>2. content' \in 0 .. MaxEdits
    BY <1>3, <2>1, RequisitionAssumption DEF PRTypes
  <2>3. lifecycle # "draft" \/ approval = "approved" => content' \in Accounted'
    BY <2>1 DEF Behind, Accounted
  <2>4. ChangesAreNoticed'
    BY <1>1, <1>3, <2>1, <2>3 DEF ChangesAreNoticed
  <2>5. EngineFirst'
    BY <1>1, <1>3, <2>1 DEF EngineFirst
  <2> QED BY <1>1, <1>2, <1>3, <2>1, <2>2, <2>4, <2>5, NoneMore DEF PRInv, PRTypes
<1>7. CASE OpenForm \/ DelayEnds \/ ChangeReadiness
  <2>1. UNCHANGED <<content, orders, approval, signed, unasked, overruled, lifecycle>>
    BY <1>7 DEF OpenForm, DelayEnds, ChangeReadiness, history
  <2>2. ChangesAreNoticed' /\ EngineFirst'
    BY <1>1, <1>2, <1>3, <2>1 DEF ChangesAreNoticed, EngineFirst
  <2> QED BY <1>1, <1>2, <1>3, <2>1, <2>2, NoneMore DEF PRInv, PRTypes
<1>8. CASE ConvertToPO
  <2>1. PICK made \in {content, Typed} : orders' = Append(orders, PO(made, "client"))
    BY <1>8 DEF ConvertToPO
  <2>2. UNCHANGED <<content, approval, signed, unasked, overruled, lifecycle>>
    BY <1>8 DEF ConvertToPO, history
  <2>3. PO(made, "client") \in Made /\ PO(made, "client").by = "client"
    BY <1>3, RequisitionAssumption DEF PO, Made, Typed, PRTypes
  <2>4. orders' \in Seq(Made) /\ OrdersAreSound'
    BY <1>2, <1>3, <2>1, <2>3, OneMore DEF PRTypes
  <2>5. ChangesAreNoticed' /\ EngineFirst'
    BY <1>1, <1>2, <1>3, <2>2 DEF ChangesAreNoticed, EngineFirst
  <2> QED BY <1>1, <1>3, <2>2, <2>4, <2>5 DEF PRInv, PRTypes
<1>9. CASE RetryException
  <2>1. UNCHANGED <<content, signed>> /\ AutoOrder(lifecycle, approval) /\ Overrules
        /\ unasked' = IF lifecycle = "exception" THEN unasked ELSE unasked \cup {content}
    BY <1>9 DEF RetryException
  <2>2. content \in Accounted' /\ content' \in Accounted'
    BY <1>3, <2>1 DEF ChangesAreNoticed, Accounted
  <2>3. /\ orders' \in Seq(Made) /\ OrdersAreSound'
        /\ lifecycle' \in {lifecycle, "exception", "po_created"}
    BY <1>2, <1>3, <2>1, <2>2, AutoOrderIsSound DEF PRTypes
  <2>4. ChangesAreNoticed'
    BY <1>1, <1>3, <2>2, <2>3 DEF ChangesAreNoticed
  <2>5. EngineFirst'
    BY <1>1, <1>3, <2>1 DEF EngineFirst, Overrules
  <2> QED BY <1>1, <1>3, <2>1, <2>3, <2>4, <2>5 DEF PRInv, PRTypes
<1>10. CASE Sweep
  <2>1. /\ UNCHANGED <<content, signed, unasked, overruled>> /\ AutoOrder(lifecycle, approval)
        /\ approval = "approved"
    BY <1>10 DEF Sweep, history
  <2>2. content \in Accounted' /\ content' \in Accounted'
    BY <1>2, <1>3, <2>1 DEF ChangesAreNoticed
  <2>3. /\ orders' \in Seq(Made) /\ OrdersAreSound'
        /\ lifecycle' \in {lifecycle, "exception", "po_created"}
    BY <1>2, <1>3, <2>1, <2>2, AutoOrderIsSound DEF PRTypes
  <2>4. ChangesAreNoticed'
    BY <1>1, <1>3, <2>2, <2>3 DEF ChangesAreNoticed
  <2>5. EngineFirst'
    BY <1>1, <1>3, <2>1 DEF EngineFirst
  <2> QED BY <1>1, <1>3, <2>1, <2>3, <2>4, <2>5 DEF PRInv, PRTypes
<1> QED BY <1>4, <1>5, <1>6, <1>7, <1>8, <1>9, <1>10

LEMMA RequisitionStep ==
  ASSUME PRInv, [Next]_vars
  PROVE  PRInv'
<1>1. CASE UNCHANGED vars
  <2>1. UNCHANGED <<lifecycle, approval, content, flows, orders, signed, unasked, overruled>>
    BY <1>1 DEF vars, prVars, history
  <2>2. UNCHANGED <<Started, Undecided, Accounted>>
    BY <2>1 DEF Started, Undecided, Accounted
  <2> QED BY <2>1, <2>2, NoneMore DEF PRInv, PRTypes, ChangesAreNoticed, EngineFirst
<1>2. CASE Next
  BY <1>2, SubmitStep, AnswerStep, ApproveStep, OtherSteps DEF Next
<1> QED BY <1>1, <1>2

LEMMA RequisitionInvariant == Spec => []PRInv
<1>1. Init => PRInv
  BY RequisitionInit
<1>2. PRInv /\ [Next]_vars => PRInv'
  BY RequisitionStep
<1> QED BY <1>1, <1>2, PTL DEF Spec

-----------------------------------------------------------------------------
(***************************************************************************)
(* Theorems                                                                 *)
(***************************************************************************)
\* Whatever the clients send and whatever the PR is worth, the system makes one
\* order of it, if any, and no order of the system is for a content that nobody
\* signed, unless the naive rule passed it or a client brought it past the
\* approvers (auto_create_po_from_requisition and everybody who calls it, and
\* the amendments of a re-approval).
THEOREM OneSignedOrder == Spec => []OrdersAreSound
<1>1. PRInv => OrdersAreSound
  BY DEF PRInv
<1> QED BY <1>1, RequisitionInvariant, PTL

\* While an instance waits for its approvers, a PR counts as approved only where
\* a request of a client has stamped it, or sent it again, over the instance's
\* head: the naive rule of the transitions, or the wait for delay_until.
THEOREM EngineHasTheSay == Spec => []EngineDecides
<1>1. Waiting \subseteq Undecided
  BY DEF Waiting, Undecided
<1>2. PRInv => EngineDecides
  BY <1>1 DEF PRInv, EngineFirst, EngineDecides
<1> QED BY <1>2, RequisitionInvariant, PTL

-----------------------------------------------------------------------------
(***************************************************************************)
(* What the pages do not do                                                 *)
(***************************************************************************)
PagesAreFollowed == "pages" \in DOMAIN Offered => FollowsPages(Offered["pages"])

\* A client that follows the pages goes over nobody's head, and past the approvers it
\* brings only what the naive rule passes.
PagesAsk == client = "pages" => ~overruled /\ (~low => unasked = {})

OnPages ==
  client = "pages" =>
    /\ ~overruled
    /\ ~low => unasked = {}
    /\ lifecycle = "draft" => unasked = {} /\ approval = "pending"
    /\ lifecycle \in {"draft", "submitted"} => Started = {}
    /\ lifecycle \in {"exception", "po_created"} => Undecided = {}

PageInv == client \in DOMAIN Offered /\ PRInv /\ OnPages

LEMMA SentByPages ==
  ASSUME PagesAreFollowed, client \in DOMAIN Offered, client = "pages",
         NEW request, Sends(request)
  PROVE  /\ request \in {"submit", "header", "lines"} => lifecycle = "draft"
         /\ request \in {"approve", "reject"} => Started = {}
         /\ request \in {"pending_approval", "cancel"} => lifecycle = "submitted"
         /\ request = "close" => lifecycle = "po_created"
         /\ request = "retry" => lifecycle = "exception"
BY DEF PagesAreFollowed, FollowsPages, Sends

LEMMA OrderSays ==
  ASSUME NEW lc, NEW ap, AutoOrder(lc, ap)
  PROVE  /\ lifecycle' \in {lc, "exception", "po_created"}
         /\ approval' \in {ap, "approved"}
BY DEF AutoOrder

LEMMA PageInit ==
  ASSUME Init
  PROVE  OnPages /\ client \in DOMAIN Offered
BY DEF Init, OnPages, Started, Undecided, NoFlow

LEMMA PageSubmit ==
  ASSUME PagesAreFollowed, PageInv, client = "pages", Submit
  PROVE  OnPages'
<1>1. /\ lifecycle = "draft" /\ Started = {} /\ Undecided = {} /\ unasked = {} /\ ~overruled
      /\ flows \in [1 .. MaxFlows -> Flow] /\ UNCHANGED unasked /\ ~overruled'
  <2>1. lifecycle = "draft"
    BY SentByPages DEF PageInv, Submit
  <2>2. Started = {} /\ unasked = {} /\ ~overruled
    BY <2>1 DEF PageInv, OnPages
  <2> QED BY <2>1, <2>2 DEF Undecided, Submit, PageInv, PRInv, PRTypes
<1>2. CASE ~defined
  <2>1. UNCHANGED flows /\ lifecycle' = "submitted"
    BY <1>2 DEF Submit
  <2>2. Started' = {} /\ Undecided' = {}
    BY <1>1, <2>1 DEF Started, Undecided
  <2> QED BY <1>1, <2>1, <2>2 DEF OnPages
<1>3. CASE defined
  <2>1. PICK i \in DOMAIN flows, f \in Flow :
          /\ flows[i].phase = "absent"
          /\ flows' = [flows EXCEPT ![i] = f]
          /\ lifecycle' = "pending_approval" \/ Concludes(i)
    BY <1>3 DEF Submit
  <2>2. CASE lifecycle' = "pending_approval"
    BY <1>1, <2>2 DEF OnPages
  <2>3. CASE Concludes(i)
    <3>1. /\ i \notin Undecided'
          /\ AutoOrder("approved", "approved") \/ lifecycle' = "rejected"
      BY <1>1, <2>1, <2>3, ConcludedIsOver
    <3>2. Undecided' \subseteq Undecided \cup {i}
      BY <1>1, <2>1, OthersStay
    <3>3. Undecided' = {}
      BY <1>1, <3>1, <3>2
    <3>4. lifecycle' \notin {"draft", "submitted"}
      BY <3>1, OrderSays
    <3> QED BY <1>1, <3>3, <3>4 DEF OnPages
  <2> QED BY <2>1, <2>2, <2>3
<1> QED BY <1>2, <1>3

LEMMA PageAnswer ==
  ASSUME PageInv, client = "pages", NEW i \in DOMAIN flows, Answer(i)
  PROVE  OnPages'
<1>1. PICK f \in Flow :
        /\ flows[i].phase # "absent"
        /\ flows' = [flows EXCEPT ![i] = f]
        /\ \/ /\ Engine(i)!Ask \/ Engine(i)!Stall
              /\ UNCHANGED <<lifecycle, approval, orders, signed>>
           \/ Concludes(i)
  BY DEF Answer
<1>2. /\ i \in Started /\ flows \in [1 .. MaxFlows -> Flow]
      /\ UNCHANGED <<low, unasked, overruled>> /\ ~overruled /\ (~low => unasked = {})
      /\ lifecycle \notin {"draft", "submitted"}
  BY <1>1 DEF Started, Answer, PageInv, OnPages, PRInv, PRTypes
<1>3. /\ Undecided' \subseteq Undecided \cup {i} /\ \A j, k \in Undecided : j = k
  BY <1>1, <1>2, OthersStay DEF PageInv, PRInv, EngineFirst
<1>4. CASE /\ Engine(i)!Ask \/ Engine(i)!Stall
           /\ UNCHANGED <<lifecycle, approval, orders, signed>>
  <2>1. i \in Undecided
    BY <1>2, <1>4 DEF Engine!Ask, Engine!Stall, Engine!Live, Undecided, Started
  <2> QED BY <1>2, <1>3, <1>4, <2>1 DEF OnPages, PageInv
<1>5. CASE Concludes(i)
  <2>1. /\ i \notin Undecided'
        /\ \/ AutoOrder("approved", "approved") /\ i \in Undecided
           \/ lifecycle' = "rejected"
    BY <1>1, <1>2, <1>5, ConcludedIsOver DEF Started
  <2>2. CASE AutoOrder("approved", "approved") /\ i \in Undecided
    BY <1>2, <1>3, <2>1, <2>2, OrderSays DEF OnPages
  <2>3. CASE lifecycle' = "rejected"
    BY <1>2, <2>3 DEF OnPages
  <2> QED BY <2>1, <2>2, <2>3
<1> QED BY <1>1, <1>4, <1>5

LEMMA PageOthers ==
  ASSUME PagesAreFollowed, PageInv, client = "pages",
         \/ Approve
         \/ Transition("pending_approval", "pending_approval") \/ Transition("reject", "rejected")
         \/ Transition("cancel", "cancelled") \/ Transition("close", "closed")
         \/ Delete \/ EditHeader \/ EditLines \/ OpenForm \/ ConvertToPO \/ RetryException
         \/ Sweep \/ DelayEnds \/ ChangeReadiness
  PROVE  OnPages'
<1>1. /\ OnPages /\ ~overruled /\ (~low => unasked = {}) /\ Undecided \subseteq Started
      /\ client \in DOMAIN Offered
  BY DEF PageInv, OnPages, Undecided
<1>2. CASE Approve
  <2>1. Started = {} /\ UNCHANGED <<low, unasked>> /\ Overrules
    BY <1>1, <1>2, SentByPages DEF Approve
  <2>2. Started' = {} /\ Undecided' = {}
    <3>1. flows' = flows
          \/ \E vain \in SUBSET {i \in Started : flows[i].phase = "stalled"} :
               flows' = [i \in DOMAIN flows |->
                 IF flows[i].phase = "open" \/ i \in vain THEN [flows[i] EXCEPT !.phase = "approved"]
                 ELSE flows[i]]
      BY <1>2 DEF Approve, ClosesFlows
    <3> QED BY <2>1, <3>1 DEF Started, Undecided
  <2>3. lifecycle' \in {"approved", "exception", "po_created"}
    BY <1>2, OrderSays DEF Approve
  <2> QED BY <1>1, <2>1, <2>2, <2>3 DEF OnPages, Overrules
<1>3. ASSUME UNCHANGED flows
      PROVE  Started' = Started /\ Undecided' = Undecided
  BY <1>3 DEF Started, Undecided
<1>4. ASSUME NEW request \in {"pending_approval", "reject", "cancel", "close"},
             NEW to \in {"pending_approval", "rejected", "cancelled", "closed"},
             Transition(request, to)
      PROVE  OnPages'
  <2>1. Undecided = {}
    BY <1>1, <1>4, SentByPages DEF Transition, OnPages
  <2>2. UNCHANGED <<low, flows>> /\ Overrules /\ lifecycle' = to
        /\ (~low => unasked' = unasked)
    BY <1>4 DEF Transition
  <2> QED BY <1>1, <1>3, <2>1, <2>2 DEF OnPages, Overrules
<1>5. CASE Delete
  <2>1. UNCHANGED <<low, flows, unasked, overruled>> /\ lifecycle' = "deleted"
    BY <1>5 DEF Delete, history
  <2> QED BY <1>1, <1>3, <2>1 DEF OnPages
<1>6. CASE EditHeader \/ EditLines
  <2>1. lifecycle = "draft"
    BY <1>1, <1>6, SentByPages DEF EditHeader, EditLines
  <2>2. UNCHANGED <<lifecycle, approval, flows, unasked, overruled>> /\ unasked = {}
    BY <1>1, <1>6, <2>1 DEF EditHeader, EditLines, Behind, OnPages
  <2> QED BY <1>1, <1>3, <2>1, <2>2 DEF OnPages
<1>7. CASE OpenForm \/ ConvertToPO \/ DelayEnds \/ ChangeReadiness
  <2>1. UNCHANGED <<low, lifecycle, approval, flows, unasked, overruled>>
    BY <1>7 DEF OpenForm, ConvertToPO, DelayEnds, ChangeReadiness, history
  <2> QED BY <1>1, <1>3, <2>1 DEF OnPages
<1>8. CASE RetryException
  <2>1. lifecycle = "exception" /\ Undecided = {}
    BY <1>1, <1>8, SentByPages DEF RetryException, OnPages
  <2>2. UNCHANGED <<low, flows, unasked>> /\ Overrules /\ AutoOrder(lifecycle, approval)
    BY <1>8, <2>1 DEF RetryException
  <2>3. lifecycle' \in {"exception", "po_created"}
    BY <2>1, <2>2, OrderSays
  <2> QED BY <1>1, <1>3, <2>1, <2>2, <2>3 DEF OnPages, Overrules
<1>9. CASE Sweep
  <2>1. UNCHANGED <<low, flows, unasked, overruled>> /\ AutoOrder(lifecycle, approval)
        /\ approval = "approved"
    BY <1>9 DEF Sweep, history
  <2>2. Undecided = {}
    BY <1>1, <2>1 DEF PageInv, PRInv, EngineFirst
  <2>3. lifecycle' = "draft" => lifecycle = "draft"
    BY <2>1, OrderSays
  <2>4. lifecycle # "draft"
    BY <1>1, <2>1 DEF OnPages
  <2> QED BY <1>1, <1>3, <2>1, <2>2, <2>4, OrderSays DEF OnPages
<1> QED BY <1>2, <1>4, <1>5, <1>6, <1>7, <1>8, <1>9

\* On the pages no request is stamped over an instance's head, and no PR above the
\* threshold gets past its approvers: with the theorems above, the engine decides,
\* and every order the system makes is for what was signed.
THEOREM PagesAskFirst ==
  ASSUME PagesAreFollowed
  PROVE  Spec => []PagesAsk
<1>1. Init => client \in DOMAIN Offered /\ OnPages
  BY PageInit
<1>2. PageInv /\ PRInv' /\ [Next]_vars => (client \in DOMAIN Offered /\ OnPages)'
  <2> SUFFICES ASSUME PageInv, [Next]_vars PROVE client' \in DOMAIN Offered /\ OnPages'
    OBVIOUS
  <2>1. UNCHANGED client /\ client \in DOMAIN Offered
    BY DEF Next, vars, PageInv
  <2>2. CASE client # "pages"
    BY <2>1, <2>2 DEF OnPages
  <2>3. CASE client = "pages" /\ Next
    BY <2>1, <2>3, PageSubmit, PageAnswer, PageOthers DEF Next
  <2>4. CASE UNCHANGED vars
    <3>1. UNCHANGED <<client, low, lifecycle, approval, flows, unasked, overruled>>
      BY <2>4 DEF vars, prVars, history
    <3> QED BY <2>1, <3>1 DEF PageInv, OnPages, Started, Undecided
  <2> QED BY <2>1, <2>2, <2>3, <2>4
<1>3. PageInv => PagesAsk
  BY DEF PageInv, OnPages, PagesAsk
<1>4. PageInv <=> (client \in DOMAIN Offered /\ OnPages) /\ PRInv
  BY DEF PageInv
<1> QED BY <1>1, <1>2, <1>3, <1>4, RequisitionInvariant, PTL DEF Spec

-----------------------------------------------------------------------------
(***************************************************************************)
(* The pages that enter a requisition: the preview they show is that of the *)
(* draft, and what they enter can be ordered.                               *)
(***************************************************************************)

(* The rows at some places are rows of the sequence, as many as there are places. *)
LEMMA RowsAreThere ==
  ASSUME NEW items \in Seq(LineRows), NEW K \in SUBSET (DOMAIN items)
  PROVE  /\ RowsAt(items, K) \in Seq(LineRows)
         /\ Len(RowsAt(items, K)) <= Len(items)
         /\ \A n \in DOMAIN RowsAt(items, K) : \E k \in K : RowsAt(items, K)[n] = items[k]
<1> DEFINE Upto(k) == {j \in K : j <= k}
           rank == [k \in K |-> Cardinality(Upto(k))]
           At(n) == CHOOSE k \in K : Cardinality({j \in K : j <= k}) = n
<1>1. DOMAIN items = 1..Len(items) /\ Len(items) \in Nat /\ K \subseteq 1..Len(items)
  OBVIOUS
<1>2. /\ IsFiniteSet(K) /\ Cardinality(K) \in Nat
      /\ IsFiniteSet(1..Len(items)) /\ Cardinality(1..Len(items)) = Len(items)
  <2>1. IsFiniteSet(1..Len(items)) /\ Cardinality(1..Len(items)) = Len(items)
    <3>1. ASSUME NEW n \in Nat PROVE IsFiniteSet(1..n) /\ Cardinality(1..n) = n
      BY FS_Interval
    <3> QED BY <1>1, <3>1
  <2>2. IsFiniteSet(K)
    BY <1>1, <2>1, FS_Subset
  <2> QED BY <2>1, <2>2, FS_CardinalityType
<1>3. Cardinality(K) <= Len(items)
  BY <1>1, <1>2, FS_Subset
<1>4. \A k \in K : /\ IsFiniteSet(Upto(k)) /\ Cardinality(Upto(k)) \in 1..Cardinality(K)
                   /\ Cardinality(Upto(k)) \in Nat
  <2> SUFFICES ASSUME NEW k \in K
               PROVE  /\ IsFiniteSet(Upto(k)) /\ Cardinality(Upto(k)) \in 1..Cardinality(K)
                      /\ Cardinality(Upto(k)) \in Nat
    OBVIOUS
  <2>1. Upto(k) \subseteq K /\ k \in Upto(k)
    BY <1>1
  <2>2. IsFiniteSet(Upto(k)) /\ Cardinality(Upto(k)) <= Cardinality(K)
    BY <1>2, <2>1, FS_Subset
  <2>3. Cardinality(Upto(k)) \in Nat /\ Cardinality(Upto(k)) # 0
    BY <2>1, <2>2, FS_CardinalityType, FS_EmptySet
  <2> QED BY <1>2, <2>2, <2>3
<1>5. \A j, k \in K : j < k => Cardinality(Upto(j)) < Cardinality(Upto(k))
  <2> SUFFICES ASSUME NEW j \in K, NEW k \in K, j < k
               PROVE  Cardinality(Upto(j)) < Cardinality(Upto(k))
    OBVIOUS
  <2>1. Upto(j) \subseteq Upto(k) /\ k \notin Upto(j) /\ k \in Upto(k)
    BY <1>1
  <2>2. Cardinality(Upto(j)) <= Cardinality(Upto(k)) /\ Cardinality(Upto(j)) # Cardinality(Upto(k))
    BY <1>4, <2>1, FS_Subset
  <2>3. Cardinality(Upto(j)) \in Nat /\ Cardinality(Upto(k)) \in Nat
    BY <1>4
  <2> HIDE DEF Upto
  <2> QED BY <2>2, <2>3
<1>6. rank \in [K -> 1..Cardinality(K)]
  BY <1>4
<1>7. \A j, k \in K : rank[j] = rank[k] => j = k
  <2> SUFFICES ASSUME NEW j \in K, NEW k \in K, j # k PROVE Cardinality(Upto(j)) # Cardinality(Upto(k))
    OBVIOUS
  <2>1. j < k \/ k < j
    BY <1>1
  <2> HIDE DEF Upto
  <2> QED BY <1>4, <1>5, <2>1
<1>8. rank \in Injection(K, 1..Cardinality(K))
  BY <1>6, <1>7 DEF Injection, IsInjective
<1>9. Cardinality(1..Cardinality(K)) = Cardinality(K) /\ IsFiniteSet(1..Cardinality(K))
  BY <1>2, FS_Interval
<1>10. rank \in Surjection(K, 1..Cardinality(K))
  <2> HIDE DEF rank
  <2> QED BY <1>8, <1>9, FS_Injection
<1>11. \A n \in 1..Cardinality(K) : \E k \in K : Cardinality(Upto(k)) = n
  BY <1>10 DEF Surjection
<1>12. \A n \in 1..Cardinality(K) : At(n) \in K
  BY <1>11
<1> HIDE DEF At
<1>13. \A n \in 1..Cardinality(K) : items[At(n)] \in LineRows
  BY <1>1, <1>12
<1>14. RowsAt(items, K) = [n \in 1..Cardinality(K) |-> items[At(n)]]
  BY DEF RowsAt, At
<1>15. RowsAt(items, K) \in Seq(LineRows) /\ Len(RowsAt(items, K)) = Cardinality(K)
       /\ DOMAIN RowsAt(items, K) = 1..Cardinality(K)
  BY <1>2, <1>13, <1>14
<1> QED BY <1>3, <1>12, <1>14, <1>15

(***************************************************************************)
(* The invariant                                                            *)
(***************************************************************************)
(* What an order can be made of *)
Orderable(header, lines) ==
  /\ header.supplier # None /\ header.titled
  /\ \A k \in DOMAIN lines : lines[k]["account"]

Submissions ==
  [nr : 0..MaxClicks, from : {"wizard", "quick", "gone"}, header : Headers, lines : Seq(LineRows), at : Nat]

EntryTypes == EntryTypeOK /\ saving \subseteq Submissions

(* What was checked when a submission began is what it carries. *)
CarriesOrderable ==
  \A sub \in saving : sub.at \in 0..Len(entered) /\ Orderable(sub.header, sub.lines)

(* The quick page shows one line, and submits only with a supplier. *)
QuickIsComplete ==
  page = "quick" =>
    /\ Len(lineItems) = 1
    /\ wizardStep = 3 => head.titled /\ head.supplier # None

(* A live request is about the draft on the summary, and with none under way the
   preview is that of the draft, or none. *)
LiveIsCurrent ==
  page = "wizard" =>
    /\ \A r \in requested : r.live => wizardStep = 3 /\ r.draft = RoutingDraft(head, lineItems)
    /\ wizardStep = 3 /\ ~ previewing => preview \in {None, RoutingDraft(head, lineItems)}

EntryInv == EntryTypes /\ CarriesOrderable /\ EnteredIsOrderable /\ QuickIsComplete /\ LiveIsCurrent

LEMMA EntryInvInit == EntryInit => EntryInv
<1> SUFFICES ASSUME EntryInit PROVE EntryInv
  OBVIOUS
<1>1. BlankRow \in LineRows /\ <<BlankRow>> \in Seq(LineRows) /\ Len(<<BlankRow>>) = 1
  BY DEF BlankRow, LineRows
<1>2. MaxRows \in Nat \ {0} /\ MaxClicks \in Nat
  BY EntryAssumption
<1>3. head \in Headers
  BY DEF EntryInit, Headers
<1>4. copying \in CopySources \cup {None}
  BY DEF EntryInit
<1>5. EntryTypes
  <2>1. lineItems \in Seq(LineRows) /\ Len(lineItems) \in 1..MaxRows
    BY <1>1, <1>2 DEF EntryInit
  <2>2. clicks \in 0..MaxClicks /\ entered = << >> /\ saving = {} /\ requested = {} /\ preview = None
    BY <1>2 DEF EntryInit
  <2>3. entered \in Seq([header : Headers, lines : Seq(LineRows)])
    BY <2>2
  <2>4. page \in {"wizard", "quick", "gone"} /\ listing \in {"asked", "here", "failed"}
    BY DEF EntryInit
  <2>5. wizardStep = 1 /\ previewing = FALSE /\ busy = FALSE
    BY DEF EntryInit
  <2>6. wizardStep \in 1..3
    BY <2>5
  <2>7. previewing \in BOOLEAN /\ busy \in BOOLEAN
    BY <2>5, Zenon
  <2> QED BY <1>3, <1>4, <2>1, <2>2, <2>3, <2>4, <2>6, <2>7 DEF EntryTypes, EntryTypeOK
<1>6. CarriesOrderable /\ EnteredIsOrderable /\ LiveIsCurrent
  BY DEF EntryInit, CarriesOrderable, EnteredIsOrderable, LiveIsCurrent
<1>7. QuickIsComplete
  BY <1>1 DEF EntryInit, QuickIsComplete
<1> QED BY <1>5, <1>6, <1>7 DEF EntryInv

LEMMA DraftsAreDrafts ==
  ASSUME NEW h \in Headers, NEW items \in Seq(LineRows)
  PROVE  RoutingDraft(h, items) \in RoutingDrafts
<1>1. RowsToSubmit(items) \in Seq(LineRows)
  BY RowsAreThere DEF RowsToSubmit
<1> QED BY <1>1 DEF RoutingDraft, RoutingDrafts, Headers

LEMMA CleanedAreDead ==
  ASSUME requested \subseteq [draft : RoutingDrafts, live : BOOLEAN]
  PROVE  /\ CleanedUp(requested) \subseteq [draft : RoutingDrafts, live : BOOLEAN]
         /\ \A r \in CleanedUp(requested) : r.live = FALSE
BY DEF CleanedUp

(* The form re-renders: what was asked about another draft is dropped. *)
LEMMA RendersKeepsLive ==
  ASSUME EntryTypes, LiveIsCurrent, page = "wizard", page' = "wizard", UNCHANGED preview,
         NEW step \in 1..3, NEW h \in Headers, NEW items \in Seq(LineRows), Renders(step, h, items)
  PROVE  LiveIsCurrent' /\ previewing' \in BOOLEAN
         /\ requested' \subseteq [draft : RoutingDrafts, live : BOOLEAN]
<1> DEFINE Requested == [draft : RoutingDrafts, live : BOOLEAN]
<1>1. wizardStep' = step /\ head' = h /\ lineItems' = items
  BY DEF Renders
<1>2. previewing \in BOOLEAN /\ requested \subseteq Requested
  BY DEF EntryTypes, EntryTypeOK
<1>3. CleanedUp(requested) \subseteq Requested /\ \A r \in CleanedUp(requested) : r.live = FALSE
  BY <1>2, CleanedAreDead
<1>4. CASE step = wizardStep /\ items = lineItems /\ [h EXCEPT !.titled = head.titled] = head
  <2>1. UNCHANGED <<requested, previewing>>
    BY <1>4 DEF Renders
  <2>2. h.valued = head.valued /\ h.supplier = head.supplier /\ h.extras = head.extras
    BY <1>4 DEF Headers
  <2>3. RoutingDraft(h, items) = RoutingDraft(head, lineItems)
    BY <1>4, <2>2 DEF RoutingDraft
  <2>4. RoutingDraft(head, lineItems)' = RoutingDraft(head, lineItems)
    BY <1>1, <2>3 DEF RoutingDraft
  <2> QED BY <1>1, <1>2, <1>4, <2>1, <2>4 DEF LiveIsCurrent
<1>5. CASE ~(step = wizardStep /\ items = lineItems /\ [h EXCEPT !.titled = head.titled] = head) /\ step = 3
  <2>1. /\ requested' = CleanedUp(requested) \cup {[draft |-> RoutingDraft(h, items), live |-> TRUE]}
        /\ previewing' = TRUE
    BY <1>5 DEF Renders
  <2>2. RoutingDraft(head, lineItems)' = RoutingDraft(h, items)
    BY <1>1 DEF RoutingDraft
  <2> DEFINE asked == [draft |-> RoutingDraft(h, items), live |-> TRUE]
  <2>3. asked \in Requested
    BY DraftsAreDrafts
  <2>4. asked.draft = RoutingDraft(h, items) /\ asked.live = TRUE
    OBVIOUS
  <2>5. requested' = CleanedUp(requested) \cup {asked}
    BY <2>1
  <2> HIDE DEF asked
  <2>6. \A r \in requested' : r.live => r.draft = RoutingDraft(h, items)
    BY <1>3, <2>4, <2>5
  <2> QED BY <1>1, <1>3, <1>5, <2>1, <2>2, <2>3, <2>5, <2>6 DEF LiveIsCurrent
<1>6. CASE ~(step = wizardStep /\ items = lineItems /\ [h EXCEPT !.titled = head.titled] = head) /\ step # 3
  <2>1. requested' = CleanedUp(requested) /\ previewing' = previewing
    BY <1>6 DEF Renders
  <2> QED BY <1>1, <1>2, <1>3, <1>6, <2>1 DEF LiveIsCurrent
<1> QED BY <1>4, <1>5, <1>6

LEMMA OneRemoved ==
  ASSUME NEW S, NEW s \in Seq(S), NEW k \in DOMAIN s
  PROVE  RemoveAt(s, k) \in Seq(S) /\ Len(RemoveAt(s, k)) = Len(s) - 1
<1>1. k \in 1..Len(s) /\ Len(s) \in Nat
  OBVIOUS
<1>2. SubSeq(s, 1, k - 1) \in Seq(S) /\ Len(SubSeq(s, 1, k - 1)) = k - 1
  BY <1>1
<1>3. SubSeq(s, k + 1, Len(s)) \in Seq(S) /\ Len(SubSeq(s, k + 1, Len(s))) = Len(s) - k
  BY <1>1
<1>4. ASSUME NEW a \in Seq(S), NEW b \in Seq(S)
      PROVE  a \o b \in Seq(S) /\ Len(a \o b) = Len(a) + Len(b)
  OBVIOUS
<1>5. RemoveAt(s, k) \in Seq(S) /\ Len(RemoveAt(s, k)) = (k - 1) + (Len(s) - k)
  BY <1>2, <1>3, <1>4 DEF RemoveAt
<1> QED BY <1>1, <1>5

(* The forms of the wizard: what it shows changes, and nothing else. *)
LEMMA FormStep ==
  ASSUME EntryInv, page = "wizard",
         NEW step \in 1..3, NEW h \in Headers, NEW items \in Seq(LineRows),
         Len(items) \in 1..MaxRows, Renders(step, h, items),
         clicks' \in 0..MaxClicks, copying' \in CopySources \cup {None}, busy' \in BOOLEAN,
         UNCHANGED <<page, listing, preview, saving, entered>>
  PROVE  EntryInv'
<1>1. wizardStep' = step /\ head' = h /\ lineItems' = items
  BY DEF Renders
<1>2. LiveIsCurrent' /\ previewing' \in BOOLEAN /\ requested' \subseteq [draft : RoutingDrafts, live : BOOLEAN]
  <2>1. page' = "wizard" /\ preview' = preview /\ EntryTypes /\ LiveIsCurrent
    BY DEF EntryInv
  <2> QED BY <2>1, RendersKeepsLive
<1>3. EntryTypes'
  BY <1>1, <1>2 DEF EntryInv, EntryTypes, EntryTypeOK
<1>4. CarriesOrderable' /\ EnteredIsOrderable'
  BY DEF EntryInv, CarriesOrderable, EnteredIsOrderable
<1>5. QuickIsComplete'
  BY DEF QuickIsComplete
<1> QED BY <1>2, <1>3, <1>4, <1>5 DEF EntryInv

LEMMA WizardFormStep ==
  ASSUME EntryInv,
         \/ \E h \in Headers : TypeHeader(h)
         \/ \E k \in 1..MaxRows : RemoveRow(k) \/ \E r \in RowChoices : TypeRow(k, r)
         \/ TypeExtras \/ AddRow
         \/ \E item \in Catalog : QuickAdd(item.row)
         \/ \E target \in 1..3 : GoToStep(target)
  PROVE  EntryInv'
<1>0. /\ lineItems \in Seq(LineRows) /\ Len(lineItems) \in 1..MaxRows /\ head \in Headers
      /\ wizardStep \in 1..3 /\ clicks \in 0..MaxClicks /\ MaxClicks \in Nat /\ MaxRows \in Nat
      /\ copying \in CopySources \cup {None} /\ busy \in BOOLEAN
  BY EntryAssumption DEF EntryInv, EntryTypes, EntryTypeOK
<1>01. Click => clicks' \in 0..MaxClicks
  BY <1>0 DEF Click
<1>02. BlankRow \in LineRows
  BY DEF BlankRow, LineRows
<1>1. ASSUME NEW h \in Headers, TypeHeader(h) PROVE EntryInv'
  BY <1>0, <1>01, <1>1, FormStep DEF TypeHeader
<1>2. ASSUME NEW k \in 1..MaxRows, RemoveRow(k) PROVE EntryInv'
  <2>1. /\ RemoveAt(lineItems, k) \in Seq(LineRows)
        /\ Len(RemoveAt(lineItems, k)) = Len(lineItems) - 1
    <3>1. k \in DOMAIN lineItems
      BY <1>2 DEF RemoveRow
    <3> QED BY <1>0, <3>1, OneRemoved
  <2>2. Len(RemoveAt(lineItems, k)) \in 1..MaxRows
    BY <1>0, <1>2, <2>1 DEF RemoveRow
  <2> QED BY <1>0, <1>01, <1>2, <2>1, <2>2, FormStep DEF RemoveRow
<1>3. ASSUME NEW k \in 1..MaxRows, NEW r \in RowChoices, TypeRow(k, r) PROVE EntryInv'
  <2>1. r \in LineRows
    BY EntryAssumption
  <2>2. [lineItems EXCEPT ![k] = r] \in Seq(LineRows) /\ Len([lineItems EXCEPT ![k] = r]) = Len(lineItems)
    <3>1. k \in 1..Len(lineItems) /\ Len(lineItems) \in Nat
      BY <1>0, <1>3 DEF TypeRow
    <3>2. DOMAIN [lineItems EXCEPT ![k] = r] = 1..Len(lineItems)
      BY <1>0, <3>1
    <3>3. \A j \in 1..Len(lineItems) : [lineItems EXCEPT ![k] = r][j] \in LineRows
      BY <1>0, <2>1, <3>1
    <3> QED BY <1>0, <2>1, <3>1, <3>2, <3>3
  <2> QED BY <1>0, <1>01, <1>3, <2>2, FormStep DEF TypeRow
<1>4. CASE TypeExtras
  <2>1. [head EXCEPT !.extras = ~ @] \in Headers
    BY <1>0 DEF Headers
  <2> QED BY <1>0, <1>01, <1>4, <2>1, FormStep DEF TypeExtras
<1>5. CASE AddRow
  <2>1. Append(lineItems, BlankRow) \in Seq(LineRows) /\ Len(Append(lineItems, BlankRow)) \in 1..MaxRows
    BY <1>0, <1>02, <1>5 DEF AddRow
  <2> QED BY <1>0, <1>01, <1>5, <2>1, FormStep DEF AddRow
<1>6. ASSUME NEW item \in Catalog, QuickAdd(item.row) PROVE EntryInv'
  <2> DEFINE rows == RowsAt(lineItems, {k \in DOMAIN lineItems : lineItems[k] # BlankRow})
             items == Append(rows, item.row)
  <2>1. rows \in Seq(LineRows)
    BY <1>0, RowsAreThere
  <2>2. item.row \in LineRows
    BY EntryAssumption
  <2> HIDE DEF rows
  <2>3. items \in Seq(LineRows) /\ Len(items) >= 1
    BY <2>1, <2>2
  <2>4. Len(items) <= MaxRows /\ Renders(2, head, items)
    BY <1>6 DEF QuickAdd, rows
  <2>5. Len(items) \in 1..MaxRows
    BY <1>0, <2>3, <2>4
  <2>6. /\ page = "wizard" /\ Click
        /\ UNCHANGED <<page, copying, listing, preview, busy, saving, entered>>
    BY <1>6 DEF QuickAdd
  <2> HIDE DEF items
  <2> QED BY <1>0, <1>01, <2>3, <2>4, <2>5, <2>6, FormStep
<1>7. ASSUME NEW target \in 1..3, GoToStep(target) PROVE EntryInv'
  <2>1. Allowed(target) \in 1..3
    BY DEF Allowed
  <2> QED BY <1>0, <1>01, <1>7, <2>1, FormStep DEF GoToStep
<1> QED BY <1>1, <1>2, <1>3, <1>4, <1>5, <1>6, <1>7

LEMMA ArrivalStep ==
  ASSUME EntryInv, CopyArrives \/ ListArrives \/ (\E r \in requested : PreviewArrives(r))
  PROVE  EntryInv'
<1>0. /\ lineItems \in Seq(LineRows) /\ Len(lineItems) \in 1..MaxRows /\ head \in Headers
      /\ wizardStep \in 1..3 /\ clicks \in 0..MaxClicks /\ MaxRows \in Nat \ {0}
      /\ copying \in CopySources \cup {None}
      /\ requested \subseteq [draft : RoutingDrafts, live : BOOLEAN]
  BY EntryAssumption DEF EntryInv, EntryTypes, EntryTypeOK
<1>1. CASE CopyArrives
  <2>1. copying \in CopySources
    BY <1>0, <1>1 DEF CopyArrives
  <2> DEFINE items == IF copying.rows = << >> THEN <<BlankRow>> ELSE copying.rows
  <2>2. copying.header \in Headers /\ copying.rows \in Seq(LineRows) /\ Len(copying.rows) <= MaxRows
    BY <2>1, EntryAssumption
  <2>3. <<BlankRow>> \in Seq(LineRows) /\ Len(<<BlankRow>>) = 1
    BY DEF BlankRow, LineRows
  <2>4. items \in Seq(LineRows) /\ Len(items) \in 1..MaxRows
    BY <1>0, <2>2, <2>3
  <2>5. /\ page = "wizard" /\ clicks' = clicks /\ copying' \in CopySources \cup {None} /\ busy' \in BOOLEAN
        /\ UNCHANGED <<page, listing, preview, saving, entered>>
    BY <1>1 DEF CopyArrives
  <2>6. \/ Renders(wizardStep, copying.header, items) \/ Renders(wizardStep, head, lineItems)
    BY <1>1 DEF CopyArrives
  <2> HIDE DEF items
  <2> QED BY <1>0, <2>2, <2>4, <2>5, <2>6, FormStep
<1>2. CASE ListArrives
  <2>1. UNCHANGED <<page, wizardStep, head, lineItems, copying, preview, previewing,
                    requested, busy, saving, entered, clicks>> /\ listing' \in {"asked", "here", "failed"}
    BY <1>2 DEF ListArrives
  <2>2. LiveIsCurrent'
    BY <2>1 DEF EntryInv, LiveIsCurrent, RoutingDraft
  <2> QED BY <2>1, <2>2 DEF EntryInv, EntryTypes, EntryTypeOK, CarriesOrderable, EnteredIsOrderable,
                            QuickIsComplete
<1>3. ASSUME NEW r \in requested, PreviewArrives(r) PROVE EntryInv'
  <2>1. /\ page = "wizard" /\ requested' = requested \ {r}
        /\ UNCHANGED <<page, wizardStep, head, lineItems, copying, listing, busy, saving, entered, clicks>>
    BY <1>3 DEF PreviewArrives
  <2>2. r.draft \in RoutingDrafts /\ r.live \in BOOLEAN
    BY <1>0
  <2>3. RoutingDraft(head, lineItems)' = RoutingDraft(head, lineItems)
    BY <2>1 DEF RoutingDraft
  <2>4. \/ r.live /\ preview' \in {r.draft, None} /\ previewing' = FALSE
        \/ ~r.live /\ UNCHANGED <<preview, previewing>>
    BY <1>3, <2>2 DEF PreviewArrives
  <2>5. LiveIsCurrent'
    <3>1. CASE r.live /\ preview' \in {r.draft, None} /\ previewing' = FALSE
      <4>1. r.draft = RoutingDraft(head, lineItems)
        BY <2>1, <3>1 DEF EntryInv, LiveIsCurrent
      <4> QED BY <2>1, <2>3, <3>1, <4>1 DEF EntryInv, LiveIsCurrent
    <3>2. CASE UNCHANGED <<preview, previewing>>
      BY <2>1, <2>3, <3>2 DEF EntryInv, LiveIsCurrent
    <3> QED BY <2>4, <3>1, <3>2
  <2>6. EntryTypes'
    <3>1. preview' \in RoutingDrafts \cup {None} /\ previewing' \in BOOLEAN
      BY <2>2, <2>4 DEF EntryInv, EntryTypes, EntryTypeOK
    <3> QED BY <2>1, <3>1 DEF EntryInv, EntryTypes, EntryTypeOK
  <2> QED BY <2>1, <2>5, <2>6 DEF EntryInv, CarriesOrderable, EnteredIsOrderable, QuickIsComplete
<1> QED BY <1>1, <1>2, <1>3

(* Submissions *)
LEMMA ShownStep ==
  ASSUME EntryTypes, QuickIsComplete, UNCHANGED <<page, wizardStep, head, lineItems>>
  PROVE  QuickIsComplete'
BY DEF QuickIsComplete

LEMMA LiveStays ==
  ASSUME LiveIsCurrent, UNCHANGED <<page, wizardStep, head, lineItems, preview, previewing, requested>>
  PROVE  LiveIsCurrent'
BY DEF LiveIsCurrent, RoutingDraft

(* A submission that carries what can be ordered begins. *)
LEMMA Begins ==
  ASSUME EntryInv, NEW h \in Headers, NEW rows \in Seq(LineRows), Submits(h, rows), Orderable(h, rows),
         Click, UNCHANGED entered
  PROVE  saving' \subseteq Submissions /\ CarriesOrderable' /\ EnteredIsOrderable' /\ busy' \in BOOLEAN
<1> DEFINE sub == [nr |-> clicks, from |-> page, header |-> h, lines |-> rows, at |-> 0]
<1>0. clicks \in 0..MaxClicks /\ page \in {"wizard", "quick", "gone"} /\ saving \subseteq Submissions
      /\ entered \in Seq([header : Headers, lines : Seq(LineRows)]) /\ entered' = entered
  BY DEF EntryInv, EntryTypes, EntryTypeOK
<1>1. sub \in Submissions
  BY <1>0 DEF Submissions
<1>2. saving' = saving \cup {sub} /\ busy' = TRUE
  BY DEF Submits
<1>3. sub.at \in 0..Len(entered) /\ Orderable(sub.header, sub.lines)
  BY <1>0
<1> HIDE DEF sub
<1>4. CarriesOrderable'
  BY <1>0, <1>2, <1>3 DEF EntryInv, CarriesOrderable
<1>5. EnteredIsOrderable'
  BY <1>0 DEF EntryInv, EnteredIsOrderable
<1> QED BY <1>0, <1>1, <1>2, <1>4, <1>5

LEMMA HandleSubmitStep == ASSUME EntryInv, HandleSubmit PROVE EntryInv'
<1>0. /\ lineItems \in Seq(LineRows) /\ Len(lineItems) \in 1..MaxRows /\ head \in Headers
      /\ wizardStep \in 1..3 /\ clicks \in 0..MaxClicks /\ MaxClicks \in Nat
      /\ requested \subseteq [draft : RoutingDrafts, live : BOOLEAN]
      /\ saving \subseteq Submissions
  BY EntryAssumption DEF EntryInv, EntryTypes, EntryTypeOK
<1>1. /\ page = "wizard" /\ Click /\ clicks' \in 0..MaxClicks
      /\ UNCHANGED <<page, head, lineItems, copying, listing, preview, previewing, entered>>
  BY <1>0 DEF HandleSubmit, Click
<1>2. QuickIsComplete'
  BY <1>1 DEF QuickIsComplete
<1>3. CASE Submittable
  <2> DEFINE rows == RowsToSubmit(lineItems)
  <2>1. Submits(head, rows) /\ UNCHANGED <<wizardStep, requested>>
    BY <1>3 DEF HandleSubmit
  <2>2. rows \in Seq(LineRows) /\ \A n \in DOMAIN rows : \E k \in DOMAIN lineItems :
          rows[n] = lineItems[k] /\ lineItems[k]["description"]
    <3> DEFINE K == {k \in DOMAIN lineItems : lineItems[k]["description"]}
    <3>1. rows = RowsAt(lineItems, K) /\ K \in SUBSET (DOMAIN lineItems)
      BY DEF RowsToSubmit
    <3>2. \A k \in K : k \in DOMAIN lineItems /\ lineItems[k]["description"]
      OBVIOUS
    <3> HIDE DEF K, rows
    <3> QED BY <1>0, <3>1, <3>2, RowsAreThere
  <2>3. \A k \in DOMAIN lineItems : lineItems[k]["description"] => lineItems[k]["account"]
    <3> SUFFICES ASSUME NEW k \in DOMAIN lineItems, lineItems[k]["description"]
                 PROVE  lineItems[k]["account"]
      OBVIOUS
    <3>1. lineItems[k] # BlankRow
      BY DEF BlankRow, Fields
    <3>2. RowErrors(lineItems[k]) = {}
      BY <1>3 DEF Submittable, HasRowErrors
    <3> QED BY <3>1, <3>2 DEF RowErrors
  <2> HIDE DEF rows
  <2>4. Orderable(head, rows)
    BY <1>3, <2>2, <2>3 DEF Orderable, Submittable, HeaderComplete
  <2>5. saving' \subseteq Submissions /\ CarriesOrderable' /\ EnteredIsOrderable' /\ busy' \in BOOLEAN
    BY <1>0, <1>1, <2>1, <2>2, <2>4, Begins
  <2>6. LiveIsCurrent'
    BY <1>1, <2>1, LiveStays DEF EntryInv
  <2>7. EntryTypes'
    BY <1>1, <2>1, <2>5 DEF EntryInv, EntryTypes, EntryTypeOK
  <2> QED BY <1>2, <2>5, <2>6, <2>7 DEF EntryInv
<1>4. CASE ~Submittable
  <2>1. /\ wizardStep' \in {1, 2} /\ requested' = CleanedUp(requested)
        /\ UNCHANGED <<busy, saving>>
    BY <1>4 DEF HandleSubmit
  <2>2. requested' \subseteq [draft : RoutingDrafts, live : BOOLEAN] /\ \A r \in requested' : r.live = FALSE
    BY <1>0, <2>1, CleanedAreDead
  <2>3. LiveIsCurrent'
    BY <2>1, <2>2 DEF LiveIsCurrent
  <2>4. EntryTypes'
    BY <1>1, <2>1, <2>2 DEF EntryInv, EntryTypes, EntryTypeOK
  <2>5. CarriesOrderable' /\ EnteredIsOrderable'
    BY <1>1, <2>1 DEF EntryInv, CarriesOrderable, EnteredIsOrderable
  <2> QED BY <1>2, <2>3, <2>4, <2>5 DEF EntryInv
<1> QED BY <1>3, <1>4

LEMMA QuickPageStep ==
  ASSUME EntryInv,
         \/ \E item \in Catalog : PickItem(item)
         \/ \E s \in Sellers : PickSupplier(s)
         \/ \E target \in 1..3 : QuickStep(target)
         \/ QuickSubmit
  PROVE  EntryInv'
<1>0. /\ lineItems \in Seq(LineRows) /\ Len(lineItems) \in 1..MaxRows /\ head \in Headers
      /\ wizardStep \in 1..3 /\ clicks \in 0..MaxClicks /\ MaxClicks \in Nat /\ MaxRows \in Nat \ {0}
      /\ saving \subseteq Submissions
  BY EntryAssumption DEF EntryInv, EntryTypes, EntryTypeOK
<1>1. ASSUME NEW step \in 1..3, NEW seller \in Sellers \cup {None}, NEW items \in Seq(LineRows),
             QuickShows(step, seller, items), Len(items) = 1, step = 3 => seller # None
      PROVE  EntryInv'
  <2>1. /\ page = "quick" /\ Click
        /\ wizardStep' = step /\ lineItems' = items
        /\ head' = [head EXCEPT !.titled = TRUE, !.valued = items[1]["price"], !.supplier = seller]
        /\ UNCHANGED <<page, copying, listing, preview, previewing, requested, busy, saving, entered>>
    BY <1>1 DEF QuickShows
  <2>2. items[1]["price"] \in BOOLEAN
    <3>1. items[1] \in LineRows
      BY <1>1
    <3> QED BY <3>1 DEF LineRows, Fields
  <2>3. head' \in Headers /\ head'.titled = TRUE /\ head'.supplier = seller
    BY <1>0, <2>1, <2>2 DEF Headers
  <2>4. clicks' \in 0..MaxClicks /\ Len(items) \in 1..MaxRows
    BY <1>0, <1>1, <2>1 DEF Click
  <2>5. EntryTypes'
    BY <1>1, <2>1, <2>3, <2>4 DEF EntryInv, EntryTypes, EntryTypeOK
  <2>6. QuickIsComplete' /\ LiveIsCurrent'
    BY <1>1, <2>1, <2>3 DEF QuickIsComplete, LiveIsCurrent
  <2>7. CarriesOrderable' /\ EnteredIsOrderable'
    BY <2>1 DEF EntryInv, CarriesOrderable, EnteredIsOrderable
  <2> QED BY <2>5, <2>6, <2>7 DEF EntryInv
<1>2. ASSUME NEW item \in Catalog, PickItem(item) PROVE EntryInv'
  <2>1. item.row \in LineRows /\ item.seller \in Sellers \cup {None}
    BY EntryAssumption
  <2>2. <<item.row>> \in Seq(LineRows) /\ Len(<<item.row>>) = 1
    BY <2>1
  <2>3. QuickShows(2, item.seller, <<item.row>>)
    BY <1>2 DEF PickItem
  <2> DEFINE items == <<item.row>>
             seller == item.seller
  <2> HIDE DEF items, seller
  <2>4. QuickShows(2, seller, items) /\ items \in Seq(LineRows) /\ Len(items) = 1 /\ seller \in Sellers \cup {None}
    BY <2>1, <2>2, <2>3 DEF items, seller
  <2>5. 2 \in 1..3 /\ 2 # 3
    OBVIOUS
  <2> QED BY <1>1, <2>4, <2>5
<1>3. page = "quick" => Len(lineItems) = 1
  BY DEF EntryInv, QuickIsComplete
<1>4. ASSUME NEW s \in Sellers, PickSupplier(s) PROVE EntryInv'
  <2>1. page = "quick" /\ QuickShows(2, s, lineItems)
    BY <1>4 DEF PickSupplier, QuickShows
  <2> QED BY <1>0, <1>1, <1>3, <2>1
<1>5. ASSUME NEW target \in 1..3, QuickStep(target) PROVE EntryInv'
  <2>1. page = "quick" /\ QuickShows(target, head.supplier, lineItems) /\ (target = 3 => head.supplier # None)
    BY <1>5 DEF QuickStep, QuickShows
  <2>2. head.supplier \in Sellers \cup {None}
    BY <1>0 DEF Headers
  <2> QED BY <1>0, <1>1, <1>3, <2>1, <2>2
<1>6. CASE QuickSubmit
  <2>1. /\ page = "quick" /\ wizardStep = 3 /\ Click /\ clicks' \in 0..MaxClicks /\ lineItems[1]["account"]
        /\ UNCHANGED <<page, head, lineItems, copying, listing, preview, previewing, requested, entered>>
    BY <1>0, <1>6 DEF QuickSubmit, Click
  <2>2. LiveIsCurrent'
    BY <2>1 DEF LiveIsCurrent
  <2>3. CASE SupplierIssue(head)
    <3>1. wizardStep' = 2 /\ UNCHANGED <<busy, saving>>
      BY <1>6, <2>3 DEF QuickSubmit
    <3>2. EntryTypes'
      BY <2>1, <3>1 DEF EntryInv, EntryTypes, EntryTypeOK
    <3>3. CarriesOrderable' /\ EnteredIsOrderable' /\ QuickIsComplete'
      BY <2>1, <3>1 DEF EntryInv, CarriesOrderable, EnteredIsOrderable, QuickIsComplete
    <3> QED BY <2>2, <3>2, <3>3 DEF EntryInv
  <2>4. CASE ~SupplierIssue(head)
    <3>1. Submits(head, lineItems) /\ UNCHANGED wizardStep
      BY <1>6, <2>4 DEF QuickSubmit
    <3>2. Len(lineItems) = 1 /\ head.titled /\ head.supplier # None
      BY <2>1 DEF EntryInv, QuickIsComplete
    <3>3. \A k \in DOMAIN lineItems : k = 1
      BY <1>0, <3>2
    <3>4. Orderable(head, lineItems)
      BY <2>1, <3>2, <3>3 DEF Orderable
    <3>5. saving' \subseteq Submissions /\ CarriesOrderable' /\ EnteredIsOrderable' /\ busy' \in BOOLEAN
      BY <1>0, <2>1, <3>1, <3>4, Begins
    <3>6. EntryTypes'
      BY <2>1, <3>1, <3>5 DEF EntryInv, EntryTypes, EntryTypeOK
    <3>7. QuickIsComplete'
      BY <2>1, <3>1 DEF EntryInv, QuickIsComplete
    <3> QED BY <2>2, <3>5, <3>6, <3>7 DEF EntryInv
  <2> QED BY <2>3, <2>4
<1> QED BY <1>2, <1>4, <1>5, <1>6

LEMMA SaveStep ==
  ASSUME EntryInv, NEW sub \in saving, CreateHeader(sub) \/ SaveLine(sub) \/ Leave(sub)
  PROVE  EntryInv'
<1> DEFINE Entries == [header : Headers, lines : Seq(LineRows)]
<1>0. /\ saving \subseteq Submissions /\ sub \in Submissions
      /\ entered \in Seq(Entries) /\ sub.at \in 0..Len(entered)
      /\ Orderable(sub.header, sub.lines) /\ sub.header \in Headers /\ sub.lines \in Seq(LineRows)
  BY DEF EntryInv, EntryTypes, EntryTypeOK, CarriesOrderable, Submissions
(* What is left of a step whose requests, requisitions and page are known *)
<1>2. ASSUME saving' \subseteq Submissions, busy' \in BOOLEAN, entered' \in Seq(Entries),
             page' \in {page, "gone"}, CarriesOrderable', EnteredIsOrderable',
             UNCHANGED <<wizardStep, head, lineItems, copying, listing, preview, previewing,
                         requested, clicks>>
      PROVE  EntryInv'
  <2>1. EntryTypes'
    BY <1>2 DEF EntryInv, EntryTypes, EntryTypeOK
  <2>2. QuickIsComplete'
    BY <1>2 DEF EntryInv, QuickIsComplete
  <2>3. LiveIsCurrent'
    BY <1>2 DEF EntryInv, LiveIsCurrent, RoutingDraft
  <2> QED BY <1>2, <2>1, <2>2, <2>3 DEF EntryInv
<1>3. ASSUME SubmissionEnds(sub), entered' \in Seq(Entries), Len(entered') >= Len(entered)
      PROVE  saving' \subseteq Submissions /\ busy' \in BOOLEAN /\ CarriesOrderable'
  <2>1. saving' = saving \ {sub} /\ busy' = FALSE
    BY <1>3 DEF SubmissionEnds
  <2>2. \A s \in saving' : s.at \in 0..Len(entered')
    BY <1>0, <1>3, <2>1 DEF EntryInv, CarriesOrderable, Submissions
  <2> QED BY <1>0, <2>1, <2>2 DEF EntryInv, CarriesOrderable
<1>4. ASSUME NEW next \in Submissions, GoesOn(sub, next), entered' \in Seq(Entries),
             Len(entered') >= Len(entered), next.at \in 0..Len(entered'), Orderable(next.header, next.lines)
      PROVE  saving' \subseteq Submissions /\ busy' \in BOOLEAN /\ CarriesOrderable'
  <2>1. saving' = (saving \ {sub}) \cup {next} /\ busy' = busy
    BY <1>4 DEF GoesOn
  <2>2. \A s \in saving' : s.at \in 0..Len(entered')
    BY <1>0, <1>4, <2>1 DEF EntryInv, CarriesOrderable, Submissions
  <2>3. busy' \in BOOLEAN
    BY <2>1 DEF EntryInv, EntryTypes, EntryTypeOK
  <2> QED BY <1>0, <1>4, <2>1, <2>2, <2>3 DEF EntryInv, CarriesOrderable
<1>5. CASE CreateHeader(sub)
  <2>1. UNCHANGED <<page, wizardStep, head, lineItems, copying, listing, preview, previewing, requested, clicks>>
    BY <1>5 DEF CreateHeader
  <2>2. CASE UNCHANGED entered /\ SubmissionEnds(sub)
    <3>1. EnteredIsOrderable'
      BY <2>2 DEF EntryInv, EnteredIsOrderable
    <3>2. saving' \subseteq Submissions /\ busy' \in BOOLEAN /\ CarriesOrderable'
      BY <1>0, <1>3, <2>2
    <3> QED BY <1>0, <1>2, <2>1, <2>2, <3>1, <3>2
  <2>3. CASE /\ entered' = Append(entered, [header |-> sub.header, lines |-> << >>])
             /\ GoesOn(sub, [sub EXCEPT !.at = Len(entered')]) \/ SubmissionEnds(sub)
    <3> DEFINE entry == [header |-> sub.header, lines |-> << >>]
               next == [sub EXCEPT !.at = Len(entered')]
    <3>1. << >> \in Seq(LineRows)
      OBVIOUS
    <3>2. entry \in Entries
      BY <1>0, <3>1
    <3>3. entered' \in Seq(Entries) /\ Len(entered') = Len(entered) + 1 /\ Len(entered) \in Nat
          /\ \A n \in DOMAIN entered' : (n \in DOMAIN entered /\ entered'[n] = entered[n]) \/ entered'[n] = entry
      <4> HIDE DEF entry, Entries
      <4>1. entered' = Append(entered, entry)
        BY <2>3 DEF entry
      <4> QED BY <1>0, <3>2, <4>1
    <3>4. EnteredIsOrderable'
      BY <1>0, <3>3 DEF EntryInv, EnteredIsOrderable, Orderable
    <3>5. CASE SubmissionEnds(sub)
      <4>1. saving' \subseteq Submissions /\ busy' \in BOOLEAN /\ CarriesOrderable'
        BY <1>3, <3>3, <3>5
      <4> QED BY <1>2, <2>1, <3>3, <3>4, <4>1
    <3>6. CASE GoesOn(sub, next)
      <4>0. Len(entered') \in Nat
        BY <3>3
      <4>1. next \in Submissions /\ next.at = Len(entered') /\ next.header = sub.header /\ next.lines = sub.lines
        BY <1>0, <4>0 DEF Submissions
      <4> HIDE DEF next
      <4>2. next.at \in 0..Len(entered') /\ Len(entered') >= Len(entered) /\ Orderable(next.header, next.lines)
        BY <1>0, <3>3, <4>0, <4>1
      <4>3. saving' \subseteq Submissions /\ busy' \in BOOLEAN /\ CarriesOrderable'
        BY <1>4, <3>3, <3>6, <4>1, <4>2
      <4> QED BY <1>2, <2>1, <3>3, <3>4, <4>3
    <3> QED BY <2>3, <3>5, <3>6
  <2> QED BY <1>5, <2>2, <2>3 DEF CreateHeader
<1>6. CASE SaveLine(sub)
  <2>1. /\ UNCHANGED <<page, wizardStep, head, lineItems, copying, listing, preview, previewing, requested, clicks>>
        /\ sub.at # 0 /\ sub.lines # << >>
    BY <1>6 DEF SaveLine
  <2> DEFINE line == Head(sub.lines)
             rest == Tail(sub.lines)
             next == [sub EXCEPT !.lines = Tail(@)]
             more == [entered EXCEPT ![sub.at].lines = Append(@, line)]
  <2>2. line \in LineRows /\ line["account"] /\ rest \in Seq(LineRows)
        /\ \A k \in DOMAIN rest : rest[k]["account"]
    BY <1>0, <2>1 DEF Orderable
  <2>3. next \in Submissions /\ next.at = sub.at /\ next.header = sub.header /\ next.lines = rest
    BY <1>0, <2>2 DEF Submissions
  <2>4. sub.at \in DOMAIN entered /\ entered[sub.at] \in Entries
    <3> HIDE DEF Entries
    <3>1. sub.at \in 1..Len(entered)
      BY <1>0, <2>1
    <3> QED BY <1>0, <3>1
  <2>5. /\ more \in Seq(Entries) /\ Len(more) = Len(entered) /\ DOMAIN more = DOMAIN entered
        /\ \A n \in DOMAIN entered \ {sub.at} : more[n] = entered[n]
        /\ more[sub.at].header = entered[sub.at].header
        /\ more[sub.at].lines = Append(entered[sub.at].lines, line)
    <3> HIDE DEF line
    <3> DEFINE entry == [entered[sub.at] EXCEPT !.lines = Append(@, line)]
    <3>1. entry \in Entries /\ entry.header = entered[sub.at].header
          /\ entry.lines = Append(entered[sub.at].lines, line)
      <4>1. /\ entered[sub.at].lines \in Seq(LineRows) /\ entered[sub.at].header \in Headers
            /\ entered[sub.at] = [header |-> entered[sub.at].header, lines |-> entered[sub.at].lines]
        BY <2>4
      <4>2. Append(entered[sub.at].lines, line) \in Seq(LineRows)
        BY <2>2, <4>1
      <4> QED BY <4>1, <4>2
    <3>2. more = [entered EXCEPT ![sub.at] = entry]
      BY <2>4
    <3> HIDE DEF more, entry, Entries
    <3>3. DOMAIN entered = 1..Len(entered) /\ Len(entered) \in Nat
      BY <1>0
    <3>4. DOMAIN more = 1..Len(entered) /\ \A n \in 1..Len(entered) : more[n] \in Entries
      BY <1>0, <2>4, <3>1, <3>2, <3>3
    <3>5. more \in Seq(Entries) /\ Len(more) = Len(entered)
      BY <3>2, <3>3, <3>4, <1>0, <2>4, <3>1
    <3> QED BY <2>4, <3>1, <3>2, <3>3, <3>4, <3>5
  <2> HIDE DEF more
  <2>6. ASSUME entered' \in {entered, more}
        PROVE  EnteredIsOrderable' /\ entered' \in Seq(Entries) /\ Len(entered') = Len(entered)
    <3>1. CASE entered' = entered
      BY <1>0, <3>1 DEF EntryInv, EnteredIsOrderable
    <3>2. CASE entered' = more
      <4>1. \A k \in DOMAIN more[sub.at].lines : more[sub.at].lines[k]["account"]
        <5>1. entered[sub.at].lines \in Seq(LineRows)
              /\ \A k \in DOMAIN entered[sub.at].lines : entered[sub.at].lines[k]["account"]
          BY <2>4 DEF EntryInv, EnteredIsOrderable
        <5> HIDE DEF line
        <5> QED BY <2>2, <2>5, <5>1
      <4> HIDE DEF line
      <4> QED BY <2>4, <2>5, <3>2, <4>1 DEF EntryInv, EnteredIsOrderable
    <3> QED BY <2>6, <3>1, <3>2
  <2>7. entered' \in {entered, more} /\ (SubmissionEnds(sub) \/ GoesOn(sub, next))
    BY <1>6 DEF SaveLine, more
  <2>8. Orderable(next.header, next.lines)
    BY <1>0, <2>2, <2>3 DEF Orderable
  <2> HIDE DEF next, line, rest
  <2>9. saving' \subseteq Submissions /\ busy' \in BOOLEAN /\ CarriesOrderable'
    <3>1. Len(entered') >= Len(entered) /\ next.at \in 0..Len(entered')
      BY <1>0, <2>3, <2>6, <2>7
    <3> QED BY <1>3, <1>4, <2>3, <2>6, <2>7, <2>8, <3>1
  <2> QED BY <1>2, <2>1, <2>6, <2>7, <2>9
<1>7. CASE Leave(sub)
  <2>1. /\ page' = "gone" /\ SubmissionEnds(sub) /\ entered' = entered
        /\ UNCHANGED <<wizardStep, head, lineItems, copying, listing, preview, previewing, requested, clicks>>
    BY <1>7 DEF Leave
  <2>2. EnteredIsOrderable'
    BY <2>1 DEF EntryInv, EnteredIsOrderable
  <2>3. saving' \subseteq Submissions /\ busy' \in BOOLEAN /\ CarriesOrderable'
    BY <1>0, <1>3, <2>1
  <2> QED BY <1>0, <1>2, <2>1, <2>2, <2>3
<1> QED BY <1>5, <1>6, <1>7

LEMMA EntryInvIsInvariant == EntrySpec => []EntryInv
<1>1. EntryInv /\ [EntryNext]_entryVars => EntryInv'
  <2> SUFFICES ASSUME EntryInv, [EntryNext]_entryVars PROVE EntryInv'
    OBVIOUS
  <2>1. CASE EntryNext
    BY <2>1, WizardFormStep, ArrivalStep, HandleSubmitStep, QuickPageStep, SaveStep DEF EntryNext
  <2>2. CASE UNCHANGED entryVars
    <3>1. EntryTypes' /\ CarriesOrderable' /\ EnteredIsOrderable' /\ QuickIsComplete'
      BY <2>2 DEF entryVars, EntryInv, EntryTypes, EntryTypeOK, CarriesOrderable, EnteredIsOrderable,
                  QuickIsComplete
    <3>2. LiveIsCurrent'
      BY <2>2, LiveStays DEF entryVars, EntryInv
    <3> QED BY <3>1, <3>2 DEF EntryInv
  <2> QED BY <2>1, <2>2
<1> QED BY <1>1, EntryInvInit, PTL DEF EntrySpec

(* Every variable of RequisitionEntry keeps its type. *)
THEOREM EntryTypeCorrect == EntrySpec => []EntryTypeOK
<1>1. EntryInv => EntryTypeOK
  BY DEF EntryInv, EntryTypes
<1> QED BY <1>1, EntryInvIsInvariant, PTL

(* The summary shows the preview of the draft on it, and what the pages enter has a
   title, a supplier and an account on every line. *)
THEOREM EntriesAreSound == EntrySpec => []EntryIsSound
<1>1. EntryInv => EntryIsSound
  BY DEF EntryInv, LiveIsCurrent, EntryIsSound, PreviewIsOfThisDraft, SummaryShows
<1> QED BY <1>1, EntryInvIsInvariant, PTL
=============================================================================
