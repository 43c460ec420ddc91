------------------------- MODULE OrderCreationProofs -------------------------
(***************************************************************************)
(* Proofs about the creation of orders, for any number of requests, of       *)
(* deaths and of line mixes, with or without a numbering row; about the       *)
(* workflow designer, for any administrators and definitions; and about the   *)
(* loading of master data, for any files, keys and uploaders.                *)
(***************************************************************************)
EXTENDS OrderCreation, WorkflowDesigner, MasterDataImport, SequenceTheorems,
  FiniteSetTheorems, WellFoundedInduction, TLAPS

(***************************************************************************)
(* The inductive invariant                                                  *)
(***************************************************************************)
\* Between the look-up for orders and the commit of one, and after that commit.
Creating == {"unnumbered", "inserting", "numbered"}
Handling == {"created", "ordered", "received", "drafted", "mailed"}

\* Who handles an order has made it, and it is there.
OwnOrders == \A r \in Requests : pc[r] \in Handling => mine[r] \in 1 .. Len(orders)

\* The orders are as many as the counter says, in its order, and who has a number
\* holds the row and is next.
Counted ==
  /\ NumbersInSequence
  /\ counter = Len(orders)
  /\ \A r \in Requests : pc[r] = "numbered" => holder = r /\ drawn[r] = counter + 1

\* A late request came when there was an order, and does not pass the look-up.
LateStops ==
  /\ LateCallsOrderNothing
  /\ late # {} => Len(orders) > 0
  /\ \A r \in late : pc[r] \notin Creating
  /\ \A n \in DOMAIN orders : pc[orders[n].by] # "idle"

\* A request that was rolled back commits its order at most, and records nothing.
LostStops ==
  /\ StandsOnAnswers
  /\ \A r \in lost : pc[r] \in {"numbered", "created", "failed", "dead"}

CreationInv == TypeOK /\ OwnOrders /\ Counted /\ LateStops /\ LostStops

-----------------------------------------------------------------------------
(***************************************************************************)
(* What a step does to the committed orders                                 *)
(***************************************************************************)
\* The same orders as to number and maker; what else they say is well-formed.
SameOrders ==
  /\ orders' \in Seq(Order)
  /\ Len(orders') = Len(orders)
  /\ \A n \in 1 .. Len(orders) : orders'[n].number = orders[n].number
                                 /\ orders'[n].by = orders[n].by

\* A change of one order that leaves its number and its maker.
LEMMA OneOrderChanged ==
  ASSUME TypeOK, NEW i \in 1 .. Len(orders), NEW o \in Order,
         o.number = orders[i].number, o.by = orders[i].by,
         orders' = [orders EXCEPT ![i] = o]
  PROVE  SameOrders
<1>1. orders \in Seq(Order)
  BY DEF TypeOK
<1>2. /\ [orders EXCEPT ![i] = o] \in Seq(Order)
      /\ Len([orders EXCEPT ![i] = o]) = Len(orders)
      /\ \A j \in 1 .. Len(orders) :
           [orders EXCEPT ![i] = o][j] = IF j = i THEN o ELSE orders[j]
  BY <1>1, ExceptSeq
<1> QED BY <1>2 DEF SameOrders

\* After its commit a request changes its own order, if any; the rest of the
\* requests' steps change none.
LEMMA OrdersKept ==
  ASSUME TypeOK, OwnOrders, NEW r \in Requests,
         \/ UNCHANGED orders
         \/ MarkOrdered(r) \/ Receive(r) \/ CloseOrDraft(r) \/ Mail(r) \/ Dispatched(r)
  PROVE  SameOrders
<1> DEFINE o == orders[mine[r]]
           Both(s) == [o EXCEPT !.status = s, !.lifecycle = s]
           States == {"ordered", "fully_received", "partially_received", "closed",
                      "sent_to_supplier"}
<1>1. CASE UNCHANGED orders
  BY <1>1 DEF SameOrders, TypeOK
<1>2. ASSUME pc[r] \in Handling
      PROVE  mine[r] \in 1 .. Len(orders) /\ o \in Order
  <2>1. mine[r] \in 1 .. Len(orders)
    BY <1>2 DEF OwnOrders
  <2> QED BY <2>1, ElementOfSeq DEF TypeOK
<1>3. ASSUME NEW s \in States, pc[r] \in Handling, SetOrder(r, s)
      PROVE  SameOrders
  <2>1. Both(s) \in Order /\ Both(s).number = o.number /\ Both(s).by = o.by
    BY <1>2, <1>3 DEF Order
  <2>2. orders' = [orders EXCEPT ![mine[r]] = Both(s)]
    BY <1>2, <1>3, ElementOfSeq DEF SetOrder, TypeOK
  <2> QED BY <1>2, <1>3, <2>1, <2>2, OneOrderChanged
<1>4. CASE MarkOrdered(r)
  BY <1>1, <1>3, <1>4 DEF MarkOrdered, Handling
<1>5. CASE Receive(r)
  <2>1. CASE "auto" \in lines
    <3> DEFINE s == IF "manual" \in lines THEN "partially_received" ELSE "fully_received"
               p == [o EXCEPT !.receipts = o.receipts \cup {"received"}, !.status = s,
                              !.lifecycle = s]
    <3>1. p \in Order /\ p.number = o.number /\ p.by = o.by
      BY <1>2, <1>5 DEF Order, Receive, Handling
    <3>2. orders' = [orders EXCEPT ![mine[r]] = p]
      <4> HIDE DEF s
      <4>1. orders' = [orders EXCEPT ![mine[r]].receipts = @ \cup {"received"},
                         ![mine[r]].status = s, ![mine[r]].lifecycle = s]
        BY <1>5, <2>1 DEF Receive, s
      <4>2. orders \in Seq(Order) /\ mine[r] \in 1 .. Len(orders) /\ o \in Order
        BY <1>2, <1>5 DEF Receive, Handling, TypeOK
      <4> QED BY <4>1, <4>2
    <3>3. mine[r] \in 1 .. Len(orders)
      BY <1>2, <1>5 DEF Receive, Handling
    <3> QED BY <3>1, <3>2, <3>3, OneOrderChanged
  <2>2. CASE lines = {"two_way"}
    BY <1>3, <1>5, <2>1, <2>2 DEF Receive, Handling
  <2> QED BY <1>1, <1>5, <2>1, <2>2 DEF Receive
<1>6. CASE CloseOrDraft(r)
  <2>1. CASE "manual" \in lines
    <3> DEFINE p == [o EXCEPT !.receipts = o.receipts \cup {"draft"}]
    <3>1. p \in Order /\ p.number = o.number /\ p.by = o.by
      BY <1>2, <1>6 DEF Order, CloseOrDraft, Handling
    <3>2. CASE orders' = [orders EXCEPT ![mine[r]] = p]
      <4>1. mine[r] \in 1 .. Len(orders)
        BY <1>2, <1>6 DEF CloseOrDraft, Handling
      <4> QED BY <3>1, <3>2, <4>1, OneOrderChanged
    <3> QED BY <1>1, <1>6, <2>1, <3>2 DEF CloseOrDraft
  <2>2. CASE "manual" \notin lines
    BY <1>1, <1>3, <1>6, <2>2 DEF CloseOrDraft, Handling
  <2> QED BY <2>1, <2>2
<1>7. CASE Mail(r)
  <2> DEFINE p == [o EXCEPT !.mailed = TRUE]
             q == [o EXCEPT !.notified = TRUE]
  <2>1. mine[r] \in 1 .. Len(orders) /\ o \in Order
    BY <1>2, <1>7 DEF Mail, Handling
  <2>2. /\ p \in Order /\ p.number = o.number /\ p.by = o.by
        /\ q \in Order /\ q.number = o.number /\ q.by = o.by
    BY <2>1 DEF Order
  <2>3. orders' = [orders EXCEPT ![mine[r]] = p] \/ orders' = [orders EXCEPT ![mine[r]] = q]
    BY <1>7, <2>1 DEF Mail, TypeOK
  <2> HIDE DEF p, q
  <2> QED BY <2>1, <2>2, <2>3, OneOrderChanged
<1>8. CASE Dispatched(r)
  <2> DEFINE p == [o EXCEPT !.status = "sent_to_supplier", !.lifecycle = "sent_to_supplier",
                            !.notified = TRUE]
  <2>1. mine[r] \in 1 .. Len(orders) /\ o \in Order
    BY <1>2, <1>8 DEF Dispatched, Handling
  <2>2. p \in Order /\ p.number = o.number /\ p.by = o.by
    BY <2>1 DEF Order
  <2>3. CASE orders' = [orders EXCEPT ![mine[r]] = p]
    BY <2>1, <2>2, <2>3, OneOrderChanged
  <2> QED BY <1>1, <1>8, <2>1, <2>3 DEF Dispatched, TypeOK
<1> QED BY <1>1, <1>4, <1>5, <1>6, <1>7, <1>8

\* A new order comes last, with the number its request has drawn.
LEMMA OrderAdded ==
  ASSUME TypeOK, NEW r \in Requests, Create(r)
  PROVE  /\ orders' \in Seq(Order)
         /\ Len(orders') = Len(orders) + 1
         /\ \A n \in 1 .. Len(orders) : orders'[n] = orders[n]
         /\ orders'[Len(orders) + 1].number = drawn[r]
         /\ orders'[Len(orders) + 1].by = r
<1> DEFINE o == [number |-> drawn[r], status |-> "ordered", lifecycle |-> "draft",
                 receipts |-> {}, mailed |-> FALSE, notified |-> FALSE, by |-> r]
<1>1. o \in Order /\ o.number = drawn[r] /\ o.by = r
  BY DEF TypeOK, Order
<1>2. orders' = Append(orders, o) /\ orders \in Seq(Order)
  BY DEF Create, TypeOK
<1> HIDE DEF o
<1> QED BY <1>1, <1>2, AppendProperties

-----------------------------------------------------------------------------
(***************************************************************************)
(* Type correctness                                                         *)
(***************************************************************************)
LEMMA CreationInit == Init => CreationInv
<1> SUFFICES ASSUME Init PROVE CreationInv
  OBVIOUS
<1> USE OrderAssumption DEF Init
<1>1. orders = <<>> /\ Len(orders) = 0 /\ DOMAIN orders = {}
  OBVIOUS
<1>2. lines \in LineMixes /\ row \in BOOLEAN /\ crashes \in 0 .. MaxCrashes
  <2>1. crashes \in 0 .. MaxCrashes
    BY DEF OrderAssumption
  <2>2. PICK missing \in FirstNumbers : row = ~missing
    OBVIOUS
  <2> QED BY <2>1, <2>2
<1>3. TypeOK
  BY <1>1, <1>2 DEF TypeOK, Points
<1> QED BY <1>1, <1>3 DEF CreationInv, OwnOrders, Handling, Counted, NumbersInSequence,
             LateStops, LateCallsOrderNothing, LostStops, StandsOnAnswers

LEMMA TypeStep ==
  ASSUME TypeOK, OwnOrders, [Next]_vars
  PROVE  TypeOK'
<1> USE OrderAssumption DEF TypeOK, Go, AnswerCommitted, Draw, numbering, session, answers
<1>1. CASE UNCHANGED vars
  BY <1>1 DEF vars
<1>2. CASE Repair
  BY <1>2 DEF Repair
<1>3. ASSUME NEW r \in Requests, Load(r) \/ Crash(r) PROVE TypeOK'
  BY <1>3 DEF Load, Crash, Points, OrderAssumption
<1>4. ASSUME NEW r \in Requests, Check(r) PROVE TypeOK'
  BY <1>4 DEF Check, Points
<1>5. ASSUME NEW r \in Requests, Number(r) PROVE TypeOK'
  <2>1. pc' \in [Requests -> Points]
    BY <1>5 DEF Number, Points
  <2>4. drawn' \in [Requests -> Nat]
    <3>1. drawn' = drawn \/ drawn' = [drawn EXCEPT ![r] = counter + 1]
      BY <1>5 DEF Number
    <3>2. counter + 1 \in Nat /\ drawn \in [Requests -> Nat]
      OBVIOUS
    <3> QED BY <3>1, <3>2
  <2>2. holder' \in Requests \cup {NoRequest}
    BY <1>5 DEF Number
  <2>3. UNCHANGED <<lines, lifecycle, ready, orders, row, counter, session, answers, crashes>>
    BY <1>5 DEF Number
  <2> QED BY <2>1, <2>2, <2>3, <2>4
<1>6. ASSUME NEW r \in Requests, Insert(r) PROVE TypeOK'
  BY <1>6 DEF Insert, Points
<1>7. ASSUME NEW r \in Requests, Finish(r) PROVE TypeOK'
  BY <1>7 DEF Finish, Points
<1>8. ASSUME NEW r \in Requests, Create(r) PROVE TypeOK'
  <2>1. orders' \in Seq(Order)
    BY <1>8, OrderAdded
  <2> QED BY <1>8, <2>1 DEF Create, Points
<1>9. ASSUME NEW r \in Requests,
             \/ MarkOrdered(r) \/ Receive(r) \/ CloseOrDraft(r) \/ Mail(r) \/ Dispatched(r)
      PROVE  TypeOK'
  <2>1. orders' \in Seq(Order)
    BY <1>9, OrdersKept DEF SameOrders
  <2>2. /\ UNCHANGED <<lines, ready, numbering, session, answers, crashes>>
        /\ pc' \in [Requests -> Points]
        /\ lifecycle' \in {"pending_approval", "approved", "exception", "po_created"}
    BY <1>9 DEF MarkOrdered, Receive, CloseOrDraft, Mail, Dispatched, Points
  <2> QED BY <2>1, <2>2
<1> QED BY <1>1, <1>2, <1>3, <1>4, <1>5, <1>6, <1>7, <1>8, <1>9
       DEF Next, Proceed

-----------------------------------------------------------------------------
(***************************************************************************)
(* The rest of the invariant                                                *)
(***************************************************************************)
\* Everything but the commit of a new order leaves what is there as to number and
\* maker, and the counter with it.
LEMMA StepsKeepOrders ==
  ASSUME TypeOK, OwnOrders, [Next]_vars
  PROVE  \/ SameOrders /\ UNCHANGED counter
         \/ \E r \in Requests : Create(r)
<1> USE DEF numbering
<1>1. CASE UNCHANGED vars
  BY <1>1, OrdersKept DEF vars, SameOrders, TypeOK
<1>2. CASE Repair
  BY <1>2 DEF Repair, SameOrders, TypeOK
<1>3. ASSUME NEW r \in Requests,
             Load(r) \/ Crash(r) \/ Check(r) \/ Number(r) \/ Insert(r) \/ Finish(r)
      PROVE  SameOrders /\ UNCHANGED counter
  BY <1>3 DEF Load, Crash, Check, Number, Insert, Finish, SameOrders, TypeOK
<1>4. ASSUME NEW r \in Requests,
             \/ MarkOrdered(r) \/ Receive(r) \/ CloseOrDraft(r) \/ Mail(r) \/ Dispatched(r)
      PROVE  SameOrders /\ UNCHANGED counter
  BY <1>4, OrdersKept DEF MarkOrdered, Receive, CloseOrDraft, Mail, Dispatched
<1> QED BY <1>1, <1>2, <1>3, <1>4 DEF Next, Proceed

LEMMA OwnStep ==
  ASSUME TypeOK, OwnOrders, [Next]_vars
  PROVE  OwnOrders'
<1> USE DEF Go, numbering, session, Handling, TypeOK
<1>1. ASSUME NEW r \in Requests, Create(r) PROVE OwnOrders'
  BY <1>1, OrderAdded DEF Create, OwnOrders
<1>2. ASSUME SameOrders PROVE OwnOrders'
  <2>1. CASE UNCHANGED vars \/ Repair
    BY <1>2, <2>1 DEF vars, Repair, OwnOrders, SameOrders
  <2>2. ASSUME NEW r \in Requests,
               Load(r) \/ Crash(r) \/ Check(r) \/ Number(r) \/ Insert(r) \/ Finish(r)
        PROVE  OwnOrders'
    BY <1>2, <2>2 DEF Load, Crash, Check, Number, Insert, Finish, OwnOrders, SameOrders
  <2>3. ASSUME NEW r \in Requests,
               \/ MarkOrdered(r) \/ Receive(r) \/ CloseOrDraft(r) \/ Mail(r) \/ Dispatched(r)
        PROVE  OwnOrders'
    BY <1>2, <2>3 DEF MarkOrdered, Receive, CloseOrDraft, Mail, Dispatched, OwnOrders, SameOrders
  <2> QED BY <1>1, <2>1, <2>2, <2>3 DEF Next, Proceed
<1> QED BY <1>1, <1>2, StepsKeepOrders

LEMMA CountedStep ==
  ASSUME TypeOK, OwnOrders, Counted, [Next]_vars
  PROVE  Counted'
<1> USE DEF Counted, NumbersInSequence, TypeOK
<1>0. DOMAIN orders = 1 .. Len(orders)
  OBVIOUS
<1>1. ASSUME NEW r \in Requests, Create(r) PROVE Counted'
  <2>1. pc[r] = "numbered" /\ drawn[r] = Len(orders) + 1 /\ counter' = Len(orders) + 1
    BY <1>1 DEF Create
  <2>2. /\ orders' \in Seq(Order)
        /\ Len(orders') = Len(orders) + 1
        /\ \A n \in 1 .. Len(orders) : orders'[n] = orders[n]
        /\ orders'[Len(orders) + 1].number = Len(orders) + 1
    BY <1>1, <2>1, OrderAdded
  <2>3. NumbersInSequence'
    BY <1>0, <2>2
  <2>4. \A q \in Requests : pc'[q] # "numbered"
    BY <1>1, <2>1 DEF Create, Go
  <2> QED BY <2>1, <2>2, <2>3, <2>4
<1>2. ASSUME SameOrders, UNCHANGED counter PROVE NumbersInSequence' /\ counter' = Len(orders')
  <2>1. DOMAIN orders' = 1 .. Len(orders) /\ Len(orders') = Len(orders)
    BY <1>2 DEF SameOrders
  <2>2. \A n \in 1 .. Len(orders) : orders'[n].number = n
    BY <1>0, <1>2 DEF SameOrders
  <2> QED BY <1>2, <2>1, <2>2
<1>3. ASSUME ~ \E r \in Requests : Create(r)
      PROVE  \A r \in Requests : pc'[r] = "numbered" => holder' = r /\ drawn'[r] = counter + 1
  <2> USE DEF Go, Draw, numbering
  <2>1. CASE UNCHANGED vars \/ Repair
    BY <2>1 DEF vars, Repair
  <2>2. ASSUME NEW r \in Requests, Load(r) \/ Check(r) \/ Finish(r) \/ Crash(r)
        PROVE  \A q \in Requests : pc'[q] = "numbered" => holder' = q /\ drawn'[q] = counter + 1
    BY <2>2 DEF Load, Check, Finish, Crash, Over
  <2>3. ASSUME NEW r \in Requests, Number(r) \/ Insert(r)
        PROVE  \A q \in Requests : pc'[q] = "numbered" => holder' = q /\ drawn'[q] = counter + 1
    BY <2>3, OrderAssumption DEF Number, Insert, OrderAssumption
  <2>4. ASSUME NEW r \in Requests,
               \/ MarkOrdered(r) \/ Receive(r) \/ CloseOrDraft(r) \/ Mail(r) \/ Dispatched(r)
        PROVE  \A q \in Requests : pc'[q] = "numbered" => holder' = q /\ drawn'[q] = counter + 1
    BY <2>4 DEF MarkOrdered, Receive, CloseOrDraft, Mail, Dispatched
  <2> QED BY <1>3, <2>1, <2>2, <2>3, <2>4 DEF Next, Proceed
<1> QED BY <1>1, <1>2, <1>3, StepsKeepOrders

LEMMA LateStep ==
  ASSUME TypeOK, OwnOrders, LateStops, [Next]_vars
  PROVE  LateStops'
<1> USE DEF LateStops, LateCallsOrderNothing, TypeOK
<1>0. DOMAIN orders = 1 .. Len(orders) /\ \A n \in 1 .. Len(orders) : orders[n].by \in Requests
  <2>1. ASSUME NEW n \in 1 .. Len(orders) PROVE orders[n].by \in Requests
    <3>1. orders[n] \in Order
      BY ElementOfSeq
    <3> QED BY <3>1 DEF Order
  <2> QED BY <2>1
<1>1. ASSUME NEW r \in Requests, Create(r) PROVE LateStops'
  <2>1. /\ orders' \in Seq(Order)
        /\ Len(orders') = Len(orders) + 1
        /\ \A n \in 1 .. Len(orders) : orders'[n] = orders[n]
        /\ orders'[Len(orders) + 1].by = r
    BY <1>1, OrderAdded
  <2>2. late' = late /\ r \notin late /\ pc' = [pc EXCEPT ![r] = "created"]
    BY <1>1 DEF Create, Creating, Go
  <2>3. DOMAIN orders' = 1 .. Len(orders) + 1
    BY <2>1
  <2>4. LateCallsOrderNothing'
    BY <1>0, <2>1, <2>2, <2>3
  <2>5. \A n \in DOMAIN orders' : pc'[orders'[n].by] # "idle"
    BY <1>0, <2>1, <2>2, <2>3
  <2>6. /\ late' # {} => Len(orders') > 0
        /\ \A q \in late' : pc'[q] \notin Creating
    BY <2>1, <2>2 DEF Creating
  <2> QED BY <2>4, <2>5, <2>6
<1>2. ASSUME SameOrders PROVE LateStops'
  <2>1. /\ DOMAIN orders' = 1 .. Len(orders)
        /\ Len(orders') = Len(orders)
        /\ \A n \in 1 .. Len(orders) : orders'[n].by = orders[n].by
    BY <1>2 DEF SameOrders
  <2> USE DEF Go, Creating, session, numbering
  <2>2. CASE UNCHANGED vars \/ Repair
    BY <1>0, <2>1, <2>2 DEF vars, Repair
  <2>3. ASSUME NEW r \in Requests, Load(r) PROVE LateStops'
    <3>1. orders # <<>> => Len(orders) > 0
      OBVIOUS
    <3> QED BY <1>0, <2>1, <2>3, <3>1 DEF Load
  <2>4. ASSUME NEW r \in Requests, Check(r) PROVE LateStops'
    <3>1. orders = <<>> => Len(orders) = 0
      OBVIOUS
    <3> QED BY <1>0, <2>1, <2>4, <3>1 DEF Check
  <2>5. ASSUME NEW r \in Requests, Number(r) \/ Insert(r) \/ Finish(r) PROVE LateStops'
    BY <1>0, <2>1, <2>5 DEF Number, Insert, Finish
  <2>6. ASSUME NEW r \in Requests, Crash(r) PROVE LateStops'
    BY <1>0, <2>1, <2>6 DEF Crash
  <2>7. ASSUME NEW r \in Requests,
               \/ MarkOrdered(r) \/ Receive(r) \/ CloseOrDraft(r) \/ Mail(r) \/ Dispatched(r)
        PROVE  LateStops'
    <3>1. UNCHANGED late /\ \E p \in Points \ (Creating \cup {"idle"}) : Go(r, p)
      BY <2>7 DEF MarkOrdered, Receive, CloseOrDraft, Mail, Dispatched, Points
    <3> QED BY <1>0, <2>1, <3>1
  <2> QED BY <1>1, <2>2, <2>3, <2>4, <2>5, <2>6, <2>7 DEF Next, Proceed
<1> QED BY <1>1, <1>2, StepsKeepOrders

LEMMA LostStep ==
  ASSUME TypeOK, OwnOrders, LostStops, [Next]_vars
  PROVE  LostStops'
<1> USE DEF LostStops, StandsOnAnswers, TypeOK, Go, session, answers, AnswerCommitted
<1>0. DOMAIN orders = 1 .. Len(orders)
  OBVIOUS
<1>1. ASSUME NEW r \in Requests, Create(r) PROVE LostStops'
  <2>1. /\ orders' \in Seq(Order)
        /\ Len(orders') = Len(orders) + 1
        /\ \A n \in 1 .. Len(orders) : orders'[n] = orders[n]
        /\ orders'[Len(orders) + 1].by = r
    BY <1>1, OrderAdded
  <2>2. /\ UNCHANGED <<lost, recorded>>
        /\ answered \subseteq answered'
        /\ r \in Answers \ lost => r \in answered'
        /\ pc' = [pc EXCEPT ![r] = "created"]
    BY <1>1 DEF Create
  <2>3. DOMAIN orders' = 1 .. Len(orders) + 1
    BY <2>1
  <2>4. StandsOnAnswers'
    <3>1. recorded' \subseteq answered'
      BY <2>2
    <3>2. ASSUME NEW n \in DOMAIN orders', orders'[n].by \in Answers \ lost'
          PROVE  orders'[n].by \in answered'
      <4>1. CASE n \in 1 .. Len(orders)
        BY <1>0, <2>1, <2>2, <3>2, <4>1
      <4>2. CASE n = Len(orders) + 1
        BY <2>1, <2>2, <3>2, <4>2
      <4> QED BY <2>3, <4>1, <4>2
    <3> QED BY <3>1, <3>2
  <2>5. \A q \in lost' : pc'[q] \in {"numbered", "created", "failed", "dead"}
    BY <2>2
  <2> QED BY <2>4, <2>5
<1>2. ASSUME SameOrders PROVE LostStops'
  <2>1. /\ DOMAIN orders' = 1 .. Len(orders)
        /\ \A n \in 1 .. Len(orders) : orders'[n].by = orders[n].by
    BY <1>2 DEF SameOrders
  <2>2. CASE UNCHANGED vars \/ Repair
    BY <1>0, <2>1, <2>2 DEF vars, Repair
  <2>3. ASSUME NEW r \in Requests, Load(r) \/ Check(r) \/ Number(r) \/ Insert(r) PROVE LostStops'
    BY <1>0, <2>1, <2>3 DEF Load, Check, Number, Insert
  <2>4. ASSUME NEW r \in Requests, Finish(r) \/ Crash(r) PROVE LostStops'
    BY <1>0, <2>1, <2>4 DEF Finish, Crash, Over
  <2>5. ASSUME NEW r \in Requests,
               \/ MarkOrdered(r) \/ Receive(r) \/ CloseOrDraft(r) \/ Mail(r) \/ Dispatched(r)
        PROVE  LostStops'
    <3>1. /\ UNCHANGED <<lost, answered, recorded>>
          /\ \E p \in Points : Go(r, p) /\ (r \in lost => p = "failed")
      BY <2>5 DEF MarkOrdered, Receive, CloseOrDraft, Mail, Dispatched, Points
    <3> QED BY <1>0, <2>1, <3>1
  <2> QED BY <1>1, <2>2, <2>3, <2>4, <2>5 DEF Next, Proceed
<1> QED BY <1>1, <1>2, StepsKeepOrders

-----------------------------------------------------------------------------
(***************************************************************************)
(* Theorems                                                                 *)
(***************************************************************************)
LEMMA CreationInvariant == Spec => []CreationInv
<1>1. CreationInv /\ [Next]_vars => CreationInv'
  BY TypeStep, OwnStep, CountedStep, LateStep, LostStep DEF CreationInv
<1> QED BY CreationInit, <1>1, PTL DEF Spec

\* Every variable stays in its domain, whatever requests cross or die.
THEOREM CreationTypeCorrect == Spec => []TypeOK
<1>1. CreationInv => TypeOK
  BY DEF CreationInv
<1> QED BY CreationInvariant, <1>1, PTL

\* Order numbers are 1, 2, ... without a gap or a repetition: the lock of the
\* numbering row is held from the draw to the commit (_next_sequence_value,
\* create_purchase_order), and a death gives the number back.
THEOREM NumbersAreASequence == Spec => []NumbersInSequence
<1>1. CreationInv => NumbersInSequence
  BY DEF CreationInv, Counted
<1> QED BY CreationInvariant, <1>1, PTL

\* A call of auto_create_po_from_requisition that starts when there is an order
\* makes no other one.
THEOREM LateCallsAreIdempotent == Spec => []LateCallsOrderNothing
<1>1. CreationInv => LateCallsOrderNothing
  BY DEF CreationInv, LateStops
<1> QED BY CreationInvariant, <1>1, PTL

\* The trail and the orders stand on committed answers, but for an approver whose
\* session the race for a first number rolled back (complete_task, generate_number).
THEOREM OrdersStandOnAnswers == Spec => []StandsOnAnswers
<1>1. CreationInv => StandsOnAnswers
  BY DEF CreationInv, LostStops
<1> QED BY CreationInvariant, <1>1, PTL

-----------------------------------------------------------------------------
(***************************************************************************)
(* Workflow designer: stored versions stay in force, what the page lets     *)
(* through the server takes, and the canvas draws every move                *)
(***************************************************************************)

Definitions == UNION {[0 .. n - 1 -> StepRows(n)] : n \in 0 .. MaxFlowSteps}
FormRows == [steps : Definitions, of : Nat, active : BOOLEAN]
SaveRows == [commits : -1 .. 2, of : Nat, steps : Definitions, active : BOOLEAN]
VersionRows == [steps : Definitions, active : BOOLEAN, deleted : BOOLEAN]

LEMMA DefinitionsAre == \A d : Definition(d) <=> d \in Definitions
BY DEF Definition, Definitions

(* A definition has as many steps as its numbers say. *)
LEMMA SizeIs == ASSUME NEW n \in Nat, NEW d, DOMAIN d = 0 .. n - 1 PROVE Size(d) = n
<1>1. n - 1 \in Int /\ 0 \in Int
  OBVIOUS
<1>2. Cardinality(0 .. n - 1) = IF 0 > n - 1 THEN 0 ELSE (n - 1) - 0 + 1
  <2> DEFINE m == n - 1
  <2>1. m \in Int
    OBVIOUS
  <2> HIDE DEF m
  <2>2. Cardinality(0 .. m) = IF 0 > m THEN 0 ELSE m - 0 + 1
    BY <2>1, FS_Interval
  <2> QED BY <2>2 DEF m
<1>3. (IF 0 > n - 1 THEN 0 ELSE (n - 1) - 0 + 1) = n
  OBVIOUS
<1> QED BY <1>2, <1>3 DEF Size

LEMMA DefinitionHas ==
  ASSUME NEW d \in Definitions
  PROVE  Size(d) \in 0 .. MaxFlowSteps /\ d \in [0 .. Size(d) - 1 -> StepRows(Size(d))]
<1>1. PICK n \in 0 .. MaxFlowSteps : d \in [0 .. n - 1 -> StepRows(n)]
  BY DEF Definitions
<1>2. Size(d) = n
  <2>1. n \in Nat /\ DOMAIN d = 0 .. n - 1
    BY <1>1, DesignerAssumption
  <2> QED BY <2>1, SizeIs
<1> QED BY <1>1, <1>2

LEMMA DefinitionMade ==
  ASSUME NEW n \in Nat, NEW d \in [0 .. n - 1 -> StepRows(n)], Size(d) <= MaxFlowSteps
  PROVE  d \in Definitions
<1>1. Size(d) = n
  BY SizeIs
<1>2. n \in 0 .. MaxFlowSteps
  BY <1>1, DesignerAssumption
<1> QED BY <1>2 DEF Definitions

(***************************************************************************)
(* Edits keep a definition                                                  *)
(***************************************************************************)
LEMMA MoreTargets ==
  ASSUME NEW n \in Nat, NEW m \in Nat, n <= m
  PROVE  Targets(n) \subseteq Targets(m) /\ StepRows(n) \subseteq StepRows(m)
<1>1. Targets(n) \subseteq Targets(m)
  BY DEF Targets, Unset
<1> QED BY <1>1 DEF StepRows

LEMMA NewStepsAreRows ==
  ASSUME NEW type \in StepTypes, NEW g \in GroupNames, NEW n \in Nat
  PROVE  NewStep(type) \in StepRows(n) /\ Branch(g) \in StepRows(n)
<1>1. NewStep(type) \in StepRows(n) /\ NewStep("approval") \in StepRows(n)
  BY DEF NewStep, StepRows, Targets, StepTypes, Operators
<1> QED BY <1>1 DEF Branch, StepRows

LEMMA ExtendedKeeps ==
  ASSUME NEW n \in Nat, NEW steps \in [0 .. n - 1 -> StepRows(n)], NEW more,
         \A m \in Nat : more \in Seq(StepRows(m))
  PROVE  Extended(steps, more) \in [0 .. (n + Len(more)) - 1 -> StepRows(n + Len(more))]
<1> DEFINE m == n + Len(more)
<1>1. Size(steps) = n /\ Len(more) \in Nat /\ m \in Nat /\ n <= m
  BY SizeIs
<1>2. \A k \in 0 .. m - 1 : (IF k \in DOMAIN steps THEN steps[k] ELSE more[k - n + 1]) \in StepRows(m)
  <2> SUFFICES ASSUME NEW k \in 0 .. m - 1
               PROVE  (IF k \in DOMAIN steps THEN steps[k] ELSE more[k - n + 1]) \in StepRows(m)
    OBVIOUS
  <2>1. CASE k \in DOMAIN steps
    BY <1>1, <2>1, MoreTargets
  <2>2. CASE k \notin DOMAIN steps
    <3>1. k - n + 1 \in 1 .. Len(more) /\ more \in Seq(StepRows(m))
      BY <1>1, <2>2
    <3> QED BY <2>2, <3>1
  <2> QED BY <2>1, <2>2
<1>3. Extended(steps, more) = [k \in 0 .. m - 1 |-> IF k \in DOMAIN steps THEN steps[k] ELSE more[k - n + 1]]
  BY <1>1 DEF Extended
<1> HIDE DEF m
<1>4. Extended(steps, more) \in [0 .. m - 1 -> StepRows(m)]
  BY <1>2, <1>3
<1> QED BY <1>4 DEF m

(* A target is adjusted to a step that is there, or to none. *)
LEMMA AdjustedIsTarget ==
  ASSUME NEW n \in Nat, NEW t \in Targets(n), NEW i \in 0 .. n - 1
  PROVE  n - 1 \in Nat /\ Adjust(t, i) \in Targets(n - 1)
BY DEF Adjust, Targets, Unset

LEMMA StepAdjusted ==
  ASSUME NEW n \in Nat, NEW step \in StepRows(n), NEW i \in 0 .. n - 1
  PROVE  [step EXCEPT !.next = Adjust(@, i), !.onTrue = Adjust(@, i), !.onFalse = Adjust(@, i),
                      !.groupNext = Adjust(@, i)] \in StepRows(n - 1)
<1>1. /\ step.next \in Targets(n) /\ step.onTrue \in Targets(n)
      /\ step.onFalse \in Targets(n) /\ step.groupNext \in Targets(n)
  BY DEF StepRows
<1> DEFINE a == Adjust(step.next, i)
           b == Adjust(step.onTrue, i)
           c == Adjust(step.onFalse, i)
           e == Adjust(step.groupNext, i)
<1>2. a \in Targets(n - 1) /\ b \in Targets(n - 1) /\ c \in Targets(n - 1) /\ e \in Targets(n - 1)
  BY <1>1, AdjustedIsTarget
<1> HIDE DEF a, b, c, e
<1>3. [step EXCEPT !.next = a, !.onTrue = b, !.onFalse = c, !.groupNext = e] \in StepRows(n - 1)
  BY <1>2 DEF StepRows
<1> QED BY <1>3 DEF a, b, c, e

LEMMA RemovedKeeps ==
  ASSUME NEW n \in Nat, NEW steps \in [0 .. n - 1 -> StepRows(n)], NEW i \in 0 .. n - 1
  PROVE  n - 1 \in Nat /\ Removed(steps, i) \in [0 .. (n - 1) - 1 -> StepRows(n - 1)]
<1>1. Size(steps) = n /\ n - 1 \in Nat
  BY SizeIs
<1> DEFINE At(k) == IF k < i THEN k ELSE k + 1
           Now(k) == [steps[At(k)] EXCEPT !.next = Adjust(@, i), !.onTrue = Adjust(@, i),
                                          !.onFalse = Adjust(@, i), !.groupNext = Adjust(@, i)]
<1>2. \A k \in 0 .. n - 2 : Now(k) \in StepRows(n - 1)
  <2> SUFFICES ASSUME NEW k \in 0 .. n - 2 PROVE Now(k) \in StepRows(n - 1)
    OBVIOUS
  <2> DEFINE step == steps[At(k)]
  <2>1. step \in StepRows(n)
    BY <1>1
  <2> HIDE DEF step
  <2>2. [step EXCEPT !.next = Adjust(@, i), !.onTrue = Adjust(@, i), !.onFalse = Adjust(@, i),
                     !.groupNext = Adjust(@, i)] \in StepRows(n - 1)
    BY <2>1, StepAdjusted
  <2> QED BY <2>2 DEF step
<1>3. Removed(steps, i) = [k \in 0 .. n - 2 |-> Now(k)]
  BY <1>1 DEF Removed
<1> HIDE DEF Now
<1>4. 0 .. (n - 1) - 1 = 0 .. n - 2
  BY <1>1
<1> QED BY <1>1, <1>2, <1>3, <1>4

LEMMA StepReplaced ==
  ASSUME NEW n \in Nat, NEW steps \in [0 .. n - 1 -> StepRows(n)], NEW i \in 0 .. n - 1,
         NEW step \in Retargeted(steps, i) \cup Reworded(steps[i]) \cup Regrouped(steps, i)
  PROVE  step \in StepRows(n)
<1> DEFINE old == steps[i]
<1>1. old \in StepRows(n) /\ Size(steps) = n
  BY SizeIs
<1>2. Offered(steps, i) \subseteq Targets(n)
  BY <1>1 DEF Offered
<1>3. ASSUME step \in Retargeted(steps, i) PROVE step \in StepRows(n)
  <2>1. \E t \in Offered(steps, i) : \E field \in {"onTrue", "onFalse", "next"} : step = [old EXCEPT ![field] = t]
    BY <1>3 DEF Retargeted
  <2>2. PICK t \in Targets(n) : \E field \in {"onTrue", "onFalse", "next"} : step = [old EXCEPT ![field] = t]
    BY <1>2, <2>1
  <2> HIDE DEF old
  <2>3. CASE step = [old EXCEPT !["onTrue"] = t]
    BY <1>1, <2>2, <2>3 DEF StepRows
  <2>4. CASE step = [old EXCEPT !["onFalse"] = t]
    BY <1>1, <2>2, <2>4 DEF StepRows
  <2>5. CASE step = [old EXCEPT !["next"] = t]
    BY <1>1, <2>2, <2>5 DEF StepRows
  <2> QED BY <2>2, <2>3, <2>4, <2>5
<1>4. ASSUME step \in Reworded(old) PROVE step \in StepRows(n)
  <2>1. \/ \E r \in Rules : step = [old EXCEPT !.rule = r]
        \/ \E w \in {"nobody", "users", "role"} : step = [old EXCEPT !.who = w]
    BY <1>4 DEF Reworded
  <2> HIDE DEF old
  <2>2. ASSUME NEW r \in Rules, step = [old EXCEPT !.rule = r] PROVE step \in StepRows(n)
    <3>1. r \in [op : Operators, value : Operands \cup {Missing}]
      BY DEF Rules
    <3> QED BY <1>1, <2>2, <3>1 DEF StepRows
  <2>3. ASSUME NEW w \in {"nobody", "users", "role"}, step = [old EXCEPT !.who = w] PROVE step \in StepRows(n)
    BY <1>1, <2>3 DEF StepRows
  <2> QED BY <2>1, <2>2, <2>3
<1>5. ASSUME step \in Regrouped(steps, i) PROVE step \in StepRows(n)
  <2>1. \/ \E g \in GroupNames \cup {NoGroup} : step = [old EXCEPT !.group = g]
        \/ \E t \in Offered(steps, i) : step = [old EXCEPT !.groupNext = t]
    BY <1>5 DEF Regrouped
  <2>2. \/ \E g \in GroupNames \cup {NoGroup} : step = [old EXCEPT !.group = g]
        \/ \E t \in Targets(n) : step = [old EXCEPT !.groupNext = t]
    BY <1>2, <2>1
  <2> HIDE DEF old
  <2>3. ASSUME NEW g \in GroupNames \cup {NoGroup}, step = [old EXCEPT !.group = g] PROVE step \in StepRows(n)
    BY <1>1, <2>3 DEF StepRows
  <2>4. ASSUME NEW t \in Targets(n), step = [old EXCEPT !.groupNext = t] PROVE step \in StepRows(n)
    BY <1>1, <2>4 DEF StepRows
  <2> QED BY <2>2, <2>3, <2>4
<1> QED BY <1>3, <1>4, <1>5

LEMMA EditedIsDefinition ==
  ASSUME NEW steps \in Definitions, NEW d \in Edited(steps), Size(d) <= MaxFlowSteps
  PROVE  d \in Definitions
<1> DEFINE n == Size(steps)
<1>1. n \in Nat /\ steps \in [0 .. n - 1 -> StepRows(n)] /\ DOMAIN steps = 0 .. n - 1
  <2>1. n \in 0 .. MaxFlowSteps /\ steps \in [0 .. n - 1 -> StepRows(n)]
    BY DefinitionHas
  <2> QED BY <2>1, DesignerAssumption
<1> HIDE DEF n
<1>2. ASSUME NEW type \in StepTypes, d = Extended(steps, <<NewStep(type)>>) PROVE d \in Definitions
  <2> DEFINE more == <<NewStep(type)>>
  <2>1. \A m \in Nat : more \in Seq(StepRows(m))
    <3>1. \A m \in Nat : NewStep(type) \in StepRows(m)
      BY DEF NewStep, StepRows, Targets, StepTypes, Operators
    <3> QED BY <3>1
  <2>2. Len(more) \in Nat
    OBVIOUS
  <2> HIDE DEF more
  <2>3. Extended(steps, more) \in [0 .. (n + Len(more)) - 1 -> StepRows(n + Len(more))]
    BY <1>1, <2>1, ExtendedKeeps
  <2>4. d = Extended(steps, more)
    BY <1>2 DEF more
  <2> DEFINE m == n + Len(more)
  <2>5. m \in Nat /\ d \in [0 .. m - 1 -> StepRows(m)]
    BY <1>1, <2>2, <2>3, <2>4
  <2> HIDE DEF m
  <2> QED BY <2>5, DefinitionMade
<1>3. ASSUME NEW g \in GroupNames, d = Extended(steps, <<Branch(g), Branch(g)>>) PROVE d \in Definitions
  <2> DEFINE more == <<Branch(g), Branch(g)>>
  <2>1. \A m \in Nat : more \in Seq(StepRows(m))
    <3>1. \A m \in Nat : Branch(g) \in StepRows(m)
      BY NewStepsAreRows DEF StepTypes
    <3> QED BY <3>1
  <2>2. Len(more) \in Nat
    OBVIOUS
  <2> HIDE DEF more
  <2>3. Extended(steps, more) \in [0 .. (n + Len(more)) - 1 -> StepRows(n + Len(more))]
    BY <1>1, <2>1, ExtendedKeeps
  <2>4. d = Extended(steps, more)
    BY <1>3 DEF more
  <2> DEFINE m == n + Len(more)
  <2>5. m \in Nat /\ d \in [0 .. m - 1 -> StepRows(m)]
    BY <1>1, <2>2, <2>3, <2>4
  <2> HIDE DEF m
  <2> QED BY <2>5, DefinitionMade
<1>4. ASSUME NEW i \in DOMAIN steps, d = Removed(steps, i) PROVE d \in Definitions
  <2> DEFINE m == n - 1
  <2>1. m \in Nat /\ d \in [0 .. m - 1 -> StepRows(m)]
    BY <1>1, <1>4, RemovedKeeps
  <2> HIDE DEF m
  <2> QED BY <2>1, DefinitionMade
<1>5. ASSUME NEW i \in DOMAIN steps,
             NEW step \in Retargeted(steps, i) \cup Reworded(steps[i]) \cup Regrouped(steps, i),
             d = [steps EXCEPT ![i] = step]
      PROVE  d \in Definitions
  <2>1. step \in StepRows(n)
    BY <1>1, StepReplaced
  <2>2. d \in [0 .. n - 1 -> StepRows(n)]
    BY <1>1, <1>5, <2>1
  <2> QED BY <1>1, <2>2, DefinitionMade
<1>6. \/ \E type \in StepTypes : d = Extended(steps, <<NewStep(type)>>)
      \/ \E g \in GroupNames : d = Extended(steps, <<Branch(g), Branch(g)>>)
      \/ \E i \in DOMAIN steps : d = Removed(steps, i)
      \/ \E i \in DOMAIN steps :
           \E step \in Retargeted(steps, i) \cup Reworded(steps[i]) \cup Regrouped(steps, i) :
             d = [steps EXCEPT ![i] = step]
  BY DEF Edited
<1> QED BY <1>2, <1>3, <1>4, <1>5, <1>6

(***************************************************************************)
(* The invariant                                                            *)
(***************************************************************************)
DesignRows ==
  /\ form \in [Designers -> FormRows] /\ asked \in [Designers -> SUBSET Definitions]
  /\ saves \in [Designers -> SaveRows] /\ versions \in Seq(VersionRows)
  /\ Len(versions) \in 1 .. MaxFlowVersions
  /\ withdrawn \in BOOLEAN /\ clicks \in 0 .. MaxDesignClicks
  /\ \A a \in Designers : form[a].of <= Len(versions) /\ saves[a].of <= Len(versions)

(* A save archives what was there before the version it has created. *)
SaveIsLate(save, count) ==
  /\ save.commits = -1 => save = Idle
  /\ save.commits >= 1 /\ save.of # NoVersion => save.of < count

(* The newest version stays in force. *)
NewestInForce ==
  ~ withdrawn => versions[Len(versions)].active /\ \A v \in DOMAIN versions : ~ versions[v].deleted

DesignInv == DesignRows /\ NewestInForce /\ \A a \in Designers : SaveIsLate(saves[a], Len(versions))

LEMMA NoStepsIsDefinition == NoSteps \in Definitions /\ Idle \in SaveRows /\ EmptyForm \in FormRows
<1>1. 0 \in 0 .. MaxFlowSteps
  BY DesignerAssumption
<1>2. NoSteps \in [0 .. 0 - 1 -> StepRows(0)]
  BY DEF NoSteps
<1>3. NoSteps \in Definitions
  BY <1>1, <1>2 DEF Definitions
<1> QED BY <1>3 DEF Idle, EmptyForm, SaveRows, FormRows, NoVersion

LEMMA DesignInvInit == DesignInit => DesignInv
<1> SUFFICES ASSUME DesignInit PROVE DesignInv
  OBVIOUS
<1>1. PICK d \in Flows : versions = <<[steps |-> d, active |-> TRUE, deleted |-> FALSE]>>
  BY DEF DesignInit
<1>2. d \in Definitions
  BY DesignerAssumption, DefinitionsAre
<1> DEFINE entry == [steps |-> d, active |-> TRUE, deleted |-> FALSE]
<1>3. entry \in VersionRows /\ entry.active /\ ~ entry.deleted
  BY <1>2 DEF VersionRows
<1> HIDE DEF entry
<1>4. versions \in Seq(VersionRows) /\ Len(versions) = 1 /\ DOMAIN versions = {1} /\ versions[1] = entry
  BY <1>1, <1>3 DEF entry
<1>5. DesignRows
  <2>1. form \in [Designers -> FormRows] /\ asked \in [Designers -> SUBSET Definitions]
    BY NoStepsIsDefinition DEF DesignInit
  <2>2. saves \in [Designers -> SaveRows]
    BY NoStepsIsDefinition DEF DesignInit
  <2>3. \A a \in Designers : form[a].of = 0 /\ saves[a].of = 0
    BY DEF DesignInit, EmptyForm, Idle, NoVersion
  <2>4. 1 \in 1 .. MaxFlowVersions
    BY DesignerAssumption
  <2>5. withdrawn \in BOOLEAN /\ clicks \in 0 .. MaxDesignClicks
    BY DEF DesignInit
  <2>6. \A a \in Designers : form[a].of <= Len(versions) /\ saves[a].of <= Len(versions)
    BY <1>4, <2>3
  <2> QED BY <1>4, <2>1, <2>2, <2>4, <2>5, <2>6 DEF DesignRows
<1>6. NewestInForce
  BY <1>3, <1>4 DEF NewestInForce
<1>7. \A a \in Designers : SaveIsLate(saves[a], Len(versions))
  BY DEF DesignInit, SaveIsLate, Idle
<1> QED BY <1>5, <1>6, <1>7 DEF DesignInv

(***************************************************************************)
(* The form and the answers                                                 *)
(***************************************************************************)
LEMMA FormKept ==
  ASSUME DesignInv, NEW a \in Designers, NEW entry \in FormRows, entry.of <= Len(versions),
         form' = [form EXCEPT ![a] = entry],
         asked' \in [Designers -> SUBSET Definitions], clicks' \in 0 .. MaxDesignClicks,
         UNCHANGED <<saves, versions, withdrawn>>
  PROVE  DesignInv'
<1>1. DesignRows
  BY DEF DesignInv
<1>2. form' \in [Designers -> FormRows]
  BY <1>1 DEF DesignRows
<1>3. \A b \in Designers : form'[b].of <= Len(versions')
  BY <1>1 DEF DesignRows
<1>4. DesignRows'
  BY <1>1, <1>2, <1>3 DEF DesignRows
<1>5. NewestInForce' /\ \A b \in Designers : SaveIsLate(saves'[b], Len(versions'))
  BY DEF DesignInv, NewestInForce
<1> QED BY <1>4, <1>5 DEF DesignInv

LEMMA ClickCounts == DesignInv /\ Click => clicks' \in 0 .. MaxDesignClicks
BY DesignerAssumption DEF DesignInv, DesignRows, Click

LEMMA FormRowsOf ==
  ASSUME DesignInv, NEW a \in Designers
  PROVE  /\ form[a] \in FormRows /\ form[a].of <= Len(versions) /\ asked[a] \subseteq Definitions
         /\ saves[a] \in SaveRows /\ saves[a].of <= Len(versions) /\ saves[a].of \in Nat
         /\ SaveIsLate(saves[a], Len(versions))
         /\ Len(versions) \in Nat /\ DOMAIN versions = 1 .. Len(versions)
<1>1. DesignRows
  BY DEF DesignInv
<1>2. form[a] \in FormRows /\ asked[a] \subseteq Definitions /\ saves[a] \in SaveRows
  BY <1>1 DEF DesignRows
<1>3. saves[a].of \in Nat
  BY <1>2 DEF SaveRows
<1>4. Len(versions) \in Nat /\ DOMAIN versions = 1 .. Len(versions)
  BY <1>1 DEF DesignRows
<1> QED BY <1>1, <1>2, <1>3, <1>4 DEF DesignInv, DesignRows

LEMMA FormRowEdited ==
  ASSUME NEW entry \in FormRows, NEW d \in Definitions, NEW b \in BOOLEAN
  PROVE  /\ [entry EXCEPT !.steps = d] \in FormRows /\ [entry EXCEPT !.steps = d].of = entry.of
         /\ [entry EXCEPT !.active = b] \in FormRows /\ [entry EXCEPT !.active = b].of = entry.of
BY DEF FormRows

LEMMA EmptyFormIs == EmptyForm \in FormRows /\ EmptyForm.of = 0
BY NoStepsIsDefinition DEF EmptyForm, NoVersion

LEMMA EditStep == ASSUME DesignInv, NEW a \in Designers, Edit(a) PROVE DesignInv'
<1>1. PICK d \in Edited(form[a].steps) : Size(d) <= MaxFlowSteps /\ form' = [form EXCEPT ![a].steps = d]
  BY DEF Edit
<1>2. form[a] \in FormRows /\ form[a].of <= Len(versions)
  BY FormRowsOf
<1>3. form[a].steps \in Definitions
  BY <1>2 DEF FormRows
<1>4. d \in Definitions
  BY <1>1, <1>3, EditedIsDefinition
<1> DEFINE entry == [form[a] EXCEPT !.steps = d]
<1>5. entry \in FormRows /\ entry.of <= Len(versions)
  BY <1>2, <1>4, FormRowEdited
<1>6. form' = [form EXCEPT ![a] = entry]
  BY <1>1
<1> HIDE DEF entry
<1>7. asked' \in [Designers -> SUBSET Definitions]
  BY DEF DesignInv, DesignRows, Edit
<1>8. clicks' \in 0 .. MaxDesignClicks /\ UNCHANGED <<saves, versions, withdrawn>>
  BY ClickCounts DEF Edit
<1> QED BY <1>5, <1>6, <1>7, <1>8, FormKept

LEMMA SetActiveStep == ASSUME DesignInv, NEW a \in Designers, SetActive(a) PROVE DesignInv'
<1>2. form[a] \in FormRows /\ form[a].of <= Len(versions)
  BY FormRowsOf
<1> DEFINE b == ~ form[a].active
           entry == [form[a] EXCEPT !.active = b]
<1>3. b \in BOOLEAN
  BY <1>2 DEF FormRows
<1>6. form' = [form EXCEPT ![a] = entry]
  BY DEF SetActive
<1> HIDE DEF b
<1>5. entry \in FormRows /\ entry.of <= Len(versions)
  <2>1. NoSteps \in Definitions
    BY NoStepsIsDefinition
  <2> QED BY <1>2, <1>3, <2>1, FormRowEdited
<1> HIDE DEF entry
<1>7. asked' \in [Designers -> SUBSET Definitions]
  BY DEF DesignInv, DesignRows, SetActive
<1>8. clicks' \in 0 .. MaxDesignClicks /\ UNCHANGED <<saves, versions, withdrawn>>
  BY ClickCounts DEF SetActive
<1> QED BY <1>5, <1>6, <1>7, <1>8, FormKept

LEMMA TypeASpaceStep == ASSUME DesignInv, NEW a \in Designers, TypeASpace(a) PROVE DesignInv'
<1>1. EmptyForm \in FormRows /\ EmptyForm.of <= Len(versions)
  BY EmptyFormIs, FormRowsOf
<1>2. form' = [form EXCEPT ![a] = EmptyForm] /\ UNCHANGED <<saves, versions, withdrawn>>
  BY DEF TypeASpace
<1>3. asked' \in [Designers -> SUBSET Definitions]
  BY DEF DesignInv, DesignRows, TypeASpace
<1>4. clicks' \in 0 .. MaxDesignClicks
  BY ClickCounts DEF TypeASpace
<1> QED BY <1>1, <1>2, <1>3, <1>4, FormKept

LEMMA AskStep == ASSUME DesignInv, NEW a \in Designers, Ask(a) PROVE DesignInv'
<1>1. form[a] \in FormRows /\ form[a].of <= Len(versions)
  BY FormRowsOf
<1>2. form[a].steps \in Definitions
  BY <1>1 DEF FormRows
<1>3. form' = [form EXCEPT ![a] = form[a]] /\ UNCHANGED <<saves, versions, withdrawn>>
  BY DEF Ask, DesignInv, DesignRows
<1>4. asked' \in [Designers -> SUBSET Definitions]
  BY <1>2 DEF DesignInv, DesignRows, Ask
<1>5. clicks' \in 0 .. MaxDesignClicks
  BY ClickCounts DEF Ask
<1> QED BY <1>1, <1>3, <1>4, <1>5, FormKept

LEMMA AnswerArrivesStep == ASSUME DesignInv, NEW a \in Designers, AnswerArrives(a) PROVE DesignInv'
<1>1. PICK d \in asked[a] : form' = [form EXCEPT ![a].steps = d]
  BY DEF AnswerArrives
<1>2. form[a] \in FormRows /\ form[a].of <= Len(versions) /\ d \in Definitions
  BY FormRowsOf
<1> DEFINE entry == [form[a] EXCEPT !.steps = d]
<1>3. entry \in FormRows /\ entry.of <= Len(versions)
  BY <1>2, FormRowEdited
<1>4. form' = [form EXCEPT ![a] = entry]
  BY <1>1
<1> HIDE DEF entry
<1>5. asked' \in [Designers -> SUBSET Definitions]
  BY DEF DesignInv, DesignRows, AnswerArrives
<1>6. clicks' \in 0 .. MaxDesignClicks /\ UNCHANGED <<saves, versions, withdrawn>>
  BY DEF AnswerArrives, DesignInv, DesignRows
<1> QED BY <1>3, <1>4, <1>5, <1>6, FormKept

LEMMA StartEditingStep ==
  ASSUME DesignInv, NEW a \in Designers, NEW v \in DOMAIN versions, StartEditing(a, v) PROVE DesignInv'
<1> DEFINE entry == [steps |-> versions[v].steps, of |-> v, active |-> TRUE]
<1>1. entry \in FormRows /\ entry.of <= Len(versions)
  <2>1. versions[v] \in VersionRows /\ v \in 1 .. Len(versions) /\ Len(versions) \in Nat
    BY DEF DesignInv, DesignRows
  <2>2. versions[v].steps \in Definitions
    BY <2>1 DEF VersionRows
  <2> QED BY <2>1, <2>2 DEF FormRows
<1>2. form' = [form EXCEPT ![a] = entry] /\ UNCHANGED <<saves, versions, withdrawn>>
  BY DEF StartEditing
<1> HIDE DEF entry
<1>3. asked' \in [Designers -> SUBSET Definitions]
  BY DEF DesignInv, DesignRows, StartEditing
<1>4. clicks' \in 0 .. MaxDesignClicks
  BY ClickCounts DEF StartEditing
<1> QED BY <1>1, <1>2, <1>3, <1>4, FormKept

LEMMA CancelEditingStep == ASSUME DesignInv, NEW a \in Designers, CancelEditing(a) PROVE DesignInv'
<1>1. EmptyForm \in FormRows /\ EmptyForm.of <= Len(versions)
  BY EmptyFormIs, FormRowsOf
<1>2. form' = [form EXCEPT ![a] = EmptyForm] /\ UNCHANGED <<saves, versions, withdrawn>>
  BY DEF CancelEditing
<1>3. asked' \in [Designers -> SUBSET Definitions] /\ clicks' \in 0 .. MaxDesignClicks
  BY DEF DesignInv, DesignRows, CancelEditing
<1> QED BY <1>1, <1>2, <1>3, FormKept

(***************************************************************************)
(* The saves and the stored versions                                        *)
(***************************************************************************)
LEMMA SaveKept ==
  ASSUME DesignInv, NEW a \in Designers, NEW save \in SaveRows, save.of <= Len(versions),
         SaveIsLate(save, Len(versions)), saves' = [saves EXCEPT ![a] = save],
         form' \in [Designers -> FormRows], \A b \in Designers : form'[b].of <= Len(versions),
         UNCHANGED <<asked, versions, withdrawn, clicks>>
  PROVE  DesignInv'
<1>1. DesignRows
  BY DEF DesignInv
<1>2. saves' \in [Designers -> SaveRows]
  BY <1>1 DEF DesignRows
<1>3. \A b \in Designers : saves'[b].of <= Len(versions)
  BY <1>1 DEF DesignRows
<1>4. DesignRows'
  BY <1>1, <1>2, <1>3 DEF DesignRows
<1>5. NewestInForce'
  BY DEF DesignInv, NewestInForce
<1>6. \A b \in Designers : SaveIsLate(saves'[b], Len(versions'))
  <2> SUFFICES ASSUME NEW b \in Designers PROVE SaveIsLate(saves'[b], Len(versions'))
    OBVIOUS
  <2>1. SaveIsLate(saves[b], Len(versions)) /\ versions' = versions
    BY DEF DesignInv
  <2>2. saves'[b] = IF b = a THEN save ELSE saves[b]
    BY <1>1 DEF DesignRows
  <2> QED BY <2>1, <2>2
<1> QED BY <1>4, <1>5, <1>6 DEF DesignInv

LEMMA FormsAre ==
  ASSUME DesignInv PROVE form \in [Designers -> FormRows] /\ \A b \in Designers : form[b].of <= Len(versions)
BY DEF DesignInv, DesignRows

LEMMA IdleIsLate == Idle \in SaveRows /\ Idle.of = 0 /\ \A n \in Nat : SaveIsLate(Idle, n)
<1>1. Idle.commits = -1 /\ Idle.of = 0
  BY DEF Idle, NoVersion
<1> QED BY <1>1, NoStepsIsDefinition DEF SaveIsLate

LEMMA SubmitStep == ASSUME DesignInv, NEW a \in Designers, Submit(a) PROVE DesignInv'
<1> DEFINE save == [commits |-> 0, of |-> form[a].of, steps |-> form[a].steps, active |-> form[a].active]
<1>1. form[a] \in FormRows /\ form[a].of <= Len(versions)
  BY FormRowsOf
<1>2. save \in SaveRows /\ save.of <= Len(versions)
  BY <1>1 DEF FormRows, SaveRows
<1>3. SaveIsLate(save, Len(versions))
  BY DEF SaveIsLate
<1>4. saves' = [saves EXCEPT ![a] = save] /\ UNCHANGED <<form, asked, versions, withdrawn, clicks>>
  BY DEF Submit
<1> HIDE DEF save
<1>5. form' \in [Designers -> FormRows] /\ \A b \in Designers : form'[b].of <= Len(versions)
  BY <1>4, FormsAre
<1> QED BY <1>2, <1>3, <1>4, <1>5, SaveKept

LEMMA AnsweredStep == ASSUME DesignInv, NEW a \in Designers, Answered(a) PROVE DesignInv'
<1>1. Idle \in SaveRows /\ Idle.of <= Len(versions) /\ SaveIsLate(Idle, Len(versions))
  BY IdleIsLate, FormRowsOf
<1>2. /\ saves' = [saves EXCEPT ![a] = Idle] /\ form' = [form EXCEPT ![a] = EmptyForm]
      /\ UNCHANGED <<asked, versions, withdrawn, clicks>>
  BY DEF Answered
<1>3. form' \in [Designers -> FormRows] /\ \A b \in Designers : form'[b].of <= Len(versions)
  <2>1. EmptyForm \in FormRows /\ EmptyForm.of <= Len(versions)
    BY EmptyFormIs, FormRowsOf
  <2> QED BY <1>2, <2>1, FormsAre
<1> QED BY <1>1, <1>2, <1>3, SaveKept

LEMMA SaveFailsStep == ASSUME DesignInv, NEW a \in Designers, SaveFails(a) PROVE DesignInv'
<1>1. Idle \in SaveRows /\ Idle.of <= Len(versions) /\ SaveIsLate(Idle, Len(versions))
  BY IdleIsLate, FormRowsOf
<1>2. saves' = [saves EXCEPT ![a] = Idle] /\ UNCHANGED <<form, asked, versions, withdrawn, clicks>>
  BY DEF SaveFails
<1>3. form' \in [Designers -> FormRows] /\ \A b \in Designers : form'[b].of <= Len(versions)
  BY <1>2, FormsAre
<1> QED BY <1>1, <1>2, <1>3, SaveKept

LEMMA VersionMarked ==
  ASSUME NEW entry \in VersionRows
  PROVE  /\ [entry EXCEPT !.active = FALSE] \in VersionRows
         /\ [entry EXCEPT !.active = FALSE].deleted = entry.deleted
         /\ [entry EXCEPT !.deleted = TRUE] \in VersionRows
BY DEF VersionRows

(* A save's next commit, and that no later one than the second is made. *)
LEMMA CommitIs ==
  ASSUME DesignInv, NEW a \in Designers, Commit(a)
  PROVE  /\ saves[a].commits \in {0, 1} /\ withdrawn' = (withdrawn \/ ~ saves[a].active)
         /\ saves[a].commits = 0 =>
              /\ Len(versions) < MaxFlowVersions
              /\ versions' = Append(versions, [steps |-> saves[a].steps, active |-> saves[a].active, deleted |-> FALSE])
         /\ saves[a].commits = 1 =>
              /\ saves[a].of # NoVersion
              /\ versions' = [versions EXCEPT ![saves[a].of].active = FALSE]
<1> DEFINE save == saves[a]
<1>1. save \in SaveRows /\ SaveIsLate(save, Len(versions))
  BY FormRowsOf
<1>2. save.commits \in -1 .. 2 /\ save.commits # -1
  BY <1>1 DEF SaveRows, SaveIsLate, Commit
<1>3. save.commits < Len(Commits(save))
  BY DEF Commit
<1>4. save.of = NoVersion => Commits(save) = <<"create">>
  BY DEF Commits
<1>5. save.of # NoVersion => Commits(save) = <<"create", "archive">>
  BY DEF Commits
<1>6. Len(<<"create">>) = 1 /\ Len(<<"create", "archive">>) = 2
  OBVIOUS
<1>7. save.commits \in {0, 1} /\ (save.commits = 1 => save.of # NoVersion)
  <2> DEFINE made == save.commits
             last == Len(Commits(save))
  <2>1. last = 1 \/ (last = 2 /\ save.of # NoVersion)
    BY <1>4, <1>5, <1>6
  <2>2. made \in -1 .. 2 /\ made # -1 /\ made < last
    BY <1>2, <1>3
  <2> HIDE DEF made, last
  <2>3. made \in {0, 1} /\ (made = 1 => last = 2)
    BY <2>1, <2>2
  <2> QED BY <2>1, <2>3 DEF made
<1>8. save.commits = 0 => Commits(save)[save.commits + 1] = "create"
  BY <1>4, <1>5
<1>9. save.commits = 1 => Commits(save)[save.commits + 1] = "archive"
  BY <1>5, <1>7
<1>10. /\ withdrawn' = (withdrawn \/ ~ save.active)
       /\ Commits(save)[save.commits + 1] = "create" =>
            /\ Len(versions) < MaxFlowVersions
            /\ versions' = Append(versions, [steps |-> save.steps, active |-> save.active, deleted |-> FALSE])
       /\ Commits(save)[save.commits + 1] = "archive" =>
            versions' = [versions EXCEPT ![save.of].active = FALSE]
  BY DEF Commit
<1> HIDE DEF save
<1>11. save.commits = 0 =>
            /\ Len(versions) < MaxFlowVersions
            /\ versions' = Append(versions, [steps |-> save.steps, active |-> save.active, deleted |-> FALSE])
  BY <1>8, <1>10
<1>12. save.commits = 1 => save.of # NoVersion /\ versions' = [versions EXCEPT ![save.of].active = FALSE]
  BY <1>7, <1>9, <1>10
<1> QED BY <1>7, <1>10, <1>11, <1>12 DEF save

LEMMA SaveAdvances ==
  ASSUME DesignInv, NEW a \in Designers, saves[a].commits \in {0, 1},
         saves' = [saves EXCEPT ![a].commits = saves[a].commits + 1]
  PROVE  /\ saves' \in [Designers -> SaveRows]
         /\ \A b \in Designers : saves'[b].of = saves[b].of
         /\ \A b \in Designers : b # a => saves'[b] = saves[b]
         /\ saves'[a].commits = saves[a].commits + 1
<1>1. saves \in [Designers -> SaveRows]
  BY DEF DesignInv, DesignRows
<1> DEFINE n == saves[a].commits + 1
           save == [saves[a] EXCEPT !.commits = n]
<1>2. n \in -1 .. 2
  OBVIOUS
<1> HIDE DEF n
<1>3. save \in SaveRows /\ save.of = saves[a].of /\ save.commits = n
  BY <1>1, <1>2 DEF SaveRows
<1>4. saves' = [saves EXCEPT ![a] = save]
  BY DEF n
<1> HIDE DEF save
<1> QED BY <1>1, <1>3, <1>4 DEF n

LEMMA CommitStep == ASSUME DesignInv, NEW a \in Designers, Commit(a) PROVE DesignInv'
<1> DEFINE save == saves[a]
           now == saves'[a]
<1>1. DesignRows /\ save \in SaveRows /\ SaveIsLate(save, Len(versions)) /\ save.of <= Len(versions) /\ save.of \in Nat
  BY FormRowsOf DEF DesignInv
<1>2. /\ save.commits \in {0, 1} /\ withdrawn' = (withdrawn \/ ~ save.active)
      /\ UNCHANGED <<form, asked, clicks>>
  BY CommitIs DEF Commit
<1>3. /\ saves' \in [Designers -> SaveRows]
      /\ \A b \in Designers : saves'[b].of = saves[b].of
      /\ \A b \in Designers : b # a => saves'[b] = saves[b]
      /\ saves'[a].commits = save.commits + 1
  <2>1. saves' = [saves EXCEPT ![a].commits = saves[a].commits + 1]
    BY DEF Commit
  <2> QED BY <1>2, <2>1, SaveAdvances
<1>4. save.active \in BOOLEAN /\ withdrawn' \in BOOLEAN
  BY <1>1, <1>2 DEF SaveRows
<1>5. ASSUME save.commits = 0 PROVE DesignInv'
  <2> DEFINE entry == [steps |-> save.steps, active |-> save.active, deleted |-> FALSE]
  <2>1. entry \in VersionRows /\ entry.active = save.active /\ entry.deleted = FALSE
    BY <1>1 DEF SaveRows, VersionRows
  <2>2. Len(versions) < MaxFlowVersions /\ versions' = Append(versions, entry)
    BY <1>5, CommitIs
  <2> HIDE DEF entry
  <2>3. versions \in Seq(VersionRows) /\ Len(versions) \in 1 .. MaxFlowVersions
    BY <1>1 DEF DesignRows
  <2>4. /\ versions' \in Seq(VersionRows) /\ Len(versions') = Len(versions) + 1
        /\ versions'[Len(versions')] = entry /\ Len(versions') \in 1 .. MaxFlowVersions
        /\ \A v \in DOMAIN versions' : v = Len(versions') \/ (v \in DOMAIN versions /\ versions'[v] = versions[v])
    BY <2>1, <2>2, <2>3, DesignerAssumption
  <2>5. \A b \in Designers : form'[b].of <= Len(versions') /\ saves'[b].of <= Len(versions')
    <3> SUFFICES ASSUME NEW b \in Designers
                 PROVE  form'[b].of <= Len(versions') /\ saves'[b].of <= Len(versions')
      OBVIOUS
    <3>1. form[b].of \in Nat /\ saves[b].of \in Nat
      BY <1>1 DEF DesignRows, FormRows, SaveRows
    <3>2. form[b].of <= Len(versions) /\ saves[b].of <= Len(versions)
      BY <1>1 DEF DesignRows
    <3>3. form'[b].of = form[b].of /\ saves'[b].of = saves[b].of
      BY <1>2, <1>3
    <3> QED BY <2>3, <2>4, <3>1, <3>2, <3>3
  <2>6. DesignRows'
    BY <1>1, <1>2, <1>3, <1>4, <2>4, <2>5 DEF DesignRows
  <2>7. NewestInForce'
    <3> SUFFICES ASSUME ~ withdrawn'
                 PROVE  versions'[Len(versions')].active /\ \A v \in DOMAIN versions' : ~ versions'[v].deleted
      BY DEF NewestInForce
    <3>1. ~ withdrawn /\ save.active
      BY <1>2
    <3>2. \A v \in DOMAIN versions : ~ versions[v].deleted
      BY <3>1 DEF DesignInv, NewestInForce
    <3> QED BY <2>1, <2>4, <3>1, <3>2
  <2>8. \A b \in Designers : SaveIsLate(saves'[b], Len(versions'))
    <3> SUFFICES ASSUME NEW b \in Designers PROVE SaveIsLate(saves'[b], Len(versions'))
      OBVIOUS
    <3>1. CASE b = a
      <4>1. saves'[a].commits = 1 /\ saves'[a].of < Len(versions')
        BY <1>1, <1>3, <1>5, <2>3, <2>4
      <4> QED BY <3>1, <4>1 DEF SaveIsLate
    <3>2. CASE b # a
      <4>1. saves'[b] = saves[b] /\ SaveIsLate(saves[b], Len(versions)) /\ saves[b].of \in Nat
        BY <1>3, <3>2, FormRowsOf
      <4> QED BY <2>3, <2>4, <4>1 DEF SaveIsLate
    <3> QED BY <3>1, <3>2
  <2> QED BY <2>6, <2>7, <2>8 DEF DesignInv
<1>6. ASSUME save.commits = 1 PROVE DesignInv'
  <2>1. save.of # NoVersion /\ versions' = [versions EXCEPT ![save.of].active = FALSE]
    BY <1>6, CommitIs
  <2>2. versions \in Seq(VersionRows) /\ Len(versions) \in 1 .. MaxFlowVersions /\ save.of \in 1 .. Len(versions)
    BY <1>1, <2>1 DEF DesignRows, NoVersion
  <2>3. save.of < Len(versions)
    BY <1>1, <1>6, <2>1 DEF SaveIsLate
  <2> DEFINE entry == [versions[save.of] EXCEPT !.active = FALSE]
  <2>4. entry \in VersionRows /\ entry.deleted = versions[save.of].deleted
    <3>1. versions[save.of] \in VersionRows
      BY <2>2
    <3> QED BY <3>1, VersionMarked
  <2>5. versions' = [versions EXCEPT ![save.of] = entry]
    BY <2>1
  <2> HIDE DEF entry
  <2>6. versions' \in Seq(VersionRows) /\ Len(versions') = Len(versions) /\ DOMAIN versions' = DOMAIN versions
    BY <2>2, <2>4, <2>5
  <2>7. \A v \in DOMAIN versions : versions'[v] = IF v = save.of THEN entry ELSE versions[v]
    BY <2>2, <2>5
  <2>8. \A b \in Designers : form'[b].of <= Len(versions') /\ saves'[b].of <= Len(versions')
    BY <1>1, <1>2, <1>3, <2>6 DEF DesignRows
  <2>9. DesignRows'
    BY <1>1, <1>2, <1>3, <1>4, <2>6, <2>8 DEF DesignRows
  <2>10. NewestInForce'
    <3> SUFFICES ASSUME ~ withdrawn'
                 PROVE  versions'[Len(versions')].active /\ \A v \in DOMAIN versions' : ~ versions'[v].deleted
      BY DEF NewestInForce
    <3>1. ~ withdrawn
      BY <1>2
    <3>2. versions[Len(versions)].active /\ \A v \in DOMAIN versions : ~ versions[v].deleted
      BY <3>1 DEF DesignInv, NewestInForce
    <3>3. Len(versions) \in DOMAIN versions /\ Len(versions) # save.of
      BY <2>2, <2>3
    <3>4. versions'[Len(versions')].active
      BY <2>6, <2>7, <3>2, <3>3
    <3>5. \A v \in DOMAIN versions' : ~ versions'[v].deleted
      BY <2>2, <2>4, <2>6, <2>7, <3>2
    <3> QED BY <3>4, <3>5
  <2>11. \A b \in Designers : SaveIsLate(saves'[b], Len(versions'))
    <3> SUFFICES ASSUME NEW b \in Designers PROVE SaveIsLate(saves'[b], Len(versions'))
      OBVIOUS
    <3>1. CASE b = a
      <4>1. saves'[a].commits = 2 /\ saves'[a].of < Len(versions')
        BY <1>3, <1>6, <2>3, <2>6
      <4> QED BY <3>1, <4>1 DEF SaveIsLate
    <3>2. CASE b # a
      <4>1. saves'[b] = saves[b] /\ SaveIsLate(saves[b], Len(versions))
        BY <1>3, <3>2, FormRowsOf
      <4> QED BY <2>6, <4>1
    <3> QED BY <3>1, <3>2
  <2> QED BY <2>9, <2>10, <2>11 DEF DesignInv
<1> QED BY <1>2, <1>5, <1>6

LEMMA DeleteStep == ASSUME DesignInv, NEW v \in DOMAIN versions, Delete(v) PROVE DesignInv'
<1>1. DesignRows /\ versions \in Seq(VersionRows) /\ Len(versions) \in 1 .. MaxFlowVersions
  BY DEF DesignInv, DesignRows
<1> DEFINE entry == [versions[v] EXCEPT !.deleted = TRUE]
<1>2. entry \in VersionRows
  <2>1. versions[v] \in VersionRows
    BY <1>1
  <2> QED BY <2>1, VersionMarked
<1>3. versions' = [versions EXCEPT ![v] = entry] /\ withdrawn' = TRUE /\ UNCHANGED <<form, asked, saves>>
  BY DEF Delete
<1> HIDE DEF entry
<1>4. versions' \in Seq(VersionRows) /\ Len(versions') = Len(versions)
  BY <1>1, <1>2, <1>3
<1>5. clicks' \in 0 .. MaxDesignClicks
  BY ClickCounts DEF Delete
<1>6. DesignRows'
  BY <1>1, <1>3, <1>4, <1>5 DEF DesignRows
<1>7. NewestInForce' /\ \A b \in Designers : SaveIsLate(saves'[b], Len(versions'))
  BY <1>3, <1>4 DEF DesignInv, NewestInForce
<1> QED BY <1>6, <1>7 DEF DesignInv

LEMMA DesignInvStep == DesignInv /\ [DesignNext]_designVars => DesignInv'
<1> SUFFICES ASSUME DesignInv, [DesignNext]_designVars PROVE DesignInv'
  OBVIOUS
<1>1. CASE UNCHANGED designVars
  BY <1>1 DEF designVars, DesignInv, DesignRows, NewestInForce
<1>2. ASSUME NEW a \in Designers,
             \/ Edit(a) \/ SetActive(a) \/ TypeASpace(a) \/ Ask(a) \/ AnswerArrives(a)
             \/ CancelEditing(a) \/ Submit(a) \/ Commit(a) \/ Answered(a) \/ SaveFails(a)
      PROVE  DesignInv'
  BY <1>2, EditStep, SetActiveStep, TypeASpaceStep, AskStep, AnswerArrivesStep, CancelEditingStep,
     SubmitStep, CommitStep, AnsweredStep, SaveFailsStep
<1>3. ASSUME NEW v \in DOMAIN versions, Delete(v) \/ \E a \in Designers : StartEditing(a, v)
      PROVE  DesignInv'
  BY <1>3, DeleteStep, StartEditingStep
<1> QED BY <1>1, <1>2, <1>3 DEF DesignNext

(* The definitions, the forms and the saves keep their types, in every state. *)
THEOREM DesignTypeCorrect == DesignSpec => []DesignTypeOK
<1>1. DesignInv => DesignTypeOK
  <2> SUFFICES ASSUME DesignInv PROVE DesignTypeOK
    OBVIOUS
  <2>1. DesignRows
    BY DEF DesignInv
  <2>2. ASSUME NEW a \in Designers
        PROVE  /\ Definition(form[a].steps) /\ form[a].active \in BOOLEAN
               /\ form[a].of \in {NoVersion} \cup DOMAIN versions
               /\ \A steps \in asked[a] : Definition(steps)
               /\ saves[a].commits \in -1 .. 2 /\ Definition(saves[a].steps)
    <3>1. /\ form[a] \in FormRows /\ form[a].of <= Len(versions) /\ asked[a] \subseteq Definitions
          /\ saves[a] \in SaveRows /\ Len(versions) \in Nat /\ DOMAIN versions = 1 .. Len(versions)
      BY FormRowsOf
    <3>2. form[a].steps \in Definitions /\ form[a].active \in BOOLEAN /\ form[a].of \in Nat
      BY <3>1 DEF FormRows
    <3>3. saves[a].commits \in -1 .. 2 /\ saves[a].steps \in Definitions
      BY <3>1 DEF SaveRows
    <3>4. form[a].of \in {NoVersion} \cup DOMAIN versions
      BY <3>1, <3>2 DEF NoVersion
    <3> QED BY <3>1, <3>2, <3>3, <3>4, DefinitionsAre
  <2>3. \A v \in DOMAIN versions : Definition(versions[v].steps)
    <3>1. \A v \in DOMAIN versions : versions[v] \in VersionRows
      BY <2>1 DEF DesignRows
    <3>2. \A v \in DOMAIN versions : versions[v].steps \in Definitions
      BY <3>1 DEF VersionRows
    <3> QED BY <3>2, DefinitionsAre
  <2> QED BY <2>1, <2>2, <2>3 DEF DesignTypeOK, DesignRows
<1> QED BY <1>1, DesignInvInit, DesignInvStep, PTL DEF DesignSpec

(* Until somebody deletes a version or saves one that is not active, some version is in force,
   whatever saves of several administrators are under way or were cut short. *)
THEOREM VersionsStayInForce == DesignSpec => []AlwaysInForce
<1>1. DesignInv => AlwaysInForce
  <2> SUFFICES ASSUME DesignInv, ~ withdrawn
               PROVE  \E v \in DOMAIN versions : versions[v].active /\ ~ versions[v].deleted
    BY DEF AlwaysInForce
  <2>1. versions[Len(versions)].active /\ \A v \in DOMAIN versions : ~ versions[v].deleted
    BY DEF DesignInv, NewestInForce
  <2>2. Len(versions) \in DOMAIN versions
    BY DEF DesignInv, DesignRows
  <2> QED BY <2>1, <2>2
<1> QED BY <1>1, DesignInvInit, DesignInvStep, PTL DEF DesignSpec

(* What the page lets through the server takes, however steps were drawn, moved and removed, and
   whichever answer has brought older steps back. *)
THEOREM PageChecksServe == DesignSpec => []PageChecksSuffice
<1>1. DesignInv => PageChecksSuffice
  <2> SUFFICES ASSUME DesignInv, NEW a \in Designers, Passes(form[a].steps)
               PROVE  Accepts(form[a].steps)
    BY DEF PageChecksSuffice
  <2> DEFINE d == form[a].steps
  <2>1. d \in Definitions
    BY FormRowsOf DEF FormRows
  <2> HIDE DEF d
  <2>2. d \in [0 .. Size(d) - 1 -> StepRows(Size(d))]
    BY <2>1, DefinitionHas
  <2>3. \A k \in DOMAIN d : d[k].groupNext \in Targets(Size(d))
    BY <2>2 DEF StepRows
  <2> QED BY <2>3 DEF Passes, Accepts, d
<1> QED BY <1>1, DesignInvInit, DesignInvStep, PTL DEF DesignSpec

(***************************************************************************)
(* The moves of the engine and of the diagram                               *)
(***************************************************************************)
LEMMA SmallestOf ==
  ASSUME NEW S, S \subseteq Nat, S # {}
  PROVE  \E x \in S : \A y \in S : x <= y
<1> DEFINE R == OpToRel(<, Nat)
<1>1. IsWellFoundedOn(R, Nat)
  BY NatLessThanWellFounded
<1>2. \A x, y \in Nat : y < x => <<y, x>> \in R
  BY DEF OpToRel
<1> HIDE DEF R
<1>3. PICK x \in S : \A y \in S : ~ (<<y, x>> \in R)
  BY <1>1, WFMin
<1>4. \A y \in S : ~ (y < x)
  BY <1>2, <1>3
<1> QED BY <1>4

LEMMA SmallestAndLargest ==
  ASSUME NEW n \in Nat, NEW S, S \subseteq 0 .. n, S # {}
  PROVE  /\ Min(S) \in S /\ \A x \in S : Min(S) <= x
         /\ Max(S) \in S /\ \A x \in S : Max(S) >= x
<1>1. \E x \in S : \A y \in S : x <= y
  <2>1. S \subseteq Nat
    OBVIOUS
  <2> QED BY <2>1, SmallestOf
<1>2. \E x \in S : \A y \in S : x >= y
  <2> DEFINE Mirror == {n - x : x \in S}
  <2>1. Mirror \subseteq Nat /\ Mirror # {}
    <3>1. \A x \in S : n - x \in Nat
      OBVIOUS
    <3>2. PICK x \in S : TRUE
      OBVIOUS
    <3>3. n - x \in Mirror
      OBVIOUS
    <3>4. \A m \in Mirror : m \in Nat
      BY <3>1
    <3> QED BY <3>3, <3>4
  <2> HIDE DEF Mirror
  <2>2. PICK m \in Mirror : \A y \in Mirror : m <= y
    BY <2>1, SmallestOf
  <2> USE DEF Mirror
  <2>3. PICK x \in S : m = n - x
    BY <2>2
  <2>4. \A y \in S : n - x <= n - y
    BY <2>2, <2>3
  <2>5. \A y \in S : x >= y
    BY <2>4
  <2> QED BY <2>5
<1>3. Min(S) \in S /\ \A x \in S : Min(S) <= x
  BY <1>1 DEF Min
<1>4. Max(S) \in S /\ \A x \in S : Max(S) >= x
  BY <1>2 DEF Max
<1> QED BY <1>3, <1>4

(* Two consecutive steps: the later one is the largest. *)
LEMMA LargerOfTwo == ASSUME NEW k \in Nat PROVE Max({k, k + 1}) = k + 1
<1>1. {k, k + 1} \subseteq 0 .. k + 1
  OBVIOUS
<1>2. Max({k, k + 1}) \in {k, k + 1} /\ \A x \in {k, k + 1} : Max({k, k + 1}) >= x
  BY <1>1, SmallestAndLargest
<1> DEFINE m == Max({k, k + 1})
<1> HIDE DEF m
<1>3. m \in {k, k + 1} /\ m >= k + 1
  BY <1>2 DEF m
<1> QED BY <1>3 DEF m

(* The diagram and the canvas go on after a step where the engine does: the sibling arm it falls
   behind is that of the first condition both mean. *)
LEMMA ContinuesAlike ==
  ASSUME NEW d \in Definitions, NEW k \in DOMAIN d
  PROVE  ClientContinue(d, k) = Continue(d, k) /\ Continue(d, k) \in Nat
<1> DEFINE n == Size(d)
           met == Diamonds(d, k)
           first == {c \in met : \A e \in met : c <= e}
           merges == {Max({k, k + 1}) + 1 : c \in {e \in first : {k, k + 1} = {d[e].onTrue, d[e].onFalse}}}
<1>1. n \in Nat /\ d \in [0 .. n - 1 -> StepRows(n)] /\ k \in 0 .. n - 1 /\ k \in Nat
  <2>1. n \in 0 .. MaxFlowSteps /\ d \in [0 .. n - 1 -> StepRows(n)]
    BY DefinitionHas
  <2> QED BY <2>1, DesignerAssumption
<1>2. d[k].next \in Targets(n)
  BY <1>1 DEF StepRows
<1>3. CASE d[k].next # Unset
  <2>1. ClientContinue(d, k) = d[k].next /\ Continue(d, k) = d[k].next
    BY <1>3 DEF ClientContinue, Continue
  <2>2. d[k].next \in Nat
    BY <1>1, <1>2, <1>3 DEF Targets, Unset
  <2> QED BY <2>1, <2>2
<1>4. CASE d[k].next = Unset /\ met = {}
  <2>1. merges = {}
    BY <1>4
  <2>2. ClientContinue(d, k) = k + 1
    BY <1>4, <2>1 DEF ClientContinue
  <2>3. Continue(d, k) = k + 1
    BY <1>4 DEF Continue
  <2> QED BY <1>1, <2>2, <2>3
<1>5. CASE d[k].next = Unset /\ met # {}
  <2> DEFINE c == Min(met)
             arms == {d[c].onTrue, d[c].onFalse}
  <2>1. c \in met /\ \A e \in met : c <= e
    <3>1. met \subseteq 0 .. n
      BY <1>1 DEF Diamonds
    <3> QED BY <1>1, <1>5, <3>1, SmallestAndLargest
  <2>2. first = {c}
    <3>1. met \subseteq Int
      BY <1>1 DEF Diamonds
    <3> HIDE DEF met, c
    <3>2. c \in first
      BY <2>1
    <3>3. \A e \in first : e = c
      BY <2>1, <3>1
    <3> QED BY <3>2, <3>3
  <2>3. k \in arms /\ \E t : arms = {k, t}
    <3>1. k \in arms
      BY <2>1 DEF Diamonds
    <3> QED BY <3>1
  <2>4. k + 1 \in arms <=> {k, k + 1} = arms
    <3>1. k + 1 # k
      BY <1>1
    <3> QED BY <2>3, <3>1
  <2>5. Continue(d, k) = IF k + 1 \in arms THEN Max(arms) + 1 ELSE k + 1
    BY <1>5 DEF Continue
  <2>6. merges = IF {k, k + 1} = arms THEN {Max({k, k + 1}) + 1} ELSE {}
    <3> HIDE DEF met, c
    <3>1. {e \in first : {k, k + 1} = {d[e].onTrue, d[e].onFalse}} = IF {k, k + 1} = arms THEN {c} ELSE {}
      BY <2>2
    <3> HIDE DEF first
    <3> QED BY <3>1
  <2>7. ClientContinue(d, k) = IF merges # {} THEN CHOOSE t \in merges : TRUE ELSE k + 1
    BY <1>5 DEF ClientContinue
  <2> HIDE DEF met, c, first, merges, arms
  <2>8. CASE {k, k + 1} = arms
    <3> DEFINE t == Max({k, k + 1}) + 1
    <3>1. t = k + 2 /\ t \in Nat
      BY <1>1, LargerOfTwo
    <3>2. Continue(d, k) = t
      BY <2>4, <2>5, <2>8
    <3>3. merges = {t}
      BY <2>6, <2>8
    <3> HIDE DEF t
    <3>4. (CHOOSE u \in merges : TRUE) = t
      BY <3>3
    <3> QED BY <2>7, <3>1, <3>2, <3>3, <3>4
  <2>9. CASE {k, k + 1} # arms
    <3>1. Continue(d, k) = k + 1 /\ ClientContinue(d, k) = k + 1
      BY <2>4, <2>5, <2>6, <2>7, <2>9
    <3> QED BY <1>1, <3>1
  <2> QED BY <2>8, <2>9
<1> QED BY <1>3, <1>4, <1>5

(* The canvas draws every move that the engine can make, for every definition. *)
LEMMA MovesAreDrawn == ASSUME NEW d \in Definitions PROVE EveryMoveIsDrawn(d)
<1> DEFINE n == Size(d)
<1>1. n \in Nat /\ d \in [0 .. n - 1 -> StepRows(n)] /\ DOMAIN d = 0 .. n - 1
  <2>1. n \in 0 .. MaxFlowSteps /\ d \in [0 .. n - 1 -> StepRows(n)]
    BY DefinitionHas
  <2> QED BY <2>1, DesignerAssumption
<1> SUFFICES ASSUME NEW k \in DOMAIN d, NEW verdict \in BOOLEAN,
                    End(d, Successor(d, k, verdict)) # k
             PROVE  <<k, End(d, Successor(d, k, verdict))>> \in Edges(d)
  BY DEF EveryMoveIsDrawn
<1> DEFINE grouped == {j \in DOMAIN d : d[j].group # NoGroup}
           conditions == {j \in DOMAIN d \ grouped : d[j].type = "condition"}
           out == IF k \in grouped THEN {OrElse(d[k].groupNext, Max(Members(d, k)) + 1)}
                  ELSE IF k \in conditions
                    THEN {OrElse(d[k].onTrue, k + 1), OrElse(d[k].onFalse, k + 1)}
                  ELSE {ClientContinue(d, k)}
           t == Successor(d, k, verdict)
<1>2. k \in Nat /\ k \in 0 .. n - 1
  BY <1>1
<1>3. /\ d[k].onTrue \in Targets(n) /\ d[k].onFalse \in Targets(n) /\ d[k].groupNext \in Targets(n)
  BY <1>1, <1>2 DEF StepRows
<1>4. \A u \in Targets(n), v \in Nat : OrElse(u, v) \in Nat
  BY <1>1 DEF OrElse, Targets, Unset
<1>5. t \in out /\ t \in Nat
  <2>1. CASE k \in grouped
    <3>1. t = OrElse(d[k].groupNext, Max(Members(d, k)) + 1)
      BY <2>1 DEF Successor
    <3>2. Max(Members(d, k)) + 1 \in Nat
      <4>1. Members(d, k) \subseteq 0 .. n /\ k \in Members(d, k)
        BY <1>1, <1>2 DEF Members
      <4>2. Max(Members(d, k)) \in Members(d, k)
        BY <1>1, <4>1, SmallestAndLargest
      <4> QED BY <1>1, <4>1, <4>2
    <3>3. t \in Nat
      BY <1>3, <1>4, <3>1, <3>2
    <3> QED BY <2>1, <3>1, <3>3
  <2>2. CASE k \in conditions
    <3>1. d[k].group = NoGroup /\ d[k].type = "condition" /\ k \notin grouped
      BY <2>2
    <3>2. t = OrElse(IF verdict THEN d[k].onTrue ELSE d[k].onFalse, k + 1)
      BY <3>1 DEF Successor
    <3>3. OrElse(d[k].onTrue, k + 1) \in Nat /\ OrElse(d[k].onFalse, k + 1) \in Nat
      BY <1>2, <1>3, <1>4
    <3>4. t = OrElse(d[k].onTrue, k + 1) \/ t = OrElse(d[k].onFalse, k + 1)
      BY <3>2
    <3> HIDE DEF t
    <3> QED BY <2>2, <3>1, <3>3, <3>4
  <2>3. CASE k \notin grouped /\ k \notin conditions
    <3>1. d[k].group = NoGroup /\ d[k].type # "condition"
      BY <2>3
    <3>2. t = Continue(d, k)
      BY <3>1 DEF Successor
    <3>3. ClientContinue(d, k) = Continue(d, k) /\ Continue(d, k) \in Nat
      BY ContinuesAlike
    <3> QED BY <2>3, <3>2, <3>3
  <2> QED BY <2>1, <2>2, <2>3
<1> HIDE DEF t
<1>6. End(d, t) \in 0 .. n /\ End(d, t) # k
  <2>1. End(d, t) = IF t > n THEN n ELSE t
    BY DEF End
  <2> QED BY <1>1, <1>5, <2>1 DEF t
<1> DEFINE u == End(d, t)
           edge == <<k, u>>
<1>7. edge \in (Unset .. n) \X (0 .. n) /\ edge[1] = k /\ edge[2] = u
  BY <1>1, <1>2, <1>6 DEF Unset
<1>8. u \in {End(d, v) : v \in out}
  BY <1>5
<1> HIDE DEF edge, u
<1>9. edge \in Edges(d)
  BY <1>6, <1>7, <1>8 DEF Edges, u
<1> QED BY <1>9 DEF edge, u, t

(* Whatever administrators draw, remove and save, the canvas shows every move the engine can
   make in each stored definition. *)
THEOREM StoredMovesAreDrawn == DesignSpec => []MovesAreShown
<1>1. DesignInv => MovesAreShown
  <2> SUFFICES ASSUME DesignInv, NEW v \in DOMAIN versions PROVE EveryMoveIsDrawn(versions[v].steps)
    BY DEF MovesAreShown
  <2>1. versions[v] \in VersionRows
    BY DEF DesignInv, DesignRows
  <2>2. versions[v].steps \in Definitions
    BY <2>1 DEF VersionRows
  <2> QED BY <2>2, MovesAreDrawn
<1> QED BY <1>1, DesignInvInit, DesignInvStep, PTL DEF DesignSpec

(* The three together: a definition is saved as the page has checked it, shown as the engine runs
   it, and some version is in force, for any administrators, definitions and bounds. *)
THEOREM DesignsSound == DesignSpec => []DesignsAreSound
<1>1. PageChecksSuffice /\ MovesAreShown /\ AlwaysInForce => DesignsAreSound
  BY DEF DesignsAreSound
<1> QED BY <1>1, VersionsStayInForce, PageChecksServe, StoredMovesAreDrawn, PTL

-----------------------------------------------------------------------------

(***************************************************************************)
(* A walk over the steps of a definition: what a recursion over its moves    *)
(* visits is the least set that holds the first step and is closed under      *)
(* the moves, however many moves above the number of steps are made.          *)
(***************************************************************************)
IsWalk(moves, n, at) ==
  at = [i \in 0 .. n |->
          IF i = 0 THEN 0
          ELSE IF at[i - 1] \in DOMAIN moves THEN moves[at[i - 1]] ELSE at[i - 1]]

ClosedUnder(moves, S) ==
  /\ 0 \in DOMAIN moves => 0 \in S
  /\ \A k \in S \cap DOMAIN moves : moves[k] \in DOMAIN moves => moves[k] \in S

LEMMA WalkExists == ASSUME NEW moves, NEW n \in Nat PROVE \E at : IsWalk(moves, n, at)
<1> DEFINE Bad == {m \in Nat : \A at : ~ IsWalk(moves, m, at)}
<1>1. ASSUME Bad # {} PROVE FALSE
  <2>1. Bad \subseteq Nat
    OBVIOUS
  <2>2. PICK m \in Bad : \A y \in Bad : m <= y
    <3> HIDE DEF Bad
    <3> QED BY <1>1, <2>1, SmallestOf
  <2>3. m \in Nat /\ \A at : ~ IsWalk(moves, m, at)
    BY <2>2
  <2>4. m # 0
    <3> DEFINE start == [i \in 0 .. 0 |-> 0]
    <3>1. IsWalk(moves, 0, start)
      BY DEF IsWalk
    <3> QED BY <2>3, <3>1
  <2>5. m - 1 \in Nat /\ m - 1 \notin Bad
    BY <2>2, <2>3, <2>4
  <2>6. PICK at : IsWalk(moves, m - 1, at)
    BY <2>5
  <2> DEFINE last == IF at[m - 1] \in DOMAIN moves THEN moves[at[m - 1]] ELSE at[m - 1]
             longer == [i \in 0 .. m |-> IF i = m THEN last ELSE at[i]]
             expected == [i \in 0 .. m |->
                            IF i = 0 THEN 0
                            ELSE IF longer[i - 1] \in DOMAIN moves THEN moves[longer[i - 1]] ELSE longer[i - 1]]
  <2>7. \A i \in 0 .. m : longer[i] = expected[i]
    <3> SUFFICES ASSUME NEW i \in 0 .. m PROVE longer[i] = expected[i]
      OBVIOUS
    <3>1. CASE i = 0
      BY <2>4, <2>6, <2>5, <3>1 DEF IsWalk
    <3>2. CASE i # 0
      <4>1. i - 1 \in 0 .. m /\ i - 1 # m
        BY <2>3, <3>2
      <4>2. longer[i - 1] = at[i - 1]
        BY <4>1
      <4>3. CASE i = m
        BY <3>2, <4>2, <4>3
      <4>4. CASE i # m
        <5>1. i \in 0 .. m - 1
          BY <2>3, <4>4
        <5>2. at[i] = IF at[i - 1] \in DOMAIN moves THEN moves[at[i - 1]] ELSE at[i - 1]
          BY <2>6, <3>2, <5>1 DEF IsWalk
        <5> QED BY <3>2, <4>2, <4>4, <5>2
      <4> QED BY <4>3, <4>4
    <3> QED BY <3>1, <3>2
  <2>8. longer = expected
    <3>1. longer = [i \in 0 .. m |-> longer[i]] /\ expected = [i \in 0 .. m |-> expected[i]]
      OBVIOUS
    <3> HIDE DEF longer, expected
    <3> QED BY <2>7, <3>1
  <2>9. IsWalk(moves, m, longer)
    BY <2>8 DEF IsWalk
  <2> QED BY <2>3, <2>9
<1> QED BY <1>1

LEMMA TrailIsAWalk ==
  ASSUME NEW moves, NEW n \in Nat
  PROVE  \E at : /\ \A i \in 0 .. n :
                      at[i] = IF i = 0 THEN 0
                              ELSE IF at[i - 1] \in DOMAIN moves THEN moves[at[i - 1]] ELSE at[i - 1]
                 /\ Trail(moves, n) = {at[i] : i \in 0 .. n} \cap DOMAIN moves
<1> DEFINE at == CHOOSE f : IsWalk(moves, n, f)
<1>1. IsWalk(moves, n, at)
  BY WalkExists
<1>2. Trail(moves, n) = {at[i] : i \in 0 .. n} \cap DOMAIN moves
  BY DEF Trail, IsWalk
<1> HIDE DEF at
<1>3. \A i \in 0 .. n :
         at[i] = IF i = 0 THEN 0
                 ELSE IF at[i - 1] \in DOMAIN moves THEN moves[at[i - 1]] ELSE at[i - 1]
  BY <1>1 DEF IsWalk
<1> QED BY <1>2, <1>3

(* A walk stays in every set that its moves do not leave. *)
LEMMA TrailWithin ==
  ASSUME NEW moves, NEW n \in Nat, NEW S, ClosedUnder(moves, S)
  PROVE  Trail(moves, n) \subseteq S
<1>1. PICK at :
        /\ \A i \in 0 .. n :
             at[i] = IF i = 0 THEN 0
                     ELSE IF at[i - 1] \in DOMAIN moves THEN moves[at[i - 1]] ELSE at[i - 1]
        /\ Trail(moves, n) = {at[i] : i \in 0 .. n} \cap DOMAIN moves
  BY TrailIsAWalk
<1> DEFINE Bad == {i \in 0 .. n : at[i] \in DOMAIN moves /\ at[i] \notin S}
<1>2. ASSUME Bad # {} PROVE FALSE
  <2>1. Bad \subseteq Nat
    OBVIOUS
  <2>2. PICK i \in Bad : \A j \in Bad : i <= j
    <3> HIDE DEF Bad
    <3> QED BY <1>2, <2>1, SmallestOf
  <2>3. i # 0
    BY <1>1, <2>2 DEF ClosedUnder
  <2>4. i - 1 \in 0 .. n /\ i - 1 \notin Bad
    BY <2>2, <2>3
  <2>5. at[i] = IF at[i - 1] \in DOMAIN moves THEN moves[at[i - 1]] ELSE at[i - 1]
    BY <1>1, <2>2, <2>3
  <2>6. at[i - 1] \in DOMAIN moves /\ at[i - 1] \in S
    BY <2>2, <2>4, <2>5
  <2> QED BY <2>2, <2>5, <2>6 DEF ClosedUnder
<1> QED BY <1>1, <1>2

(* With as many moves as there are steps nothing is left to visit: the walk has left the
   steps, or it has come back to where it was. *)
LEMMA TrailIsClosed ==
  ASSUME NEW moves, NEW n \in Nat, IsFiniteSet(DOMAIN moves), Cardinality(DOMAIN moves) <= n
  PROVE  ClosedUnder(moves, Trail(moves, n)) /\ Trail(moves, n) \subseteq DOMAIN moves
<1>1. PICK at :
        /\ \A i \in 0 .. n :
             at[i] = IF i = 0 THEN 0
                     ELSE IF at[i - 1] \in DOMAIN moves THEN moves[at[i - 1]] ELSE at[i - 1]
        /\ Trail(moves, n) = {at[i] : i \in 0 .. n} \cap DOMAIN moves
  BY TrailIsAWalk
<1> DEFINE Seen == {at[i] : i \in 0 .. n}
<1>2. 0 \in Seen
  BY <1>1
<1>3. \A i \in 0 .. n : i # n /\ at[i] \in DOMAIN moves => moves[at[i]] \in Seen
  <2> SUFFICES ASSUME NEW i \in 0 .. n, i # n, at[i] \in DOMAIN moves PROVE moves[at[i]] \in Seen
    OBVIOUS
  <2>1. i + 1 \in 0 .. n /\ i + 1 # 0 /\ (i + 1) - 1 = i
    OBVIOUS
  <2>2. at[i + 1] = moves[at[i]]
    BY <1>1, <2>1
  <2> QED BY <2>1, <2>2
<1>4. at[n] \in DOMAIN moves => \E p \in 0 .. n : p # n /\ at[p] = at[n]
  <2> SUFFICES ASSUME at[n] \in DOMAIN moves PROVE \E p \in 0 .. n : p # n /\ at[p] = at[n]
    OBVIOUS
  <2>1. \A i \in 0 .. n : at[i] \in DOMAIN moves
    <3> SUFFICES ASSUME NEW j \in 0 .. n, at[j] \notin DOMAIN moves PROVE FALSE
      OBVIOUS
    <3> DEFINE Back == {i \in 0 .. n : j <= i /\ at[i] \in DOMAIN moves}
    <3>1. Back \subseteq Nat /\ n \in Back
      OBVIOUS
    <3>2. PICK i \in Back : \A k \in Back : i <= k
      <4> HIDE DEF Back
      <4> QED BY <3>1, SmallestOf
    <3>3. i # j /\ i \in 0 .. n /\ j <= i /\ at[i] \in DOMAIN moves
      BY <3>2
    <3>4. i - 1 \in 0 .. n /\ j <= i - 1 /\ i # 0 /\ ~ (i <= i - 1)
      BY <3>3
    <3>5. at[i - 1] \notin DOMAIN moves
      BY <3>2, <3>4
    <3>6. at[i] = at[i - 1]
      BY <1>1, <3>3, <3>4, <3>5
    <3> QED BY <3>3, <3>5, <3>6
  <2>2. \E x, y \in 0 .. n : x # y /\ at[x] = at[y]
    <3> DEFINE Places == 0 .. n
               f == [i \in Places |-> at[i]]
    <3>1. IsFiniteSet(Places) /\ Cardinality(Places) = n + 1
      <4>1. 0 \in Int /\ n \in Int
        OBVIOUS
      <4>2. IsFiniteSet(0 .. n) /\ Cardinality(0 .. n) = IF 0 > n THEN 0 ELSE n - 0 + 1
        BY <4>1, FS_Interval
      <4> QED BY <4>2
    <3>2. f \in [Places -> DOMAIN moves]
      BY <2>1
    <3>3. Cardinality(DOMAIN moves) < Cardinality(Places)
      <4>1. Cardinality(DOMAIN moves) \in Nat
        BY FS_CardinalityType
      <4> QED BY <3>1, <4>1
    <3> HIDE DEF f, Places
    <3>4. \E x, y \in Places : x # y /\ f[x] = f[y]
      BY <3>1, <3>2, <3>3, FS_PigeonHole
    <3> QED BY <3>4 DEF f, Places
  <2>3. PICK x, y \in 0 .. n : x < y /\ at[x] = at[y]
    <3>1. PICK x, y \in 0 .. n : x # y /\ at[x] = at[y]
      BY <2>2
    <3>2. x < y \/ y < x
      BY <3>1
    <3> QED BY <3>1, <3>2
  <2> DEFINE New == {m \in y .. n : \A p \in 0 .. n : p < y => at[p] # at[m]}
  <2>4. ASSUME New # {} PROVE FALSE
    <3>1. New \subseteq Nat
      OBVIOUS
    <3>2. PICK m \in New : \A k \in New : m <= k
      <4> HIDE DEF New
      <4> QED BY <2>4, <3>1, SmallestOf
    <3>3. m \in y .. n /\ \A p \in 0 .. n : p < y => at[p] # at[m]
      BY <3>2
    <3>4. m # y
      BY <2>3, <3>3
    <3>5. m - 1 \in y .. n /\ m \in 0 .. n /\ m - 1 \in 0 .. n /\ m # 0 /\ ~ (m <= m - 1)
      BY <3>3, <3>4
    <3>6. PICK p \in 0 .. n : p < y /\ at[p] = at[m - 1]
      BY <3>2, <3>5
    <3>7. p + 1 \in 0 .. n /\ p + 1 # 0 /\ (p + 1) - 1 = p
      BY <3>6
    <3>8. at[m] = at[p + 1]
      BY <1>1, <2>1, <3>5, <3>6, <3>7
    <3>9. p + 1 < y \/ p + 1 = y
      BY <3>6
    <3> QED BY <2>3, <3>3, <3>7, <3>8, <3>9
  <2>5. n \in y .. n
    BY <2>3
  <2>6. PICK p \in 0 .. n : p < y /\ at[p] = at[n]
    BY <2>4, <2>5
  <2> QED BY <2>6
<1>5. \A k \in Seen \cap DOMAIN moves : moves[k] \in Seen
  <2> SUFFICES ASSUME NEW i \in 0 .. n, at[i] \in DOMAIN moves PROVE moves[at[i]] \in Seen
    OBVIOUS
  <2>1. CASE i # n
    BY <1>3, <2>1
  <2>2. CASE i = n
    BY <1>3, <1>4, <2>2
  <2> QED BY <2>1, <2>2
<1>6. Trail(moves, n) = Seen \cap DOMAIN moves
  BY <1>1
<1> HIDE DEF Seen
<1> QED BY <1>2, <1>5, <1>6 DEF ClosedUnder

(* So two walks agree as soon as each is closed under the moves of the other. *)
LEMMA TrailsAgree ==
  ASSUME NEW moves, IsFiniteSet(DOMAIN moves), NEW n \in Nat, NEW m \in Nat,
         Cardinality(DOMAIN moves) <= n, Cardinality(DOMAIN moves) <= m
  PROVE  Trail(moves, n) = Trail(moves, m)
BY TrailIsClosed, TrailWithin

(***************************************************************************)
(* The engine, the preview and the diagram read a definition alike          *)
(***************************************************************************)
LEMMA StepsAreFinite ==
  ASSUME NEW d \in Definitions
  PROVE  /\ Size(d) \in Nat /\ DOMAIN d = 0 .. Size(d) - 1
         /\ IsFiniteSet(DOMAIN d) /\ Cardinality(DOMAIN d) = Size(d)
<1>1. Size(d) \in Nat /\ DOMAIN d = 0 .. Size(d) - 1
  BY DefinitionHas, DesignerAssumption
<1>2. IsFiniteSet(DOMAIN d)
  <2> DEFINE m == Size(d) - 1
  <2>1. m \in Int /\ 0 \in Int
    BY <1>1
  <2>2. DOMAIN d = 0 .. m
    BY <1>1
  <2> HIDE DEF m
  <2>3. IsFiniteSet(0 .. m)
    BY <2>1, FS_Interval
  <2> QED BY <2>2, <2>3
<1> QED BY <1>1, <1>2 DEF Size

(* Where a rule compares like with like, the diagram evaluates it as the engine does. *)
LEMMA EvaluatesAlike ==
  ASSUME NEW rule \in [op : Operators, value : Operands \cup {Missing}],
         NEW actual \in Operands \cup {Missing}, Comparable(rule, actual)
  PROVE  ClientEvaluate(rule, actual) = Evaluate(rule, actual)
<1> DEFINE Value == [form : Forms, of : Int]
<1>1. actual \in Value /\ rule.value \in Value
  BY PathsAssumption DEF Missing, Forms
<1>2. CASE rule.op \in {"gte", "lt"}
  <2>1. Numeric(actual) /\ Numeric(rule.value)
    BY <1>2 DEF Comparable
  <2>2. AsNumber(actual) = actual.of /\ AsNumber(rule.value) = rule.value.of
    BY <2>1 DEF AsNumber, Numeric
  <2>3. NoWords(actual, rule.value) /\ Ordered(actual, rule.value)
    BY <2>1 DEF NoWords, Ordered, Numeric
  <2>4. CASE rule.op = "gte"
    BY <2>2, <2>3, <2>4 DEF ClientEvaluate, Evaluate
  <2>5. CASE rule.op = "lt"
    BY <2>2, <2>3, <2>5 DEF ClientEvaluate, Evaluate
  <2> QED BY <1>2, <2>4, <2>5
<1>3. CASE rule.op \in {"eq", "neq"}
  <2>1. Numeric(actual) /\ Numeric(rule.value) => actual.form = rule.value.form
    BY <1>3 DEF Comparable
  <2>2. actual.form = rule.value.form /\ actual.of = rule.value.of => actual = rule.value
    BY <1>1
  <2>3. LooselyEqual(actual, rule.value) <=> actual = rule.value
    BY <2>1, <2>2 DEF LooselyEqual
  <2>4. CASE rule.op = "eq"
    <3>1. ClientEvaluate(rule, actual) = LooselyEqual(actual, rule.value)
      BY <2>4 DEF ClientEvaluate
    <3>2. Evaluate(rule, actual) = (actual = rule.value)
      BY <2>4 DEF Evaluate
    <3>3. LooselyEqual(actual, rule.value) = (actual = rule.value)
      BY <2>3 DEF LooselyEqual
    <3> QED BY <3>1, <3>2, <3>3
  <2>5. CASE rule.op = "neq"
    BY <2>3, <2>5 DEF ClientEvaluate, Evaluate
  <2> QED BY <1>3, <2>4, <2>5
<1>4. CASE rule.op = "in"
  BY <1>4 DEF Comparable
<1> QED BY <1>2, <1>3, <1>4 DEF Operators

LEMMA DiagramReadsAlike ==
  ASSUME NEW d \in Definitions, NEW context \in Operands \cup {Missing},
         \A k \in DOMAIN d : d[k].type = "condition" => Comparable(d[k].rule, context)
  PROVE  DiagramPath(d, context) = EnginePath(d, context)
<1> DEFINE n == Size(d)
           moves == EngineMoves(d, context)
<1>1. /\ n \in Nat /\ IsFiniteSet(DOMAIN d) /\ Cardinality(DOMAIN d) = n
      /\ \A k \in DOMAIN d : d[k] \in StepRows(n)
  BY StepsAreFinite, DefinitionHas
<1>2. DiagramMoves(d, context) = moves
  <2> DEFINE Theirs(k) ==
        IF d[k].group # NoGroup THEN OrElse(d[k].groupNext, Max(Members(d, k)) + 1)
        ELSE IF d[k].type = "condition"
          THEN OrElse(IF ClientEvaluate(d[k].rule, context) THEN d[k].onTrue ELSE d[k].onFalse, k + 1)
        ELSE ClientContinue(d, k)
      Ours(k) == Successor(d, k, Evaluate(d[k].rule, context))
  <2>1. \A k \in DOMAIN d : Theirs(k) = Ours(k)
    <3> SUFFICES ASSUME NEW k \in DOMAIN d PROVE Theirs(k) = Ours(k)
      OBVIOUS
    <3>1. d[k].rule \in [op : Operators, value : Operands \cup {Missing}]
      BY <1>1 DEF StepRows
    <3>2. d[k].type = "condition" => ClientEvaluate(d[k].rule, context) = Evaluate(d[k].rule, context)
      BY <3>1, EvaluatesAlike
    <3>3. ClientContinue(d, k) = Continue(d, k)
      BY ContinuesAlike
    <3> QED BY <3>2, <3>3 DEF Successor
  <2>2. DiagramMoves(d, context) = [k \in DOMAIN d |-> Theirs(k)]
    BY DEF DiagramMoves
  <2>3. moves = [k \in DOMAIN d |-> Ours(k)]
    BY DEF EngineMoves
  <2> HIDE DEF Theirs, Ours, moves
  <2> QED BY <2>1, <2>2, <2>3
<1>3. DOMAIN moves = DOMAIN d
  BY DEF EngineMoves
<1> HIDE DEF moves, n
<1>4. n + 1 \in Nat /\ n <= n + 1 /\ n <= n
  BY <1>1
<1> DEFINE m == n + 1
<1>5. m \in Nat /\ n <= m
  BY <1>4
<1>6. DiagramPath(d, context) = Whole(d, Trail(moves, m))
  BY <1>2 DEF DiagramPath, n
<1> HIDE DEF m
<1>7. Trail(moves, n) = Trail(moves, m)
  BY <1>1, <1>3, <1>4, <1>5, TrailsAgree
<1> QED BY <1>6, <1>7 DEF EnginePath, moves, n

LEMMA PreviewReadsAlike ==
  ASSUME NEW d \in Definitions, NEW context, PreviewComplete(d, context)
  PROVE  PreviewPath(d, context) = EnginePath(d, context)
<1> DEFINE n == Size(d)
           moves == EngineMoves(d, context)
           shown == PreviewMoves(d, context)
           V == Trail(moves, n)
           P == Trail(shown, n)
<1>1. n \in Nat /\ IsFiniteSet(DOMAIN d) /\ Cardinality(DOMAIN d) <= n
  BY StepsAreFinite
<1>2. DOMAIN moves = DOMAIN d /\ DOMAIN shown = DOMAIN d
  BY DEF EngineMoves, PreviewMoves
<1>3. \A k \in DOMAIN d : context # Missing \/ d[k].type # "condition" => shown[k] = moves[k]
  BY DEF EngineMoves, PreviewMoves
<1>4. \A k \in P : k \in DOMAIN d => shown[k] = moves[k]
  <2>1. P \subseteq PreviewPath(d, context)
    BY DEF PreviewPath, Whole
  <2> HIDE DEF P, shown, moves, n
  <2> QED BY <1>3, <2>1 DEF PreviewComplete
<1>5. PreviewPath(d, context) = Whole(d, P) /\ EnginePath(d, context) = Whole(d, V)
  BY DEF PreviewPath, EnginePath
<1> HIDE DEF shown, moves, n
<1>6. /\ ClosedUnder(moves, V) /\ V \subseteq DOMAIN d
      /\ ClosedUnder(shown, P) /\ P \subseteq DOMAIN d
  BY <1>1, <1>2, TrailIsClosed
<1>7. ClosedUnder(moves, P)
  BY <1>2, <1>4, <1>6 DEF ClosedUnder
<1>8. V \subseteq P
  BY <1>1, <1>7, TrailWithin
<1>9. ClosedUnder(shown, V)
  BY <1>2, <1>4, <1>6, <1>8 DEF ClosedUnder
<1>10. P \subseteq V
  BY <1>1, <1>9, TrailWithin
<1> QED BY <1>5, <1>8, <1>10

LEMMA DefinitionReadAlike ==
  ASSUME NEW d \in Definitions, NEW context \in Operands \cup {Missing}
  PROVE  ReadAlike(d, context)
BY DiagramReadsAlike, PreviewReadsAlike DEF ReadAlike, Cards, PreviewSteps

(***************************************************************************)
(* The removal of a step the engine does not enter: the other steps and      *)
(* their targets move up, and with them every move                          *)
(***************************************************************************)
Shift(k, i) == IF k > i THEN k - 1 ELSE k
OneDiamond(d, k) == \A b, c \in Diamonds(d, k) : b = c
Arms(d, c) == {d[c].onTrue, d[c].onFalse}

LEMMA ShiftsApart ==
  ASSUME NEW i \in Nat, NEW a \in Nat, NEW b \in Nat, a # i, b # i
  PROVE  /\ Shift(a, i) \in Nat
         /\ Shift(a, i) = Shift(b, i) => a = b
         /\ a < b => Shift(a, i) < Shift(b, i)
         /\ a + 1 # i => Shift(a + 1, i) = Shift(a, i) + 1
BY DEF Shift

(* What the removal makes of a step that stays. *)
LEMMA RemovedIs ==
  ASSUME NEW n \in Nat, NEW d \in [0 .. n - 1 -> StepRows(n)], NEW i \in 0 .. n - 1,
         NEW k \in 0 .. n - 1, k # i
  PROVE  LET step == Removed(d, i)[Shift(k, i)] IN
         /\ Shift(k, i) \in 0 .. n - 2 /\ DOMAIN Removed(d, i) = 0 .. n - 2
         /\ step.type = d[k].type /\ step.group = d[k].group /\ step.rule = d[k].rule
         /\ step.next = Adjust(d[k].next, i) /\ step.groupNext = Adjust(d[k].groupNext, i)
         /\ step.onTrue = Adjust(d[k].onTrue, i) /\ step.onFalse = Adjust(d[k].onFalse, i)
<1> DEFINE j == Shift(k, i)
           At(m) == IF m < i THEN m ELSE m + 1
           Now(m) == [d[At(m)] EXCEPT !.next = Adjust(@, i), !.onTrue = Adjust(@, i),
                                      !.onFalse = Adjust(@, i), !.groupNext = Adjust(@, i)]
<1>1. Size(d) = n
  BY SizeIs
<1>2. j \in 0 .. n - 2 /\ At(j) = k
  BY DEF Shift
<1>3. Removed(d, i) = [m \in 0 .. n - 2 |-> Now(m)]
  BY <1>1 DEF Removed
<1>4. DOMAIN Removed(d, i) = 0 .. n - 2 /\ Removed(d, i)[j] = Now(j)
  <2> HIDE DEF Now, j
  <2> QED BY <1>2, <1>3
<1>5. d[k] \in StepRows(n)
  OBVIOUS
<1> DEFINE step == d[k]
           a == Adjust(step.next, i)
           b == Adjust(step.onTrue, i)
           c == Adjust(step.onFalse, i)
           e == Adjust(step.groupNext, i)
<1>6. Removed(d, i)[j] = [step EXCEPT !.next = a, !.onTrue = b, !.onFalse = c, !.groupNext = e]
  <2> HIDE DEF j
  <2> QED BY <1>2, <1>4
<1> HIDE DEF a, b, c, e, step
<1>7. step \in StepRows(n)
  BY <1>5 DEF step
<1> DEFINE new == [step EXCEPT !.next = a, !.onTrue = b, !.onFalse = c, !.groupNext = e]
<1>8. /\ new.type = step.type /\ new.group = step.group /\ new.rule = step.rule
      /\ new.next = a /\ new.groupNext = e /\ new.onTrue = b /\ new.onFalse = c
  BY <1>7 DEF StepRows
<1> HIDE DEF new
<1>9. Removed(d, i)[j] = new
  BY <1>6 DEF new
<1> QED BY <1>2, <1>4, <1>8, <1>9 DEF a, b, c, e, step

LEMMA StaysSomewhere ==
  ASSUME NEW n \in Nat, NEW i \in 0 .. n - 1, NEW j \in 0 .. n - 2
  PROVE  \E k \in 0 .. n - 1 : k # i /\ Shift(k, i) = j
<1>1. CASE j < i
  BY <1>1 DEF Shift
<1>2. CASE ~ (j < i)
  <2>1. j + 1 \in 0 .. n - 1 /\ j + 1 # i /\ Shift(j + 1, i) = j
    BY <1>2 DEF Shift
  <2> QED BY <2>1
<1> QED BY <1>1, <1>2

(* A group keeps its members; its last one moves with them. *)
LEMMA MembersShift ==
  ASSUME NEW n \in Nat, NEW d \in [0 .. n - 1 -> StepRows(n)], NEW i \in 0 .. n - 1,
         NEW k \in 0 .. n - 1, k # i
  PROVE  Members(Removed(d, i), Shift(k, i)) = {Shift(m, i) : m \in Members(d, k) \ {i}}
<1> DEFINE R == Removed(d, i)
<1>1. /\ DOMAIN R = 0 .. n - 2 /\ DOMAIN d = 0 .. n - 1
      /\ \A m \in 0 .. n - 1 : m # i => Shift(m, i) \in 0 .. n - 2 /\ R[Shift(m, i)].group = d[m].group
  BY RemovedIs
<1>2. \A j \in 0 .. n - 2 : \E m \in 0 .. n - 1 : m # i /\ Shift(m, i) = j
  BY StaysSomewhere
<1> HIDE DEF R
<1>3. ASSUME NEW j \in Members(R, Shift(k, i)) PROVE j \in {Shift(m, i) : m \in Members(d, k) \ {i}}
  <2>1. j \in 0 .. n - 2 /\ R[j].group = R[Shift(k, i)].group
    BY <1>1 DEF Members
  <2>2. PICK m \in 0 .. n - 1 : m # i /\ Shift(m, i) = j
    BY <1>2, <2>1
  <2>3. d[m].group = d[k].group
    BY <1>1, <2>1, <2>2
  <2> QED BY <1>1, <2>2, <2>3 DEF Members
<1>4. ASSUME NEW m \in Members(d, k) \ {i} PROVE Shift(m, i) \in Members(R, Shift(k, i))
  BY <1>1, <1>4 DEF Members
<1> QED BY <1>3, <1>4 DEF R

LEMMA LargestShifts ==
  ASSUME NEW n \in Nat, NEW i \in 0 .. n - 1, NEW S, S \subseteq 0 .. n - 1, S # {}, i \notin S
  PROVE  Max({Shift(m, i) : m \in S}) = Shift(Max(S), i) /\ Max(S) \in S
<1> DEFINE T == {Shift(m, i) : m \in S}
           top == Max(S)
           last == Max(T)
<1>1. S \subseteq 0 .. n /\ n \in Nat
  OBVIOUS
<1>2. top \in S /\ \A x \in S : top >= x
  BY <1>1, SmallestAndLargest
<1>3. T \subseteq 0 .. n /\ T # {}
  <2>1. \A m \in S : Shift(m, i) \in 0 .. n
    BY DEF Shift
  <2> QED BY <2>1
<1> HIDE DEF T
<1>4. last \in T /\ \A x \in T : last >= x
  BY <1>3, SmallestAndLargest
<1> HIDE DEF top, last
<1>5. PICK m \in S : last = Shift(m, i)
  BY <1>4 DEF T
<1>6. last >= Shift(top, i)
  BY <1>2, <1>4 DEF T
<1>7. m \in Nat /\ top \in Nat /\ m # i /\ top # i /\ i \in Nat /\ top >= m
  BY <1>2
<1>8. m = top
  <2>1. m < top => Shift(m, i) < Shift(top, i)
    BY <1>7, ShiftsApart
  <2>2. Shift(m, i) \in Nat /\ Shift(top, i) \in Nat
    BY <1>7, ShiftsApart
  <2> QED BY <1>5, <1>6, <1>7, <2>1, <2>2
<1> QED BY <1>2, <1>5, <1>8 DEF T, top, last

(* The conditions with two arms of which a step is one: those whose other arm is not the
   removed step move with it. *)
LEMMA DiamondsShift ==
  ASSUME NEW n \in Nat, NEW d \in [0 .. n - 1 -> StepRows(n)], NEW i \in 0 .. n - 1,
         d[i].type # "condition", NEW k \in 0 .. n - 1, k # i
  PROVE  /\ Diamonds(Removed(d, i), Shift(k, i)) =
              {Shift(c, i) : c \in {b \in Diamonds(d, k) : i \notin Arms(d, b)}}
         /\ \A c \in Diamonds(d, k) : i \notin Arms(d, c) =>
              /\ c # i /\ c \in 0 .. n - 1 /\ Arms(d, c) \subseteq Nat
              /\ Arms(Removed(d, i), Shift(c, i)) = {Shift(t, i) : t \in Arms(d, c)}
<1> DEFINE R == Removed(d, i)
           j == Shift(k, i)
<1>1. /\ DOMAIN R = 0 .. n - 2 /\ DOMAIN d = 0 .. n - 1
      /\ \A m \in 0 .. n - 1 : m # i =>
           /\ Shift(m, i) \in 0 .. n - 2
           /\ R[Shift(m, i)].type = d[m].type
           /\ R[Shift(m, i)].onTrue = Adjust(d[m].onTrue, i)
           /\ R[Shift(m, i)].onFalse = Adjust(d[m].onFalse, i)
  BY RemovedIs
<1>2. \A m \in 0 .. n - 1 : d[m].onTrue \in Targets(n) /\ d[m].onFalse \in Targets(n)
  BY DEF StepRows
<1>3. \A t \in Targets(n) : /\ Adjust(t, i) = Unset <=> t \in {Unset, i}
                            /\ t \notin {Unset, i} => t \in Nat /\ Adjust(t, i) = Shift(t, i)
  BY DEF Targets, Adjust, Shift, Unset
<1>4. \A t, u \in Targets(n) : t \notin {Unset, i} /\ u \notin {Unset, i} =>
        (Shift(t, i) = Shift(u, i) <=> t = u)
  <2>1. i \in Nat
    OBVIOUS
  <2> QED BY <1>3, <2>1, ShiftsApart
<1> HIDE DEF R
<1>5. \A c \in 0 .. n - 1 : c # i =>
        (Shift(c, i) \in Diamonds(R, j) <=> c \in Diamonds(d, k) /\ i \notin Arms(d, c))
  <2> SUFFICES ASSUME NEW c \in 0 .. n - 1, c # i
               PROVE  Shift(c, i) \in Diamonds(R, j) <=> c \in Diamonds(d, k) /\ i \notin Arms(d, c)
    OBVIOUS
  <2> DEFINE x == d[c].onTrue
             y == d[c].onFalse
  <2>1. x \in Targets(n) /\ y \in Targets(n) /\ k \in Targets(n) /\ k \notin {Unset, i}
    BY <1>2 DEF Targets, Unset
  <2>2. /\ R[Shift(c, i)].type = d[c].type /\ Shift(c, i) \in DOMAIN R /\ c \in DOMAIN d
        /\ R[Shift(c, i)].onTrue = Adjust(x, i) /\ R[Shift(c, i)].onFalse = Adjust(y, i)
    BY <1>1
  <2> HIDE DEF x, y
  <2>3. Shift(c, i) \in Diamonds(R, j) <=>
          /\ d[c].type = "condition" /\ Adjust(x, i) # Unset /\ Adjust(y, i) # Unset
          /\ Adjust(x, i) # Adjust(y, i) /\ (j = Adjust(x, i) \/ j = Adjust(y, i))
    BY <2>2 DEF Diamonds
  <2>4. c \in Diamonds(d, k) <=>
          d[c].type = "condition" /\ x # Unset /\ y # Unset /\ x # y /\ (k = x \/ k = y)
    BY <2>2 DEF Diamonds, x, y
  <2>5. i \notin Arms(d, c) <=> x # i /\ y # i
    BY DEF Arms, x, y
  <2>6. CASE x \in {Unset, i} \/ y \in {Unset, i}
    <3>1. Shift(c, i) \notin Diamonds(R, j)
      BY <1>3, <2>1, <2>3, <2>6
    <3> QED BY <2>4, <2>5, <2>6, <3>1
  <2>7. CASE x \notin {Unset, i} /\ y \notin {Unset, i}
    <3>1. /\ Adjust(x, i) = Shift(x, i) /\ Adjust(x, i) # Unset
          /\ Adjust(y, i) = Shift(y, i) /\ Adjust(y, i) # Unset
      BY <1>3, <2>1, <2>7
    <3>2. (Shift(x, i) = Shift(y, i) <=> x = y) /\ (j = Shift(x, i) <=> k = x) /\ (j = Shift(y, i) <=> k = y)
      BY <1>4, <2>1, <2>7
    <3> QED BY <2>3, <2>4, <2>5, <2>7, <3>1, <3>2
  <2> QED BY <2>6, <2>7
<1>6. \A c \in Diamonds(d, k) : c \in 0 .. n - 1 /\ c # i
  BY DEF Diamonds
<1>7. \A c \in Diamonds(R, j) : \E b \in 0 .. n - 1 : b # i /\ Shift(b, i) = c
  BY <1>1, StaysSomewhere DEF Diamonds
<1>8. Diamonds(R, j) = {Shift(c, i) : c \in {b \in Diamonds(d, k) : i \notin Arms(d, b)}}
  <2>1. ASSUME NEW c \in Diamonds(R, j)
        PROVE  c \in {Shift(b, i) : b \in {b \in Diamonds(d, k) : i \notin Arms(d, b)}}
    BY <1>5, <1>7, <2>1
  <2>2. ASSUME NEW c \in Diamonds(d, k), i \notin Arms(d, c) PROVE Shift(c, i) \in Diamonds(R, j)
    BY <1>5, <1>6, <2>2
  <2> QED BY <2>1, <2>2
<1>9. ASSUME NEW c \in Diamonds(d, k), i \notin Arms(d, c)
      PROVE  /\ c # i /\ c \in 0 .. n - 1 /\ Arms(d, c) \subseteq Nat
             /\ Arms(R, Shift(c, i)) = {Shift(t, i) : t \in Arms(d, c)}
  <2>1. c # i /\ c \in 0 .. n - 1
    BY <1>6
  <2>2. d[c].onTrue \in Targets(n) /\ d[c].onFalse \in Targets(n)
    BY <1>2, <2>1
  <2>3. d[c].onTrue \notin {Unset, i} /\ d[c].onFalse \notin {Unset, i}
    BY <1>9 DEF Diamonds, Arms
  <2>4. R[Shift(c, i)].onTrue = Adjust(d[c].onTrue, i) /\ R[Shift(c, i)].onFalse = Adjust(d[c].onFalse, i)
    BY <1>1, <2>1
  <2>5. /\ d[c].onTrue \in Nat /\ d[c].onFalse \in Nat
        /\ Adjust(d[c].onTrue, i) = Shift(d[c].onTrue, i) /\ Adjust(d[c].onFalse, i) = Shift(d[c].onFalse, i)
    BY <1>3, <2>2, <2>3
  <2> QED BY <2>1, <2>4, <2>5 DEF Arms
<1> QED BY <1>8, <1>9 DEF R

(* Where a step goes on to: behind the step after it, if that is its sibling. *)
LEMMA ContinueIs ==
  ASSUME NEW n \in Nat, NEW d, DOMAIN d \subseteq 0 .. n, NEW k \in DOMAIN d, OneDiamond(d, k),
         d[k].next = Unset
  PROVE  Continue(d, k) = IF \E c \in Diamonds(d, k) : k + 1 \in Arms(d, c) THEN k + 2 ELSE k + 1
<1> DEFINE D == Diamonds(d, k)
           first == Min(D)
           arms == {d[first].onTrue, d[first].onFalse}
<1>1. Continue(d, k) = IF D # {} /\ k + 1 \in arms THEN Max(arms) + 1 ELSE k + 1
  BY DEF Continue
<1>2. CASE D = {}
  BY <1>1, <1>2
<1>3. CASE D # {}
  <2>1. D \subseteq 0 .. n
    BY DEF Diamonds
  <2> HIDE DEF D
  <2>2. first \in D
    BY <1>3, <2>1, SmallestAndLargest
  <2>3. \A c \in D : c = first
    BY <2>2 DEF OneDiamond, D
  <2> HIDE DEF first
  <2>4. (\E c \in D : k + 1 \in Arms(d, c)) <=> k + 1 \in arms
    BY <2>2, <2>3 DEF Arms
  <2>5. k \in arms
    BY <2>2 DEF D, Diamonds
  <2>6. k + 1 \in arms => Max(arms) = k + 1
    <3> SUFFICES ASSUME k + 1 \in arms PROVE Max(arms) = k + 1
      OBVIOUS
    <3>1. k \in Nat /\ k # k + 1
      OBVIOUS
    <3>2. arms = {k, k + 1}
      BY <2>5, <3>1
    <3> HIDE DEF arms
    <3> QED BY <3>1, <3>2, LargerOfTwo
  <2> HIDE DEF arms
  <2>7. k \in Nat
    OBVIOUS
  <2> QED BY <1>1, <1>3, <2>4, <2>6, <2>7 DEF D
<1> QED BY <1>2, <1>3

LEMMA OneDiamondShifts ==
  ASSUME NEW n \in Nat, NEW d \in [0 .. n - 1 -> StepRows(n)], NEW i \in 0 .. n - 1,
         d[i].type # "condition", NEW k \in 0 .. n - 1, k # i, OneDiamond(d, k)
  PROVE  OneDiamond(Removed(d, i), Shift(k, i))
<1>1. Diamonds(Removed(d, i), Shift(k, i)) =
        {Shift(c, i) : c \in {b \in Diamonds(d, k) : i \notin Arms(d, b)}}
  BY DiamondsShift
<1> QED BY <1>1 DEF OneDiamond

(* A step without a target of its own goes on where it went on, moved up. *)
LEMMA ContinueShifts ==
  ASSUME NEW n \in Nat, NEW d \in [0 .. n - 1 -> StepRows(n)], NEW i \in 0 .. n - 1,
         d[i].type # "condition", NEW k \in 0 .. n - 1, k # i, OneDiamond(d, k),
         Continue(d, k) # i
  PROVE  /\ Continue(Removed(d, i), Shift(k, i)) = Shift(Continue(d, k), i)
         /\ Continue(d, k) \in Nat
<1> DEFINE R == Removed(d, i)
           j == Shift(k, i)
           D == Diamonds(d, k)
           E == Diamonds(R, j)
<1>1. /\ DOMAIN R = 0 .. n - 2 /\ DOMAIN d = 0 .. n - 1 /\ j \in 0 .. n - 2
      /\ R[j].next = Adjust(d[k].next, i) /\ d[k].next \in Targets(n)
  <2>1. d[k].next \in Targets(n)
    BY DEF StepRows
  <2> QED BY <2>1, RemovedIs
<1>2. /\ E = {Shift(c, i) : c \in {b \in D : i \notin Arms(d, b)}}
      /\ \A c \in D : i \notin Arms(d, c) =>
           /\ Arms(d, c) \subseteq Nat
           /\ Arms(R, Shift(c, i)) = {Shift(t, i) : t \in Arms(d, c)}
  BY DiamondsShift
<1>3. OneDiamond(R, j)
  BY OneDiamondShifts
<1>4. k \in Nat /\ i \in Nat /\ k + 1 \in Nat /\ k + 2 \in Nat /\ k # i /\ n - 2 <= n /\ n - 1 <= n /\ (k + 1) + 1 = k + 2
  OBVIOUS
<1>5. CASE d[k].next # Unset
  <2>1. Continue(d, k) = d[k].next
    BY <1>5 DEF Continue
  <2>2. d[k].next \in Nat /\ Adjust(d[k].next, i) = Shift(d[k].next, i) /\ Shift(d[k].next, i) # Unset
    BY <1>1, <1>5, <2>1 DEF Targets, Adjust, Shift, Unset
  <2>3. Continue(R, j) = R[j].next
    BY <1>1, <2>2 DEF Continue
  <2> QED BY <1>1, <2>1, <2>2, <2>3
<1>6. CASE d[k].next = Unset
  <2>1. R[j].next = Unset
    BY <1>1, <1>6 DEF Adjust, Shift, Unset
  <2>2. Continue(d, k) = IF \E c \in D : k + 1 \in Arms(d, c) THEN k + 2 ELSE k + 1
    <3>1. DOMAIN d \subseteq 0 .. n /\ k \in DOMAIN d
      BY <1>1
    <3> HIDE DEF D
    <3> QED BY <1>6, <3>1, ContinueIs DEF D
  <2>3. Continue(R, j) = IF \E c \in E : j + 1 \in Arms(R, c) THEN j + 2 ELSE j + 1
    <3>1. DOMAIN R \subseteq 0 .. n /\ j \in DOMAIN R
      BY <1>1
    <3> HIDE DEF R, j, E
    <3> QED BY <1>3, <2>1, <3>1, ContinueIs DEF E
  <2> SUFFICES Continue(R, j) = Shift(Continue(d, k), i) /\ Continue(d, k) \in Nat
    OBVIOUS
  <2> HIDE DEF R, D, E
  <2>4. j \in Nat /\ (k + 1 # i => Shift(k + 1, i) = j + 1)
    BY <1>4, ShiftsApart
  <2>5. k + 1 # i /\ k + 2 # i => Shift(k + 2, i) = j + 2
    <3>1. k + 1 # i /\ (k + 1) + 1 # i => Shift((k + 1) + 1, i) = Shift(k + 1, i) + 1
      BY <1>4, ShiftsApart
    <3> HIDE DEF j
    <3>2. j \in Nat /\ (j + 1) + 1 = j + 2
      BY <2>4
    <3> QED BY <1>4, <2>4, <3>1, <3>2
  <2>6. CASE \E c \in D : k + 1 \in Arms(d, c)
    <3>1. PICK c \in D : k + 1 \in Arms(d, c)
      BY <2>6
    <3>2. \A b \in D : b = c
      BY <3>1 DEF OneDiamond, D
    <3>3. Continue(d, k) = k + 2 /\ k + 2 # i
      BY <2>2, <2>6
    <3>4. CASE k + 1 = i
      <4>1. E = {}
        BY <1>2, <3>1, <3>2, <3>4
      <4>2. Continue(R, j) = j + 1
        BY <2>3, <4>1
      <4>3. j = k /\ Shift(k + 2, i) = k + 1
        BY <1>4, <3>4 DEF Shift
      <4> QED BY <1>4, <3>3, <4>2, <4>3
    <3>5. CASE k + 1 # i
      <4>1. Arms(d, c) = {k, k + 1}
        <5>1. k \in Arms(d, c)
          BY <3>1 DEF D, Diamonds, Arms
        <5>2. k # k + 1
          BY <1>4
        <5> QED BY <3>1, <5>1, <5>2 DEF Arms
      <4>2. i \notin Arms(d, c)
        BY <1>4, <3>5, <4>1
      <4>3. Shift(c, i) \in E /\ j + 1 \in Arms(R, Shift(c, i))
        BY <1>2, <2>4, <3>1, <3>5, <4>1, <4>2
      <4>4. Continue(R, j) = j + 2
        BY <2>3, <4>3
      <4> QED BY <1>4, <2>5, <3>3, <3>5, <4>4
    <3> QED BY <3>4, <3>5
  <2>7. CASE ~ \E c \in D : k + 1 \in Arms(d, c)
    <3>1. Continue(d, k) = k + 1 /\ k + 1 # i
      BY <2>2, <2>7
    <3>2. ~ \E c \in E : j + 1 \in Arms(R, c)
      <4> SUFFICES ASSUME NEW b \in E, j + 1 \in Arms(R, b) PROVE FALSE
        OBVIOUS
      <4>1. PICK c \in D : i \notin Arms(d, c) /\ b = Shift(c, i)
        BY <1>2
      <4>2. PICK t \in Arms(d, c) : j + 1 = Shift(t, i)
        BY <1>2, <4>1
      <4>3. t \in Nat /\ t # i /\ Shift(t, i) = Shift(k + 1, i)
        BY <1>2, <2>4, <3>1, <4>1, <4>2
      <4>4. t = k + 1
        BY <1>4, <3>1, <4>3, ShiftsApart
      <4> QED BY <2>7, <4>4
    <3>3. Continue(R, j) = j + 1
      BY <2>3, <3>2
    <3> QED BY <1>4, <2>4, <3>1, <3>3
  <2> QED BY <2>6, <2>7
<1> QED BY <1>5, <1>6

LEMMA SuccessorShifts ==
  ASSUME NEW n \in Nat, NEW d \in [0 .. n - 1 -> StepRows(n)], NEW i \in 0 .. n - 1,
         d[i].type # "condition", NEW k \in 0 .. n - 1, k # i, OneDiamond(d, k),
         d[k].group # NoGroup => i \notin Members(d, k),
         NEW verdict \in BOOLEAN, Successor(d, k, verdict) # i
  PROVE  /\ Successor(Removed(d, i), Shift(k, i), verdict) = Shift(Successor(d, k, verdict), i)
         /\ Successor(d, k, verdict) \in Nat
<1> DEFINE R == Removed(d, i)
           j == Shift(k, i)
           s == Successor(d, k, verdict)
<1>1. /\ R[j].type = d[k].type /\ R[j].group = d[k].group
      /\ R[j].groupNext = Adjust(d[k].groupNext, i)
      /\ R[j].onTrue = Adjust(d[k].onTrue, i) /\ R[j].onFalse = Adjust(d[k].onFalse, i)
  BY RemovedIs
<1>2. d[k].groupNext \in Targets(n) /\ d[k].onTrue \in Targets(n) /\ d[k].onFalse \in Targets(n)
  BY DEF StepRows
<1>3. \A t \in Targets(n), m \in Nat :
        OrElse(t, m + 1) # i /\ m # i
          => /\ OrElse(Adjust(t, i), Shift(m, i) + 1) = Shift(OrElse(t, m + 1), i)
             /\ OrElse(t, m + 1) \in Nat
  BY DEF Targets, Adjust, Shift, OrElse, Unset
<1>4. CASE d[k].group # NoGroup
  <2> DEFINE M == Members(d, k)
  <2>1. M \subseteq 0 .. n - 1 /\ k \in M /\ i \notin M /\ M \ {i} = M
    BY <1>4 DEF Members
  <2>2. Members(R, j) = {Shift(m, i) : m \in M}
    BY <2>1, MembersShift
  <2> HIDE DEF M
  <2>3. Max({Shift(m, i) : m \in M}) = Shift(Max(M), i) /\ Max(M) \in M
    BY <2>1, LargestShifts
  <2>4. Max(M) \in Nat /\ Max(M) # i
    <3> DEFINE top == Max(M)
    <3> HIDE DEF top
    <3>1. top \in M
      BY <2>3 DEF top
    <3>2. top \in Nat /\ top # i
      BY <2>1, <3>1
    <3> QED BY <3>2 DEF top
  <2>5. s = OrElse(d[k].groupNext, Max(M) + 1)
    BY <1>4 DEF Successor, M
  <2>6. Successor(R, j, verdict) = OrElse(R[j].groupNext, Max(Members(R, j)) + 1)
    <3> HIDE DEF R, j
    <3> QED BY <1>1, <1>4 DEF Successor
  <2>7. Successor(R, j, verdict) = OrElse(Adjust(d[k].groupNext, i), Shift(Max(M), i) + 1)
    <3> HIDE DEF R, j
    <3> QED BY <1>1, <2>2, <2>3, <2>6
  <2> HIDE DEF R, j, s
  <2>8. s # i
    BY DEF s
  <2> QED BY <1>2, <1>3, <2>4, <2>5, <2>7, <2>8 DEF R, j, s
<1>5. CASE d[k].group = NoGroup /\ d[k].type = "condition"
  <2> DEFINE t == IF verdict THEN d[k].onTrue ELSE d[k].onFalse
  <2>1. t \in Targets(n) /\ k \in Nat
    BY <1>2
  <2>2. s = OrElse(t, k + 1)
    BY <1>5 DEF Successor
  <2>3. Successor(R, j, verdict) = OrElse(Adjust(t, i), j + 1)
    <3> HIDE DEF R, j
    <3>1. Successor(R, j, verdict) = OrElse(IF verdict THEN R[j].onTrue ELSE R[j].onFalse, j + 1)
      BY <1>1, <1>5 DEF Successor
    <3> QED BY <1>1, <3>1
  <2> HIDE DEF R, t, s
  <2>4. s # i
    BY DEF s
  <2> QED BY <1>3, <2>1, <2>2, <2>3, <2>4 DEF R, s
<1>6. CASE d[k].group = NoGroup /\ d[k].type # "condition"
  <2>1. s = Continue(d, k)
    BY <1>6 DEF Successor
  <2>2. Successor(R, j, verdict) = Continue(R, j)
    <3> HIDE DEF R, j
    <3> QED BY <1>1, <1>6 DEF Successor
  <2>3. Continue(d, k) # i
    BY <2>1
  <2>4. Continue(R, j) = Shift(Continue(d, k), i) /\ Continue(d, k) \in Nat
    BY <2>3, ContinueShifts
  <2> QED BY <2>1, <2>2, <2>4
<1> QED BY <1>4, <1>5, <1>6

(* The walk of the shortened definition is the shifted walk: each is closed under the
   moves of the other. *)
LEMMA TrailShifts ==
  ASSUME NEW d \in Definitions, NEW context, NEW i \in DOMAIN d,
         i \notin EnginePath(d, context), d[i].type # "condition",
         \A k \in DOMAIN d : OneDiamond(d, k)
  PROVE  LET n == Size(d)
             V == Trail(EngineMoves(d, context), n)
         IN  /\ Trail(EngineMoves(Removed(d, i), context), n - 1) = {Shift(k, i) : k \in V}
             /\ V \subseteq DOMAIN d
             /\ \A k \in V : k # i /\ (d[k].group # NoGroup => i \notin Members(d, k))
<1> DEFINE n == Size(d)
           R == Removed(d, i)
           moves == EngineMoves(d, context)
           moved == EngineMoves(R, context)
           V == Trail(moves, n)
           W == Trail(moved, n - 1)
<1>1. /\ n \in Nat /\ DOMAIN d = 0 .. n - 1 /\ d \in [0 .. n - 1 -> StepRows(n)]
      /\ IsFiniteSet(DOMAIN d) /\ Cardinality(DOMAIN d) = n /\ n <= MaxFlowSteps
  BY StepsAreFinite, DefinitionHas, DesignerAssumption
<1>2. n - 1 \in Nat /\ i \in 0 .. n - 1 /\ i \in Nat
  BY <1>1
<1>3. /\ R \in [0 .. (n - 1) - 1 -> StepRows(n - 1)] /\ DOMAIN R = 0 .. n - 2
      /\ IsFiniteSet(DOMAIN R) /\ Cardinality(DOMAIN R) = n - 1
  <2> HIDE DEF n
  <2>1. R \in [0 .. (n - 1) - 1 -> StepRows(n - 1)]
    BY <1>1, <1>2, RemovedKeeps
  <2> HIDE DEF R
  <2> DEFINE less == n - 1
  <2>2. R \in [0 .. less - 1 -> StepRows(less)] /\ less \in Nat /\ less <= MaxFlowSteps /\ DOMAIN R = 0 .. less - 1
    BY <1>1, <1>2, <2>1, DesignerAssumption
  <2> HIDE DEF less
  <2>3. Size(R) = less
    BY <2>2, SizeIs
  <2>4. R \in Definitions
    BY <2>2, <2>3, DefinitionMade
  <2>5. IsFiniteSet(DOMAIN R) /\ Cardinality(DOMAIN R) = less
    BY <2>3, <2>4, StepsAreFinite
  <2>6. less - 1 = n - 2
    BY <1>1 DEF less
  <2> QED BY <2>1, <2>2, <2>5, <2>6 DEF less
<1>4. /\ DOMAIN moves = DOMAIN d /\ DOMAIN moved = DOMAIN R
      /\ \A k \in DOMAIN d : moves[k] = Successor(d, k, Evaluate(d[k].rule, context))
      /\ \A k \in DOMAIN R : moved[k] = Successor(R, k, Evaluate(R[k].rule, context))
  BY DEF EngineMoves
<1>5. \A k \in V : k # i /\ (d[k].group # NoGroup => i \notin Members(d, k))
  BY DEF EnginePath, Whole
<1> HIDE DEF moves, moved
<1>6. ClosedUnder(moves, V) /\ V \subseteq DOMAIN d
  <2> HIDE DEF n
  <2>1. Cardinality(DOMAIN moves) <= n /\ IsFiniteSet(DOMAIN moves)
    BY <1>1, <1>4
  <2> QED BY <1>1, <1>4, <2>1, TrailIsClosed
<1>7. ClosedUnder(moved, W) /\ W \subseteq DOMAIN R
  <2> HIDE DEF n
  <2> DEFINE less == n - 1
  <2>1. Cardinality(DOMAIN moved) <= less /\ IsFiniteSet(DOMAIN moved) /\ less \in Nat
    BY <1>2, <1>3, <1>4
  <2> HIDE DEF less
  <2>2. ClosedUnder(moved, Trail(moved, less)) /\ Trail(moved, less) \subseteq DOMAIN moved
    BY <2>1, TrailIsClosed
  <2> QED BY <1>4, <2>2 DEF less
<1> HIDE DEF V, W, n, R
(* Every move of the walk becomes the shifted move. *)
<1>8. ASSUME NEW k \in V
      PROVE  /\ k \in DOMAIN d /\ Shift(k, i) \in DOMAIN R
             /\ moved[Shift(k, i)] = Shift(moves[k], i)
             /\ moved[Shift(k, i)] \in DOMAIN R => moves[k] \in DOMAIN d
             /\ moves[k] \in DOMAIN d => moved[Shift(k, i)] \in DOMAIN R
  <2> DEFINE j == Shift(k, i)
             verdict == Evaluate(d[k].rule, context)
  <2>1. k \in 0 .. n - 1 /\ k # i /\ k \in DOMAIN d
    BY <1>1, <1>5, <1>6
  <2>2. j \in DOMAIN R /\ R[j].rule = d[k].rule
    <3>1. /\ Shift(k, i) \in 0 .. n - 2 /\ DOMAIN Removed(d, i) = 0 .. n - 2
          /\ Removed(d, i)[Shift(k, i)].rule = d[k].rule
      <4> HIDE DEF j
      <4>1. /\ n \in Nat /\ d \in [0 .. n - 1 -> StepRows(n)] /\ i \in 0 .. n - 1
            /\ k \in 0 .. n - 1 /\ k # i
        BY <1>1, <1>2, <2>1
      <4> QED BY ONLY <4>1, RemovedIs
    <3> QED BY <3>1 DEF R
  <2>3. moves[k] # i
    BY <1>2, <1>5, <1>6, <1>1 DEF ClosedUnder, moves, EngineMoves
  <2>4. moves[k] = Successor(d, k, verdict) /\ moved[j] = Successor(R, j, verdict)
    BY <1>4, <2>1, <2>2
  <2>5. verdict \in BOOLEAN
    <3>1. d[k].rule.op \in Operators
      BY <1>1, <2>1 DEF StepRows
    <3> QED BY <3>1 DEF Evaluate, Operators, Ordered, Numeric
  <2> HIDE DEF verdict
  <2>6. Successor(R, j, verdict) = Shift(Successor(d, k, verdict), i) /\ Successor(d, k, verdict) \in Nat
    BY <1>1, <1>2, <1>5, <2>1, <2>3, <2>4, <2>5, SuccessorShifts DEF R
  <2> DEFINE t == moves[k]
  <2>7. t \in Nat /\ t # i /\ moved[j] = Shift(t, i)
    BY <2>3, <2>4, <2>6
  <2> HIDE DEF t
  <2>8. Shift(t, i) \in DOMAIN R <=> t \in DOMAIN d
    BY <1>1, <1>2, <1>3, <2>7 DEF Shift
  <2> QED BY <2>1, <2>2, <2>7, <2>8 DEF t
<1>9. 0 \in DOMAIN d /\ 0 \in V /\ 0 # i /\ Shift(0, i) = 0 /\ 0 \in DOMAIN R
  <2>1. 0 \in DOMAIN d
    BY <1>1, <1>2
  <2>2. 0 \in V /\ 0 # i
    BY <1>4, <1>5, <1>6, <2>1 DEF ClosedUnder
  <2>3. 0 \in 0 .. n - 2
    BY <1>1, <1>2, <2>2
  <2> QED BY <1>2, <1>3, <2>1, <2>2, <2>3 DEF Shift
<1>10. W \subseteq {Shift(k, i) : k \in V}
  <2> DEFINE S == {Shift(k, i) : k \in V}
  <2>1. ClosedUnder(moved, S)
    <3>1. 0 \in S
      BY <1>9
    <3>2. ASSUME NEW k \in V, moved[Shift(k, i)] \in DOMAIN moved PROVE moved[Shift(k, i)] \in S
      <4>1. moves[k] \in V
        BY <1>4, <1>6, <1>8, <3>2 DEF ClosedUnder
      <4> QED BY <1>8, <4>1
    <3> QED BY <3>1, <3>2 DEF ClosedUnder
  <2> HIDE DEF S
  <2>2. W \subseteq S
    <3> DEFINE less == n - 1
    <3>1. less \in Nat
      BY <1>2
    <3> HIDE DEF less
    <3>2. Trail(moved, less) \subseteq S
      BY <2>1, <3>1, TrailWithin
    <3> QED BY <3>2 DEF less, W
  <2> QED BY <2>2 DEF S
<1>11. {Shift(k, i) : k \in V} \subseteq W
  <2> DEFINE U == {k \in V : Shift(k, i) \in W}
  <2>1. ClosedUnder(moves, U)
    <3>1. 0 \in U
      BY <1>4, <1>7, <1>9 DEF ClosedUnder
    <3>2. ASSUME NEW k \in U, moves[k] \in DOMAIN moves PROVE moves[k] \in U
      <4>1. moves[k] \in V
        BY <1>4, <1>6, <3>2 DEF ClosedUnder
      <4>2. moved[Shift(k, i)] \in W
        BY <1>4, <1>7, <1>8, <3>2 DEF ClosedUnder
      <4> QED BY <1>8, <4>1, <4>2
    <3> QED BY <3>1, <3>2 DEF ClosedUnder
  <2> HIDE DEF U
  <2>2. V \subseteq U
    BY <1>1, <2>1, TrailWithin DEF V
  <2> QED BY <2>2 DEF U
<1> QED BY <1>5, <1>6, <1>10, <1>11 DEF n, V, W, R, moves, moved

LEMMA RemovalKeeps ==
  ASSUME NEW d \in Definitions, NEW context
  PROVE  RemovalKeepsThePath(d, context)
<1> SUFFICES ASSUME NEW i \in DOMAIN d \ EnginePath(d, context), d[i].type # "condition",
                    \A k \in DOMAIN d : Cardinality(Diamonds(d, k)) <= 1
             PROVE  EnginePath(Removed(d, i), context)
                      = {IF k > i THEN k - 1 ELSE k : k \in EnginePath(d, context)}
  BY DEF RemovalKeepsThePath
<1> DEFINE n == Size(d)
           R == Removed(d, i)
           V == Trail(EngineMoves(d, context), n)
           W == Trail(EngineMoves(R, context), n - 1)
<1>1. n \in Nat /\ DOMAIN d = 0 .. n - 1 /\ d \in [0 .. n - 1 -> StepRows(n)] /\ IsFiniteSet(DOMAIN d)
  BY StepsAreFinite, DefinitionHas
<1>2. \A k \in DOMAIN d : OneDiamond(d, k)
  <2> SUFFICES ASSUME NEW k \in DOMAIN d, NEW b \in Diamonds(d, k), NEW c \in Diamonds(d, k), b # c
               PROVE  FALSE
    BY DEF OneDiamond
  <2> DEFINE D == Diamonds(d, k)
  <2>1. D \subseteq DOMAIN d
    BY DEF Diamonds
  <2> HIDE DEF D
  <2>2. IsFiniteSet(D) /\ Cardinality(D) \in Nat /\ Cardinality(D) <= 1
    BY <1>1, <2>1, FS_Subset, FS_CardinalityType DEF D
  <2>3. Cardinality({b}) = 1 /\ IsFiniteSet({b}) /\ {b} \subseteq D /\ {b} # D
    BY FS_Singleton DEF D
  <2>4. Cardinality({b}) < Cardinality(D)
    BY <2>2, <2>3, FS_Subset
  <2> QED BY <2>2, <2>3, <2>4
<1>3. Size(R) = n - 1
  <2> HIDE DEF n
  <2>1. i \in 0 .. n - 1
    BY <1>1
  <2>2. n - 1 \in Nat /\ R \in [0 .. (n - 1) - 1 -> StepRows(n - 1)]
    BY <1>1, <2>1, RemovedKeeps
  <2> HIDE DEF R
  <2> DEFINE less == n - 1
  <2>3. less \in Nat /\ DOMAIN R = 0 .. less - 1
    BY <2>2
  <2> HIDE DEF less
  <2>4. Size(R) = less
    BY <2>3, SizeIs
  <2> QED BY <2>4 DEF less
<1>4. /\ W = {Shift(k, i) : k \in V} /\ V \subseteq DOMAIN d
      /\ \A k \in V : k # i /\ (d[k].group # NoGroup => i \notin Members(d, k))
  BY <1>2, TrailShifts
<1>5. EnginePath(R, context) = Whole(R, W) /\ EnginePath(d, context) = Whole(d, V)
  BY <1>3 DEF EnginePath
<1>6. i \in 0 .. n - 1
  BY <1>1
<1> HIDE DEF n, V, W
<1>7. ASSUME NEW k \in V
      PROVE  /\ R[Shift(k, i)].group = d[k].group
             /\ Members(R, Shift(k, i)) = {Shift(m, i) : m \in Members(d, k) \ {i}}
  <2>1. k \in 0 .. n - 1 /\ k # i
    BY <1>1, <1>4
  <2> QED BY <1>1, <1>6, <2>1, RemovedIs, MembersShift
<1> HIDE DEF R
<1>8. Whole(R, W) = {Shift(k, i) : k \in Whole(d, V)}
  <2>1. ASSUME NEW t \in Whole(R, W) PROVE t \in {Shift(k, i) : k \in Whole(d, V)}
    <3>1. CASE t \in W
      BY <1>4, <3>1 DEF Whole
    <3>2. CASE \E j \in W : R[j].group # NoGroup /\ t \in Members(R, j)
      <4>1. PICK k \in V : R[Shift(k, i)].group # NoGroup /\ t \in Members(R, Shift(k, i))
        BY <1>4, <3>2
      <4>2. d[k].group # NoGroup /\ \E m \in Members(d, k) : t = Shift(m, i)
        BY <1>7, <4>1
      <4> QED BY <4>2 DEF Whole
    <3> QED BY <2>1, <3>1, <3>2 DEF Whole
  <2>2. ASSUME NEW k \in Whole(d, V) PROVE Shift(k, i) \in Whole(R, W)
    <3>1. CASE k \in V
      BY <1>4, <3>1 DEF Whole
    <3>2. CASE \E j \in V : d[j].group # NoGroup /\ k \in Members(d, j)
      <4>1. PICK j \in V : d[j].group # NoGroup /\ k \in Members(d, j)
        BY <3>2
      <4>2. Shift(k, i) \in Members(R, Shift(j, i)) /\ R[Shift(j, i)].group # NoGroup
        BY <1>4, <1>7, <4>1
      <4>3. Shift(j, i) \in W
        BY <1>4
      <4> QED BY <4>2, <4>3 DEF Whole
    <3> QED BY <2>2, <3>1, <3>2 DEF Whole
  <2> QED BY <2>1, <2>2
<1>9. \A k : Shift(k, i) = IF k > i THEN k - 1 ELSE k
  BY DEF Shift
<1> QED BY <1>5, <1>8, <1>9 DEF R

(* ReadersAgree: in every context the diagram has cards for what the engine runs and the
   preview lists the approvals the engine asks for, in the newest definition; and taking
   away a step that is not entered leaves the way through a form as it is.  Both hold of
   every definition, so they hold of those the designer stores and edits. *)
THEOREM DefinitionsReadAlike == DesignSpec => []ReadersAgree
<1>1. DesignInv => ReadersAgree
  <2> SUFFICES ASSUME DesignInv PROVE FlowsReadAlike /\ EditsKeepPaths
    BY DEF ReadersAgree
  <2>1. versions[Len(versions)].steps \in Definitions
    <3>1. versions \in Seq(VersionRows) /\ Len(versions) \in DOMAIN versions
      BY DEF DesignInv, DesignRows
    <3>2. versions[Len(versions)] \in VersionRows
      BY <3>1
    <3> QED BY <3>2 DEF VersionRows
  <2>2. \A a \in Designers : form[a].steps \in Definitions
    BY DEF DesignInv, DesignRows, FormRows
  <2> QED BY <2>1, <2>2, DefinitionReadAlike, RemovalKeeps DEF FlowsReadAlike, EditsKeepPaths
<1> QED BY <1>1, DesignInvInit, DesignInvStep, PTL DEF DesignSpec

-----------------------------------------------------------------------------

(***************************************************************************)
(* Master data files: what the tables, the uploads in progress and the last   *)
(* export hold, besides the property itself.                               *)
(***************************************************************************)
Exportable == kind \in DOMAIN Builder
GoodKeys == IF Exportable THEN Keys \ {Blank} ELSE Keys \cup {Blank}
GoodTexts == IF kind = "categories" THEN Texts \ {Blank} ELSE Texts \cup {Blank}
GoodFlags == IF HasFlag THEN {"yes", "no"} ELSE {"null"}
GoodStates == IF Store[kind].revives THEN {"active", "inactive"} ELSE {"active", "gone"}
GoodRows == [key : GoodKeys, text : GoodTexts, flag : GoodFlags,
             scope : {"own", "global"}, state : GoodStates]

\* A row that is read, if it is, is fit for the table but for a flag that is not given.
FileRow(r) ==
  /\ Skipped(r) \/ (r.key \in GoodKeys /\ r.text \in GoodTexts)
  /\ r.flag \in GoodFlags \cup {"null"}

\* An upload in progress has read the table as it is, unless something was committed
\* since; an exported file gives every flag.
UploadFits(w, rows) ==
  /\ DOMAIN w = {"via", "rows", "read", "fresh"} /\ w.via \in Routes /\ w.fresh \in BOOLEAN
  /\ DOMAIN w.rows = 1 .. Len(w.rows) /\ Len(w.rows) \in Nat
  /\ \A i \in DOMAIN w.rows : FileRow(w.rows[i])
  /\ w.read \in Seq(GoodRows) /\ Len(w.read) <= Len(rows)
  /\ w.fresh => w.read = rows
  /\ w.via = "export" => Exportable /\ (HasFlag => \A i \in DOMAIN w.rows : w.rows[i].flag # "null")
Loading(w) == UploadFits(w, table)

\* Accounts list the defaults beside a tenant's own, categories those of all tenants.
KeysOnce == ~ (kind = "accounts" \/ (kind = "categories" /\ tenantless))
FileFits(file) ==
  /\ file \in Seq(Lines)
  /\ file # <<>> => Exportable
  /\ \A i \in DOMAIN file :
       /\ file[i].key \in GoodKeys /\ file[i].text \in GoodTexts
       /\ HasFlag => file[i].flag \in {"yes", "no"}
       /\ KeysOnce => \A j \in DOMAIN file : j # i => file[j].key # file[i].key

\* The property, of a report and a table.
EffectOf(ended, rows) ==
  ended.result # "none" /\ ended.fresh =>
    /\ ended.result = "loaded" =>
         \A r \in CountedRows(ended.rows, ended.via) : \E i \in DOMAIN rows : Stands(rows[i], r)
    /\ ended.via = "export" /\ TakenBack(ended.rows) => ended.result = "loaded"

ImportInv ==
  /\ kind \in DOMAIN Parser /\ tenantless \in BOOLEAN
  /\ table \in Seq(GoodRows)
  /\ kind \notin {"addresses", "banks"} => ~ Clash(table)
  /\ DOMAIN upload = Uploaders
  /\ \A u \in Uploaders : upload[u] = NoUpload \/ Loading(upload[u])
  /\ FileFits(exported)
  /\ EffectOf(report, table)

(* The tables of the kinds, row by row. *)
LEMMA KindsAre ==
  DOMAIN Parser = {"categories", "codes", "accounts", "mappings", "policies", "headers",
                   "addresses", "banks", "departments", "cost_centers", "plants"}
  BY DEF Parser

LEMMA ExportedKinds ==
  DOMAIN Builder = {"categories", "codes", "accounts", "mappings", "policies", "departments",
                    "cost_centers", "plants"}
  BY DEF Builder

LEMMA ParserIs ==
  /\ Parser["categories"] = ParseCategories
  /\ Parser["codes"] = ParseCodes
  /\ Parser["accounts"] = ParseAccounts
  /\ Parser["mappings"] = ParseMappings
  /\ Parser["policies"] = ParsePolicies
  /\ Parser["headers"] = ParseHeaders
  /\ Parser["addresses"] = ParseAddresses
  /\ Parser["banks"] = ParseAccountsAtBank
  /\ Parser["departments"] = ParseDepartments
  /\ Parser["cost_centers"] = ParseCostCenters
  /\ Parser["plants"] = ParsePlants
  BY DEF Parser

LEMMA StoreIs ==
  /\ Store["categories"] = StoreCategories
  /\ Store["codes"] = StoreCodes
  /\ Store["accounts"] = StoreAccounts
  /\ Store["mappings"] = StoreMappings
  /\ Store["policies"] = StorePolicies
  /\ Store["headers"] = StoreHeaders
  /\ Store["addresses"] = StoreAddresses
  /\ Store["banks"] = StoreAccountsAtBank
  /\ Store["departments"] = StoreDepartments
  /\ Store["cost_centers"] = StoreCostCenters
  /\ Store["plants"] = StorePlants
  BY DEF Store

LEMMA DeletedIs ==
  /\ Deleted["categories"] = DeleteCategories
  /\ Deleted["codes"] = DeleteCodes
  /\ Deleted["accounts"] = DeleteAccounts
  /\ Deleted["mappings"] = DeleteMappings
  /\ Deleted["policies"] = DeletePolicies
  /\ Deleted["headers"] = DeleteHeaders
  /\ Deleted["addresses"] = DeleteAddresses
  /\ Deleted["banks"] = DeleteAccountsAtBank
  /\ Deleted["departments"] = DeleteDepartments
  /\ Deleted["cost_centers"] = DeleteCostCenters
  /\ Deleted["plants"] = DeletePlants
  BY DEF Deleted

LEMMA BuilderIs ==
  /\ Builder["categories"] = BuildCategories
  /\ Builder["codes"] = BuildCodes
  /\ Builder["accounts"] = BuildAccounts
  /\ Builder["mappings"] = BuildMappings
  /\ Builder["policies"] = BuildPolicies
  /\ Builder["departments"] = BuildDepartments
  /\ Builder["cost_centers"] = BuildCostCenters
  /\ Builder["plants"] = BuildPlants
  BY DEF Builder

(* How the kinds of data differ, as far as the proofs need it. *)
LEMMA FilesOfKind ==
  ASSUME kind \in DOMAIN Parser
  PROVE  /\ HasFlag => Parser[kind].flag \in {"no_unless_yes", "null_unless_clear", "strict"}
         /\ ~ HasFlag => Parser[kind].flag = "absent"
         /\ \/ Parser[kind].blankKey \in {"skipped", "refused"}
            \/ kind = "headers" /\ Parser[kind].blankKey = "kept"
         /\ kind = "categories" => Parser[kind].blankText = "refused" /\ Parser[kind].blankKey = "refused"
         /\ Parser[kind].blankText = "refused" => kind \in {"categories", "mappings"}
         /\ kind = "mappings" => ~ Parser[kind].once
<1>1. CASE kind = "categories"
  <2>1. Parser[kind] = ParseCategories /\ Store[kind] = StoreCategories
    BY <1>1, ParserIs, StoreIs
  <2> QED BY <1>1, <2>1 DEF HasFlag, ParseCategories, StoreCategories
<1>2. CASE kind = "codes"
  <2>1. Parser[kind] = ParseCodes /\ Store[kind] = StoreCodes
    BY <1>2, ParserIs, StoreIs
  <2> QED BY <1>2, <2>1 DEF HasFlag, ParseCodes, StoreCodes
<1>3. CASE kind = "accounts"
  <2>1. Parser[kind] = ParseAccounts /\ Store[kind] = StoreAccounts
    BY <1>3, ParserIs, StoreIs
  <2> QED BY <1>3, <2>1 DEF HasFlag, ParseAccounts, StoreAccounts
<1>4. CASE kind = "mappings"
  <2>1. Parser[kind] = ParseMappings /\ Store[kind] = StoreMappings
    BY <1>4, ParserIs, StoreIs
  <2> QED BY <1>4, <2>1 DEF HasFlag, ParseMappings, StoreMappings
<1>5. CASE kind = "policies"
  <2>1. Parser[kind] = ParsePolicies /\ Store[kind] = StorePolicies
    BY <1>5, ParserIs, StoreIs
  <2> QED BY <1>5, <2>1 DEF HasFlag, ParsePolicies, StorePolicies
<1>6. CASE kind = "headers"
  <2>1. Parser[kind] = ParseHeaders /\ Store[kind] = StoreHeaders
    BY <1>6, ParserIs, StoreIs
  <2> QED BY <1>6, <2>1 DEF HasFlag, ParseHeaders, StoreHeaders
<1>7. CASE kind = "addresses"
  <2>1. Parser[kind] = ParseAddresses /\ Store[kind] = StoreAddresses
    BY <1>7, ParserIs, StoreIs
  <2> QED BY <1>7, <2>1 DEF HasFlag, ParseAddresses, StoreAddresses
<1>8. CASE kind = "banks"
  <2>1. Parser[kind] = ParseAccountsAtBank /\ Store[kind] = StoreAccountsAtBank
    BY <1>8, ParserIs, StoreIs
  <2> QED BY <1>8, <2>1 DEF HasFlag, ParseAccountsAtBank, StoreAccountsAtBank
<1>9. CASE kind = "departments"
  <2>1. Parser[kind] = ParseDepartments /\ Store[kind] = StoreDepartments
    BY <1>9, ParserIs, StoreIs
  <2> QED BY <1>9, <2>1 DEF HasFlag, ParseDepartments, StoreDepartments
<1>10. CASE kind = "cost_centers"
  <2>1. Parser[kind] = ParseCostCenters /\ Store[kind] = StoreCostCenters
    BY <1>10, ParserIs, StoreIs
  <2> QED BY <1>10, <2>1 DEF HasFlag, ParseCostCenters, StoreCostCenters
<1>11. CASE kind = "plants"
  <2>1. Parser[kind] = ParsePlants /\ Store[kind] = StorePlants
    BY <1>11, ParserIs, StoreIs
  <2> QED BY <1>11, <2>1 DEF HasFlag, ParsePlants, StorePlants
<1> QED BY KindsAre, <1>1, <1>2, <1>3, <1>4, <1>5, <1>6, <1>7, <1>8, <1>9, <1>10, <1>11

LEMMA TablesOfKind ==
  ASSUME kind \in DOMAIN Parser
  PROVE  /\ \/ Store[kind].by \in {"key", "both", "nothing"}
            \/ kind = "headers" /\ Store[kind].by = "key_or_text"
         /\ \/ kind # "headers" /\ Store[kind].blank \in {"erases", "keeps"}
            \/ kind = "headers" /\ Store[kind].blank = "no_cell_counts"
         /\ Deleted[kind] = IF Store[kind].revives THEN "inactive" ELSE "gone"
         /\ HasFlag => Store[kind].flag \in {"yes", "no"}
         /\ kind \in {"codes", "mappings"} => Store[kind].revives /\ ~ HasFlag
<1>1. CASE kind = "categories"
  <2>1. Store[kind] = StoreCategories /\ Deleted[kind] = DeleteCategories
    BY <1>1, StoreIs, DeletedIs
  <2> QED BY <1>1, <2>1 DEF HasFlag, StoreCategories, DeleteCategories
<1>2. CASE kind = "codes"
  <2>1. Store[kind] = StoreCodes /\ Deleted[kind] = DeleteCodes
    BY <1>2, StoreIs, DeletedIs
  <2> QED BY <1>2, <2>1 DEF HasFlag, StoreCodes, DeleteCodes
<1>3. CASE kind = "accounts"
  <2>1. Store[kind] = StoreAccounts /\ Deleted[kind] = DeleteAccounts
    BY <1>3, StoreIs, DeletedIs
  <2> QED BY <1>3, <2>1 DEF HasFlag, StoreAccounts, DeleteAccounts
<1>4. CASE kind = "mappings"
  <2>1. Store[kind] = StoreMappings /\ Deleted[kind] = DeleteMappings
    BY <1>4, StoreIs, DeletedIs
  <2> QED BY <1>4, <2>1 DEF HasFlag, StoreMappings, DeleteMappings
<1>5. CASE kind = "policies"
  <2>1. Store[kind] = StorePolicies /\ Deleted[kind] = DeletePolicies
    BY <1>5, StoreIs, DeletedIs
  <2> QED BY <1>5, <2>1 DEF HasFlag, StorePolicies, DeletePolicies
<1>6. CASE kind = "headers"
  <2>1. Store[kind] = StoreHeaders /\ Deleted[kind] = DeleteHeaders
    BY <1>6, StoreIs, DeletedIs
  <2> QED BY <1>6, <2>1 DEF HasFlag, StoreHeaders, DeleteHeaders
<1>7. CASE kind = "addresses"
  <2>1. Store[kind] = StoreAddresses /\ Deleted[kind] = DeleteAddresses
    BY <1>7, StoreIs, DeletedIs
  <2> QED BY <1>7, <2>1 DEF HasFlag, StoreAddresses, DeleteAddresses
<1>8. CASE kind = "banks"
  <2>1. Store[kind] = StoreAccountsAtBank /\ Deleted[kind] = DeleteAccountsAtBank
    BY <1>8, StoreIs, DeletedIs
  <2> QED BY <1>8, <2>1 DEF HasFlag, StoreAccountsAtBank, DeleteAccountsAtBank
<1>9. CASE kind = "departments"
  <2>1. Store[kind] = StoreDepartments /\ Deleted[kind] = DeleteDepartments
    BY <1>9, StoreIs, DeletedIs
  <2> QED BY <1>9, <2>1 DEF HasFlag, StoreDepartments, DeleteDepartments
<1>10. CASE kind = "cost_centers"
  <2>1. Store[kind] = StoreCostCenters /\ Deleted[kind] = DeleteCostCenters
    BY <1>10, StoreIs, DeletedIs
  <2> QED BY <1>10, <2>1 DEF HasFlag, StoreCostCenters, DeleteCostCenters
<1>11. CASE kind = "plants"
  <2>1. Store[kind] = StorePlants /\ Deleted[kind] = DeletePlants
    BY <1>11, StoreIs, DeletedIs
  <2> QED BY <1>11, <2>1 DEF HasFlag, StorePlants, DeletePlants
<1> QED BY KindsAre, <1>1, <1>2, <1>3, <1>4, <1>5, <1>6, <1>7, <1>8, <1>9, <1>10, <1>11

LEMMA ExportsOfKind ==
  ASSUME kind \in DOMAIN Parser
  PROVE  /\ Exportable <=> kind \notin {"headers", "addresses", "banks"}
         /\ Exportable => Store[kind].by = "key" /\ Builder[kind] = IF HasFlag THEN "flag" ELSE "blank"
<1>1. CASE kind = "categories"
  <2>1. Store[kind] = StoreCategories /\ Builder[kind] = BuildCategories
    BY <1>1, StoreIs, BuilderIs
  <2> QED BY <1>1, <2>1, ExportedKinds DEF HasFlag, Exportable, StoreCategories, BuildCategories
<1>2. CASE kind = "codes"
  <2>1. Store[kind] = StoreCodes /\ Builder[kind] = BuildCodes
    BY <1>2, StoreIs, BuilderIs
  <2> QED BY <1>2, <2>1, ExportedKinds DEF HasFlag, Exportable, StoreCodes, BuildCodes
<1>3. CASE kind = "accounts"
  <2>1. Store[kind] = StoreAccounts /\ Builder[kind] = BuildAccounts
    BY <1>3, StoreIs, BuilderIs
  <2> QED BY <1>3, <2>1, ExportedKinds DEF HasFlag, Exportable, StoreAccounts, BuildAccounts
<1>4. CASE kind = "mappings"
  <2>1. Store[kind] = StoreMappings /\ Builder[kind] = BuildMappings
    BY <1>4, StoreIs, BuilderIs
  <2> QED BY <1>4, <2>1, ExportedKinds DEF HasFlag, Exportable, StoreMappings, BuildMappings
<1>5. CASE kind = "policies"
  <2>1. Store[kind] = StorePolicies /\ Builder[kind] = BuildPolicies
    BY <1>5, StoreIs, BuilderIs
  <2> QED BY <1>5, <2>1, ExportedKinds DEF HasFlag, Exportable, StorePolicies, BuildPolicies
<1>6. CASE kind = "headers"
  <2>1. Store[kind] = StoreHeaders
    BY <1>6, StoreIs, BuilderIs
  <2> QED BY <1>6, <2>1, ExportedKinds DEF HasFlag, Exportable, StoreHeaders
<1>7. CASE kind = "addresses"
  <2>1. Store[kind] = StoreAddresses
    BY <1>7, StoreIs, BuilderIs
  <2> QED BY <1>7, <2>1, ExportedKinds DEF HasFlag, Exportable, StoreAddresses
<1>8. CASE kind = "banks"
  <2>1. Store[kind] = StoreAccountsAtBank
    BY <1>8, StoreIs, BuilderIs
  <2> QED BY <1>8, <2>1, ExportedKinds DEF HasFlag, Exportable, StoreAccountsAtBank
<1>9. CASE kind = "departments"
  <2>1. Store[kind] = StoreDepartments /\ Builder[kind] = BuildDepartments
    BY <1>9, StoreIs, BuilderIs
  <2> QED BY <1>9, <2>1, ExportedKinds DEF HasFlag, Exportable, StoreDepartments, BuildDepartments
<1>10. CASE kind = "cost_centers"
  <2>1. Store[kind] = StoreCostCenters /\ Builder[kind] = BuildCostCenters
    BY <1>10, StoreIs, BuilderIs
  <2> QED BY <1>10, <2>1, ExportedKinds DEF HasFlag, Exportable, StoreCostCenters, BuildCostCenters
<1>11. CASE kind = "plants"
  <2>1. Store[kind] = StorePlants /\ Builder[kind] = BuildPlants
    BY <1>11, StoreIs, BuilderIs
  <2> QED BY <1>11, <2>1, ExportedKinds DEF HasFlag, Exportable, StorePlants, BuildPlants
<1> QED BY KindsAre, <1>1, <1>2, <1>3, <1>4, <1>5, <1>6, <1>7, <1>8, <1>9, <1>10, <1>11

(* Counting up. *)
LEMMA CountingUp ==
  ASSUME NEW n \in Nat, NEW S, 0 \in S, \A i \in 0 .. n : i # n /\ i \in S => i + 1 \in S
  PROVE  \A i \in 0 .. n : i \in S
<1> SUFFICES ASSUME NEW k \in 0 .. n, k \notin S PROVE FALSE
  OBVIOUS
<1> DEFINE Bad == {i \in 0 .. n : i \notin S}
<1>1. Bad \subseteq Nat /\ Bad # {}
  OBVIOUS
<1>2. PICK m \in Bad : \A y \in Bad : m <= y
  <2> HIDE DEF Bad
  <2> QED BY <1>1, SmallestOf
<1>3. m \in 0 .. n /\ m \notin S /\ m # 0
  BY <1>2
<1>4. m - 1 \in 0 .. n /\ m - 1 # n /\ m - 1 \notin Bad
  BY <1>2, <1>3
<1>5. m - 1 \in S
  BY <1>4
<1>6. (m - 1) + 1 \in S
  BY <1>4, <1>5
<1> QED BY <1>3, <1>6

-----------------------------------------------------------------------------

(* Which row of a session a row of a file is taken for. *)
LEMMA MatchIs ==
  ASSUME kind \in DOMAIN Parser, NEW s, NEW r, NEW n \in Nat, DOMAIN s.found = 1 .. n
  PROVE  LET i == Matching(s, r) IN
         /\ i \in 0 .. n
         /\ i # 0 => /\ s.found[i].state # "gone" /\ FindsByScope(s.found[i])
                     /\ kind # "headers" => s.found[i].key = r.key /\ r.key # Blank
         /\ i = 0 /\ Store[kind].by = "key" =>
              \A j \in 1 .. n : s.found[j].state # "gone" /\ FindsByScope(s.found[j]) /\ r.key # Blank
                                  => s.found[j].key # r.key
<1> DEFINE seen == s.found
           listed == {i \in DOMAIN seen : seen[i].state # "gone" /\ FindsByScope(seen[i])}
           byKey == {i \in listed : r.key # Blank /\ seen[i].key = r.key}
           byText == {i \in listed : r.text # Blank /\ seen[i].text = r.text}
           taken == CASE Store[kind].by = "key" -> byKey
                      [] Store[kind].by = "both" -> byKey \cap {i \in listed : seen[i].text = r.text}
                      [] Store[kind].by = "key_or_text" -> IF byKey # {} THEN byKey ELSE byText
                      [] OTHER -> {}
           i == Matching(s, r)
<1>1. i = Max(taken \cup {0})
  BY DEF Matching
<1>2. listed \subseteq 1 .. n /\ byKey \subseteq listed /\ byText \subseteq listed
  OBVIOUS
<1>3. /\ taken \subseteq listed
      /\ kind # "headers" => taken \subseteq byKey
      /\ Store[kind].by = "key" => taken = byKey
  <2> HIDE DEF listed, byKey, byText
  <2>1. CASE Store[kind].by = "key"
    BY <1>2, <2>1
  <2>2. CASE Store[kind].by = "both"
    BY <1>2, <2>2
  <2>3. CASE Store[kind].by = "nothing"
    BY <1>2, <2>3
  <2>4. CASE kind = "headers" /\ Store[kind].by = "key_or_text"
    BY <1>2, <2>4
  <2> QED BY <2>1, <2>2, <2>3, <2>4, TablesOfKind
<1>4. i \in taken \cup {0} /\ \A x \in taken \cup {0} : i >= x
  <2> HIDE DEF taken, listed, i
  <2>1. taken \cup {0} \subseteq 0 .. n /\ taken \cup {0} # {}
    BY <1>2, <1>3
  <2> QED BY <1>1, <2>1, SmallestAndLargest
<1>5. i \in 0 .. n
  <2>1. taken \subseteq 1 .. n
    <3> HIDE DEF taken, listed, byKey, i
    <3> QED BY <1>2, <1>3
  <2>2. i \in taken \/ i = 0
    <3> HIDE DEF taken, i
    <3> QED BY <1>4
  <2>3. CASE i \in taken
    <3>1. i \in 1 .. n
      <4> HIDE DEF taken, i
      <4> QED BY <2>1, <2>3
    <3> HIDE DEF i
    <3> QED BY <3>1
  <2>4. CASE i = 0
    BY <2>4
  <2> HIDE DEF taken, i
  <2> QED BY <2>2, <2>3, <2>4
<1>6. ASSUME i # 0
      PROVE  /\ s.found[i].state # "gone" /\ FindsByScope(s.found[i])
             /\ kind # "headers" => s.found[i].key = r.key /\ r.key # Blank
  <2>1. i \in listed /\ (kind # "headers" => i \in byKey)
    <3> HIDE DEF taken, listed, byKey, i
    <3> QED BY <1>3, <1>4, <1>6
  <2> HIDE DEF i
  <2> QED BY <2>1
<1>7. ASSUME i = 0, Store[kind].by = "key", NEW j \in 1 .. n, s.found[j].state # "gone",
             FindsByScope(s.found[j]), r.key # Blank, s.found[j].key = r.key
      PROVE  FALSE
  <2>1. j \in byKey
    BY <1>7
  <2> HIDE DEF taken, byKey, i
  <2> QED BY <1>3, <1>4, <1>7, <2>1
<1> HIDE DEF i
<1> QED BY <1>5, <1>6, <1>7 DEF i

(***************************************************************************)
(* A session: its rows as it found or created them and as they are now.       *)
(***************************************************************************)
SessionRows == [key : GoodKeys, text : GoodTexts, flag : GoodFlags \cup {"null"},
                scope : {"own", "global"}, state : GoodStates]

\* A session agrees with what it read, and keeps keys, tenants and what is gone.
SessionFrom(read, s) ==
  /\ DOMAIN s = {"found", "rows"}
  /\ s.found \in Seq(SessionRows) /\ s.rows \in Seq(SessionRows)
  /\ Len(s.found) = Len(s.rows) /\ Len(read) <= Len(s.rows)
  /\ \A i \in 1 .. Len(s.rows) :
       /\ s.rows[i].scope = s.found[i].scope
       /\ s.rows[i].state = "gone" <=> s.found[i].state = "gone"
       /\ kind # "headers" => s.rows[i].key = s.found[i].key
  /\ \A i \in 1 .. Len(read) :
       s.found[i] = read[i] /\ (read[i].state = "gone" => s.rows[i] = read[i])

LEMMA RowsAreRecords ==
  /\ \A r \in GoodRows : r \in SessionRows
  /\ \A r : r \in SessionRows <=>
       /\ r = [key |-> r.key, text |-> r.text, flag |-> r.flag, scope |-> r.scope, state |-> r.state]
       /\ r.key \in GoodKeys /\ r.text \in GoodTexts /\ r.flag \in GoodFlags \cup {"null"}
       /\ r.scope \in {"own", "global"} /\ r.state \in GoodStates
  BY DEF GoodRows, SessionRows

LEMMA SessionStarts ==
  ASSUME NEW read \in Seq(GoodRows)
  PROVE  SessionFrom(read, [found |-> read, rows |-> read])
<1>1. read \in Seq(SessionRows)
  BY RowsAreRecords
<1> QED BY <1>1 DEF SessionFrom

(* A row of a file is read if it is not passed over, and fits the table then. *)
LEMMA NewRowFits ==
  ASSUME NEW r, FileRow(r), ~ Skipped(r)
  PROVE  NewRow(r) \in SessionRows
  BY DEF FileRow, NewRow, SessionRows, OwnScope, GoodStates

LEMMA UpdatedFits ==
  ASSUME kind \in DOMAIN Parser, NEW r, FileRow(r), ~ Skipped(r), NEW old \in SessionRows, old.state # "gone"
  PROVE  LET new == Updated(old, r) IN
         /\ new \in SessionRows /\ new.scope = old.scope /\ new.state = "active" /\ new.flag = r.flag
         /\ kind # "headers" => new.key = old.key
         /\ kind = "headers" /\ r.key # Blank => new.key = r.key
         /\ kind # "headers" => new.text = r.text \/ (r.text = Blank /\ Store[kind].blank = "keeps")
<1> DEFINE key == IF kind = "headers" /\ r.key # Blank THEN r.key ELSE old.key
           text == CASE Store[kind].blank = "erases" -> r.text
                     [] Store[kind].blank = "keeps" /\ r.text # Blank -> r.text
                     [] OTHER -> old.text
           state == IF Store[kind].revives THEN "active" ELSE old.state
           new == Updated(old, r)
<1>1. new = [key |-> key, text |-> text, flag |-> r.flag, scope |-> old.scope, state |-> state]
  <2>1. new = [old EXCEPT !.key = key, !.text = text, !.flag = r.flag, !.state = state]
    BY DEF Updated
  <2> HIDE DEF key, text, state, new
  <2> QED BY <2>1 DEF SessionRows
<1>2. old.key \in GoodKeys /\ old.text \in GoodTexts /\ old.scope \in {"own", "global"} /\ old.state \in GoodStates
  BY DEF SessionRows
<1>3. r.key \in GoodKeys /\ r.text \in GoodTexts /\ r.flag \in GoodFlags \cup {"null"}
  BY DEF FileRow
<1>4. state = "active" /\ state \in GoodStates
  BY <1>2 DEF GoodStates
<1>5. text \in GoodTexts /\ (kind # "headers" => text = r.text \/ (r.text = Blank /\ Store[kind].blank = "keeps"))
  BY <1>2, <1>3, TablesOfKind
<1>6. key \in GoodKeys
  BY <1>2, <1>3
<1> HIDE DEF key, text, state, new
<1>7. new \in SessionRows
  BY <1>1, <1>2, <1>3, <1>4, <1>5, <1>6 DEF SessionRows
<1>8. /\ kind # "headers" => key = old.key
      /\ kind = "headers" /\ r.key # Blank => key = r.key
  BY DEF key
<1> QED BY <1>1, <1>4, <1>5, <1>7, <1>8 DEF new

LEMMA StoreRowKeeps ==
  ASSUME kind \in DOMAIN Parser, NEW read \in Seq(GoodRows), NEW s, SessionFrom(read, s), NEW r, FileRow(r), NEW via
  PROVE  SessionFrom(read, StoreRow(s, r, via))
<1> DEFINE n == Len(s.rows)
           i == Matching(s, r)
           new == NewRow(r)
<1>1. /\ n \in Nat /\ Len(read) \in Nat /\ DOMAIN s.found = 1 .. n /\ DOMAIN s.rows = 1 .. n
      /\ s.found \in Seq(SessionRows) /\ s.rows \in Seq(SessionRows)
  BY DEF SessionFrom
<1>2. CASE Passed(s, r, via)
  BY <1>2 DEF StoreRow
<1>3. CASE ~ Passed(s, r, via) /\ i = 0
  <2>1. ~ Skipped(r)
    BY <1>3 DEF Passed, Ignored
  <2>2. new \in SessionRows
    BY <2>1, NewRowFits
  <2> DEFINE found == Append(s.found, new)
             rows == Append(s.rows, new)
  <2>3. StoreRow(s, r, via) = [found |-> found, rows |-> rows]
    BY <1>3 DEF StoreRow
  <2> HIDE DEF new
  <2>4. found \in Seq(SessionRows) /\ rows \in Seq(SessionRows) /\ Len(found) = n + 1 /\ Len(rows) = n + 1
    BY <1>1, <2>2 DEF SessionFrom
  <2>5. \A k \in 1 .. n + 1 : /\ found[k] = IF k = n + 1 THEN new ELSE s.found[k]
                              /\ rows[k] = IF k = n + 1 THEN new ELSE s.rows[k]
    BY <1>1, <2>2 DEF SessionFrom
  <2> HIDE DEF found, rows, n
  <2>6. SessionFrom(read, [found |-> found, rows |-> rows])
    <3>1. Len(read) <= n
      BY DEF SessionFrom, n
    <3>2. \A k \in 1 .. n + 1 :
            /\ rows[k].scope = found[k].scope
            /\ rows[k].state = "gone" <=> found[k].state = "gone"
            /\ kind # "headers" => rows[k].key = found[k].key
      <4> SUFFICES ASSUME NEW k \in 1 .. n + 1
                   PROVE  /\ rows[k].scope = found[k].scope
                          /\ rows[k].state = "gone" <=> found[k].state = "gone"
                          /\ kind # "headers" => rows[k].key = found[k].key
        OBVIOUS
      <4>1. CASE k = n + 1
        BY <2>5, <4>1
      <4>2. CASE k # n + 1
        <5>1. k \in 1 .. n
          BY <1>1, <4>2
        <5> QED BY <2>5, <4>2, <5>1 DEF SessionFrom, n
      <4> QED BY <4>1, <4>2
    <3>3. \A k \in 1 .. Len(read) : found[k] = read[k] /\ (read[k].state = "gone" => rows[k] = read[k])
      BY <1>1, <2>5, <3>1 DEF SessionFrom
    <3> QED BY <1>1, <2>4, <3>1, <3>2, <3>3 DEF SessionFrom
  <2> QED BY <2>3, <2>6
<1>4. CASE ~ Passed(s, r, via) /\ i # 0
  <2>1. i \in 1 .. n /\ s.found[i].state # "gone"
    BY <1>1, <1>4, MatchIs
  <2>2. ~ Skipped(r)
    BY <1>4 DEF Passed, Ignored
  <2> DEFINE now == Updated(s.rows[i], r)
             rows == [s.rows EXCEPT ![i] = now]
  <2>3. StoreRow(s, r, via) = [s EXCEPT !.rows = rows]
    BY <1>4 DEF StoreRow
  <2> HIDE DEF i
  <2>4. s.rows[i] \in SessionRows /\ s.rows[i].state # "gone" /\ s.rows[i].scope = s.found[i].scope
        /\ (kind # "headers" => s.rows[i].key = s.found[i].key)
    BY <1>1, <2>1 DEF SessionFrom
  <2>5. /\ now \in SessionRows /\ now.scope = s.rows[i].scope /\ now.state = "active"
        /\ kind # "headers" => now.key = s.rows[i].key
    <3> HIDE DEF now
    <3> QED BY <2>2, <2>4, UpdatedFits DEF now
  <2> HIDE DEF now
  <2>6. rows \in Seq(SessionRows) /\ Len(rows) = n
    BY <1>1, <2>1, <2>5
  <2>7. \A k \in 1 .. n : rows[k] = IF k = i THEN now ELSE s.rows[k]
    BY <1>1
  <2> HIDE DEF rows, n
  <2> DEFINE t == [s EXCEPT !.rows = rows]
  <2>8. DOMAIN t = {"found", "rows"} /\ t.found = s.found /\ t.rows = rows
    BY DEF SessionFrom
  <2> HIDE DEF t
  <2>9. SessionFrom(read, t)
    <3>1. Len(read) <= n /\ Len(s.found) = n
      BY DEF SessionFrom, n
    <3>2. \A k \in 1 .. n :
            /\ rows[k].scope = s.found[k].scope
            /\ rows[k].state = "gone" <=> s.found[k].state = "gone"
            /\ kind # "headers" => rows[k].key = s.found[k].key
      BY <1>1, <2>1, <2>4, <2>5, <2>7 DEF SessionFrom, n
    <3>3. \A k \in 1 .. Len(read) :
             s.found[k] = read[k] /\ (read[k].state = "gone" => rows[k] = read[k])
      BY <1>1, <2>1, <2>7, <3>1 DEF SessionFrom
    <3> QED BY <1>1, <2>6, <2>8, <3>1, <3>2, <3>3 DEF SessionFrom
  <2> QED BY <2>3, <2>9 DEF t
<1> QED BY <1>2, <1>3, <1>4

\* The session after every row of a file, up to so many.
AreStages(w, n, at) ==
  at = [m \in 0 .. n |-> IF m = 0 THEN [found |-> w.read, rows |-> w.read] ELSE StoreRow(at[m - 1], w.rows[m], w.via)]

LEMMA StagesExist == ASSUME NEW w, NEW n \in Nat PROVE \E at : AreStages(w, n, at)
<1> DEFINE Bad == {m \in Nat : \A at : ~ AreStages(w, m, at)}
<1>1. ASSUME Bad # {} PROVE FALSE
  <2>1. Bad \subseteq Nat
    OBVIOUS
  <2>2. PICK m \in Bad : \A y \in Bad : m <= y
    <3> HIDE DEF Bad
    <3> QED BY <1>1, <2>1, SmallestOf
  <2>3. m \in Nat /\ \A at : ~ AreStages(w, m, at)
    BY <2>2
  <2>4. m # 0
    <3> DEFINE first == [i \in 0 .. 0 |-> [found |-> w.read, rows |-> w.read]]
    <3>1. AreStages(w, 0, first)
      BY DEF AreStages
    <3> QED BY <2>3, <3>1
  <2>5. m - 1 \in Nat /\ m - 1 \notin Bad
    BY <2>2, <2>3, <2>4
  <2>6. PICK at : AreStages(w, m - 1, at)
    BY <2>5
  <2> DEFINE last == StoreRow(at[m - 1], w.rows[m], w.via)
             longer == [i \in 0 .. m |-> IF i = m THEN last ELSE at[i]]
             expected == [i \in 0 .. m |-> IF i = 0 THEN [found |-> w.read, rows |-> w.read] ELSE StoreRow(longer[i - 1], w.rows[i], w.via)]
  <2>7. ASSUME NEW i \in 0 .. m PROVE longer[i] = expected[i]
    <3>1. CASE i = 0
      BY <2>3, <2>4, <2>6, <3>1 DEF AreStages
    <3>2. CASE i # 0
      <4>1. i - 1 \in 0 .. m /\ i - 1 # m
        BY <2>3, <3>2
      <4>2. longer[i - 1] = at[i - 1]
        BY <4>1
      <4>3. CASE i = m
        BY <3>2, <4>2, <4>3
      <4>4. CASE i # m
        <5>1. i \in 0 .. m - 1
          BY <2>3, <4>4
        <5>2. at[i] = StoreRow(at[i - 1], w.rows[i], w.via)
          BY <2>6, <3>2, <5>1 DEF AreStages
        <5> QED BY <3>2, <4>2, <4>4, <5>2
      <4> QED BY <4>3, <4>4
    <3> QED BY <3>1, <3>2
  <2>8. longer = expected
    <3>1. longer = [i \in 0 .. m |-> longer[i]] /\ expected = [i \in 0 .. m |-> expected[i]]
      OBVIOUS
    <3> HIDE DEF longer, expected
    <3> QED BY <2>7, <3>1
  <2>9. AreStages(w, m, longer)
    BY <2>8 DEF AreStages
  <2> QED BY <2>3, <2>9
<1> QED BY <1>1

LEMMA StagesAre ==
  ASSUME NEW w, Len(w.rows) \in Nat
  PROVE  /\ Stages(w)[0] = [found |-> w.read, rows |-> w.read]
         /\ \A m \in 1 .. Len(w.rows) : Stages(w)[m] = StoreRow(Stages(w)[m - 1], w.rows[m], w.via)
<1> DEFINE n == Len(w.rows)
           at == CHOOSE f : AreStages(w, n, f)
<1>1. AreStages(w, n, at)
  BY StagesExist
<1>2. Stages(w) = at
  BY DEF Stages, AreStages
<1> HIDE DEF at, n
<1>3. n \in Nat
  BY DEF n
<1>4. at[0] = [found |-> w.read, rows |-> w.read]
  BY <1>1, <1>3 DEF AreStages
<1>5. ASSUME NEW m \in 1 .. n PROVE at[m] = StoreRow(at[m - 1], w.rows[m], w.via)
  BY <1>1, <1>3 DEF AreStages
<1> QED BY <1>2, <1>4, <1>5 DEF n

LEMMA StagesKeep ==
  ASSUME kind \in DOMAIN Parser, NEW w, Loading(w)
  PROVE  \A m \in 0 .. Len(w.rows) : SessionFrom(w.read, Stages(w)[m])
<1> DEFINE n == Len(w.rows)
           Good == {m \in 0 .. n : SessionFrom(w.read, Stages(w)[m])}
<1>1. n \in Nat /\ DOMAIN w.rows = 1 .. n /\ w.read \in Seq(GoodRows)
  BY DEF Loading, UploadFits
<1>2. 0 \in Good
  <2>1. SessionFrom(w.read, Stages(w)[0])
    BY <1>1, StagesAre, SessionStarts
  <2> QED BY <1>1, <2>1
<1>3. ASSUME NEW m \in 0 .. n, m # n, m \in Good PROVE m + 1 \in Good
  <2>1. m + 1 \in 1 .. n /\ m + 1 \in 0 .. n /\ (m + 1) - 1 = m
    BY <1>1, <1>3
  <2>2. Stages(w)[m + 1] = StoreRow(Stages(w)[m], w.rows[m + 1], w.via)
    <3> HIDE DEF n
    <3> QED BY <1>1, <2>1, StagesAre DEF n
  <2>3. FileRow(w.rows[m + 1]) /\ SessionFrom(w.read, Stages(w)[m])
    BY <1>1, <1>3, <2>1 DEF Loading, UploadFits
  <2>4. SessionFrom(w.read, Stages(w)[m + 1])
    BY <1>1, <2>2, <2>3, StoreRowKeeps
  <2> QED BY <2>1, <2>4
<1> HIDE DEF Good
<1>4. \A m \in 0 .. n : m \in Good
  BY <1>1, <1>2, <1>3, CountingUp
<1> QED BY <1>4 DEF Good

(***************************************************************************)
(* The commit                                                               *)
(***************************************************************************)
LEMMA SessionIs ==
  ASSUME kind \in DOMAIN Parser, NEW w, Loading(w)
  PROVE  /\ Session(w) \in Seq(SessionRows) /\ Len(Session(w)) \in Nat /\ Len(w.read) \in Nat
         /\ Len(w.read) <= Len(Session(w))
         /\ \A i \in 1 .. Len(w.read) : w.read[i].state = "gone" => Session(w)[i] = w.read[i]
<1> DEFINE n == Len(w.rows)
           s == Stages(w)[n]
<1>1. n \in 0 .. n
  BY DEF Loading, UploadFits
<1> HIDE DEF s
<1>2. SessionFrom(w.read, s)
  BY <1>1, StagesKeep DEF s
<1>3. Session(w) = s.rows
  BY DEF Session, s
<1>4. w.read \in Seq(GoodRows)
  BY DEF Loading, UploadFits
<1> QED BY <1>2, <1>3, <1>4 DEF SessionFrom

LEMMA CreatedFits ==
  ASSUME kind \in DOMAIN Parser, NEW r \in SessionRows
  PROVE  /\ Created(r) \in GoodRows
         /\ Created(r).key = r.key /\ Created(r).text = r.text
         /\ Created(r).scope = r.scope /\ Created(r).state = r.state
         /\ r.flag # "null" => Created(r).flag = r.flag
<1> DEFINE flag == IF HasFlag /\ r.flag = "null" THEN Store[kind].flag ELSE r.flag
<1>1. Created(r) = [r EXCEPT !.flag = flag]
  BY DEF Created
<1>2. flag \in GoodFlags
  BY TablesOfKind DEF GoodFlags, SessionRows
<1>3. r.flag # "null" => flag = r.flag
  OBVIOUS
<1> HIDE DEF flag
<1> QED BY <1>1, <1>2, <1>3 DEF SessionRows, GoodRows

\* What a commit writes, apart from the conditions that it checks.
LEMMA TableAfterIs ==
  ASSUME kind \in DOMAIN Parser, table \in Seq(GoodRows), NEW w, Loading(w)
  PROVE  LET made == Session(w)
             kept == Len(table)
             read == Len(w.read)
         IN  /\ DOMAIN TableAfter(w) = 1 .. kept + Len(made) - read
             /\ \A i \in 1 .. kept + Len(made) - read :
                  /\ i > kept => TableAfter(w)[i] = Created(made[i - kept + read])
                  /\ i <= kept /\ i \notin Rewritten(w) => TableAfter(w)[i] = table[i]
                  /\ i <= kept /\ i \in Rewritten(w) =>
                       TableAfter(w)[i] =
                         [key |-> IF made[i].key # w.read[i].key THEN made[i].key ELSE table[i].key,
                          text |-> IF made[i].text # w.read[i].text THEN made[i].text ELSE table[i].text,
                          flag |-> IF made[i].flag # w.read[i].flag THEN made[i].flag ELSE table[i].flag,
                          scope |-> IF made[i].scope # w.read[i].scope THEN made[i].scope ELSE table[i].scope,
                          state |-> IF made[i].state # w.read[i].state THEN made[i].state ELSE table[i].state]
<1> DEFINE made == Session(w)
           kept == Len(table)
           read == Len(w.read)
           rewritten == Rewritten(w)
           column(i, c) == IF made[i][c] # w.read[i][c] THEN made[i][c] ELSE table[i][c]
           new == [i \in 1 .. kept + Len(made) - read |->
                     IF i > kept THEN Created(made[i - kept + read])
                     ELSE IF i \in rewritten
                       THEN [key |-> column(i, "key"), text |-> column(i, "text"), flag |-> column(i, "flag"),
                             scope |-> column(i, "scope"), state |-> column(i, "state")]
                       ELSE table[i]]
<1>1. TableAfter(w) = new
  BY DEF TableAfter
<1>2. kept \in Nat /\ Len(made) \in Nat /\ read \in Nat
  BY SessionIs
<1> HIDE DEF made, kept, read, rewritten
<1>3. ASSUME NEW i \in 1 .. kept + Len(made) - read
      PROVE  /\ i > kept => new[i] = Created(made[i - kept + read])
             /\ i <= kept /\ i \notin rewritten => new[i] = table[i]
             /\ i <= kept /\ i \in rewritten =>
                  new[i] = [key |-> column(i, "key"), text |-> column(i, "text"), flag |-> column(i, "flag"),
                            scope |-> column(i, "scope"), state |-> column(i, "state")]
  BY <1>2
<1>4. DOMAIN new = 1 .. kept + Len(made) - read
  OBVIOUS
<1> HIDE DEF new
<1> QED BY <1>1, <1>3, <1>4 DEF made, kept, read, rewritten

LEMMA TableAfterFits ==
  ASSUME kind \in DOMAIN Parser, table \in Seq(GoodRows), NEW w, Loading(w),
         \A i \in Rewritten(w) : ~ (HasFlag /\ Session(w)[i].flag = "null")
  PROVE  TableAfter(w) \in Seq(GoodRows) /\ Len(table) <= Len(TableAfter(w))
<1> DEFINE made == Session(w)
           kept == Len(table)
           read == Len(w.read)
           n == kept + Len(made) - read
           new == TableAfter(w)
<1>1. /\ made \in Seq(SessionRows) /\ kept \in Nat /\ Len(made) \in Nat /\ read \in Nat
      /\ read <= Len(made) /\ read <= kept /\ w.read \in Seq(GoodRows)
  <2>1. made \in Seq(SessionRows) /\ Len(made) \in Nat /\ read \in Nat /\ read <= Len(made)
    BY SessionIs
  <2>2. read <= kept /\ w.read \in Seq(GoodRows)
    BY DEF Loading, UploadFits
  <2> QED BY <2>1, <2>2
<1>2. ASSUME NEW i \in 1 .. n PROVE new[i] \in GoodRows
  <2>1. CASE i > kept
    <3>1. i - kept + read \in 1 .. Len(made)
      BY <1>1, <2>1
    <3>2. made[i - kept + read] \in SessionRows
      BY <1>1, <3>1
    <3>3. new[i] = Created(made[i - kept + read])
      BY <2>1, TableAfterIs
    <3> HIDE DEF made, kept, read, new
    <3> QED BY <3>2, <3>3, CreatedFits
  <2>2. CASE i <= kept /\ i \notin Rewritten(w)
    <3>1. new[i] = table[i]
      BY <2>2, TableAfterIs
    <3>2. i \in 1 .. Len(table)
      BY <1>1, <2>2
    <3> HIDE DEF made, kept, read, new
    <3> QED BY <3>1, <3>2
  <2>3. CASE i <= kept /\ i \in Rewritten(w)
    <3>1. i \in 1 .. read
      BY <1>1, <2>3 DEF Rewritten
    <3>2. made[i] \in SessionRows /\ table[i] \in GoodRows /\ w.read[i] \in GoodRows
      BY <1>1, <3>1
    <3>3. HasFlag => made[i].flag # "null"
      BY <2>3
    <3>4. new[i] = [key |-> IF made[i].key # w.read[i].key THEN made[i].key ELSE table[i].key,
                    text |-> IF made[i].text # w.read[i].text THEN made[i].text ELSE table[i].text,
                    flag |-> IF made[i].flag # w.read[i].flag THEN made[i].flag ELSE table[i].flag,
                    scope |-> IF made[i].scope # w.read[i].scope THEN made[i].scope ELSE table[i].scope,
                    state |-> IF made[i].state # w.read[i].state THEN made[i].state ELSE table[i].state]
      BY <2>3, TableAfterIs
    <3> HIDE DEF made, kept, read, new, n
    <3>5. made[i].flag \in GoodFlags
      BY <3>2, <3>3 DEF SessionRows, GoodFlags
    <3> QED BY <3>2, <3>4, <3>5 DEF SessionRows, GoodRows
  <2> QED BY <1>1, <2>1, <2>2, <2>3
<1>3. DOMAIN new = 1 .. n
  BY TableAfterIs
<1>4. n \in Nat /\ kept <= n
  BY <1>1
<1>5. new = [i \in 1 .. n |-> new[i]]
  <2>1. new = [i \in DOMAIN new |-> new[i]]
    BY DEF TableAfter
  <2> QED BY <1>3, <2>1
<1> HIDE DEF n, new, kept
<1>6. new \in Seq(GoodRows) /\ Len(new) = n
  BY <1>2, <1>4, <1>5
<1> QED BY <1>4, <1>6 DEF new, kept

\* When nothing was committed since the upload read the table, it becomes the session.
LEMMA FreshTableIs ==
  ASSUME kind \in DOMAIN Parser, table \in Seq(GoodRows), NEW w, Loading(w), w.fresh
  PROVE  LET made == Session(w) IN
         /\ DOMAIN TableAfter(w) = 1 .. Len(made)
         /\ Len(table) <= Len(made)
         /\ \A i \in 1 .. Len(made) :
              TableAfter(w)[i] = IF i > Len(table) THEN Created(made[i]) ELSE made[i]
<1> DEFINE made == Session(w)
           kept == Len(table)
           new == TableAfter(w)
<1>1. w.read = table
  BY DEF Loading, UploadFits
<1>2. /\ made \in Seq(SessionRows) /\ Len(made) \in Nat /\ kept \in Nat /\ kept <= Len(made)
  BY <1>1, SessionIs
<1>3. kept + Len(made) - Len(w.read) = Len(made)
  BY <1>1, <1>2
<1>4. DOMAIN new = 1 .. Len(made)
  BY <1>3, TableAfterIs
<1>5. ASSUME NEW i \in 1 .. Len(made) PROVE new[i] = IF i > kept THEN Created(made[i]) ELSE made[i]
  <2>0. i \in 1 .. kept + Len(made) - Len(w.read)
    BY <1>3
  <2>1. CASE i > kept
    <3>1. new[i] = Created(made[i - kept + Len(w.read)])
      BY <2>0, <2>1, TableAfterIs
    <3>2. i - kept + Len(w.read) = i
      BY <1>1, <1>2
    <3> QED BY <2>1, <3>1, <3>2
  <2>2. CASE i <= kept /\ i \notin Rewritten(w)
    <3>1. new[i] = table[i]
      BY <2>0, <2>2, TableAfterIs
    <3>2. i \in 1 .. kept
      BY <1>2, <2>2
    <3>3. made[i] = table[i]
      BY <1>1, <1>2, <2>2, <3>2 DEF Rewritten
    <3> QED BY <1>2, <2>2, <3>1, <3>3
  <2>3. CASE i <= kept /\ i \in Rewritten(w)
    <3>1. new[i] = [key |-> IF made[i].key # w.read[i].key THEN made[i].key ELSE table[i].key,
                    text |-> IF made[i].text # w.read[i].text THEN made[i].text ELSE table[i].text,
                    flag |-> IF made[i].flag # w.read[i].flag THEN made[i].flag ELSE table[i].flag,
                    scope |-> IF made[i].scope # w.read[i].scope THEN made[i].scope ELSE table[i].scope,
                    state |-> IF made[i].state # w.read[i].state THEN made[i].state ELSE table[i].state]
      BY <2>0, <2>3, TableAfterIs
    <3>2. made[i] \in SessionRows
      BY <1>2
    <3> HIDE DEF made, kept, new
    <3>3. new[i] = [key |-> made[i].key, text |-> made[i].text, flag |-> made[i].flag,
                    scope |-> made[i].scope, state |-> made[i].state]
      BY <1>1, <3>1
    <3>4. new[i] = made[i]
      BY <3>2, <3>3, RowsAreRecords
    <3> QED BY <1>2, <2>3, <3>4
  <2> QED BY <1>2, <2>1, <2>2, <2>3
<1> QED BY <1>2, <1>4, <1>5

(***************************************************************************)
(* An exported file is taken back                                           *)
(***************************************************************************)
\* A session of an exported file: rows of one key stay apart, flags are given.
StaysApart(s) ==
  /\ ~ Clash(s.rows)
  /\ HasFlag => \A i \in 1 .. Len(s.rows) : s.rows[i].flag # "null"

\* Keys of the tenant's rows, when there are any, are matched.
LEMMA NewKeyIsNew ==
  ASSUME kind \in DOMAIN Parser, Exportable, ~ (kind = "categories" /\ tenantless),
         NEW read \in Seq(GoodRows), NEW s, SessionFrom(read, s), NEW r, Matching(s, r) = 0, r.key # Blank,
         NEW i \in 1 .. Len(s.rows), s.rows[i].state # "gone", s.rows[i].scope = OwnScope
  PROVE  s.rows[i].key # r.key
<1>1. Len(s.rows) \in Nat /\ DOMAIN s.found = 1 .. Len(s.rows)
  BY DEF SessionFrom
<1>2. s.found[i].state # "gone" /\ s.found[i].scope = OwnScope /\ s.rows[i].key = s.found[i].key
  BY ExportsOfKind DEF SessionFrom
<1>3. FindsByScope(s.found[i])
  BY <1>2 DEF FindsByScope
<1>4. Store[kind].by = "key"
  BY ExportsOfKind
<1>5. s.found[i].key # r.key
  BY <1>1, <1>2, <1>3, <1>4, MatchIs
<1> QED BY <1>2, <1>5

LEMMA StoreRowApart ==
  ASSUME kind \in DOMAIN Parser, Exportable, ~ (kind = "categories" /\ tenantless),
         NEW read \in Seq(GoodRows), NEW s, SessionFrom(read, s), StaysApart(s),
         NEW r, FileRow(r), HasFlag => r.flag # "null", NEW via
  PROVE  StaysApart(StoreRow(s, r, via))
<1> DEFINE n == Len(s.rows)
           i == Matching(s, r)
           t == StoreRow(s, r, via)
<1>1. /\ n \in Nat /\ DOMAIN s.found = 1 .. n /\ DOMAIN s.rows = 1 .. n /\ s.rows \in Seq(SessionRows)
  BY DEF SessionFrom
<1>2. CASE Passed(s, r, via)
  BY <1>2 DEF StoreRow
<1>3. CASE ~ Passed(s, r, via) /\ i = 0
  <2>1. r.key # Blank
    BY <1>3 DEF Passed, Ignored, FileRow, GoodKeys
  <2> DEFINE new == NewRow(r)
  <2>2. t.rows = Append(s.rows, new)
    BY <1>3 DEF StoreRow
  <2>3. new.key = r.key /\ new.scope = OwnScope /\ new.flag = r.flag
    BY DEF NewRow
  <2> HIDE DEF new, t
  <2>4. Len(t.rows) = n + 1 /\ DOMAIN t.rows = 1 .. n + 1
    BY <1>1, <2>2
  <2>5. \A k \in 1 .. n + 1 : t.rows[k] = IF k = n + 1 THEN new ELSE s.rows[k]
    BY <1>1, <2>2
  <2>6. ASSUME NEW k \in 1 .. n, s.rows[k].state # "gone", s.rows[k].scope = OwnScope
        PROVE  s.rows[k].key # r.key
    BY <1>3, <2>1, <2>6, NewKeyIsNew
  <2> HIDE DEF n, i
  <2>7. ~ Clash(t.rows)
    <3> SUFFICES ASSUME NEW a \in 1 .. n + 1, NEW b \in 1 .. n + 1, a < b,
                        t.rows[a].state # "gone", t.rows[b].state # "gone", t.rows[a].key = t.rows[b].key,
                        t.rows[a].key # Blank, t.rows[a].scope = t.rows[b].scope
                 PROVE  FALSE
      BY <2>4 DEF Clash
    <3>1. a \in 1 .. n /\ a # n + 1
      BY <1>1
    <3>2. CASE b = n + 1
      BY <2>3, <2>5, <2>6, <3>1, <3>2
    <3>3. CASE b # n + 1
      <4>1. b \in 1 .. n
        BY <1>1, <3>3
      <4> QED BY <1>1, <2>5, <3>1, <3>3, <4>1 DEF StaysApart, Clash
    <3> QED BY <3>2, <3>3
  <2>8. HasFlag => \A k \in 1 .. n + 1 : t.rows[k].flag # "null"
    <3> SUFFICES ASSUME HasFlag, NEW k \in 1 .. n + 1 PROVE t.rows[k].flag # "null"
      OBVIOUS
    <3>1. CASE k = n + 1
      BY <2>3, <2>5, <3>1
    <3>2. CASE k # n + 1
      <4>1. k \in 1 .. n
        BY <1>1, <3>2
      <4> QED BY <2>5, <3>2, <4>1 DEF StaysApart, n
    <3> QED BY <3>1, <3>2
  <2> QED BY <2>4, <2>7, <2>8 DEF StaysApart, t
<1>4. CASE ~ Passed(s, r, via) /\ i # 0
  <2>1. i \in 1 .. n /\ s.found[i].state # "gone"
    BY <1>1, <1>4, MatchIs
  <2>2. ~ Skipped(r)
    BY <1>4 DEF Passed, Ignored
  <2> DEFINE now == Updated(s.rows[i], r)
             rows == [s.rows EXCEPT ![i] = now]
  <2>3. t.rows = rows
    BY <1>4 DEF StoreRow, SessionFrom
  <2> HIDE DEF i, t
  <2>4. s.rows[i] \in SessionRows /\ s.rows[i].state # "gone"
    BY <1>1, <2>1 DEF SessionFrom
  <2>5. kind # "headers"
    BY ExportsOfKind
  <2>6. now.scope = s.rows[i].scope /\ now.flag = r.flag /\ now.key = s.rows[i].key
    <3> HIDE DEF now
    <3> QED BY <2>2, <2>4, <2>5, UpdatedFits DEF now
  <2> HIDE DEF now
  <2>7. Len(t.rows) = n /\ DOMAIN t.rows = 1 .. n
    BY <1>1, <2>3
  <2>8. \A k \in 1 .. n : t.rows[k] = IF k = i THEN now ELSE s.rows[k]
    BY <1>1, <2>3
  <2> HIDE DEF rows, n
  <2>9. \A k \in 1 .. n : /\ t.rows[k].scope = s.rows[k].scope /\ t.rows[k].key = s.rows[k].key
                          /\ s.rows[k].state = "gone" => t.rows[k].state = "gone"
    BY <2>4, <2>6, <2>8
  <2>10. ~ Clash(t.rows)
    BY <1>1, <2>7, <2>9 DEF Clash, StaysApart
  <2>11. HasFlag => \A k \in 1 .. n : t.rows[k].flag # "null"
    BY <2>6, <2>8 DEF StaysApart, n
  <2> QED BY <2>7, <2>10, <2>11 DEF StaysApart, t
<1> QED BY <1>2, <1>3, <1>4

LEMMA FreshExportCommits ==
  ASSUME kind \in DOMAIN Parser, table \in Seq(GoodRows), ~ Clash(table), NEW w, Loading(w), w.fresh,
         w.via = "export", ~ (kind = "categories" /\ tenantless)
  PROVE  ~ CommitFails(w)
<1> DEFINE n == Len(w.rows)
           made == Session(w)
           new == TableAfter(w)
           Good == {m \in 0 .. n : StaysApart(Stages(w)[m])}
<1>1. /\ n \in Nat /\ DOMAIN w.rows = 1 .. n /\ w.read = table /\ w.read \in Seq(GoodRows)
      /\ Exportable
      /\ HasFlag => \A i \in 1 .. n : w.rows[i].flag # "null"
      /\ \A i \in 1 .. n : FileRow(w.rows[i])
  BY DEF Loading, UploadFits
<1>2. 0 \in Good
  <2>1. Stages(w)[0] = [found |-> table, rows |-> table]
    BY <1>1, StagesAre
  <2>2. HasFlag => \A i \in 1 .. Len(table) : table[i].flag # "null"
    <3> SUFFICES ASSUME HasFlag, NEW i \in 1 .. Len(table) PROVE table[i].flag # "null"
      OBVIOUS
    <3>1. table[i] \in GoodRows
      OBVIOUS
    <3>2. table[i].flag \in {"yes", "no"}
      BY <3>1 DEF GoodRows, GoodFlags
    <3> QED BY <3>2
  <2>3. StaysApart([found |-> table, rows |-> table])
    <3> DEFINE s == [found |-> table, rows |-> table]
    <3>1. s.rows = table
      OBVIOUS
    <3> HIDE DEF s
    <3> QED BY <2>2, <3>1 DEF StaysApart, s
  <2> QED BY <1>1, <2>1, <2>3
<1>3. ASSUME NEW m \in 0 .. n, m # n, m \in Good PROVE m + 1 \in Good
  <2>1. m + 1 \in 1 .. n /\ m + 1 \in 0 .. n /\ (m + 1) - 1 = m
    BY <1>1, <1>3
  <2>2. Stages(w)[m + 1] = StoreRow(Stages(w)[m], w.rows[m + 1], w.via)
    <3> HIDE DEF n
    <3> QED BY <1>1, <2>1, StagesAre DEF n
  <2>3. /\ FileRow(w.rows[m + 1]) /\ SessionFrom(w.read, Stages(w)[m]) /\ StaysApart(Stages(w)[m])
        /\ HasFlag => w.rows[m + 1].flag # "null"
    BY <1>1, <1>3, <2>1, StagesKeep DEF Loading, UploadFits
  <2>4. Exportable
    BY DEF Loading, UploadFits
  <2>5. StaysApart(Stages(w)[m + 1])
    BY <1>1, <2>2, <2>3, <2>4, StoreRowApart
  <2> QED BY <2>1, <2>5
<1>4. StaysApart(Stages(w)[n])
  <2> HIDE DEF Good
  <2>1. \A m \in 0 .. n : m \in Good
    BY <1>1, <1>2, <1>3, CountingUp
  <2> QED BY <1>1, <2>1 DEF Good
<1>5. ~ Clash(made) /\ (HasFlag => \A i \in 1 .. Len(made) : made[i].flag # "null")
  BY <1>4 DEF StaysApart, Session
<1>6. /\ made \in Seq(SessionRows) /\ Len(made) \in Nat /\ Len(table) <= Len(made) /\ Len(table) \in Nat
      /\ \A i \in 1 .. Len(table) : table[i].state = "gone" => made[i] = table[i]
  BY <1>1, SessionIs
<1>7. ASSUME NEW i \in Rewritten(w)
      PROVE  table[i].state # "gone" /\ ~ (HasFlag /\ made[i].flag = "null")
  <2>1. i \in 1 .. Len(table) /\ made[i] # table[i]
    BY <1>1, <1>7 DEF Rewritten
  <2>2. i \in 1 .. Len(made)
    BY <1>6, <2>1
  <2> HIDE DEF made
  <2> QED BY <1>5, <1>6, <2>1, <2>2
<1>8. ~ Clash(new)
  <2>1. DOMAIN new = 1 .. Len(made) /\ DOMAIN made = 1 .. Len(made)
    BY <1>6, FreshTableIs
  <2>2. ASSUME NEW i \in 1 .. Len(made)
        PROVE  new[i].key = made[i].key /\ new[i].scope = made[i].scope /\ new[i].state = made[i].state
    <3>1. made[i] \in SessionRows
      BY <1>6
    <3>2. new[i] = IF i > Len(table) THEN Created(made[i]) ELSE made[i]
      BY FreshTableIs
    <3> HIDE DEF made, new
    <3> QED BY <3>1, <3>2, CreatedFits
  <2> HIDE DEF made, new
  <2> QED BY <1>5, <2>1, <2>2 DEF Clash
<1> QED BY <1>7, <1>8 DEF CommitFails

(***************************************************************************)
(* What is loaded takes effect                                              *)
(***************************************************************************)
Placed(s, r) ==
  \E i \in 1 .. Len(s.rows) : (kind # "headers" => s.found[i].key = r.key) /\ Stands(s.rows[i], r)

LEMMA StoreRowPlaces ==
  ASSUME kind \in DOMAIN Parser, NEW read \in Seq(GoodRows), NEW s, SessionFrom(read, s), NEW r, FileRow(r),
         NEW via, ~ Passed(s, r, via)
  PROVE  Placed(StoreRow(s, r, via), r)
<1> DEFINE n == Len(s.rows)
           i == Matching(s, r)
           t == StoreRow(s, r, via)
<1>1. /\ n \in Nat /\ DOMAIN s.found = 1 .. n /\ DOMAIN s.rows = 1 .. n /\ s.rows \in Seq(SessionRows)
      /\ s.found \in Seq(SessionRows) /\ Len(s.found) = n
  BY DEF SessionFrom
<1>2. ~ Skipped(r)
  BY DEF Passed, Ignored
<1>3. CASE i = 0
  <2> DEFINE new == NewRow(r)
  <2>1. t.rows = Append(s.rows, new) /\ t.found = Append(s.found, new)
    BY <1>3 DEF StoreRow
  <2>2. new.key = r.key /\ Stands(new, r)
    BY DEF NewRow, Stands
  <2> HIDE DEF new, t
  <2>3. n + 1 \in 1 .. Len(t.rows) /\ t.rows[n + 1] = new /\ t.found[n + 1] = new
    BY <1>1, <2>1
  <2> QED BY <2>2, <2>3 DEF Placed, t
<1>4. CASE i # 0
  <2>1. /\ i \in 1 .. n /\ s.found[i].state # "gone" /\ FindsByScope(s.found[i])
        /\ kind # "headers" => s.found[i].key = r.key
    BY <1>1, <1>4, MatchIs
  <2> DEFINE now == Updated(s.rows[i], r)
  <2>2. t = [s EXCEPT !.rows[i] = now]
    BY <1>4 DEF StoreRow
  <2> HIDE DEF i, t
  <2>3. s.rows[i] \in SessionRows /\ s.rows[i].state # "gone" /\ s.rows[i].scope = s.found[i].scope
        /\ (kind # "headers" => s.rows[i].key = s.found[i].key)
    BY <1>1, <2>1 DEF SessionFrom
  <2>4. /\ now.scope = s.rows[i].scope /\ now.state = "active" /\ now.flag = r.flag
        /\ kind # "headers" => now.key = s.rows[i].key
        /\ kind = "headers" /\ r.key # Blank => now.key = r.key
        /\ kind # "headers" => now.text = r.text \/ (r.text = Blank /\ Store[kind].blank = "keeps")
    <3> HIDE DEF now
    <3> QED BY <1>2, <2>3, UpdatedFits DEF now
  <2> HIDE DEF now
  <2>5. Stands(now, r)
    BY <2>1, <2>3, <2>4 DEF Stands, FindsByScope
  <2>6. t.found = s.found /\ t.rows = [s.rows EXCEPT ![i] = now]
    BY <2>2 DEF SessionFrom
  <2>7. i \in 1 .. Len(t.rows) /\ t.rows[i] = now
    BY <1>1, <2>1, <2>6
  <2> QED BY <2>1, <2>5, <2>6, <2>7 DEF Placed, t
<1> QED BY <1>3, <1>4

LEMMA StoreRowLeaves ==
  ASSUME kind \in DOMAIN Parser, NEW read \in Seq(GoodRows), NEW s, SessionFrom(read, s), NEW r, Placed(s, r),
         NEW q, NEW via, Skipped(q) \/ (kind # "headers" /\ q.key # r.key)
  PROVE  Placed(StoreRow(s, q, via), r)
<1> DEFINE n == Len(s.rows)
           i == Matching(s, q)
           t == StoreRow(s, q, via)
<1>1. /\ n \in Nat /\ DOMAIN s.found = 1 .. n /\ DOMAIN s.rows = 1 .. n /\ s.rows \in Seq(SessionRows)
      /\ s.found \in Seq(SessionRows) /\ Len(s.found) = n
  BY DEF SessionFrom
<1>2. PICK k \in 1 .. n : (kind # "headers" => s.found[k].key = r.key) /\ Stands(s.rows[k], r)
  BY DEF Placed
<1>3. CASE Passed(s, q, via)
  BY <1>3 DEF StoreRow
<1>4. CASE ~ Passed(s, q, via)
  <2>1. kind # "headers" /\ q.key # r.key
    BY <1>4 DEF Passed, Ignored
  <2>2. CASE i = 0
    <3> DEFINE new == NewRow(q)
    <3>1. t.rows = Append(s.rows, new) /\ t.found = Append(s.found, new)
      BY <1>4, <2>2 DEF StoreRow
    <3> HIDE DEF new, t
    <3>2. k \in 1 .. Len(t.rows) /\ t.rows[k] = s.rows[k] /\ t.found[k] = s.found[k]
      BY <1>1, <1>2, <3>1
    <3> QED BY <1>2, <3>2 DEF Placed, t
  <2>3. CASE i # 0
    <3>1. i \in 1 .. n /\ s.found[i].key = q.key
      BY <1>1, <2>1, <2>3, MatchIs
    <3> DEFINE now == Updated(s.rows[i], q)
    <3>2. t = [s EXCEPT !.rows[i] = now]
      BY <1>4, <2>3 DEF StoreRow
    <3> HIDE DEF i, t, now
    <3>3. t.found = s.found /\ t.rows = [s.rows EXCEPT ![i] = now]
      BY <3>2 DEF SessionFrom
    <3>4. k # i
      BY <1>2, <2>1, <3>1
    <3>5. k \in 1 .. Len(t.rows) /\ t.rows[k] = s.rows[k]
      BY <1>1, <1>2, <3>3, <3>4
    <3> QED BY <1>2, <3>3, <3>5 DEF Placed, t
  <2> QED BY <2>2, <2>3
<1> QED BY <1>3, <1>4

LEMMA CountedIsPlaced ==
  ASSUME kind \in DOMAIN Parser, NEW w, Loading(w), NEW r \in CountedRows(w.rows, w.via)
  PROVE  Placed(Stages(w)[Len(w.rows)], r)
<1> DEFINE n == Len(w.rows)
           Good == {m \in 0 .. n : m >= 1 /\ Placed(Stages(w)[m], r)}
<1>1. /\ n \in Nat /\ DOMAIN w.rows = 1 .. n /\ w.read \in Seq(GoodRows)
      /\ \A i \in 1 .. n : FileRow(w.rows[i])
  BY DEF Loading, UploadFits
<1>2. PICK j \in 1 .. n :
         /\ r = w.rows[j]
         /\ \A m \in 1 .. n :
              m > j => \/ Skipped(w.rows[m])
                       \/ kind # "headers" /\ w.rows[m].key # r.key
         /\ ~ Ignored(r, w.via) /\ ~ Nameless(r)
  BY <1>1 DEF CountedRows
<1> DEFINE From == {m \in 0 .. n : m >= j => Placed(Stages(w)[m], r)}
<1>3. 0 \in From
  BY <1>1, <1>2
<1>4. ASSUME NEW m \in 0 .. n, m # n, m \in From PROVE m + 1 \in From
  <2>1. m + 1 \in 1 .. n /\ m + 1 \in 0 .. n /\ (m + 1) - 1 = m
    BY <1>1, <1>4
  <2>2. Stages(w)[m + 1] = StoreRow(Stages(w)[m], w.rows[m + 1], w.via)
    <3> HIDE DEF n
    <3> QED BY <1>1, <2>1, StagesAre DEF n
  <2>3. FileRow(w.rows[m + 1]) /\ SessionFrom(w.read, Stages(w)[m])
    BY <1>1, <2>1, StagesKeep
  <2> HIDE DEF n
  <2>4. CASE m + 1 = j
    <3>1. r = w.rows[m + 1]
      BY <1>2, <2>4
    <3> DEFINE s == Stages(w)[m]
    <3> HIDE DEF s
    <3>2. ~ Passed(s, r, w.via)
      BY <1>2 DEF Passed
    <3>3. Placed(StoreRow(s, r, w.via), r)
      BY <1>1, <2>3, <3>1, <3>2, StoreRowPlaces DEF s
    <3> QED BY <2>1, <2>2, <3>1, <3>3 DEF s
  <2>5. CASE m + 1 > j
    <3>1. m >= j /\ Placed(Stages(w)[m], r)
      BY <1>1, <1>2, <1>4, <2>5
    <3>2. Skipped(w.rows[m + 1]) \/ (kind # "headers" /\ w.rows[m + 1].key # r.key)
      BY <1>2, <2>1, <2>5
    <3>3. Placed(StoreRow(Stages(w)[m], w.rows[m + 1], w.via), r)
      BY <1>1, <2>3, <3>1, <3>2, StoreRowLeaves
    <3> QED BY <2>1, <2>2, <3>3
  <2>6. CASE m + 1 < j
    BY <1>1, <1>2, <2>1, <2>6
  <2> QED BY <1>1, <1>2, <2>1, <2>4, <2>5, <2>6
<1>5. n \in From
  <2> HIDE DEF From
  <2>1. \A m \in 0 .. n : m \in From
    BY <1>1, <1>3, <1>4, CountingUp
  <2> QED BY <1>1, <2>1
<1> QED BY <1>1, <1>2, <1>5

LEMMA LoadedStands ==
  ASSUME kind \in DOMAIN Parser, table \in Seq(GoodRows), NEW w, Loading(w), w.fresh,
         NEW r \in CountedRows(w.rows, w.via)
  PROVE  \E i \in DOMAIN TableAfter(w) : Stands(TableAfter(w)[i], r)
<1> DEFINE s == Stages(w)[Len(w.rows)]
           made == Session(w)
           new == TableAfter(w)
<1>1. made = s.rows
  BY DEF Session
<1> HIDE DEF s, made
<1>2. PICK i \in 1 .. Len(made) : Stands(made[i], r)
  BY <1>1, CountedIsPlaced DEF Placed, s
<1>3. DOMAIN new = 1 .. Len(made) /\ new[i] = IF i > Len(table) THEN Created(made[i]) ELSE made[i]
  BY FreshTableIs DEF made
<1>4. made \in Seq(SessionRows)
  BY SessionIs DEF made
<1>5. made[i] \in SessionRows
  BY <1>4
<1> HIDE DEF new
<1>6. Stands(new[i], r)
  <2>1. CASE i > Len(table)
    <3>1. new[i] = Created(made[i])
      BY <1>3, <2>1
    <3>2. /\ new[i].key = made[i].key /\ new[i].text = made[i].text
          /\ new[i].scope = made[i].scope /\ new[i].state = made[i].state
          /\ made[i].flag # "null" => new[i].flag = made[i].flag
      BY <1>5, <3>1, CreatedFits
    <3> QED BY <1>2, <3>2 DEF Stands
  <2>2. CASE ~ (i > Len(table))
    BY <1>2, <1>3, <2>2
  <2> QED BY <2>1, <2>2
<1> QED BY <1>3, <1>6 DEF new

\* The table as the script leaves it, row after row.
AreScripted(rows, n, at) ==
  at = [m \in 0 .. n |-> IF m = 0 THEN table ELSE ScriptRow(at[m - 1], rows[m])]

LEMMA ScriptStagesExist == ASSUME NEW rows, NEW n \in Nat PROVE \E at : AreScripted(rows, n, at)
<1> DEFINE Bad == {m \in Nat : \A at : ~ AreScripted(rows, m, at)}
<1>1. ASSUME Bad # {} PROVE FALSE
  <2>1. Bad \subseteq Nat
    OBVIOUS
  <2>2. PICK m \in Bad : \A y \in Bad : m <= y
    <3> HIDE DEF Bad
    <3> QED BY <1>1, <2>1, SmallestOf
  <2>3. m \in Nat /\ \A at : ~ AreScripted(rows, m, at)
    BY <2>2
  <2>4. m # 0
    <3> DEFINE first == [i \in 0 .. 0 |-> table]
    <3>1. AreScripted(rows, 0, first)
      BY DEF AreScripted
    <3> QED BY <2>3, <3>1
  <2>5. m - 1 \in Nat /\ m - 1 \notin Bad
    BY <2>2, <2>3, <2>4
  <2>6. PICK at : AreScripted(rows, m - 1, at)
    BY <2>5
  <2> DEFINE last == ScriptRow(at[m - 1], rows[m])
             longer == [i \in 0 .. m |-> IF i = m THEN last ELSE at[i]]
             expected == [i \in 0 .. m |-> IF i = 0 THEN table ELSE ScriptRow(longer[i - 1], rows[i])]
  <2>7. ASSUME NEW i \in 0 .. m PROVE longer[i] = expected[i]
    <3>1. CASE i = 0
      BY <2>3, <2>4, <2>6, <3>1 DEF AreScripted
    <3>2. CASE i # 0
      <4>1. i - 1 \in 0 .. m /\ i - 1 # m
        BY <2>3, <3>2
      <4>2. longer[i - 1] = at[i - 1]
        BY <4>1
      <4>3. CASE i = m
        BY <3>2, <4>2, <4>3
      <4>4. CASE i # m
        <5>1. i \in 0 .. m - 1
          BY <2>3, <4>4
        <5>2. at[i] = ScriptRow(at[i - 1], rows[i])
          BY <2>6, <3>2, <5>1 DEF AreScripted
        <5> QED BY <3>2, <4>2, <4>4, <5>2
      <4> QED BY <4>3, <4>4
    <3> QED BY <3>1, <3>2
  <2>8. longer = expected
    <3>1. longer = [i \in 0 .. m |-> longer[i]] /\ expected = [i \in 0 .. m |-> expected[i]]
      OBVIOUS
    <3> HIDE DEF longer, expected
    <3> QED BY <2>7, <3>1
  <2>9. AreScripted(rows, m, longer)
    BY <2>8 DEF AreScripted
  <2> QED BY <2>3, <2>9
<1> QED BY <1>1

LEMMA ScriptStagesAre ==
  ASSUME NEW rows, Len(rows) \in Nat
  PROVE  /\ ScriptStages(rows)[0] = table
         /\ \A m \in 1 .. Len(rows) : ScriptStages(rows)[m] = ScriptRow(ScriptStages(rows)[m - 1], rows[m])
<1> DEFINE n == Len(rows)
           at == CHOOSE f : AreScripted(rows, n, f)
<1>1. AreScripted(rows, n, at)
  BY ScriptStagesExist
<1>2. ScriptStages(rows) = at
  BY DEF ScriptStages, AreScripted
<1> HIDE DEF at, n
<1>3. n \in Nat
  BY DEF n
<1>4. at[0] = table
  BY <1>1, <1>3 DEF AreScripted
<1>5. ASSUME NEW m \in 1 .. n PROVE at[m] = ScriptRow(at[m - 1], rows[m])
  BY <1>1, <1>3 DEF AreScripted
<1> QED BY <1>2, <1>4, <1>5 DEF n

(***************************************************************************)
(* The script                                                               *)
(***************************************************************************)
LEMMA ScriptRowKeeps ==
  ASSUME kind \in {"codes", "mappings"}, NEW rows \in Seq(GoodRows), ~ Clash(rows), NEW r, FileRow(r)
  PROVE  ScriptRow(rows, r) \in Seq(GoodRows) /\ ~ Clash(ScriptRow(rows, r)) /\ Len(rows) <= Len(ScriptRow(rows, r))
<1> DEFINE n == Len(rows)
           same == {j \in DOMAIN rows : rows[j].scope = "global" /\ rows[j].key = r.key}
           i == Max(same \cup {0})
           t == ScriptRow(rows, r)
<1>1. n \in Nat /\ DOMAIN rows = 1 .. n
  OBVIOUS
<1>2. kind \in DOMAIN Parser
  BY KindsAre
<1>3. CASE Skipped(r)
  BY <1>1, <1>3 DEF ScriptRow
<1>4. CASE ~ Skipped(r)
  <2>1. r.key \in GoodKeys /\ r.text \in GoodTexts /\ r.flag \in GoodFlags
    BY <1>2, <1>4, TablesOfKind DEF FileRow, GoodFlags
  <2>2. r.key # Blank
    BY <1>2, <2>1, ExportsOfKind DEF GoodKeys
  <2>3. i \in same \cup {0} /\ \A x \in same \cup {0} : i >= x
    <3> HIDE DEF i
    <3>1. same \cup {0} \subseteq 0 .. n /\ same \cup {0} # {}
      BY <1>1
    <3> HIDE DEF same
    <3> QED BY <1>1, <3>1, SmallestAndLargest DEF i
  <2>4. CASE i # 0
    <3>1. t = [rows EXCEPT ![i].text = r.text]
      BY <1>4, <2>4 DEF ScriptRow
    <3>2. i \in 1 .. n
      BY <1>1, <2>3, <2>4
    <3> HIDE DEF i, t
    <3> DEFINE new == [rows[i] EXCEPT !.text = r.text]
    <3>3. rows[i] \in GoodRows
      BY <3>2
    <3>4. /\ new \in GoodRows /\ new.key = rows[i].key /\ new.scope = rows[i].scope /\ new.state = rows[i].state
      BY <2>1, <3>3 DEF GoodRows
    <3>5. t = [rows EXCEPT ![i] = new]
      BY <3>1
    <3> HIDE DEF new
    <3>6. t \in Seq(GoodRows) /\ Len(t) = n /\ DOMAIN t = 1 .. n
      BY <1>1, <3>2, <3>4, <3>5
    <3>7. \A k \in 1 .. n :
             t[k].key = rows[k].key /\ t[k].scope = rows[k].scope /\ t[k].state = rows[k].state
      BY <1>1, <3>2, <3>4, <3>5
    <3>8. ~ Clash(t)
      BY <1>1, <3>6, <3>7 DEF Clash
    <3> QED BY <1>1, <3>6, <3>8 DEF t
  <2>5. CASE i = 0
    <3> DEFINE new == [key |-> r.key, text |-> r.text, scope |-> "global", state |-> "active", flag |-> r.flag]
    <3>1. t = Append(rows, new)
      BY <1>4, <2>5 DEF ScriptRow
    <3>2. new \in GoodRows /\ new.key = r.key /\ new.scope = "global"
      BY <2>1 DEF GoodRows, GoodStates
    <3>3. \A k \in 1 .. n : ~ (rows[k].scope = "global" /\ rows[k].key = r.key)
      <4> SUFFICES ASSUME NEW k \in 1 .. n, k \in same PROVE FALSE
        OBVIOUS
      <4>1. k >= 1 /\ i >= k
        BY <1>1, <2>3
      <4> QED BY <1>1, <2>5, <4>1
    <3> HIDE DEF new, t, i
    <3>4. t \in Seq(GoodRows) /\ Len(t) = n + 1 /\ DOMAIN t = 1 .. n + 1
      BY <1>1, <3>1, <3>2
    <3>5. \A k \in 1 .. n + 1 : t[k] = IF k = n + 1 THEN new ELSE rows[k]
      BY <1>1, <3>1
    <3>6. ~ Clash(t)
      <4> HIDE DEF n
      <4> SUFFICES ASSUME NEW a \in 1 .. n + 1, NEW b \in 1 .. n + 1, a < b,
                          t[a].state # "gone", t[b].state # "gone", t[a].key = t[b].key,
                          t[a].key # Blank, t[a].scope = t[b].scope
                   PROVE  FALSE
        BY <3>4 DEF Clash
      <4>1. a \in 1 .. n /\ a # n + 1
        BY <1>1
      <4>2. CASE b = n + 1
        BY <3>2, <3>3, <3>5, <4>1, <4>2
      <4>3. CASE b # n + 1
        <5>1. b \in 1 .. n
          BY <1>1, <4>3
        <5> QED BY <1>1, <3>5, <4>1, <4>3, <5>1 DEF Clash
      <4> QED BY <4>2, <4>3
    <3> QED BY <1>1, <3>4, <3>6 DEF t
  <2> QED BY <2>4, <2>5
<1> QED BY <1>3, <1>4

LEMMA ScriptKeeps ==
  ASSUME kind \in {"codes", "mappings"}, table \in Seq(GoodRows), ~ Clash(table),
         NEW rows, Len(rows) \in Nat, \A i \in 1 .. Len(rows) : FileRow(rows[i])
  PROVE  LET t == ScriptStages(rows)[Len(rows)] IN
         t \in Seq(GoodRows) /\ ~ Clash(t) /\ Len(table) <= Len(t)
<1> DEFINE n == Len(rows)
           Fit(t) == t \in Seq(GoodRows) /\ ~ Clash(t) /\ Len(table) <= Len(t)
           Good == {m \in 0 .. n : Fit(ScriptStages(rows)[m])}
<1>1. n \in Nat /\ \A i \in 1 .. n : FileRow(rows[i])
  OBVIOUS
<1>2. 0 \in Good
  <2>1. ScriptStages(rows)[0] = table
    BY ScriptStagesAre
  <2>2. Fit(table)
    OBVIOUS
  <2> HIDE DEF Fit
  <2> QED BY <1>1, <2>1, <2>2
<1>3. ASSUME NEW m \in 0 .. n, m # n, m \in Good PROVE m + 1 \in Good
  <2>1. m + 1 \in 1 .. n /\ m + 1 \in 0 .. n /\ (m + 1) - 1 = m
    BY <1>1, <1>3
  <2> DEFINE t == ScriptStages(rows)[m]
  <2>2. ScriptStages(rows)[m + 1] = ScriptRow(t, rows[m + 1])
    <3> HIDE DEF n
    <3> QED BY <1>1, <2>1, ScriptStagesAre DEF n
  <2>3. t \in Seq(GoodRows) /\ ~ Clash(t) /\ Len(table) <= Len(t) /\ FileRow(rows[m + 1])
    BY <1>1, <1>3, <2>1
  <2> HIDE DEF t
  <2> DEFINE next == ScriptRow(t, rows[m + 1])
  <2>4. next \in Seq(GoodRows) /\ ~ Clash(next) /\ Len(t) <= Len(next)
    BY <2>3, ScriptRowKeeps
  <2> HIDE DEF next
  <2>5. Len(table) <= Len(next)
    BY <2>3, <2>4
  <2>6. Fit(next)
    BY <2>4, <2>5
  <2> HIDE DEF Fit
  <2> QED BY <2>1, <2>2, <2>6 DEF next
<1> HIDE DEF Good
<1>4. \A m \in 0 .. n : m \in Good
  BY <1>1, <1>2, <1>3, CountingUp
<1> QED BY <1>1, <1>4 DEF Good

(***************************************************************************)
(* The files                                                                *)
(***************************************************************************)
LEMMA FlagReadIs ==
  ASSUME kind \in DOMAIN Parser, NEW cell
  PROVE  /\ FlagRead(cell) \in GoodFlags \cup {"null"}
         /\ HasFlag /\ cell \in {"yes", "no"} => FlagRead(cell) = cell
<1>1. CASE HasFlag
  <2>1. Parser[kind].flag # "absent"
    BY <1>1, FilesOfKind
  <2> QED BY <1>1, <2>1 DEF FlagRead, GoodFlags
<1>2. CASE ~ HasFlag
  BY <1>2, FilesOfKind DEF FlagRead, GoodFlags
<1> QED BY <1>1, <1>2

LEMMA FileIsRead ==
  ASSUME NEW file \in Seq(Lines)
  PROVE  /\ Len(file) \in Nat /\ DOMAIN file = 1 .. Len(file)
         /\ DOMAIN RowsOf(file) = 1 .. Len(file) /\ Len(RowsOf(file)) = Len(file)
         /\ \A i \in 1 .. Len(file) :
              /\ file[i] \in Lines
              /\ RowsOf(file)[i].key = file[i].key /\ RowsOf(file)[i].text = file[i].text
              /\ RowsOf(file)[i].flag = FlagRead(file[i].flag)
<1>1. Len(file) \in Nat /\ DOMAIN file = 1 .. Len(file)
  OBVIOUS
<1>2. DOMAIN RowsOf(file) = 1 .. Len(file)
  BY <1>1 DEF RowsOf
<1>3. RowsOf(file) = [i \in 1 .. Len(file) |-> RowsOf(file)[i]]
  BY <1>1 DEF RowsOf
<1>4. Len(RowsOf(file)) = Len(file)
  BY <1>1, <1>2
<1>5. ASSUME NEW i \in 1 .. Len(file)
      PROVE  /\ file[i] \in Lines
             /\ RowsOf(file)[i].key = file[i].key /\ RowsOf(file)[i].text = file[i].text
             /\ RowsOf(file)[i].flag = FlagRead(file[i].flag)
  <2>1. file[i] \in Lines
    OBVIOUS
  <2>2. RowsOf(file)[i] = [file[i] EXCEPT !.flag = FlagRead(file[i].flag)]
    BY <1>1 DEF RowsOf
  <2> QED BY <2>1, <2>2 DEF Lines
<1> QED BY <1>1, <1>2, <1>4, <1>5

LEMMA RowIsRead ==
  ASSUME kind \in DOMAIN Parser, NEW file \in Seq(Lines), NEW i \in 1 .. Len(file),
         file[i].key = Blank => Parser[kind].blankKey # "refused",
         kind = "categories" => file[i].text # Blank
  PROVE  FileRow(RowsOf(file)[i])
<1> DEFINE r == RowsOf(file)[i]
<1>1. /\ file[i] \in Lines /\ r.key = file[i].key /\ r.text = file[i].text /\ r.flag = FlagRead(file[i].flag)
  BY FileIsRead
<1> HIDE DEF r
<1>2. r.flag \in GoodFlags \cup {"null"}
  BY <1>1, FlagReadIs
<1>3. r.text \in GoodTexts
  BY <1>1 DEF GoodTexts, Lines
<1>4. Skipped(r) \/ r.key \in GoodKeys
  BY <1>1, FilesOfKind, ExportsOfKind DEF Skipped, GoodKeys, Lines
<1> QED BY <1>2, <1>3, <1>4 DEF FileRow, r

LEMMA AcceptedIsRead ==
  ASSUME kind \in DOMAIN Parser, NEW file \in Seq(Lines), ~ Refused(file)
  PROVE  \A i \in 1 .. Len(file) : FileRow(RowsOf(file)[i])
<1> SUFFICES ASSUME NEW i \in 1 .. Len(file) PROVE FileRow(RowsOf(file)[i])
  OBVIOUS
<1>1. i \in DOMAIN file
  OBVIOUS
<1>2. ASSUME file[i].key = Blank PROVE Parser[kind].blankKey # "refused"
  BY <1>1, <1>2 DEF Refused
<1>3. ASSUME kind = "categories" PROVE file[i].text # Blank
  <2>1. Parser[kind].blankText = "refused" /\ Parser[kind].blankKey = "refused"
    BY <1>3, FilesOfKind
  <2>2. file[i].key # Blank
    BY <1>2, <2>1
  <2> QED BY <1>1, <2>1, <2>2 DEF Refused
<1> QED BY <1>2, <1>3, RowIsRead

(***************************************************************************)
(* The steps                                                                *)
(***************************************************************************)
LEMMA KindStays ==
  ASSUME kind' = kind, tenantless' = tenantless
  PROVE  /\ HasFlag' <=> HasFlag
         /\ Exportable' <=> Exportable
         /\ KeysOnce' <=> KeysOnce
         /\ GoodKeys' = GoodKeys /\ GoodTexts' = GoodTexts /\ GoodFlags' = GoodFlags
         /\ GoodStates' = GoodStates /\ GoodRows' = GoodRows /\ OwnScope' = OwnScope
<1>1. (HasFlag' <=> HasFlag) /\ (Exportable' <=> Exportable) /\ (KeysOnce' <=> KeysOnce)
  BY DEF HasFlag, Exportable, KeysOnce
<1>2. GoodKeys' = GoodKeys /\ GoodTexts' = GoodTexts /\ GoodFlags' = GoodFlags
      /\ GoodStates' = GoodStates /\ OwnScope' = OwnScope
  BY <1>1 DEF GoodKeys, GoodTexts, GoodFlags, GoodStates, OwnScope
<1>3. GoodRows' = GoodRows
  BY <1>2 DEF GoodRows
<1> QED BY <1>1, <1>2, <1>3

LEMMA EffectStays ==
  ASSUME kind' = kind, tenantless' = tenantless, EffectOf(report', table')
  PROVE  (EffectOf(report, table))'
<1>1. OwnScope' = OwnScope
  BY KindStays
<1>2. ASSUME NEW t, NEW r, Stands(t, r) PROVE Stands(t, r)'
  BY <1>1, <1>2 DEF Stands
<1>3. \A rows, via : CountedRows(rows, via)' \subseteq CountedRows(rows, via)
  BY DEF CountedRows, Ignored, Nameless, Skipped
<1>4. \A rows : TakenBack(rows)' => TakenBack(rows)
  BY DEF TakenBack
<1> QED BY <1>2, <1>3, <1>4 DEF EffectOf

LEMMA InvKept ==
  ASSUME ImportInv, kind' = kind, tenantless' = tenantless, table' \in Seq(GoodRows),
         kind \notin {"addresses", "banks"} => ~ Clash(table'),
         DOMAIN upload' = Uploaders, \A u \in Uploaders : upload'[u] = NoUpload \/ UploadFits(upload'[u], table'),
         FileFits(exported'), EffectOf(report', table')
  PROVE  ImportInv'
<1>1. (kind \in DOMAIN Parser)' /\ (tenantless \in BOOLEAN)'
  BY DEF ImportInv, Parser
<1>2. (table \in Seq(GoodRows))'
  BY KindStays
<1>3. (kind \notin {"addresses", "banks"} => ~ Clash(table))'
  BY DEF Clash
<1>4. (DOMAIN upload = Uploaders)' /\ (\A u \in Uploaders : upload[u] = NoUpload \/ Loading(upload[u]))'
  BY KindStays DEF Loading, UploadFits, FileRow, Skipped, NoUpload
<1>5. FileFits(exported)'
  BY KindStays DEF FileFits
<1>6. (EffectOf(report, table))'
  BY EffectStays
<1> QED BY <1>1, <1>2, <1>3, <1>4, <1>5, <1>6 DEF ImportInv

LEMMA ImportInvIs ==
  ASSUME ImportInv
  PROVE  /\ kind \in DOMAIN Parser /\ table \in Seq(GoodRows) /\ Len(table) \in Nat
         /\ kind \notin {"addresses", "banks"} => ~ Clash(table)
         /\ DOMAIN upload = Uploaders /\ \A u \in Uploaders : upload[u] = NoUpload \/ UploadFits(upload[u], table)
         /\ FileFits(exported) /\ EffectOf(report, table)
  BY DEF ImportInv, Loading

LEMMA OverlappedFits ==
  ASSUME ImportInv, NEW done, NEW rows, Len(rows) \in Nat, Len(table) <= Len(rows)
  PROVE  /\ DOMAIN Overlapped(done) = Uploaders
         /\ \A u \in Uploaders : Overlapped(done)[u] = NoUpload \/ UploadFits(Overlapped(done)[u], rows)
<1>1. DOMAIN Overlapped(done) = Uploaders
  BY DEF Overlapped
<1>2. ASSUME NEW u \in Uploaders PROVE Overlapped(done)[u] = NoUpload \/ UploadFits(Overlapped(done)[u], rows)
  <2>1. Overlapped(done)[u] = IF u \in done \/ upload[u] = NoUpload THEN NoUpload
                              ELSE [upload[u] EXCEPT !.fresh = FALSE]
    BY DEF Overlapped
  <2>2. CASE u \in done \/ upload[u] = NoUpload
    BY <2>1, <2>2
  <2>3. CASE ~ (u \in done \/ upload[u] = NoUpload)
    <3> DEFINE w == upload[u]
               outdated == [w EXCEPT !.fresh = FALSE]
    <3>1. UploadFits(w, table)
      BY <2>3, ImportInvIs
    <3> HIDE DEF w
    <3>2. /\ DOMAIN outdated = DOMAIN w /\ outdated.via = w.via /\ outdated.rows = w.rows /\ outdated.read = w.read
          /\ outdated.fresh = FALSE
      BY <3>1 DEF UploadFits
    <3> HIDE DEF outdated
    <3>3. Len(w.read) <= Len(rows)
      <4>1. Len(w.read) \in Nat /\ Len(w.read) <= Len(table)
        BY <3>1 DEF UploadFits
      <4>2. Len(table) \in Nat
        BY ImportInvIs
      <4> QED BY <4>1, <4>2
    <3>4. UploadFits(outdated, rows)
      BY <3>1, <3>2, <3>3 DEF UploadFits
    <3> QED BY <2>1, <2>3, <3>4 DEF outdated, w
  <2> QED BY <2>2, <2>3
<1> QED BY <1>1, <1>2

LEMMA ReadsStep ==
  ASSUME ImportInv, NEW u \in Uploaders, NEW via \in Routes, NEW rows, DOMAIN rows = 1 .. Len(rows),
         Len(rows) \in Nat, \A i \in DOMAIN rows : FileRow(rows[i]),
         via = "export" => Exportable /\ (HasFlag => \A i \in DOMAIN rows : rows[i].flag # "null"),
         Reads(u, via, rows)
  PROVE  ImportInv'
<1> DEFINE w == [via |-> via, rows |-> rows, read |-> table, fresh |-> TRUE]
<1>1. /\ upload' = [upload EXCEPT ![u] = w]
      /\ kind' = kind /\ tenantless' = tenantless /\ table' = table /\ exported' = exported /\ report' = report
  BY DEF Reads
<1>2. table \in Seq(GoodRows) /\ Len(table) \in Nat
  BY ImportInvIs
<1>3. /\ DOMAIN w = {"via", "rows", "read", "fresh"} /\ w.via = via /\ w.rows = rows /\ w.read = table
      /\ w.fresh = TRUE
  OBVIOUS
<1> HIDE DEF w
<1>4. UploadFits(w, table)
  <2>1. DOMAIN w.rows = 1 .. Len(w.rows) /\ Len(w.rows) \in Nat /\ \A i \in DOMAIN w.rows : FileRow(w.rows[i])
    BY <1>3
  <2>2. w.read \in Seq(GoodRows) /\ Len(w.read) <= Len(table)
    BY <1>2, <1>3
  <2>3. w.via = "export" => Exportable /\ (HasFlag => \A i \in DOMAIN w.rows : w.rows[i].flag # "null")
    BY <1>3
  <2> QED BY <1>3, <2>1, <2>2, <2>3 DEF UploadFits
<1>5. DOMAIN upload' = Uploaders
      /\ \A v \in Uploaders : upload'[v] = NoUpload \/ UploadFits(upload'[v], table')
  BY <1>1, <1>4, ImportInvIs
<1>6. /\ table' \in Seq(GoodRows)
      /\ kind \notin {"addresses", "banks"} => ~ Clash(table')
      /\ FileFits(exported') /\ EffectOf(report', table')
  BY <1>1, ImportInvIs
<1> QED BY <1>1, <1>5, <1>6, InvKept

\* The export writes nothing that the upload refuses, but for what TakenBack names.
LEMMA ExportIsAccepted ==
  ASSUME ImportInv, exported # << >>, TakenBack(RowsOf(exported))
  PROVE  ~ Refused(exported)
<1> DEFINE p == Parser[kind]
<1>1. kind \in DOMAIN Parser /\ FileFits(exported) /\ exported \in Seq(Lines) /\ Exportable
  BY ImportInvIs DEF FileFits
<1>2. ASSUME NEW i \in DOMAIN exported
      PROVE  /\ exported[i].key # Blank
             /\ kind = "categories" => exported[i].text # Blank
             /\ HasFlag => exported[i].flag # "odd"
  BY <1>1 DEF FileFits, GoodKeys, GoodTexts
<1>3. ASSUME NEW i \in DOMAIN exported, NEW j \in DOMAIN exported, i # j
      PROVE  exported[i].key # exported[j].key
  <2>1. CASE kind = "accounts"
    <3>1. DOMAIN RowsOf(exported) = DOMAIN exported
      BY <1>1, FileIsRead
    <3>2. \A k \in DOMAIN exported : RowsOf(exported)[k].key = exported[k].key
      BY <1>1, FileIsRead
    <3> QED BY <1>3, <2>1, <3>1, <3>2 DEF TakenBack
  <2>2. CASE kind # "accounts"
    <3>1. KeysOnce
      BY <2>2 DEF KeysOnce, TakenBack
    <3> QED BY <1>1, <1>3, <3>1 DEF FileFits
  <2> QED BY <2>1, <2>2
<1>4. kind = "mappings" => \A i \in DOMAIN exported : exported[i].text # Blank
  <2> SUFFICES ASSUME kind = "mappings", NEW i \in DOMAIN exported PROVE exported[i].text # Blank
    OBVIOUS
  <2>1. RowsOf(exported)[i].text = exported[i].text /\ i \in DOMAIN RowsOf(exported)
    BY <1>1, FileIsRead
  <2> QED BY <2>1, FilesAssumption DEF TakenBack
<1>5. p.flag = "strict" => HasFlag
  BY <1>1, FilesOfKind
<1>6. p.blankText = "refused" => kind \in {"categories", "mappings"}
  BY <1>1, FilesOfKind
<1> DEFINE keyed == {i \in DOMAIN exported : exported[i].key # Blank}
<1>7. keyed = DOMAIN exported
  BY <1>2
<1>8. ~ \E i, j \in keyed : i < j /\ exported[i].key = exported[j].key
  <2>1. \A i \in DOMAIN exported : i \in Nat
    BY <1>1
  <2> QED BY <1>3, <1>7, <2>1
<1>9. ~ (p.blankText = "refused" /\ \E i \in keyed : exported[i].text = Blank)
  BY <1>2, <1>4, <1>6, <1>7
<1>10. ~ (p.flag = "strict" /\ \E i \in keyed : exported[i].flag = "odd")
  BY <1>2, <1>5, <1>7
<1> HIDE DEF p
<1> QED BY <1>7, <1>8, <1>9, <1>10 DEF Refused, p

LEMMA RefusedStep ==
  ASSUME ImportInv, NEW via, NEW rows, via = "export" => ~ TakenBack(rows),
         report' = [via |-> via, result |-> "refused", rows |-> rows, fresh |-> TRUE],
         UNCHANGED <<kind, tenantless, table, upload, exported>>
  PROVE  ImportInv'
<1>1. report'.via = via /\ report'.result = "refused" /\ report'.rows = rows
  OBVIOUS
<1>2. EffectOf(report', table')
  BY <1>1 DEF EffectOf
<1>3. /\ table' \in Seq(GoodRows)
      /\ kind \notin {"addresses", "banks"} => ~ Clash(table')
      /\ DOMAIN upload' = Uploaders
      /\ \A u \in Uploaders : upload'[u] = NoUpload \/ UploadFits(upload'[u], table')
      /\ FileFits(exported')
  BY ImportInvIs
<1> QED BY <1>2, <1>3, InvKept

LEMMA UploadStep ==
  ASSUME ImportInv, NEW u \in Uploaders, NEW via \in {"desk", "export"}, NEW file \in Seq(Lines),
         via = "export" => file = exported /\ exported # << >>, BeginUpload(u, via, file)
  PROVE  ImportInv'
<1>1. kind \in DOMAIN Parser /\ FileFits(exported)
  BY ImportInvIs
<1>2. CASE Refused(file)
  <2>1. via = "export" => ~ TakenBack(RowsOf(file))
    BY <1>2, ExportIsAccepted
  <2>2. /\ report' = [via |-> via, result |-> "refused", rows |-> RowsOf(file), fresh |-> TRUE]
        /\ UNCHANGED <<kind, tenantless, table, upload, exported>>
    BY <1>2 DEF BeginUpload
  <2> QED BY <2>1, <2>2, RefusedStep
<1>3. CASE ~ Refused(file)
  <2> DEFINE rows == RowsOf(file)
  <2>1. Reads(u, via, rows)
    BY <1>3 DEF BeginUpload
  <2>2. DOMAIN rows = 1 .. Len(rows) /\ Len(rows) \in Nat /\ DOMAIN rows = DOMAIN file
    BY FileIsRead
  <2>3. \A i \in DOMAIN rows : FileRow(rows[i])
    BY <1>1, <1>3, <2>2, FileIsRead, AcceptedIsRead
  <2>4. ASSUME via = "export" PROVE Exportable /\ (HasFlag => \A i \in DOMAIN rows : rows[i].flag # "null")
    <3>1. Exportable
      BY <1>1, <2>4 DEF FileFits
    <3>2. ASSUME HasFlag, NEW i \in DOMAIN rows PROVE rows[i].flag # "null"
      <4>1. i \in DOMAIN file /\ file[i].flag \in {"yes", "no"}
        BY <1>1, <2>2, <2>4, <3>2 DEF FileFits
      <4>2. rows[i].flag = FlagRead(file[i].flag)
        BY <4>1, FileIsRead
      <4>3. FlagRead(file[i].flag) = file[i].flag
        BY <1>1, <3>2, <4>1, FlagReadIs
      <4> QED BY <4>1, <4>2, <4>3
    <3> QED BY <3>1, <3>2
  <2>5. via \in Routes
    BY DEF Routes
  <2> HIDE DEF rows
  <2> QED BY <2>1, <2>2, <2>3, <2>4, <2>5, ReadsStep
<1> QED BY <1>2, <1>3

LEMMA PutStep ==
  ASSUME ImportInv, NEW u \in Uploaders, NEW file \in Seq(Lines), BeginPut(u, file)
  PROVE  ImportInv'
<1> DEFINE rows == RowsOf(file)
<1>1. /\ Reads(u, "put", rows) /\ kind \in {"mappings", "policies"} /\ Len(file) = 1 /\ file[1].key # Blank
  BY DEF BeginPut
<1>2. DOMAIN rows = 1 .. Len(rows) /\ Len(rows) \in Nat /\ Len(rows) = 1
  BY <1>1, FileIsRead
<1>3. \A i \in DOMAIN rows : FileRow(rows[i])
  <2> SUFFICES ASSUME NEW i \in DOMAIN rows PROVE FileRow(rows[i])
    OBVIOUS
  <2>1. i = 1 /\ i \in 1 .. Len(file)
    BY <1>1, <1>2
  <2> QED BY <1>1, <2>1, ImportInvIs, RowIsRead
<1>4. "put" \in Routes
  BY DEF Routes
<1> HIDE DEF rows
<1> QED BY <1>1, <1>2, <1>3, <1>4, ReadsStep

LEMMA SeedStep ==
  ASSUME ImportInv, NEW u \in Uploaders, BeginSeed(u)
  PROVE  ImportInv'
<1> DEFINE rows == RowsOf(StarterFile)
<1>1. Reads(u, "seed", rows) /\ kind = "categories"
  BY DEF BeginSeed
<1>2. StarterFile \in Seq(Lines)
  BY FilesAssumption
<1>3. DOMAIN rows = 1 .. Len(rows) /\ Len(rows) \in Nat /\ DOMAIN rows = DOMAIN StarterFile
      /\ DOMAIN StarterFile = 1 .. Len(StarterFile)
  BY <1>2, FileIsRead
<1>4. \A i \in DOMAIN rows : FileRow(rows[i])
  <2> SUFFICES ASSUME NEW i \in DOMAIN rows PROVE FileRow(rows[i])
    OBVIOUS
  <2>1. i \in 1 .. Len(StarterFile) /\ StarterFile[i].key # Blank /\ StarterFile[i].text # Blank
    BY <1>3, FilesAssumption
  <2> QED BY <1>2, <2>1, ImportInvIs, RowIsRead
<1>5. "seed" \in Routes
  BY DEF Routes
<1> HIDE DEF rows
<1> QED BY <1>1, <1>3, <1>4, <1>5, ReadsStep

LEMMA ImportCommitStep ==
  ASSUME ImportInv, NEW u \in Uploaders, CommitUpload(u)
  PROVE  ImportInv'
<1> DEFINE w == upload[u]
<1>1. w # NoUpload /\ kind' = kind /\ tenantless' = tenantless /\ exported' = exported
      /\ report' = [via |-> w.via, result |-> IF CommitFails(w) THEN "failed" ELSE "loaded",
                    rows |-> w.rows, fresh |-> w.fresh]
  BY DEF CommitUpload
<1>2. /\ kind \in DOMAIN Parser /\ table \in Seq(GoodRows) /\ Len(table) \in Nat
      /\ kind \notin {"addresses", "banks"} => ~ Clash(table)
      /\ FileFits(exported')
  BY <1>1, ImportInvIs
<1>3. Loading(w)
  BY <1>1, ImportInvIs DEF Loading
<1> HIDE DEF w
<1>4. CASE CommitFails(w)
  <2>1. table' = table /\ upload' = [upload EXCEPT ![u] = NoUpload]
    BY <1>4 DEF CommitUpload, w
  <2>2. DOMAIN upload' = Uploaders
        /\ \A v \in Uploaders : upload'[v] = NoUpload \/ UploadFits(upload'[v], table')
    BY <2>1, ImportInvIs
  <2>3. report'.result = "failed" /\ report'.via = w.via /\ report'.rows = w.rows /\ report'.fresh = w.fresh
    BY <1>1, <1>4
  <2>4. ASSUME w.fresh, w.via = "export", TakenBack(w.rows) PROVE FALSE
    <3>1. Exportable
      BY <1>3, <2>4 DEF Loading, UploadFits
    <3>2. ~ Clash(table) /\ ~ (kind = "categories" /\ tenantless)
      BY <1>2, <2>4, <3>1, ExportsOfKind DEF TakenBack
    <3> QED BY <1>2, <1>3, <1>4, <2>4, <3>2, FreshExportCommits
  <2>5. EffectOf(report', table')
    BY <2>3, <2>4 DEF EffectOf
  <2>6. table' \in Seq(GoodRows) /\ (kind \notin {"addresses", "banks"} => ~ Clash(table'))
    BY <1>2, <2>1
  <2> QED BY <1>1, <1>2, <2>2, <2>5, <2>6, InvKept
<1>5. CASE ~ CommitFails(w)
  <2>1. table' = TableAfter(w) /\ upload' = Overlapped({u})
    BY <1>5 DEF CommitUpload, w
  <2>2. table' \in Seq(GoodRows) /\ Len(table) <= Len(table')
    BY <1>2, <1>3, <1>5, <2>1, TableAfterFits DEF CommitFails
  <2>3. kind \notin {"addresses", "banks"} => ~ Clash(table')
    BY <1>5, <2>1 DEF CommitFails
  <2>4. DOMAIN upload' = Uploaders
        /\ \A v \in Uploaders : upload'[v] = NoUpload \/ UploadFits(upload'[v], table')
    <3>1. Len(table') \in Nat
      BY <2>2
    <3> QED BY <2>1, <2>2, <3>1, OverlappedFits
  <2>5. report'.result = "loaded" /\ report'.via = w.via /\ report'.rows = w.rows /\ report'.fresh = w.fresh
    BY <1>1, <1>5
  <2>6. w.fresh => \A r \in CountedRows(w.rows, w.via) : \E i \in DOMAIN table' : Stands(table'[i], r)
    BY <1>2, <1>3, <2>1, LoadedStands
  <2>7. EffectOf(report', table')
    BY <2>5, <2>6 DEF EffectOf
  <2> QED BY <1>1, <1>2, <2>2, <2>3, <2>4, <2>7, InvKept
<1> QED BY <1>4, <1>5

LEMMA DeleteAllStep ==
  ASSUME ImportInv, DeleteAll
  PROVE  ImportInv'
<1> DEFINE theirs == {i \in Listed : table[i].scope = OwnScope \/ kind = "categories"}
           n == Len(table)
           new == [i \in DOMAIN table |->
                     IF i \in theirs THEN [table[i] EXCEPT !.state = Deleted[kind]] ELSE table[i]]
<1>1. /\ table' = new /\ upload' = Overlapped({}) /\ report' = NoReport
      /\ kind' = kind /\ tenantless' = tenantless /\ exported' = exported
  BY DEF DeleteAll
<1>2. /\ kind \in DOMAIN Parser /\ table \in Seq(GoodRows) /\ n \in Nat /\ DOMAIN table = 1 .. n
      /\ kind \notin {"addresses", "banks"} => ~ Clash(table)
      /\ FileFits(exported')
  BY <1>1, ImportInvIs
<1>3. Deleted[kind] \in GoodStates
  BY <1>2, TablesOfKind DEF GoodStates
<1>4. \A i \in theirs : table[i].state = "active"
  BY DEF Listed
<1> HIDE DEF theirs
<1>5. ASSUME NEW i \in 1 .. n
      PROVE  /\ new[i] \in GoodRows /\ new[i].key = table[i].key /\ new[i].scope = table[i].scope
             /\ table[i].state = "gone" => new[i].state = "gone"
  <2>1. table[i] \in GoodRows
    BY <1>2
  <2>2. new[i] = IF i \in theirs THEN [table[i] EXCEPT !.state = Deleted[kind]] ELSE table[i]
    BY <1>2
  <2> HIDE DEF new, n
  <2> QED BY <1>3, <1>4, <2>1, <2>2 DEF GoodRows
<1>6. new = [i \in 1 .. n |-> new[i]] /\ DOMAIN new = 1 .. n
  BY <1>2
<1> HIDE DEF new, n
<1>7. new \in Seq(GoodRows) /\ Len(new) = n
  BY <1>2, <1>5, <1>6
<1>8. Clash(new) => Clash(table)
  BY <1>2, <1>5, <1>6 DEF Clash
<1>9. DOMAIN upload' = Uploaders
      /\ \A v \in Uploaders : upload'[v] = NoUpload \/ UploadFits(upload'[v], table')
  BY <1>1, <1>2, <1>7, OverlappedFits DEF n
<1>10. EffectOf(report', table')
  BY <1>1 DEF EffectOf, NoReport
<1> QED BY <1>1, <1>2, <1>7, <1>8, <1>9, <1>10, InvKept

LEMMA ListedInOrder ==
  ASSUME ImportInv
  PROVE  LET at == SetToSeq(Listed) IN
         /\ Len(at) \in Nat /\ DOMAIN at = 1 .. Len(at)
         /\ \A i \in DOMAIN at : at[i] \in Listed /\ at[i] \in 1 .. Len(table)
         /\ \A i, j \in DOMAIN at : i # j => at[i] # at[j]
<1> DEFINE at == SetToSeq(Listed)
           n == Cardinality(Listed)
<1>1. Len(table) \in Nat /\ DOMAIN table = 1 .. Len(table)
  BY ImportInvIs
<1>2. Listed \subseteq 1 .. Len(table)
  BY <1>1 DEF Listed
<1>3. IsFiniteSet(1 .. Len(table))
  BY <1>1, FS_Interval
<1>4. n \in Nat /\ ExistsBijection(1 .. n, Listed)
  BY <1>2, <1>3, FS_Subset, FS_CardinalityType
<1>5. \E f \in [1 .. n -> Listed] : IsInjective(f)
  BY <1>4 DEF ExistsBijection, Bijection, Injection
<1>6. at \in [1 .. n -> Listed] /\ IsInjective(at)
  BY <1>5 DEF SetToSeq
<1> HIDE DEF at, n
<1>7. Len(at) = n
  BY <1>4, <1>6
<1> QED BY <1>2, <1>4, <1>6, <1>7 DEF IsInjective, at

LEMMA ExportStep ==
  ASSUME ImportInv, Export
  PROVE  ImportInv'
<1> DEFINE line(t) == [key |-> t.key, text |-> t.text, flag |-> IF Builder[kind] = "flag" THEN t.flag ELSE "blank"]
           at == SetToSeq(Listed)
           file == [i \in DOMAIN at |-> line(table[at[i]])]
<1>1. /\ Exportable /\ exported' = file
      /\ UNCHANGED <<kind, tenantless, table, upload, report>>
  BY DEF Export, Exportable
<1>2. /\ Len(at) \in Nat /\ DOMAIN at = 1 .. Len(at)
      /\ \A i \in DOMAIN at : at[i] \in Listed /\ at[i] \in 1 .. Len(table)
      /\ \A i, j \in DOMAIN at : i # j => at[i] # at[j]
  BY ListedInOrder
<1> HIDE DEF at
<1>3. kind \in DOMAIN Parser /\ table \in Seq(GoodRows) /\ ~ Clash(table)
  BY <1>1, ImportInvIs, ExportsOfKind
<1>4. ASSUME NEW i \in DOMAIN at
      PROVE  /\ file[i].key = table[at[i]].key /\ file[i].text = table[at[i]].text
             /\ HasFlag => file[i].flag = table[at[i]].flag
             /\ ~ HasFlag => file[i].flag = "blank"
             /\ table[at[i]] \in GoodRows /\ file[i] = [key |-> file[i].key, text |-> file[i].text, flag |-> file[i].flag]
  <2>1. file[i] = line(table[at[i]])
    OBVIOUS
  <2>2. table[at[i]] \in GoodRows
    BY <1>2, <1>3
  <2>3. Builder[kind] = IF HasFlag THEN "flag" ELSE "blank"
    BY <1>1, <1>3, ExportsOfKind
  <2> HIDE DEF file
  <2> QED BY <2>1, <2>2, <2>3
<1>5. DOMAIN file = 1 .. Len(at) /\ file = [i \in 1 .. Len(at) |-> file[i]]
  BY <1>2
<1> HIDE DEF file
<1>6. \A i \in DOMAIN at : /\ file[i].key \in GoodKeys /\ file[i].text \in GoodTexts
                           /\ HasFlag => file[i].flag \in {"yes", "no"}
  BY <1>4 DEF GoodRows, GoodFlags
<1>7. \A i \in 1 .. Len(at) : file[i] \in Lines
  <2> SUFFICES ASSUME NEW i \in DOMAIN at PROVE file[i] \in Lines
    BY <1>2
  <2>1. file[i].flag \in {"yes", "no", "blank"}
    BY <1>4, <1>6
  <2>2. file[i].key \in Keys \cup {Blank} /\ file[i].text \in Texts \cup {Blank}
    BY <1>6 DEF GoodKeys, GoodTexts
  <2> DEFINE cell == [key |-> file[i].key, text |-> file[i].text, flag |-> file[i].flag]
  <2>3. cell \in Lines
    BY <2>1, <2>2 DEF Lines
  <2> HIDE DEF cell
  <2>4. file[i] = cell
    BY <1>4 DEF cell
  <2> QED BY <2>3, <2>4
<1>8. file \in Seq(Lines)
  BY <1>2, <1>5, <1>7
<1>9. ASSUME KeysOnce, NEW i \in DOMAIN at, NEW j \in DOMAIN at, i # j PROVE file[i].key # file[j].key
  <2> DEFINE a == at[i]
             b == at[j]
  <2>1. a \in Listed /\ b \in Listed /\ a # b /\ a \in 1 .. Len(table) /\ b \in 1 .. Len(table)
    BY <1>2, <1>9
  <2>2. /\ table[a].state = "active" /\ table[b].state = "active"
        /\ table[a].scope = OwnScope /\ table[b].scope = OwnScope
    BY <1>9, <2>1 DEF Listed, KeysOnce
  <2>3. table[a].key # Blank
    BY <1>1, <1>4 DEF GoodRows, GoodKeys
  <2> HIDE DEF a, b
  <2>4. table[a].key # table[b].key
    <3>1. a < b \/ b < a
      BY <2>1
    <3>2. DOMAIN table = 1 .. Len(table)
      BY <1>3
    <3> QED BY <1>3, <2>1, <2>2, <2>3, <3>1, <3>2 DEF Clash
  <2> QED BY <1>4, <2>4 DEF a, b
<1>10. FileFits(exported')
  BY <1>1, <1>2, <1>5, <1>6, <1>8, <1>9 DEF FileFits
<1>11. /\ table' \in Seq(GoodRows)
       /\ kind \notin {"addresses", "banks"} => ~ Clash(table')
       /\ DOMAIN upload' = Uploaders
       /\ \A u \in Uploaders : upload'[u] = NoUpload \/ UploadFits(upload'[u], table')
       /\ EffectOf(report', table')
  BY <1>1, ImportInvIs
<1> QED BY <1>1, <1>10, <1>11, InvKept

LEMMA LoadScriptStep ==
  ASSUME ImportInv, NEW file \in Seq(Lines), LoadScript(file)
  PROVE  ImportInv'
<1> DEFINE rows == RowsOf(file)
           new == ScriptStages(rows)[Len(rows)]
<1>1. /\ kind \in {"codes", "mappings"}
      /\ kind = "mappings" => \A i \in DOMAIN file : file[i].key # Blank
      /\ table' = ScriptStages(rows)[Len(file)] /\ upload' = Overlapped({}) /\ report' = NoReport
      /\ UNCHANGED <<kind, tenantless, exported>>
  BY DEF LoadScript
<1>2. Len(rows) = Len(file) /\ Len(file) \in Nat /\ DOMAIN file = 1 .. Len(file)
  BY FileIsRead
<1>3. kind \in DOMAIN Parser /\ table \in Seq(GoodRows) /\ ~ Clash(table) /\ FileFits(exported')
  BY <1>1, ImportInvIs
<1>4. \A i \in 1 .. Len(rows) : FileRow(rows[i])
  <2> SUFFICES ASSUME NEW i \in 1 .. Len(file) PROVE FileRow(rows[i])
    BY <1>2
  <2>1. ASSUME file[i].key = Blank PROVE Parser[kind].blankKey # "refused"
    <3>1. kind = "codes"
      BY <1>1, <1>2, <2>1
    <3> QED BY <3>1, ParserIs DEF ParseCodes
  <2> QED BY <1>1, <1>3, <2>1, RowIsRead
<1>5. new \in Seq(GoodRows) /\ ~ Clash(new) /\ Len(table) <= Len(new)
  <2> HIDE DEF rows
  <2> QED BY <1>1, <1>2, <1>3, <1>4, ScriptKeeps
<1>6. table' = new
  BY <1>1, <1>2
<1> HIDE DEF new
<1>7. Len(new) \in Nat
  BY <1>5
<1>8. DOMAIN upload' = Uploaders
      /\ \A u \in Uploaders : upload'[u] = NoUpload \/ UploadFits(upload'[u], table')
  BY <1>1, <1>5, <1>6, <1>7, OverlappedFits
<1>9. EffectOf(report', table')
  BY <1>1 DEF EffectOf, NoReport
<1> QED BY <1>1, <1>3, <1>5, <1>6, <1>8, <1>9, InvKept

LEMMA ImportInvInit == ImportInit => ImportInv
<1> SUFFICES ASSUME ImportInit PROVE ImportInv
  OBVIOUS
<1>1. kind \in DOMAIN Parser /\ tenantless \in BOOLEAN
  BY FilesAssumption DEF ImportInit
<1>2. table = << >> /\ exported = << >> /\ report = NoReport
  BY DEF ImportInit
<1>3. table \in Seq(GoodRows) /\ ~ Clash(table)
  BY <1>2 DEF Clash
<1>4. FileFits(exported)
  BY <1>2 DEF FileFits
<1>5. EffectOf(report, table)
  BY <1>2 DEF EffectOf, NoReport
<1>6. DOMAIN upload = Uploaders /\ \A u \in Uploaders : upload[u] = NoUpload
  BY DEF ImportInit
<1> QED BY <1>1, <1>3, <1>4, <1>5, <1>6 DEF ImportInv

LEMMA ImportInvStep == ImportInv /\ [ImportNext]_importVars => ImportInv'
<1> SUFFICES ASSUME ImportInv, [ImportNext]_importVars PROVE ImportInv'
  OBVIOUS
<1>1. Files \subseteq Seq(Lines)
  BY FilesAssumption
<1>2. FileFits(exported)
  BY ImportInvIs
<1>3. ASSUME NEW u \in Uploaders, NEW file \in Files, Upload(u, "desk", file) PROVE ImportInv'
  <2>1. BeginUpload(u, "desk", file)
    BY <1>3 DEF Upload, UploadCategories, UploadCodes, UploadAccounts, UploadMappings, UploadPolicies,
      UploadHeaders, UploadAddresses, UploadAccountsAtBank, UploadDepartments, UploadCostCenters, UploadPlants
  <2> QED BY <1>1, <2>1, UploadStep
<1>4. ASSUME NEW u \in Uploaders, exported # << >>, Upload(u, "export", exported) PROVE ImportInv'
  <2>1. BeginUpload(u, "export", exported)
    BY <1>4 DEF Upload, UploadCategories, UploadCodes, UploadAccounts, UploadMappings, UploadPolicies,
      UploadHeaders, UploadAddresses, UploadAccountsAtBank, UploadDepartments, UploadCostCenters, UploadPlants
  <2>2. exported \in Seq(Lines)
    BY <1>2 DEF FileFits
  <2> QED BY <1>4, <2>1, <2>2, UploadStep
<1>5. ASSUME NEW u \in Uploaders, NEW file \in Files, BeginPut(u, file) PROVE ImportInv'
  BY <1>1, <1>5, PutStep
<1>6. ASSUME NEW u \in Uploaders, BeginSeed(u) PROVE ImportInv'
  BY <1>6, SeedStep
<1>7. ASSUME NEW u \in Uploaders, CommitUpload(u) PROVE ImportInv'
  BY <1>7, ImportCommitStep
<1>8. CASE DeleteAll
  BY <1>8, DeleteAllStep
<1>9. CASE Export
  BY <1>9, ExportStep
<1>10. ASSUME NEW file \in Files, LoadScript(file) PROVE ImportInv'
  BY <1>1, <1>10, LoadScriptStep
<1>11. CASE UNCHANGED importVars
  <2>1. UNCHANGED <<kind, tenantless, table, upload, exported, report>>
    BY <1>11 DEF importVars
  <2>2. /\ table' \in Seq(GoodRows)
        /\ kind \notin {"addresses", "banks"} => ~ Clash(table')
        /\ DOMAIN upload' = Uploaders
        /\ \A u \in Uploaders : upload'[u] = NoUpload \/ UploadFits(upload'[u], table')
        /\ FileFits(exported') /\ EffectOf(report', table')
    BY <2>1, ImportInvIs
  <2> QED BY <2>1, <2>2, InvKept
<1> QED BY <1>3, <1>4, <1>5, <1>6, <1>7, <1>8, <1>9, <1>10, <1>11 DEF ImportNext

\* What an upload reports as loaded is stored and in use, and an exported file is taken
\* back, unless something else was committed meanwhile: the bulk_upsert_ functions, the
\* parsers, the exports and the deletions of services/master_data_import.py and its users,
\* for any files, keys and uploaders.
THEOREM ImportsHold == ImportSpec => []ImportsTakeEffect
<1>1. ImportInv => ImportsTakeEffect
  BY DEF ImportInv, EffectOf, ImportsTakeEffect
<1> QED BY <1>1, ImportInvInit, ImportInvStep, PTL DEF ImportSpec
=============================================================================
