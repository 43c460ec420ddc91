------------------------ MODULE OrderFulfilmentProofs ------------------------
(***************************************************************************)
(* Proofs about OrderFulfilment, for any lines, policies, quantities and    *)
(* number of requests under way: type correctness; that a posted receipt    *)
(* was approved and that an order closed by the system has its goods,       *)
(* whatever requests ran into each other; and, while requests do not        *)
(* overlap, that a receipt which has ended stays as it is and that a line   *)
(* has one open receipt at most.                                            *)
(*                                                                          *)
(* And about OrderChanges: what a requisition's undisturbed new approval    *)
(* agreed is what its newest orders hold ever after.                        *)
(***************************************************************************)
EXTENDS OrderFulfilment, OrderChanges, SumTheorems, SequenceTheorems, FiniteSetTheorems, TLAPS

Statuses == OpenStatuses \cup Ended
Stages == {"idle", "receive", "draft", "match"}
LineSets == UNION {[ls -> Quantities] : ls \in (SUBSET Lines) \ {{}}}
Row == [status : Statuses, lines : LineSets, approved : BOOLEAN]
Marks == UNION {[S -> Statuses] : S \in SUBSET Nat}

Unit == [state : States \cup {Kept}, change : {"other", "auto_close", Kept},
         marks : Marks, new : Seq(Row), settles : BOOLEAN,
         invoice : {"pending", "exception", "matched", Kept}]

(* TypeOK, with the shape of receipts and of what requests are about to write *)
TypeInv ==
  /\ policy \in Policies
  /\ order \in [state : States, change : {"other", "auto_close"}]
  /\ requisition \in {"po_created", "cancelled"}
  /\ receipts \in Seq(Row)
  /\ invoice \in {"none", "pending", "exception", "matched"}
  /\ session \in [Sessions -> [stage : Stages \cup {"commit"}, write : Unit, next : Stages]]
  /\ overlapped \in BOOLEAN
  /\ requests \in 0 .. MaxRequests

(* A new receipt finds its lines without an open one *)
Fits(write) ==
  /\ Len(write.new) <= 1
  /\ \A i \in DOMAIN write.new : DOMAIN write.new[i].lines \cap OpenLines = {}

(* What a request read when it decided to write this *)
Founded(write) ==
  /\ Fits(write)
  /\ \A n \in DOMAIN write.marks :
       /\ n \in DOMAIN receipts
       /\ receipts[n].status \in OpenStatuses
       /\ write.marks[n] = "posted" => receipts[n].status = "approved"
  /\ \A i \in DOMAIN write.new : write.new[i].status \in {"draft", "received"}
  /\ write.change = "auto_close" => Complete(receipts \o write.new)

(* A request has read, and will write *)
Begins(s, write, next) == Work(s, write, next) /\ requests' \in 0 .. MaxRequests

(* Who is approved or posted has the stamp of an approval *)
Stamped ==
  \A n \in DOMAIN receipts :
    receipts[n].status \in {"approved", "posted"} => receipts[n].approved

(* So has who is about to be posted, and what is new is neither *)
WillBeStamped ==
  \A s \in Sessions :
    /\ \A n \in DOMAIN session[s].write.marks :
         /\ n \in DOMAIN receipts
         /\ session[s].write.marks[n] = "posted" => receipts[n].approved
    /\ \A i \in DOMAIN session[s].write.new :
         session[s].write.new[i].status \in {"draft", "received"}

(* While requests do not overlap there is one, and what it read still holds *)
Serial ==
  ~overlapped =>
    /\ \A s, t \in Sessions : session[s] # Idle /\ session[t] # Idle => s = t
    /\ \A s \in Sessions : \A n \in DOMAIN session[s].write.marks :
         n \in DOMAIN receipts /\ receipts[n].status \in OpenStatuses
    /\ \A s \in Sessions : Fits(session[s].write)
    /\ OneOpenPerLine

(* Who closed the order by itself found everything received, what it received *)
(* itself included                                                           *)
ClosesWhenComplete ==
  /\ order.change = "auto_close" => Complete(receipts)
  /\ \A s \in Sessions :
       /\ Len(session[s].write.new) <= 1
       /\ session[s].write.change = "auto_close" => Complete(receipts \o session[s].write.new)

IInv == TypeInv /\ Stamped /\ WillBeStamped /\ Serial /\ ClosesWhenComplete

-----------------------------------------------------------------------------
LEMMA StatesAreNames ==
  States = {"draft", "pending_approval", "approved", "ordered", "sent_to_supplier",
            "acknowledged", "partially_received", "fully_received", "invoiced", "closed",
            "cancelled", "reopened"}
BY DEF States, Allowed

LEMMA TypeInvIsTypeOK == ASSUME TypeInv PROVE TypeOK
<1>1. ASSUME NEW n \in DOMAIN receipts PROVE IsReceipt(receipts[n])
  <2>1. receipts[n] \in Row
    BY <1>1, ElementOfSeq DEF TypeInv
  <2>2. PICK ls \in (SUBSET Lines) \ {{}} : receipts[n].lines \in [ls -> Quantities]
    BY <2>1 DEF Row, LineSets
  <2> QED BY <2>1, <2>2 DEF IsReceipt, Row, Statuses
<1> QED BY <1>1 DEF TypeInv, TypeOK, Stages

LEMMA ReceiptFacts ==
  ASSUME TypeInv
  PROVE  /\ DOMAIN receipts \subseteq Nat
         /\ \A n \in DOMAIN receipts : receipts[n] \in Row /\ receipts[n].status \in Statuses
<1>1. receipts \in Seq(Row)
  BY DEF TypeInv
<1>2. DOMAIN receipts = 1 .. Len(receipts) /\ Len(receipts) \in Nat
  BY <1>1, LenProperties
<1>3. \A n \in DOMAIN receipts : receipts[n] \in Row
  BY <1>1, <1>2, ElementOfSeq
<1> QED BY <1>2, <1>3 DEF Row

LEMMA NoMarks == DOMAIN NoChange.marks = {} /\ NoChange.marks \in Marks
<1>1. NoChange.marks \in [{} -> Statuses] /\ DOMAIN NoChange.marks = {}
  BY DEF NoChange
<1> QED BY <1>1 DEF Marks

LEMMA NoChangeIsUnit == NoChange \in Unit /\ (TypeInv => Founded(NoChange))
<1>1. NoChange.new \in Seq(Row) /\ DOMAIN NoChange.new = {} /\ Len(NoChange.new) = 0
  BY DEF NoChange
<1>2. NoChange.change = Kept /\ Kept # "auto_close"
  BY DEF NoChange, Kept
<1> QED BY <1>1, <1>2, NoMarks DEF NoChange, Unit, Founded, Fits

LEMMA IdleIsIdle ==
  /\ Idle \in [stage : Stages \cup {"commit"}, write : Unit, next : Stages]
  /\ Idle.stage = "idle" /\ Idle.write = NoChange
BY NoChangeIsUnit DEF Idle, Stages

LEMMA NothingIsLineSet ==
  ASSUME NEW ls \in (SUBSET Lines) \ {{}}
  PROVE  Nothing(ls) \in LineSets /\ Everything(ls) \in LineSets
<1>1. Nothing(ls) \in [ls -> Quantities]
  BY DEF Nothing, Quantities
<1>2. Everything(ls) \in [ls -> Quantities]
  BY FulfilmentAssumption DEF Everything, Quantities
<1> QED BY <1>1, <1>2 DEF LineSets

-----------------------------------------------------------------------------
(* What is accepted on the receipts *)
Part(l, row) ==
  IF l \in DOMAIN row.lines THEN row.lines[l].received - row.lines[l].rejected ELSE 0

LEMMA PartIsNat == ASSUME NEW row \in Row, NEW l PROVE Part(l, row) \in Nat
<1>1. PICK ls \in SUBSET Lines : row.lines \in [ls -> Quantities]
  BY DEF Row, LineSets
<1>2. l \in DOMAIN row.lines => row.lines[l] \in Quantities
  BY <1>1
<1> QED BY <1>2 DEF Part, Quantities

LEMMA AcceptedIsSum ==
  ASSUME NEW rs \in Seq(Row), NEW l
  PROVE  /\ Accepted(l, rs) = SumFunctionOnSet([n \in DOMAIN rs |-> Part(l, rs[n])], DOMAIN rs)
         /\ IsFiniteSet(DOMAIN rs) /\ \A n \in DOMAIN rs : Part(l, rs[n]) \in Nat
         /\ Accepted(l, rs) \in Nat
<1>1. DOMAIN rs = 1 .. Len(rs) /\ Len(rs) \in Nat
  BY LenProperties
<1>2. IsFiniteSet(DOMAIN rs)
  BY <1>1, FS_Interval
<1>3. \A n \in DOMAIN rs : Part(l, rs[n]) \in Nat
  BY <1>1, PartIsNat, ElementOfSeq
<1> DEFINE f == [n \in DOMAIN rs |-> Part(l, rs[n])]
<1>4. Accepted(l, rs) = SumFunctionOnSet(f, DOMAIN rs)
  BY DEF Accepted, SumFunction, Part
<1>5. \A n \in DOMAIN rs : f[n] \in Nat
  BY <1>3
<1> HIDE DEF f
<1>6. SumFunctionOnSet(f, DOMAIN rs) \in Nat
  BY <1>2, <1>5, SumIsNat
<1> QED BY <1>2, <1>3, <1>4, <1>6 DEF f

(* More receipts do not take back what was accepted *)
LEMMA AcceptedGrows ==
  ASSUME NEW rs \in Seq(Row), NEW qs \in Seq(Row), NEW l, DOMAIN rs \subseteq DOMAIN qs,
         \A n \in DOMAIN rs : qs[n].lines = rs[n].lines
  PROVE  Accepted(l, rs) <= Accepted(l, qs)
<1> DEFINE f == [n \in DOMAIN rs |-> Part(l, rs[n])]
           g == [n \in DOMAIN qs |-> Part(l, qs[n])]
<1>1. /\ Accepted(l, rs) = SumFunctionOnSet(f, DOMAIN rs)
      /\ Accepted(l, qs) = SumFunctionOnSet(g, DOMAIN qs)
      /\ IsFiniteSet(DOMAIN qs)
  BY AcceptedIsSum
<1>2. \A n \in DOMAIN rs : f[n] \in Nat /\ g[n] = f[n]
  BY AcceptedIsSum DEF Part
<1>3. \A n \in DOMAIN qs : g[n] \in Nat
  BY AcceptedIsSum
<1> HIDE DEF f, g
<1>4. \A n \in DOMAIN rs : f[n] \in Nat /\ f[n] <= g[n]
  BY <1>2
<1> QED BY <1>1, <1>3, <1>4, SumGrows

LEMMA AcceptedOfOneMore ==
  ASSUME NEW rs \in Seq(Row), NEW row \in Row, NEW l
  PROVE  Accepted(l, rs \o <<row>>) = Accepted(l, rs) + Part(l, row)
<1> DEFINE qs == rs \o <<row>>
           k == Len(rs) + 1
           f == [n \in DOMAIN rs |-> Part(l, rs[n])]
           g == [n \in DOMAIN qs |-> Part(l, qs[n])]
<1>1. /\ qs \in Seq(Row) /\ DOMAIN rs = 1 .. Len(rs) /\ Len(rs) \in Nat
      /\ DOMAIN qs = 1 .. k /\ qs[k] = row /\ \A n \in DOMAIN rs : qs[n] = rs[n]
  OBVIOUS
<1> HIDE DEF qs
<1>2. /\ Accepted(l, rs) = SumFunctionOnSet(f, DOMAIN rs)
      /\ Accepted(l, qs) = SumFunctionOnSet(g, DOMAIN qs)
      /\ IsFiniteSet(DOMAIN qs) /\ IsFiniteSet(DOMAIN rs)
  BY <1>1, AcceptedIsSum
<1>3. (\A n \in DOMAIN qs : g[n] \in Nat) /\ \A n \in DOMAIN rs : f[n] \in Nat /\ g[n] = f[n]
  <2>1. \A n \in DOMAIN qs : Part(l, qs[n]) \in Nat
    BY <1>1, AcceptedIsSum
  <2>2. \A n \in DOMAIN rs : Part(l, rs[n]) \in Nat
    BY AcceptedIsSum
  <2>3. \A n \in DOMAIN rs : n \in DOMAIN qs /\ Part(l, qs[n]) = Part(l, rs[n])
    BY <1>1
  <2> QED BY <2>1, <2>2, <2>3
<1>4. k \in DOMAIN qs /\ DOMAIN qs \ {k} = DOMAIN rs /\ g[k] = Part(l, row)
  BY <1>1
<1> HIDE DEF f, g, k
<1>5. SumFunctionOnSet(g, DOMAIN qs) = g[k] + SumFunctionOnSet(g, DOMAIN rs)
  BY <1>2, <1>3, <1>4, SumOfOneMore
<1>6. SumFunctionOnSet(g, DOMAIN rs) = SumFunctionOnSet(f, DOMAIN rs)
  BY <1>2, <1>3, SumOfSame
<1>7. SumFunctionOnSet(f, DOMAIN rs) \in Nat /\ Part(l, row) \in Nat
  BY <1>2, <1>3, SumIsNat, PartIsNat
<1> QED BY <1>2, <1>4, <1>5, <1>6, <1>7 DEF qs

LEMMA CompleteStays ==
  ASSUME TypeInv, NEW rs \in Seq(Row), NEW qs \in Seq(Row), DOMAIN rs \subseteq DOMAIN qs,
         \A n \in DOMAIN rs : qs[n].lines = rs[n].lines,
         NEW new \in Seq(Row), Len(new) <= 1
  PROVE  /\ Complete(rs) => Complete(qs)
         /\ Complete(rs \o new) => Complete(qs \o new)
<1>1. \A l \in ThreeWay : /\ Accepted(l, rs) \in Nat /\ Accepted(l, qs) \in Nat
                          /\ Ordered[l] \in Nat /\ Accepted(l, rs) <= Accepted(l, qs)
  BY AcceptedIsSum, AcceptedGrows, FulfilmentAssumption DEF ThreeWay
<1>2. Complete(rs) => Complete(qs)
  BY <1>1 DEF Complete
<1>3. CASE new = <<>>
  <2>1. rs \o new = rs /\ qs \o new = qs
    BY <1>3
  <2> QED BY <1>2, <2>1
<1>4. CASE Len(new) = 1
  <2>1. new[1] \in Row /\ new = <<new[1]>>
    <3>1. DOMAIN new = {1} /\ new[1] \in Row
      BY <1>4, LenProperties, ElementOfSeq
    <3> QED BY <1>4, <3>1
  <2>2. \A l \in ThreeWay : /\ Accepted(l, rs \o new) = Accepted(l, rs) + Part(l, new[1])
                            /\ Accepted(l, qs \o new) = Accepted(l, qs) + Part(l, new[1])
                            /\ Part(l, new[1]) \in Nat
    BY <2>1, AcceptedOfOneMore, PartIsNat
  <2>3. \A l \in ThreeWay : Accepted(l, rs \o new) <= Accepted(l, qs \o new)
    BY <1>1, <2>2
  <2>4. \A l \in ThreeWay : /\ Accepted(l, rs \o new) \in Nat /\ Accepted(l, qs \o new) \in Nat
                            /\ Ordered[l] \in Nat
    BY <1>1, <2>2
  <2>5. Complete(rs \o new) => Complete(qs \o new)
    BY <2>3, <2>4 DEF Complete
  <2> QED BY <1>2, <2>5
<1>5. Len(new) = 0 => new = <<>>
  BY EmptySeq
<1>6. Len(new) \in {0, 1}
  <2> DEFINE size == Len(new)
  <2>1. size \in Nat /\ size <= 1
    BY LenProperties
  <2> HIDE DEF size
  <2>2. size \in {0, 1}
    BY <2>1
  <2> QED BY <2>2 DEF size
<1> QED BY <1>2, <1>3, <1>4, <1>5, <1>6

-----------------------------------------------------------------------------
(* What requests write *)
LEMMA MovingIsSound ==
  ASSUME TypeInv, NEW target \in States
  PROVE  Moving(target) \in Unit /\ Founded(Moving(target))
<1> DEFINE taken == {m \in DOMAIN receipts : target = "cancelled"
                                             /\ receipts[m].status \notin Ended}
<1>1. Moving(target).marks = [n \in taken |-> "cancelled"] /\ DOMAIN Moving(target).marks = taken
  BY DEF Moving, NoChange
<1>2. taken \in SUBSET Nat /\ \A n \in taken : receipts[n].status \in OpenStatuses
  BY ReceiptFacts DEF Statuses
<1>3. [n \in taken |-> "cancelled"] \in [taken -> Statuses]
  BY DEF Statuses, Ended
<1>4. Moving(target).marks \in Marks
  BY <1>1, <1>2, <1>3 DEF Marks
<1>5. /\ Moving(target).state \in States \cup {Kept}
      /\ Moving(target).change \in {"other", "auto_close", Kept}
      /\ Moving(target).new = <<>> /\ Moving(target).invoice = Kept
      /\ Moving(target).settles \in BOOLEAN
  BY DEF Moving, NoChange, Column
<1>6. Moving(target).new \in Seq(Row)
  BY <1>5
<1>7. Moving(target) \in Unit
  BY <1>4, <1>5, <1>6 DEF Unit, Moving, NoChange
<1>8. Moving(target).change # "auto_close"
  BY DEF Moving, NoChange, Kept
<1>9. Founded(Moving(target))
  BY <1>1, <1>2, <1>5, <1>8 DEF Founded, Fits
<1> QED BY <1>7, <1>9

LEMMA ReceivingIsSound ==
  ASSUME TypeInv, NEW content \in LineSets, NEW status \in {"draft", "received"},
         NEW quick \in BOOLEAN, DOMAIN content \cap OpenLines = {}
  PROVE  /\ Receiving(content, status, quick) \in Unit
         /\ Receiving(content, status, quick).marks = NoChange.marks
         /\ Founded(Receiving(content, status, quick))
<1> DEFINE write == Receiving(content, status, quick)
           receipt == [status |-> status, lines |-> content, approved |-> FALSE]
<1>1. receipt \in Row /\ receipt.status = status
  BY DEF Row, Statuses, OpenStatuses, Ended
<1>2. write.new = <<receipt>>
  BY DEF Receiving, NoChange
<1>3. /\ write.new \in Seq(Row) /\ Len(write.new) = 1
      /\ \A i \in DOMAIN write.new : write.new[i].status = status /\ write.new[i].lines = content
  BY <1>1, <1>2
<1>4. Progress(Append(receipts, receipt)) \in States \cup {Kept}
  BY StatesAreNames DEF Progress
<1>5. /\ write.state \in States \cup {Kept}
      /\ write.change \in {"other", "auto_close", Kept}
  BY <1>4, StatesAreNames DEF Receiving, NoChange, Column
<1>6. /\ write.marks = NoChange.marks /\ write.invoice = Kept
      /\ write.settles \in BOOLEAN
  BY DEF Receiving, NoChange
<1>7. write \in Unit
  <2>1. write = [NoChange EXCEPT !.new = write.new, !.state = write.state,
                                 !.change = write.change]
    BY DEF Receiving, NoChange
  <2> HIDE DEF write
  <2>2. write.new \in Seq(Row)
    BY <1>3
  <2> QED BY <1>5, <2>1, <2>2, NoChangeIsUnit DEF Unit
<1>8. write.change = "auto_close" => Complete(receipts \o write.new)
  <2>1. write.change = "auto_close" => Complete(Append(receipts, receipt))
    BY DEF Receiving, NoChange, Kept, Column
  <2>2. Append(receipts, receipt) = receipts \o <<receipt>>
    BY <1>1, AppendIsConcat DEF TypeInv
  <2> HIDE DEF write, receipt
  <2> QED BY <1>2, <2>1, <2>2
<1>9. Founded(write)
  <2> HIDE DEF write
  <2> QED BY <1>3, <1>6, <1>8, NoMarks DEF Founded, Fits
<1> QED BY <1>6, <1>7, <1>9

LEMMA MarkIsSound ==
  ASSUME TypeInv, NEW n \in DOMAIN receipts, NEW status \in Statuses,
         receipts[n].status \in OpenStatuses,
         status = "posted" => receipts[n].status = "approved"
  PROVE  Mark(n, status) \in Unit /\ Founded(Mark(n, status))
<1>1. n \in Nat
  BY ReceiptFacts
<1>2. [m \in {n} |-> status] \in [{n} -> Statuses] /\ {n} \in SUBSET Nat
  BY <1>1
<1>3. [m \in {n} |-> status] \in Marks
  BY <1>2 DEF Marks
<1>4. Mark(n, status).marks = [m \in {n} |-> status] /\ Mark(n, status).new = <<>>
  BY DEF Mark, NoChange
<1>5. Mark(n, status) \in Unit
  BY <1>3, NoChangeIsUnit DEF Unit, Mark
<1>6. DOMAIN Mark(n, status).marks = {n} /\ Mark(n, status).marks[n] = status
  BY <1>4
<1>7. DOMAIN Mark(n, status).new = {} /\ Len(Mark(n, status).new) = 0
      /\ Mark(n, status).change # "auto_close"
  BY <1>4 DEF Mark, NoChange, Kept
<1> QED BY <1>5, <1>6, <1>7 DEF Founded, Fits

LEMMA PostingIsSound ==
  ASSUME TypeInv, NEW n \in DOMAIN receipts, receipts[n].status \in {"approved", "posted"}
  PROVE  Posting(n) \in Unit /\ Founded(Posting(n))
<1> DEFINE S == {n} \cap OpenReceipts
           marks == [m \in S |-> "posted"]
           draft == Receiving(Nothing(Outstanding(ThreeWay)), "draft", FALSE)
           From(write) == [write EXCEPT !.marks = marks]
<1>1. n \in Nat
  BY ReceiptFacts
<1>2. marks \in [S -> Statuses] /\ S \in SUBSET Nat /\ DOMAIN marks = S
  BY <1>1 DEF Statuses, Ended
<1>3. marks \in Marks
  BY <1>2 DEF Marks
<1>4. \A m \in S : /\ m \in DOMAIN receipts
                   /\ receipts[m].status \in OpenStatuses
                   /\ receipts[m].status = "approved"
  BY DEF OpenReceipts, OpenStatuses
<1>5. ASSUME NEW write \in Unit, Founded(write)
      PROVE  From(write) \in Unit /\ Founded(From(write))
  <2>1. /\ From(write) \in Unit /\ From(write).marks = marks
        /\ From(write).new = write.new /\ From(write).change = write.change
    BY <1>3, <1>5 DEF Unit
  <2> QED BY <2>1, <1>2, <1>4, <1>5 DEF Founded, Fits
<1>6. AutoClosing \in Unit /\ (Complete(receipts) => Founded(AutoClosing))
  <2>1. AutoClosing.marks = NoChange.marks /\ AutoClosing.new = <<>>
    BY DEF AutoClosing, NoChange
  <2>2. AutoClosing \in Unit
    BY NoChangeIsUnit, StatesAreNames DEF AutoClosing, Unit, NoChange, Column
  <2>3. receipts \o AutoClosing.new = receipts
    BY <2>1 DEF TypeInv
  <2> QED BY <2>1, <2>2, <2>3, NoMarks DEF Founded, Fits
<1>7. CASE Complete(receipts)
  BY <1>5, <1>6, <1>7 DEF Posting
<1>8. CASE ~Complete(receipts) /\ BalanceDue
  <2>1. Outstanding(ThreeWay) \in (SUBSET Lines) \ {{}}
    BY <1>8 DEF BalanceDue, Outstanding, ThreeWay
  <2>2. OpenLines = {}
    BY <1>8 DEF BalanceDue, OpenLines
  <2>3. draft \in Unit /\ Founded(draft)
    BY <2>1, <2>2, NothingIsLineSet, ReceivingIsSound
  <2> QED BY <1>5, <1>8, <2>3 DEF Posting
<1>9. CASE ~Complete(receipts) /\ ~BalanceDue
  BY <1>5, <1>9, NoChangeIsUnit DEF Posting
<1> QED BY <1>7, <1>8, <1>9

LEMMA ContentsAreLineSets == Contents \subseteq LineSets
BY FulfilmentAssumption DEF LineSets

(* Whatever a request decides, it writes a unit of work founded on what it read *)
LEMMA OrderRequestBegins ==
  ASSUME TypeInv, NEW s \in Sessions, OrderRequest(s)
  PROVE  \E write \in Unit, next \in Stages :
           Founded(write) /\ Begins(s, write, next) /\ session[s].stage # "commit"
<1>1. ASSUME NEW st \in Stages, Ready(s, st)
      PROVE  requests' \in 0 .. MaxRequests /\ session[s].stage # "commit"
  BY <1>1, FulfilmentAssumption DEF Ready, Stages, TypeInv
<1>2. /\ "idle" \in Stages /\ "receive" \in Stages /\ "draft" \in Stages
      /\ "match" \in Stages
  BY DEF Stages
<1>3. ASSUME NEW target \in States, Transition(s, target)
      PROVE  \E write \in Unit, next \in Stages :
               Founded(write) /\ Begins(s, write, next) /\ session[s].stage # "commit"
  BY <1>1, <1>2, <1>3, MovingIsSound DEF Transition, Begins
<1>4. CASE AutoReceive(s)
  <2>1. CASE Work(s, NoChange, "draft")
    BY <1>1, <1>2, <1>4, <2>1, NoChangeIsUnit DEF AutoReceive, Begins
  <2>2. CASE Work(s, [NoChange EXCEPT !.state = Column(order.state, "fully_received")], "draft")
    <3> DEFINE write == [NoChange EXCEPT !.state = Column(order.state, "fully_received")]
    <3>1. /\ write.marks = NoChange.marks /\ write.new = NoChange.new
          /\ write \in Unit /\ write.change = NoChange.change
      BY NoChangeIsUnit, StatesAreNames DEF Unit, Column
    <3>2. Founded(write)
      BY <3>1, NoChangeIsUnit DEF Founded, Fits
    <3> QED BY <1>1, <1>2, <1>4, <2>2, <3>1, <3>2 DEF AutoReceive, Begins
  <2>3. CASE /\ Received # {} /\ receipts = <<>>
             /\ Work(s, Receiving(Everything(Received), "received", FALSE), "draft")
    <3>1. Received \in (SUBSET Lines) \ {{}}
      BY <2>3 DEF Received
    <3>2. Everything(Received) \in LineSets
      BY <3>1, NothingIsLineSet
    <3>3. /\ Receiving(Everything(Received), "received", FALSE) \in Unit
          /\ Founded(Receiving(Everything(Received), "received", FALSE))
      <4>1. OpenLines = {}
        BY <2>3 DEF OpenLines, OpenReceipts
      <4> QED BY <3>2, <4>1, ReceivingIsSound
    <3> QED BY <1>1, <1>2, <1>4, <2>3, <3>3 DEF AutoReceive, Begins
  <2> QED BY <1>4, <2>1, <2>2, <2>3 DEF AutoReceive
<1>5. CASE AutoDraft(s)
  <2> DEFINE due == Outstanding(Needed)
  <2>1. CASE Work(s, NoChange, "idle")
    BY <1>1, <1>2, <1>5, <2>1, NoChangeIsUnit DEF AutoDraft, Begins
  <2>2. CASE due # {} /\ OpenReceipts = {} /\ Work(s, Receiving(Nothing(due), "draft", FALSE), "idle")
    <3>1. due \in (SUBSET Lines) \ {{}}
      BY <2>2 DEF Outstanding, Needed
    <3>2. Nothing(due) \in LineSets
      BY <3>1, NothingIsLineSet
    <3>3. /\ Receiving(Nothing(due), "draft", FALSE) \in Unit
          /\ Founded(Receiving(Nothing(due), "draft", FALSE))
      <4>1. OpenLines = {}
        BY <2>2 DEF OpenLines
      <4> QED BY <3>2, <4>1, ReceivingIsSound
    <3> QED BY <1>1, <1>2, <1>5, <2>2, <3>3 DEF AutoDraft, Begins
  <2> QED BY <1>5, <2>1, <2>2 DEF AutoDraft
<1>6. ASSUME NEW write, NEW next \in Stages, NEW st \in Stages,
             Ready(s, st), Work(s, write, next), write \in Unit,
             write.marks = NoChange.marks, write.new = NoChange.new,
             write.change # "auto_close"
      PROVE  \E w \in Unit, n \in Stages :
               Founded(w) /\ Begins(s, w, n) /\ session[s].stage # "commit"
  <2>1. Founded(write)
    BY <1>6, NoChangeIsUnit DEF Founded, Fits
  <2> QED BY <1>1, <1>6, <2>1 DEF Begins
<1>7. CASE Amend(s)
  <2> DEFINE write == [NoChange EXCEPT !.change = "other"]
  <2>1. /\ write \in Unit /\ write.marks = NoChange.marks /\ write.new = NoChange.new
        /\ write.change # "auto_close"
    BY NoChangeIsUnit DEF Unit, NoChange, Kept
  <2>2. Ready(s, "idle") /\ Work(s, write, "idle")
    BY <1>7 DEF Amend
  <2> QED BY <1>2, <1>6, <2>1, <2>2
<1>8. CASE CreateInvoice(s)
  <2> DEFINE write == [NoChange EXCEPT !.state = Column(order.state, "invoiced"),
                                       !.invoice = "pending"]
  <2>1. /\ write \in Unit /\ write.marks = NoChange.marks /\ write.new = NoChange.new
        /\ write.change # "auto_close"
    BY NoChangeIsUnit, StatesAreNames DEF Unit, Column, NoChange, Kept
  <2>2. Ready(s, "idle") /\ Work(s, write, "match")
    BY <1>8 DEF CreateInvoice
  <2> QED BY <1>2, <1>6, <2>1, <2>2
<1>9. ASSUME NEW outcome \in {"matched", "exception"}, MatchInvoice(s, outcome)
      PROVE  \E write \in Unit, next \in Stages :
               Founded(write) /\ Begins(s, write, next) /\ session[s].stage # "commit"
  <2> DEFINE write == [NoChange EXCEPT !.invoice = outcome]
  <2>1. /\ write \in Unit /\ write.marks = NoChange.marks /\ write.new = NoChange.new
        /\ write.change # "auto_close"
    BY NoChangeIsUnit DEF Unit, NoChange, Kept
  <2>2. Ready(s, "match") /\ Work(s, write, "idle")
    BY <1>9 DEF MatchInvoice
  <2> QED BY <1>2, <1>6, <2>1, <2>2
<1> QED BY <1>3, <1>4, <1>5, <1>7, <1>8, <1>9 DEF OrderRequest

LEMMA ReceiptRequestBegins ==
  ASSUME TypeInv, NEW s \in Sessions, ReceiptRequest(s)
  PROVE  \E write \in Unit, next \in Stages :
           Founded(write) /\ Begins(s, write, next) /\ session[s].stage # "commit"
<1>1. ASSUME NEW write \in Unit, Founded(write), Ready(s, "idle"), Work(s, write, "idle")
      PROVE  \E w \in Unit, next \in Stages :
               Founded(w) /\ Begins(s, w, next) /\ session[s].stage # "commit"
  <2>1. requests' \in 0 .. MaxRequests /\ session[s].stage # "commit" /\ "idle" \in Stages
    BY <1>1, FulfilmentAssumption DEF Ready, Stages, TypeInv
  <2> QED BY <1>1, <2>1 DEF Begins
<1>2. ASSUME NEW content \in Contents, NEW status \in {"draft", "received"},
             CreateReceipt(s, content, status)
      PROVE  \E write \in Unit, next \in Stages :
               Founded(write) /\ Begins(s, write, next) /\ session[s].stage # "commit"
  <2>1. content \in LineSets
    BY ContentsAreLineSets
  <2>2. /\ Receiving(content, status, TRUE) \in Unit
        /\ Founded(Receiving(content, status, TRUE))
    BY <1>2, <2>1, ReceivingIsSound DEF CreateReceipt
  <2> QED BY <1>1, <1>2, <2>2 DEF CreateReceipt
<1>3. ASSUME NEW n \in DOMAIN receipts, NEW status \in Statuses \ {"posted"},
             receipts[n].status \in OpenStatuses, Ready(s, "idle"),
             Work(s, Mark(n, status), "idle")
      PROVE  \E write \in Unit, next \in Stages :
               Founded(write) /\ Begins(s, write, next) /\ session[s].stage # "commit"
  <2>1. Mark(n, status) \in Unit /\ Founded(Mark(n, status))
    BY <1>3, MarkIsSound
  <2> QED BY <1>1, <1>3, <2>1
<1>4. ASSUME NEW n \in DOMAIN receipts,
             SubmitReceipt(s, n) \/ ApproveReceipt(s, n) \/ RejectReceipt(s, n)
      PROVE  \E write \in Unit, next \in Stages :
               Founded(write) /\ Begins(s, write, next) /\ session[s].stage # "commit"
  <2>1. CASE SubmitReceipt(s, n)
    BY <1>3, <2>1 DEF SubmitReceipt, Statuses, OpenStatuses, Ended
  <2>2. CASE ApproveReceipt(s, n)
    BY <1>3, <2>2 DEF ApproveReceipt, Statuses, OpenStatuses, Ended
  <2>3. CASE RejectReceipt(s, n)
    BY <1>3, <2>3 DEF RejectReceipt, Statuses, OpenStatuses, Ended
  <2> QED BY <1>4, <2>1, <2>2, <2>3
<1>5. ASSUME NEW n \in DOMAIN receipts, PostReceipt(s, n)
      PROVE  \E write \in Unit, next \in Stages :
               Founded(write) /\ Begins(s, write, next) /\ session[s].stage # "commit"
  <2>1. Posting(n) \in Unit /\ Founded(Posting(n))
    BY <1>5, PostingIsSound DEF PostReceipt
  <2> QED BY <1>1, <1>5, <2>1 DEF PostReceipt
<1> QED BY <1>2, <1>4, <1>5 DEF ReceiptRequest

-----------------------------------------------------------------------------
(* What a step may do: a request begins, ends, or dies, or the invoice moves *)
LEMMA StepCases ==
  ASSUME TypeInv, Next,
         NEW Goal,
         \A s \in Sessions, write \in Unit, next \in Stages :
           Founded(write) /\ Begins(s, write, next) => Goal,
         \A s \in Sessions : Commit(s) => Goal,
         \A s \in Sessions : Abort(s) => Goal,
         Verify => Goal
  PROVE  Goal
BY OrderRequestBegins, ReceiptRequestBegins DEF Next

LEMMA CommittedReceipts ==
  ASSUME TypeInv, NEW s \in Sessions, Commit(s)
  PROVE  LET write == session[s].write
         IN /\ receipts' \in Seq(Row)
            /\ Len(receipts') = Len(receipts) + Len(write.new)
            /\ DOMAIN receipts \subseteq DOMAIN receipts'
            /\ \A n \in DOMAIN receipts :
                 receipts'[n] = IF n \in DOMAIN write.marks
                                THEN [receipts[n] EXCEPT !.status = write.marks[n],
                                        !.approved = @ \/ write.marks[n] = "approved"]
                                ELSE receipts[n]
            /\ \A n \in DOMAIN receipts' \ DOMAIN receipts :
                 \E i \in DOMAIN write.new :
                   i = n - Len(receipts) /\ receipts'[n] = write.new[i]
<1> DEFINE write == session[s].write
           Now(n) == IF n \in DOMAIN write.marks
                     THEN [receipts[n] EXCEPT !.status = write.marks[n],
                             !.approved = @ \/ write.marks[n] = "approved"]
                     ELSE receipts[n]
           old == [n \in DOMAIN receipts |-> Now(n)]
<1>1. receipts' = old \o write.new
  BY DEF Commit
<1>2. receipts \in Seq(Row) /\ write \in Unit
  BY DEF TypeInv
<1>3. write.new \in Seq(Row) /\ write.marks \in Marks
  BY <1>2 DEF Unit
<1>4. Len(receipts) \in Nat /\ DOMAIN receipts = 1 .. Len(receipts)
  BY <1>2, LenProperties
<1>5. \A n \in DOMAIN receipts : Now(n) \in Row
  <2>1. \A n \in DOMAIN write.marks : write.marks[n] \in Statuses
    BY <1>3 DEF Marks
  <2>2. \A n \in DOMAIN receipts : receipts[n] \in Row
    BY ReceiptFacts
  <2> QED BY <2>1, <2>2 DEF Row
<1>6. old \in Seq(Row) /\ Len(old) = Len(receipts)
  <2>1. old \in [1 .. Len(receipts) -> Row]
    BY <1>4, <1>5
  <2> HIDE DEF old
  <2> QED BY <1>4, <2>1
<1>7. \A n \in DOMAIN receipts : old[n] = Now(n)
  OBVIOUS
<1> HIDE DEF old, write
<1>8. /\ receipts' \in Seq(Row)
      /\ Len(receipts') = Len(old) + Len(write.new)
      /\ \A i \in 1 .. Len(old) + Len(write.new) :
           receipts'[i] = IF i <= Len(old) THEN old[i] ELSE write.new[i - Len(old)]
  BY <1>1, <1>3, <1>6, ConcatProperties
<1>9. /\ DOMAIN receipts' = 1 .. Len(receipts) + Len(write.new)
      /\ Len(write.new) \in Nat /\ DOMAIN write.new = 1 .. Len(write.new)
  BY <1>3, <1>6, <1>8, LenProperties
<1>10. \A n \in DOMAIN receipts : n \in DOMAIN receipts' /\ receipts'[n] = old[n]
  BY <1>4, <1>6, <1>8, <1>9
<1>11. ASSUME NEW n \in DOMAIN receipts' \ DOMAIN receipts
       PROVE  \E i \in DOMAIN write.new :
                i = n - Len(receipts) /\ receipts'[n] = write.new[i]
  <2>1. n - Len(receipts) \in DOMAIN write.new
    BY <1>4, <1>9
  <2>2. receipts'[n] = write.new[n - Len(receipts)]
    BY <1>4, <1>6, <1>8, <1>9
  <2> QED BY <2>1, <2>2
<1> QED BY <1>6, <1>7, <1>8, <1>10, <1>11 DEF write

-----------------------------------------------------------------------------
(* The inductive invariant, one part at a time *)
LEMMA InitHolds == Init => IInv
<1> SUFFICES ASSUME Init PROVE IInv
  OBVIOUS
<1>1. TypeInv
  <2>1. session \in [Sessions -> [stage : Stages \cup {"commit"}, write : Unit, next : Stages]]
    BY IdleIsIdle DEF Init
  <2>2. order \in [state : States, change : {"other", "auto_close"}]
    BY StatesAreNames DEF Init
  <2>3. receipts \in Seq(Row) /\ requests \in 0 .. MaxRequests
    BY FulfilmentAssumption DEF Init
  <2> QED BY <2>1, <2>2, <2>3 DEF Init, TypeInv
<1>2. Stamped
  BY DEF Init, Stamped
<1>3. \A s \in Sessions : session[s] = Idle
  BY DEF Init
<1>4. DOMAIN NoChange.marks = {} /\ DOMAIN NoChange.new = {} /\ Len(NoChange.new) = 0
  BY NoMarks DEF NoChange
<1>5. WillBeStamped /\ OneOpenPerLine
  BY <1>3, <1>4, IdleIsIdle DEF Init, WillBeStamped, OneOpenPerLine, OpenReceipts
<1>6. Serial
  BY <1>3, <1>4, <1>5, IdleIsIdle DEF Serial, Fits
<1>7. ClosesWhenComplete
  <2>1. NoChange.change # "auto_close" /\ order.change = "other"
    BY DEF Init, NoChange, Kept
  <2> QED BY <1>3, <1>4, <2>1, IdleIsIdle DEF ClosesWhenComplete
<1> QED BY <1>1, <1>2, <1>5, <1>6, <1>7 DEF IInv

LEMMA BeginsKeeps ==
  ASSUME IInv, NEW s \in Sessions, NEW write \in Unit, NEW next \in Stages,
         Founded(write), Begins(s, write, next)
  PROVE  IInv'
<1>1. /\ UNCHANGED <<policy, order, requisition, receipts, invoice>>
      /\ session' = [session EXCEPT ![s] = [stage |-> "commit", write |-> write, next |-> next]]
      /\ overlapped' = (overlapped \/ \E t \in Sessions \ {s} : session[t] # Idle)
      /\ requests' \in 0 .. MaxRequests
  BY DEF Begins, Work
<1>2. TypeInv'
  BY <1>1 DEF IInv, TypeInv
<1>3. Stamped'
  BY <1>1 DEF IInv, Stamped
<1>4. \A t \in Sessions : session'[t].write = IF t = s THEN write ELSE session[t].write
  BY <1>1 DEF IInv, TypeInv
<1>5. WillBeStamped'
  BY <1>1, <1>4 DEF IInv, Stamped, WillBeStamped, Founded
<1>6. Serial'
  <2> SUFFICES ASSUME ~overlapped' PROVE Serial'
    BY DEF Serial
  <2>1. \A t \in Sessions \ {s} : session[t] = Idle /\ session'[t] = Idle
    BY <1>1 DEF IInv, TypeInv
  <2>2. ~overlapped
    BY <1>1
  <2>3. OneOpenPerLine'
    BY <1>1, <2>2 DEF IInv, Serial, OneOpenPerLine, OpenReceipts
  <2>4. \A t \in Sessions : Fits(session[t].write)'
    BY <1>1, <1>4, <2>2 DEF IInv, Serial, Founded, Fits, OpenLines, OpenReceipts
  <2> QED BY <1>1, <1>4, <2>1, <2>2, <2>3, <2>4 DEF IInv, Serial, Founded
<1>7. ClosesWhenComplete'
  BY <1>1, <1>4 DEF IInv, ClosesWhenComplete, Complete, ThreeWay, Founded, Fits
<1> QED BY <1>2, <1>3, <1>5, <1>6, <1>7 DEF IInv

LEMMA CommitKeeps ==
  ASSUME IInv, NEW s \in Sessions, Commit(s)
  PROVE  IInv'
<1> DEFINE write == session[s].write
           after == [Idle EXCEPT !.stage = session[s].next]
<1>1. /\ session' = [session EXCEPT ![s] = after]
      /\ UNCHANGED <<policy, overlapped, requests>>
      /\ session[s].stage = "commit"
  BY DEF Commit
<1>2. /\ session[s] \in [stage : Stages \cup {"commit"}, write : Unit, next : Stages]
      /\ write \in Unit
  BY DEF IInv, TypeInv
<1>3. /\ after \in [stage : Stages \cup {"commit"}, write : Unit, next : Stages]
      /\ after.write = NoChange
  BY <1>2, IdleIsIdle
<1>4. DOMAIN NoChange.marks = {} /\ DOMAIN NoChange.new = {} /\ Len(NoChange.new) = 0
  BY NoMarks DEF NoChange
<1>5. \A t \in Sessions : session'[t] = IF t = s THEN after ELSE session[t]
  BY <1>1 DEF IInv, TypeInv
<1>6. TypeInv'
  <2>1. session' \in [Sessions -> [stage : Stages \cup {"commit"}, write : Unit, next : Stages]]
    BY <1>1, <1>3 DEF IInv, TypeInv
  <2>2. receipts' \in Seq(Row)
    BY CommittedReceipts DEF IInv
  <2>3. order' \in [state : States, change : {"other", "auto_close"}]
    BY <1>2 DEF Commit, IInv, TypeInv, Unit, Written
  <2>4. /\ requisition' \in {"po_created", "cancelled"}
        /\ invoice' \in {"none", "pending", "exception", "matched"}
    BY <1>2 DEF Commit, IInv, TypeInv, Unit, Written
  <2> QED BY <1>1, <2>1, <2>2, <2>3, <2>4 DEF IInv, TypeInv
<1>7. /\ Len(receipts') = Len(receipts) + Len(write.new)
      /\ DOMAIN receipts \subseteq DOMAIN receipts'
      /\ \A n \in DOMAIN receipts :
           receipts'[n] = IF n \in DOMAIN write.marks
                          THEN [receipts[n] EXCEPT !.status = write.marks[n],
                                  !.approved = @ \/ write.marks[n] = "approved"]
                          ELSE receipts[n]
      /\ \A n \in DOMAIN receipts' \ DOMAIN receipts :
           \E i \in DOMAIN write.new :
             i = n - Len(receipts) /\ receipts'[n] = write.new[i]
  BY CommittedReceipts DEF IInv
<1>8. \A n \in DOMAIN receipts : receipts[n] \in Row
  BY ReceiptFacts DEF IInv
<1> HIDE DEF write, after
<1>9. ASSUME NEW n \in DOMAIN receipts
      PROVE  /\ receipts[n].approved => receipts'[n].approved
             /\ receipts'[n].status = IF n \in DOMAIN write.marks THEN write.marks[n]
                                       ELSE receipts[n].status
             /\ n \in DOMAIN write.marks /\ write.marks[n] = "approved"
                  => receipts'[n].approved
  BY <1>7, <1>8 DEF Row
<1>10. Stamped'
  <2> SUFFICES ASSUME NEW n \in DOMAIN receipts', receipts'[n].status \in {"approved", "posted"}
               PROVE  receipts'[n].approved
    BY DEF Stamped
  <2>1. CASE n \notin DOMAIN receipts
    BY <1>7, <2>1 DEF IInv, WillBeStamped, write
  <2>2. CASE n \in DOMAIN receipts /\ n \notin DOMAIN write.marks
    BY <1>9, <2>2 DEF IInv, Stamped
  <2>3. CASE n \in DOMAIN receipts /\ n \in DOMAIN write.marks
    <3>1. write.marks[n] = "posted" => receipts[n].approved
      BY <2>3 DEF IInv, WillBeStamped, write
    <3> QED BY <1>9, <2>3, <3>1
  <2> QED BY <2>1, <2>2, <2>3
<1>11. WillBeStamped'
  <2>1. ASSUME NEW t \in Sessions, t # s
        PROVE  \A n \in DOMAIN session[t].write.marks :
                 /\ n \in DOMAIN receipts'
                 /\ session[t].write.marks[n] = "posted" => receipts'[n].approved
    BY <1>7, <1>9 DEF IInv, WillBeStamped
  <2> QED BY <1>3, <1>4, <1>5, <2>1 DEF IInv, WillBeStamped
<1>12. Serial'
  <2> SUFFICES ASSUME ~overlapped' PROVE Serial'
    BY DEF Serial
  <2>1. session[s] # Idle
    BY <1>1, IdleIsIdle
  <2>2. \A t \in Sessions \ {s} : session[t] = Idle
    BY <1>1, <2>1 DEF IInv, Serial
  <2>3. Serial /\ Fits(write)
    BY <1>1 DEF IInv, Serial, write
  <2>4. ASSUME NEW n \in DOMAIN receipts, n \in OpenReceipts'
        PROVE  n \in OpenReceipts /\ receipts'[n].lines = receipts[n].lines
    <3>1. receipts'[n].lines = receipts[n].lines
      BY <1>7, <1>8 DEF Row
    <3>2. n \in OpenReceipts
      BY <1>1, <1>9, <2>3, <2>4 DEF OpenReceipts, Serial, write
    <3> QED BY <3>1, <3>2
  <2>5. ASSUME NEW m \in OpenReceipts', NEW n \in OpenReceipts', m # n, m \in DOMAIN receipts
        PROVE  DOMAIN receipts'[m].lines \cap DOMAIN receipts'[n].lines = {}
    <3>1. m \in OpenReceipts /\ receipts'[m].lines = receipts[m].lines
      BY <2>4, <2>5
    <3>2. CASE n \in DOMAIN receipts
      BY <1>1, <2>3, <2>4, <2>5, <3>1, <3>2 DEF Serial, OneOpenPerLine
    <3>3. CASE n \notin DOMAIN receipts
      <4>1. PICK i \in DOMAIN write.new : receipts'[n] = write.new[i]
        BY <1>7, <3>3 DEF OpenReceipts
      <4>2. DOMAIN receipts[m].lines \subseteq OpenLines
        BY <3>1 DEF OpenLines
      <4> QED BY <2>3, <3>1, <4>1, <4>2 DEF Fits
    <3> QED BY <3>2, <3>3
  <2>6. ASSUME NEW m \in DOMAIN receipts' \ DOMAIN receipts, NEW n \in DOMAIN receipts' \ DOMAIN receipts
        PROVE  m = n
    <3>1. /\ DOMAIN receipts = 1 .. Len(receipts) /\ Len(receipts) \in Nat
          /\ DOMAIN receipts' = 1 .. Len(receipts')
      BY <1>6, LenProperties DEF IInv, TypeInv
    <3>2. Len(write.new) \in Nat /\ Len(write.new) <= 1
      BY <1>2, <2>3, LenProperties DEF Fits, Unit, write
    <3>3. Len(receipts') = Len(receipts) + Len(write.new)
      BY <1>7
    <3> DEFINE before == Len(receipts)
               added  == Len(write.new)
    <3>4. m \in 1 .. before + added /\ m \notin 1 .. before
      BY <2>6, <3>1, <3>3
    <3>5. n \in 1 .. before + added /\ n \notin 1 .. before
      BY <2>6, <3>1, <3>3
    <3>6. before \in Nat /\ added \in Nat /\ added <= 1
      BY <3>1, <3>2
    <3> HIDE DEF before, added
    <3> QED BY <3>4, <3>5, <3>6
  <2>7. OneOpenPerLine'
    BY <2>5, <2>6 DEF OneOpenPerLine, OpenReceipts
  <2>8. Fits(NoChange)' /\ NoChange' = NoChange
    BY <1>4 DEF Fits, NoChange
  <2>9. \A t \in Sessions : session'[t].write = NoChange
    BY <1>3, <1>5, <2>2, IdleIsIdle
  <2>10. \A t \in Sessions : Fits(session[t].write)'
    BY <1>4, <2>9 DEF Fits
  <2> QED BY <1>3, <1>4, <1>5, <2>2, <2>7, <2>10, IdleIsIdle DEF Serial
<1>13. ClosesWhenComplete'
  <2>1. \A rs : Complete(rs)' <=> Complete(rs)
    BY <1>1 DEF Complete, ThreeWay
  <2>2. write.new \in Seq(Row) /\ Len(write.new) <= 1
    BY <1>2 DEF IInv, ClosesWhenComplete, Unit, write
  <2>3. receipts \in Seq(Row) /\ receipts' \in Seq(Row)
    BY CommittedReceipts DEF IInv, TypeInv
  <2>4. \A n \in DOMAIN receipts : receipts'[n].lines = receipts[n].lines
    BY <1>7, <1>8 DEF Row
  <2>5. Complete(receipts) => Complete(receipts')
    BY <1>7, <2>2, <2>3, <2>4, CompleteStays DEF IInv
  <2>6. Complete(receipts \o write.new) => Complete(receipts')
    <3> DEFINE all == receipts \o write.new
    <3>1. all \in Seq(Row) /\ Len(all) = Len(receipts) + Len(write.new)
      BY <2>2, <2>3
    <3>2. DOMAIN all = DOMAIN receipts'
      BY <1>7, <2>3, <3>1, LenProperties
    <3>3. \A n \in DOMAIN all : receipts'[n].lines = all[n].lines
      <4>1. \A n \in DOMAIN receipts : all[n] = receipts[n]
        BY <2>2, <2>3
      <4>2. \A n \in DOMAIN all \ DOMAIN receipts : all[n] = write.new[n - Len(receipts)]
        BY <2>2, <2>3
      <4> HIDE DEF all
      <4> QED
        <5> SUFFICES ASSUME NEW n \in DOMAIN all PROVE receipts'[n].lines = all[n].lines
          OBVIOUS
        <5>1. CASE n \in DOMAIN receipts
          BY <2>4, <4>1, <5>1
        <5>2. CASE n \notin DOMAIN receipts
          <6>1. receipts'[n] = write.new[n - Len(receipts)]
            BY <1>7, <3>2, <5>2
          <6> QED BY <4>2, <5>2, <6>1
        <5> QED BY <5>1, <5>2
    <3> HIDE DEF all
    <3>4. Complete(all) => Complete(receipts')
      BY <2>2, <2>3, <3>1, <3>2, <3>3, CompleteStays DEF IInv
    <3> QED BY <3>4 DEF all
  <2>7. order'.change = "auto_close" => Complete(receipts')
    <3>1. order'.change = IF write.change = Kept THEN order.change ELSE write.change
      BY DEF Commit, Written, write
    <3> QED BY <2>5, <2>6, <3>1 DEF IInv, ClosesWhenComplete, write
  <2>8. ASSUME NEW t \in Sessions, t # s
        PROVE  session[t].write.change = "auto_close" => Complete(receipts' \o session[t].write.new)
    <3>1. session[t].write.new \in Seq(Row) /\ Len(session[t].write.new) <= 1
      BY DEF IInv, TypeInv, Unit, ClosesWhenComplete
    <3>2. Complete(receipts \o session[t].write.new) => Complete(receipts' \o session[t].write.new)
      BY <1>7, <2>3, <2>4, <3>1, CompleteStays DEF IInv
    <3> QED BY <3>2 DEF IInv, ClosesWhenComplete
  <2>9. NoChange.change # "auto_close"
    BY DEF NoChange, Kept
  <2>10. \A t \in Sessions : /\ Len(session'[t].write.new) <= 1
                             /\ session'[t].write.change = "auto_close"
                                  => Complete(receipts' \o session'[t].write.new)
    BY <1>3, <1>4, <1>5, <2>8, <2>9 DEF IInv, ClosesWhenComplete
  <2> QED BY <2>1, <2>7, <2>10 DEF ClosesWhenComplete
<1> QED BY <1>6, <1>10, <1>11, <1>12, <1>13 DEF IInv

LEMMA AbortKeeps ==
  ASSUME IInv, NEW s \in Sessions, Abort(s)
  PROVE  IInv'
<1>1. /\ session' = [session EXCEPT ![s] = Idle]
      /\ UNCHANGED <<policy, order, requisition, receipts, invoice, overlapped, requests>>
  BY DEF Abort
<1>2. \A t \in Sessions : session'[t] = IF t = s THEN Idle ELSE session[t]
  BY <1>1 DEF IInv, TypeInv
<1>3. DOMAIN NoChange.marks = {} /\ DOMAIN NoChange.new = {} /\ Len(NoChange.new) = 0
  BY NoMarks DEF NoChange
<1>4. TypeInv'
  BY <1>1, IdleIsIdle DEF IInv, TypeInv
<1>5. Stamped' /\ WillBeStamped'
  BY <1>1, <1>2, <1>3, IdleIsIdle DEF IInv, Stamped, WillBeStamped
<1>6. Serial'
  <2>1. ~overlapped => OneOpenPerLine' /\ \A t \in Sessions : Fits(session[t].write)'
    BY <1>1, <1>2, <1>3, IdleIsIdle DEF IInv, Serial, OneOpenPerLine, OpenReceipts, Fits, OpenLines
  <2> QED BY <1>1, <1>2, <1>3, <2>1, IdleIsIdle DEF IInv, Serial
<1>7. ClosesWhenComplete'
  <2>1. NoChange.change # "auto_close"
    BY DEF NoChange, Kept
  <2> QED BY <1>1, <1>2, <1>3, <2>1, IdleIsIdle
          DEF IInv, ClosesWhenComplete, Complete, ThreeWay
<1> QED BY <1>4, <1>5, <1>6, <1>7 DEF IInv

LEMMA NextKeeps == IInv /\ [Next]_vars => IInv'
<1> SUFFICES ASSUME IInv, [Next]_vars PROVE IInv'
  OBVIOUS
<1> USE DEF IInv
<1>1. CASE UNCHANGED vars
  BY <1>1 DEF vars, TypeInv, Stamped, WillBeStamped, Serial, Fits, OneOpenPerLine, OpenLines,
     OpenReceipts, ClosesWhenComplete, Complete, ThreeWay
<1>2. CASE Verify
  BY <1>2 DEF Verify, TypeInv, Stamped, WillBeStamped, Serial, Fits, OneOpenPerLine, OpenLines,
     OpenReceipts, ClosesWhenComplete, Complete, ThreeWay
<1>3. CASE Next
  BY <1>2, <1>3, StepCases, BeginsKeeps, CommitKeeps, AbortKeeps
<1> QED BY <1>1, <1>3

LEMMA Invariant == Spec => []IInv
BY InitHolds, NextKeeps, PTL DEF Spec

-----------------------------------------------------------------------------
(* Every variable stays in its domain, and what requests are about to write *)
(* fits the columns it is for.                                              *)
THEOREM TypeCorrect == Spec => []TypeOK
<1>1. IInv => TypeOK
  BY TypeInvIsTypeOK DEF IInv
<1> QED BY <1>1, Invariant, PTL

(* No receipt is posted that somebody did not approve, whatever requests      *)
(* overlap: who is about to post saw an approved receipt, and an approval is   *)
(* never taken back (post_goods_receipt, approve_goods_receipt).               *)
THEOREM ApprovedBeforePosted == Spec => []PostedWasApproved
<1>1. IInv => PostedWasApproved
  BY DEF IInv, Stamped, PostedWasApproved
<1> QED BY <1>1, Invariant, PTL

(* While requests do not overlap a line has one open receipt at most: the     *)
(* endpoint, the automatic draft and the receipt for a balance each look at    *)
(* what is open before they make one (create_goods_receipt,                   *)
(* auto_create_draft_receipt_for_po, post_goods_receipt).                      *)
THEOREM OneOpenReceiptPerLine == Spec => []OneOpenPerLine
<1>1. IInv => OneOpenPerLine
  BY DEF IInv, Serial, OneOpenPerLine
<1> QED BY <1>1, Invariant, PTL

(* An order that the system closed by itself has, and keeps, all its three-way *)
(* goods, whatever requests overlap: who closes it saw them accepted, its own  *)
(* receipt included, and receipts are added and never taken back              *)
(* (maybe_auto_close_po, create_goods_receipt, post_goods_receipt).           *)
THEOREM AutoCloseWasReceived == Spec => []AutoCloseMeansReceived
<1>1. IInv => AutoCloseMeansReceived
  BY DEF IInv, ClosesWhenComplete, Complete, AutoCloseMeansReceived
<1> QED BY <1>1, Invariant, PTL

(* A receipt that has ended stays as it is while requests do not overlap      *)
(* (transition_purchase_order_lifecycle, the receipt transitions).             *)
THEOREM EndedReceiptsStay == Spec => EndedStays
<1>1. ASSUME IInv, [Next]_vars, ~overlapped, NEW n \in DOMAIN receipts,
             receipts[n].status \in Ended
      PROVE  receipts'[n].status = receipts[n].status
  <2>1. CASE receipts' = receipts
    BY <2>1
  <2>2. ASSUME NEW s \in Sessions, Commit(s) PROVE receipts'[n].status = receipts[n].status
    <3>1. n \notin DOMAIN session[s].write.marks
      BY <1>1 DEF IInv, Serial, OpenStatuses, Ended
    <3> QED BY <1>1, <2>2, <3>1, CommittedReceipts DEF IInv
  <2>3. CASE Next
    <3>1. \A s \in Sessions, write \in Unit, next \in Stages :
            Begins(s, write, next) => receipts' = receipts
      BY DEF Begins, Work
    <3>2. \A s \in Sessions : Abort(s) => receipts' = receipts
      BY DEF Abort
    <3>3. Verify => receipts' = receipts
      BY DEF Verify
    <3> QED BY <1>1, <2>1, <2>2, <2>3, <3>1, <3>2, <3>3, StepCases DEF IInv
  <2> QED BY <1>1, <2>1, <2>3 DEF vars
<1>2. IInv /\ [Next]_vars =>
        [~overlapped => \A n \in DOMAIN receipts :
           receipts[n].status \in Ended => receipts'[n].status = receipts[n].status]_vars
  BY <1>1
<1> QED BY <1>2, Invariant, PTL DEF Spec, EndedStays

-----------------------------------------------------------------------------
(***************************************************************************)
(* OrderChanges: what was approved again is what the orders hold, for any   *)
(* items, quantities, requests and orders of their commits.                 *)
(***************************************************************************)

(***************************************************************************)
(* What is settled, as a fact of any orders and any demand                  *)
(***************************************************************************)
Agrees(line, want) ==
  line.item \in DOMAIN want => line.quantity = want[line.item].quantity /\ line.price = want[line.item].price

(* No order after the n-th holds item i. *)
NewestOf(n, i, os) ==
  \A m \in DOMAIN os : m > n => \A l \in DOMAIN os[m].lines : os[m].lines[l].item # i

SettledBy(os, want) ==
  \A n \in DOMAIN os : \A k \in DOMAIN os[n].lines :
    NewestOf(n, os[n].lines[k].item, os) => Agrees(os[n].lines[k], want)

(* What an amendment or a split under way will write is what is wanted now. *)
Carries(d, os, want) ==
  \A k \in DOMAIN os[d.order].lines :
    os[d.order].lines[k].item \in DOMAIN want =>
      /\ <<k, "quantity">> \in DOMAIN d.new =>
           d.new[<<k, "quantity">>] = want[os[d.order].lines[k].item].quantity
      /\ <<k, "price">> \in DOMAIN d.new =>
           d.new[<<k, "price">>] = want[os[d.order].lines[k].item].price
SplitCarries(d, want) == \A k \in DOMAIN d.lines : Agrees(d.lines[k], want)

(* It leaves out nothing that differs. *)
Completes(d, os, want) ==
  \A k \in DOMAIN os[d.order].lines :
    os[d.order].lines[k].item \in DOMAIN want =>
      /\ <<k, "quantity">> \notin DOMAIN d.new =>
           os[d.order].lines[k].quantity = want[os[d.order].lines[k].item].quantity
      /\ <<k, "price">> \notin DOMAIN d.new =>
           os[d.order].lines[k].price = want[os[d.order].lines[k].item].price
SplitCompletes(d, os, want) ==
  \A k \in DOMAIN os[d.order].lines :
    IF k \in DOMAIN d.lines THEN d.lines[k].item = os[d.order].lines[k].item
    ELSE Agrees(os[d.order].lines[k], want)

(***************************************************************************)
(* The invariant                                                            *)
(***************************************************************************)
AmendmentOK(d, os) ==
  /\ d.order \in DOMAIN os /\ d.version \in Nat /\ d.terms \in Terms
  /\ \A at \in DOMAIN d.new : d.new[at] \in IF at[2] = "quantity" THEN LineQuantities ELSE Prices
SplitOK(d, os) ==
  /\ d.order \in DOMAIN os /\ d.vendor \in Vendors /\ d.terms \in Terms
  /\ IsFiniteSet(DOMAIN d.lines) /\ \A k \in DOMAIN d.lines : d.lines[k] \in OrderLines
EditOK(d) ==
  /\ d.item \in Items /\ d.version \in Nat
  /\ \/ d.field = "quantity" /\ d.value \in LineQuantities
     \/ d.field = "price" /\ d.value \in Prices

DeskOK(d, os) ==
  /\ d.step \in {"idle", "edit", "order", "compare", "amend", "split", "note"}
  /\ d.step = "idle" => d = Nobody
  /\ d.step = "edit" => EditOK(d)
  /\ d.step = "compare" => os # << >>
  /\ d.step = "amend" => AmendmentOK(d, os)
  /\ d.step = "split" => SplitOK(d, os)
  /\ d.step = "note" => d.order \in DOMAIN os
DesksOK == DOMAIN desk = Requesters /\ \A e \in Requesters : DeskOK(desk[e], orders)

(* Who was not disturbed is alone. *)
AloneAtWork ==
  \A e \in undisturbed : desk[e] # Nobody => \A x \in Requesters \ {e} : desk[x] = Nobody

(* Whoever is undisturbed is about to settle all that differs, on the only order. *)
AboutToSettle(d, os, want) ==
  /\ d.step = "compare" => Len(os) = 1
  /\ d.step = "amend" => Len(os) = 1 /\ Carries(d, os, want) /\ Completes(d, os, want)
  /\ d.step = "split" => Len(os) = 1 /\ SplitCarries(d, want) /\ SplitCompletes(d, os, want)
  /\ d.step = "note" => SettledBy(os, want)
WillSettle == \A e \in undisturbed : AboutToSettle(desk[e], orders, demand)

(* Once settled, whoever writes later writes what is wanted. *)
WritesWanted(d, os, want) ==
  /\ d.step = "amend" => Carries(d, os, want)
  /\ d.step = "split" => SplitCarries(d, want)
StaysSettled ==
  agreed => SettledBy(orders, demand) /\ \A e \in Requesters : WritesWanted(desk[e], orders, demand)

(* The documents' part of the types. *)
DocumentsOK ==
  /\ DOMAIN demand \subseteq Items
  /\ demand \in [DOMAIN demand -> [quantity : LineQuantities, price : Prices]]
  /\ header \in [vendor : Vendors, terms : Terms]
  /\ stage \in ReqStages /\ inApproval \in BOOLEAN /\ version \in Nat /\ agreed \in BOOLEAN
  /\ orders \in Seq(OrderRows) /\ Len(orders) <= MaxOrders

ChangesTypes == ChangesTypeOK /\ DesksOK
ChangesInv == ChangesTypes /\ AloneAtWork /\ WillSettle /\ StaysSettled

LEMMA SettledIsReapproval == ChangesTypeOK /\ StaysSettled => ReapprovalSettles
<1> SUFFICES ASSUME ChangesTypeOK, agreed, SettledBy(orders, demand),
                    NEW i \in DOMAIN demand, NEW at \in Places(i),
                    \A other \in Places(i) : other[1] <= at[1]
             PROVE  \A f \in LineFields : LineAt(at)[f] = demand[i][f]
  BY DEF ReapprovalSettles, StaysSettled
<1>1. \A n \in DOMAIN orders : \A k \in DOMAIN orders[n].lines :
        orders[n].lines[k].item = i => <<n, k>> \in Places(i)
  BY DEF Places
<1>2. PICK n \in DOMAIN orders : \E k \in DOMAIN orders[n].lines : at = <<n, k>> /\ orders[n].lines[k].item = i
  BY DEF Places
<1>20. PICK k \in DOMAIN orders[n].lines : at = <<n, k>> /\ orders[n].lines[k].item = i
  BY <1>2
<1>3. DOMAIN orders \subseteq Nat
  BY DEF ChangesTypeOK
<1>4. NewestOf(n, i, orders)
  <2> SUFFICES ASSUME NEW m \in DOMAIN orders, m > n, NEW l \in DOMAIN orders[m].lines, orders[m].lines[l].item = i
               PROVE  FALSE
    BY DEF NewestOf
  <2>1. <<m, l>> \in Places(i)
    BY <1>1
  <2>2. <<m, l>>[1] <= <<n, k>>[1]
    BY <1>20, <2>1
  <2> QED BY <1>3, <2>2
<1>5. Agrees(orders[n].lines[k], demand)
  BY <1>20, <1>4 DEF SettledBy
<1>6. LineAt(at) = orders[n].lines[k]
  BY <1>20 DEF LineAt
<1> QED BY <1>20, <1>5, <1>6 DEF Agrees, LineFields

LEMMA ChangesInvInit == ChangesInit => ChangesInv
<1> SUFFICES ASSUME ChangesInit PROVE ChangesInv
  OBVIOUS
<1> USE DEF ChangesInit
<1>1. \A e \in Requesters : desk[e] = Nobody /\ desk[e].step = "idle"
  BY DEF Nobody
<1>2. ChangesTypeOK
  <2>1. orders \in Seq(OrderRows) /\ Len(orders) <= MaxOrders
    BY ChangesAssumption
  <2>2. changeCalls \in 0 .. MaxChangeCalls
    BY ChangesAssumption
  <2> QED BY <1>1, <2>1, <2>2 DEF ChangesTypeOK, ReqStages, Reopened
<1> QED BY <1>1, <1>2 DEF ChangesInv, ChangesTypes, DesksOK, DeskOK, AloneAtWork, WillSettle, AboutToSettle,
                         StaysSettled

(***************************************************************************)
(* What a step does to the desks                                            *)
(***************************************************************************)
(* Whoever opens a request disturbs who is at work; only it may be undisturbed then. *)
LEMMA OpensDisturbs ==
  ASSUME ChangesInv, NEW e \in Requesters, Opens(e),
         desk' = desk \/ (\E d : desk' = [desk EXCEPT ![e] = d])
  PROVE  /\ AloneAtWork' /\ undisturbed' \subseteq Requesters /\ changeCalls' \in 0 .. MaxChangeCalls
         /\ \A x \in undisturbed' : x # e => desk'[x] = Nobody
         /\ desk[e] = Nobody /\ \A x \in Requesters \ {e} : desk'[x] = desk[x]
         /\ desk' # desk \/ e \notin undisturbed' \/ desk'[e] = Nobody
<1>0. undisturbed \subseteq Requesters /\ DOMAIN desk = Requesters /\ changeCalls \in 0 .. MaxChangeCalls
  BY DEF ChangesInv, ChangesTypes, ChangesTypeOK, DesksOK
<1>1. /\ desk[e] = Nobody /\ changeCalls < MaxChangeCalls /\ changeCalls' = changeCalls + 1
      /\ undisturbed' = (IF Busy = {} THEN undisturbed \cup {e} ELSE undisturbed \ (Busy \cup {e}))
  BY DEF Opens
<1>2. \A x \in Requesters : x \in Busy <=> desk[x] # Nobody
  BY DEF Busy
<1>3. \A x \in Requesters \ {e} : desk'[x] = desk[x]
  BY <1>0
<1>4. changeCalls' \in 0 .. MaxChangeCalls
  BY <1>0, <1>1, ChangesAssumption
<1>5. undisturbed' \subseteq Requesters
  BY <1>0, <1>1
<1>6. \A x \in undisturbed' : x # e => desk'[x] = Nobody
  BY <1>0, <1>1, <1>2, <1>3
<1>7. AloneAtWork'
  <2> SUFFICES ASSUME NEW x \in undisturbed', desk'[x] # Nobody, NEW y \in Requesters \ {x}
               PROVE  desk'[y] = Nobody
    BY DEF AloneAtWork
  <2>1. x = e
    BY <1>6
  <2>2. Busy = {}
    BY <1>1, <2>1
  <2> QED BY <1>2, <1>3, <2>1, <2>2
<1> QED BY <1>1, <1>3, <1>4, <1>5, <1>6, <1>7

(* A request goes on: who is at work beside it is not undisturbed. *)
LEMMA GoesOnAlone ==
  ASSUME ChangesInv, NEW e \in Requesters, desk[e] # Nobody, NEW d, desk' = [desk EXCEPT ![e] = d],
         UNCHANGED undisturbed
  PROVE  /\ AloneAtWork' /\ desk'[e] = d /\ DOMAIN desk' = Requesters
         /\ \A x \in Requesters \ {e} : desk'[x] = desk[x]
         /\ \A x \in undisturbed : x # e => desk[x] = Nobody
         /\ e \in undisturbed => \A x \in Requesters \ {e} : desk[x] = Nobody
<1>1. undisturbed \subseteq Requesters /\ DOMAIN desk = Requesters
  BY DEF ChangesInv, ChangesTypes, ChangesTypeOK, DesksOK
<1>2. desk'[e] = d /\ \A x \in Requesters \ {e} : desk'[x] = desk[x]
  BY <1>1
<1>3. \A x \in undisturbed : x # e => desk[x] = Nobody
  BY <1>1 DEF ChangesInv, AloneAtWork
<1>4. e \in undisturbed => \A x \in Requesters \ {e} : desk[x] = Nobody
  BY DEF ChangesInv, AloneAtWork
<1> QED BY <1>1, <1>2, <1>3, <1>4 DEF AloneAtWork

(***************************************************************************)
(* What is kept, when items are unlinked, prices are not touched, and what  *)
(* is wanted shrinks                                                        *)
(***************************************************************************)
LineKept(line, now) ==
  now.item = line.item /\ now.quantity = line.quantity /\ now.price = line.price

OrdersKept(os, os2, want2) ==
  /\ DOMAIN os2 = DOMAIN os
  /\ \A n \in DOMAIN os :
       /\ \A k \in DOMAIN os2[n].lines :
            os2[n].lines[k].item \in DOMAIN want2 =>
              k \in DOMAIN os[n].lines /\ LineKept(os[n].lines[k], os2[n].lines[k])
       /\ \A k \in DOMAIN os[n].lines :
            os[n].lines[k].item \in DOMAIN want2 =>
              k \in DOMAIN os2[n].lines /\ LineKept(os[n].lines[k], os2[n].lines[k])
Shrinks(want, want2) ==
  DOMAIN want2 \subseteq DOMAIN want /\ \A i \in DOMAIN want2 : want2[i] = want[i]

LEMMA KeptIsSettled ==
  ASSUME NEW os, NEW os2, NEW want, NEW want2, OrdersKept(os, os2, want2), Shrinks(want, want2)
  PROVE  /\ SettledBy(os, want) => SettledBy(os2, want2)
         /\ \A d : d.order \in DOMAIN os /\ Carries(d, os, want) => Carries(d, os2, want2)
         /\ \A d : SplitCarries(d, want) => SplitCarries(d, want2)
<1>1. SettledBy(os, want) => SettledBy(os2, want2)
  <2> SUFFICES ASSUME SettledBy(os, want), NEW n \in DOMAIN os2, NEW k \in DOMAIN os2[n].lines,
                      NewestOf(n, os2[n].lines[k].item, os2), os2[n].lines[k].item \in DOMAIN want2
               PROVE  Agrees(os2[n].lines[k], want2)
    BY DEF SettledBy, Agrees
  <2> DEFINE i == os2[n].lines[k].item
  <2>1. n \in DOMAIN os /\ k \in DOMAIN os[n].lines /\ LineKept(os[n].lines[k], os2[n].lines[k])
    BY DEF OrdersKept
  <2>2. NewestOf(n, i, os)
    <3> SUFFICES ASSUME NEW m \in DOMAIN os, m > n, NEW l \in DOMAIN os[m].lines, os[m].lines[l].item = i
                 PROVE  FALSE
      BY DEF NewestOf
    <3>1. l \in DOMAIN os2[m].lines /\ LineKept(os[m].lines[l], os2[m].lines[l])
      BY DEF OrdersKept
    <3>2. os2[m].lines[l].item = i
      BY <3>1 DEF LineKept
    <3>3. m \in DOMAIN os2
      BY DEF OrdersKept
    <3> QED BY <3>1, <3>2, <3>3 DEF NewestOf
  <2>3. os[n].lines[k].item = i
    BY <2>1 DEF LineKept
  <2>4. Agrees(os[n].lines[k], want)
    BY <2>1, <2>2, <2>3 DEF SettledBy
  <2> QED BY <2>1, <2>3, <2>4 DEF Agrees, LineKept, Shrinks
<1>2. ASSUME NEW d, d.order \in DOMAIN os, Carries(d, os, want) PROVE Carries(d, os2, want2)
  <2> SUFFICES ASSUME NEW k \in DOMAIN os2[d.order].lines, os2[d.order].lines[k].item \in DOMAIN want2
               PROVE  /\ <<k, "quantity">> \in DOMAIN d.new =>
                           d.new[<<k, "quantity">>] = want2[os2[d.order].lines[k].item].quantity
                      /\ <<k, "price">> \in DOMAIN d.new =>
                           d.new[<<k, "price">>] = want2[os2[d.order].lines[k].item].price
    BY DEF Carries
  <2>1. k \in DOMAIN os[d.order].lines /\ LineKept(os[d.order].lines[k], os2[d.order].lines[k])
    BY <1>2 DEF OrdersKept
  <2> QED BY <1>2, <2>1 DEF Carries, LineKept, Shrinks
<1>3. \A d : SplitCarries(d, want) => SplitCarries(d, want2)
  BY DEF SplitCarries, Agrees, Shrinks
<1> QED BY <1>1, <1>2, <1>3

(***************************************************************************)
(* The two kinds of step                                                    *)
(***************************************************************************)
LEMMA SameOrders ==
  ASSUME NEW os \in Seq(OrderRows), NEW os2 \in Seq(OrderRows), DOMAIN os \subseteq DOMAIN os2, os # << >>
  PROVE  os2 # << >>
<1>1. Len(os) # 0 /\ 1 \in DOMAIN os
  OBVIOUS
<1> QED BY <1>1

LEMMA DeskStays ==
  ASSUME NEW os \in Seq(OrderRows), NEW os2 \in Seq(OrderRows), DOMAIN os \subseteq DOMAIN os2,
         NEW d, DeskOK(d, os)
  PROVE  DeskOK(d, os2)
BY SameOrders DEF DeskOK, AmendmentOK, SplitOK

LEMMA WritesOn ==
  ASSUME NEW os, NEW os2, NEW want, NEW want2, OrdersKept(os, os2, want2), Shrinks(want, want2),
         NEW d, DeskOK(d, os), WritesWanted(d, os, want)
  PROVE  WritesWanted(d, os2, want2)
BY KeptIsSettled DEF WritesWanted, DeskOK, AmendmentOK

(* A request begins, and leaves what the lines ask for as it is, or takes the
   agreement back. *)
LEMMA OpensKeeps ==
  ASSUME ChangesInv, NEW e \in Requesters, Opens(e),
         \/ desk' = desk
         \/ \E d : desk' = [desk EXCEPT ![e] = d] /\ DeskOK(d, orders') /\ d.step \in {"edit", "order"},
         DocumentsOK', DOMAIN orders' = DOMAIN orders,
         \/ agreed' = FALSE
         \/ agreed' = agreed /\ OrdersKept(orders, orders', demand') /\ Shrinks(demand, demand')
  PROVE  ChangesInv'
<1>1. /\ AloneAtWork' /\ undisturbed' \subseteq Requesters /\ changeCalls' \in 0 .. MaxChangeCalls
      /\ \A x \in undisturbed' : x # e => desk'[x] = Nobody
      /\ desk[e] = Nobody /\ \A x \in Requesters \ {e} : desk'[x] = desk[x]
  BY OpensDisturbs
<1>2. /\ DocumentsOK /\ DOMAIN desk = Requesters /\ DOMAIN desk' = Requesters
      /\ \A x \in Requesters : DeskOK(desk[x], orders)
  BY DEF ChangesInv, ChangesTypes, ChangesTypeOK, DocumentsOK, DesksOK
<1>3. orders \in Seq(OrderRows) /\ orders' \in Seq(OrderRows)
  BY <1>2 DEF DocumentsOK
<1>4. \A x \in Requesters : desk'[x] # desk[x] => DeskOK(desk'[x], orders') /\ desk'[x].step \in {"edit", "order"}
  <2>1. CASE desk' = desk
    BY <2>1
  <2>2. CASE \E d : desk' = [desk EXCEPT ![e] = d] /\ DeskOK(d, orders') /\ d.step \in {"edit", "order"}
    BY <1>2, <2>2
  <2> QED BY <2>1, <2>2
<1>5. \A x \in Requesters : DeskOK(desk'[x], orders')
  BY <1>2, <1>3, <1>4, DeskStays
<1>6. WillSettle'
  <2> SUFFICES ASSUME NEW x \in undisturbed' PROVE AboutToSettle(desk'[x], orders', demand')
    BY DEF WillSettle
  <2>1. desk'[x] = Nobody \/ desk'[x].step \in {"edit", "order"}
    BY <1>1, <1>4
  <2> QED BY <2>1 DEF AboutToSettle, Nobody
<1>7. StaysSettled'
  <2> SUFFICES ASSUME agreed'
               PROVE  SettledBy(orders', demand') /\ \A x \in Requesters : WritesWanted(desk'[x], orders', demand')
    BY DEF StaysSettled
  <2>1. agreed /\ OrdersKept(orders, orders', demand') /\ Shrinks(demand, demand')
    OBVIOUS
  <2>2. SettledBy(orders, demand) /\ \A x \in Requesters : WritesWanted(desk[x], orders, demand)
    BY <2>1 DEF ChangesInv, StaysSettled
  <2>3. SettledBy(orders', demand')
    BY <2>1, <2>2, KeptIsSettled
  <2>4. \A x \in Requesters : WritesWanted(desk[x], orders', demand')
    BY <1>2, <2>1, <2>2, WritesOn
  <2>5. \A x \in Requesters : WritesWanted(desk'[x], orders', demand')
    BY <1>4, <2>4 DEF WritesWanted
  <2> QED BY <2>3, <2>5
<1> QED BY <1>1, <1>2, <1>5, <1>6, <1>7 DEF ChangesInv, ChangesTypes, ChangesTypeOK, DocumentsOK, DesksOK, DeskOK

(* A request goes on. *)
LEMMA GoesOnKeeps ==
  ASSUME ChangesInv, NEW e \in Requesters, desk[e] # Nobody, NEW d, desk' = [desk EXCEPT ![e] = d],
         UNCHANGED <<undisturbed, changeCalls>>,
         DocumentsOK', DOMAIN orders \subseteq DOMAIN orders', DeskOK(d, orders'),
         e \in undisturbed => AboutToSettle(d, orders', demand'),
         agreed' => /\ SettledBy(orders', demand') /\ WritesWanted(d, orders', demand')
                    /\ \/ e \in undisturbed
                       \/ \A x \in Requesters \ {e} : WritesWanted(desk[x], orders', demand')
  PROVE  ChangesInv'
<1>1. /\ AloneAtWork' /\ desk'[e] = d /\ DOMAIN desk' = Requesters
      /\ \A x \in Requesters \ {e} : desk'[x] = desk[x]
      /\ \A x \in undisturbed : x # e => desk[x] = Nobody
      /\ e \in undisturbed => \A x \in Requesters \ {e} : desk[x] = Nobody
  BY GoesOnAlone
<1>2. /\ DocumentsOK /\ undisturbed \subseteq Requesters /\ changeCalls \in 0 .. MaxChangeCalls
      /\ \A x \in Requesters : DeskOK(desk[x], orders)
  BY DEF ChangesInv, ChangesTypes, ChangesTypeOK, DocumentsOK, DesksOK
<1>3. orders \in Seq(OrderRows) /\ orders' \in Seq(OrderRows)
  BY <1>2 DEF DocumentsOK
<1>4. \A x \in Requesters : DeskOK(desk'[x], orders')
  BY <1>1, <1>2, <1>3, DeskStays
<1>5. WillSettle'
  <2> SUFFICES ASSUME NEW x \in undisturbed PROVE AboutToSettle(desk'[x], orders', demand')
    BY DEF WillSettle
  <2>1. CASE x = e
    BY <1>1, <2>1
  <2>2. CASE x # e
    BY <1>1, <1>2, <2>2 DEF AboutToSettle, Nobody
  <2> QED BY <2>1, <2>2
<1>6. StaysSettled'
  <2> SUFFICES ASSUME agreed', NEW x \in Requesters PROVE WritesWanted(desk'[x], orders', demand')
    BY DEF StaysSettled
  <2>1. CASE x = e
    BY <1>1, <2>1
  <2>2. CASE x # e /\ e \in undisturbed
    BY <1>1, <2>2 DEF WritesWanted, Nobody
  <2>3. CASE x # e /\ e \notin undisturbed
    BY <1>1, <2>3
  <2> QED BY <2>1, <2>2, <2>3
<1> QED BY <1>1, <1>2, <1>4, <1>5, <1>6 DEF ChangesInv, ChangesTypes, ChangesTypeOK, DocumentsOK, DesksOK, DeskOK

(***************************************************************************)
(* The requisition's steps                                                  *)
(***************************************************************************)
LEMMA NothingMoved ==
  ASSUME NEW os, NEW want PROVE OrdersKept(os, os, want) /\ Shrinks(want, want)
BY DEF OrdersKept, LineKept, Shrinks

LEMMA DocumentsStand == ChangesInv => DocumentsOK
BY DEF ChangesInv, ChangesTypes, ChangesTypeOK, DocumentsOK

LEMMA AddItemKeeps ==
  ASSUME ChangesInv, NEW e \in Requesters, NEW i \in Items, NEW q \in LineQuantities, NEW p \in Prices,
         AddItem(e, i, q, p)
  PROVE  ChangesInv'
<1>1. Opens(e) /\ desk' = desk
  BY DEF AddItem, AtOnce
<1>2. DocumentsOK' /\ DOMAIN orders' = DOMAIN orders
  <2>0. DocumentsOK
    BY DocumentsStand
  <2>1. DOMAIN demand' = DOMAIN demand \cup {i} /\ DOMAIN demand' \subseteq Items
    BY <2>0 DEF AddItem, DocumentsOK
  <2>2. demand' \in [DOMAIN demand' -> [quantity : LineQuantities, price : Prices]]
    BY <2>0 DEF AddItem, DocumentsOK
  <2>3. version' \in Nat
    BY <2>0 DEF AddItem, DocumentsOK
  <2>4. agreed' \in BOOLEAN
    BY DEF AddItem
  <2> QED BY <2>0, <2>1, <2>2, <2>3, <2>4 DEF AddItem, DocumentsOK
<1>3. agreed' = FALSE
  BY DEF AddItem
<1> QED BY <1>1, <1>2, <1>3, OpensKeeps

LEMMA EditItemKeeps ==
  ASSUME ChangesInv, NEW e \in Requesters, NEW i \in Items, NEW field, NEW value, EditItem(e, i, field, value),
         \/ field = "quantity" /\ value \in LineQuantities
         \/ field = "price" /\ value \in Prices
  PROVE  ChangesInv'
<1> DEFINE d == [step |-> "edit", item |-> i, field |-> field, value |-> value, version |-> version + 1]
<1>0. DocumentsOK
  BY DocumentsStand
<1>1. Opens(e) /\ desk' = [desk EXCEPT ![e] = d]
  BY DEF EditItem
<1>2. DocumentsOK' /\ DOMAIN orders' = DOMAIN orders
  BY <1>0 DEF EditItem, DocumentsOK
<1>3. DeskOK(d, orders') /\ d.step \in {"edit", "order"}
  BY <1>0 DEF DeskOK, EditOK, DocumentsOK
<1>4. agreed' = agreed /\ OrdersKept(orders, orders', demand') /\ Shrinks(demand, demand')
  BY NothingMoved DEF EditItem
<1> HIDE DEF d
<1> QED BY <1>1, <1>2, <1>3, <1>4, OpensKeeps

LEMMA SaveItemKeeps ==
  ASSUME ChangesInv, NEW e \in Requesters, SaveItem(e) PROVE ChangesInv'
<1> DEFINE d == desk[e]
<1>0. DocumentsOK /\ EditOK(d)
  BY DocumentsStand DEF ChangesInv, ChangesTypes, DesksOK, DeskOK, SaveItem
<1>1. desk[e] # Nobody /\ desk' = [desk EXCEPT ![e] = Nobody] /\ UNCHANGED <<undisturbed, changeCalls>>
  BY DEF SaveItem, Nobody
<1>2. DocumentsOK' /\ DOMAIN orders' = DOMAIN orders
  <2>1. demand' \in [DOMAIN demand -> [quantity : LineQuantities, price : Prices]] /\ version' \in Nat
    <3>1. CASE d.item \in DOMAIN demand
      <4>1. demand' = [demand EXCEPT ![d.item] = [demand[d.item] EXCEPT ![d.field] = d.value]] /\ version' = d.version
        BY <3>1 DEF SaveItem
      <4>2. demand[d.item] \in [quantity : LineQuantities, price : Prices]
        BY <1>0, <3>1 DEF DocumentsOK
      <4>3. [demand[d.item] EXCEPT ![d.field] = d.value] \in [quantity : LineQuantities, price : Prices]
        BY <1>0, <4>2 DEF EditOK
      <4> QED BY <1>0, <3>1, <4>1, <4>3 DEF EditOK, DocumentsOK
    <3>2. CASE d.item \notin DOMAIN demand
      BY <1>0, <3>2 DEF SaveItem, DocumentsOK
    <3> QED BY <3>1, <3>2
  <2>2. DOMAIN demand' = DOMAIN demand
    BY <2>1
  <2> QED BY <1>0, <2>1, <2>2 DEF SaveItem, DocumentsOK
<1>3. DeskOK(Nobody, orders') /\ AboutToSettle(Nobody, orders', demand') /\ ~ agreed'
  BY DEF DeskOK, Nobody, AboutToSettle, SaveItem
<1> QED BY <1>1, <1>2, <1>3, GoesOnKeeps

LEMMA EditHeaderKeeps ==
  ASSUME ChangesInv, NEW e \in Requesters, NEW new \in [vendor : Vendors, terms : Terms], EditHeader(e, new)
  PROVE  ChangesInv'
<1>1. Opens(e) /\ desk' = desk
  BY DEF EditHeader, AtOnce
<1>2. DocumentsOK' /\ DOMAIN orders' = DOMAIN orders
  BY DocumentsStand DEF EditHeader, DocumentsOK, ReqStages, Reopened
<1>3. agreed' = agreed /\ OrdersKept(orders, orders', demand') /\ Shrinks(demand, demand')
  BY NothingMoved DEF EditHeader
<1> QED BY <1>1, <1>2, <1>3, OpensKeeps

LEMMA ApproveKeeps ==
  ASSUME ChangesInv, NEW e \in Requesters, Approve(e) PROVE ChangesInv'
<1> DEFINE d == [step |-> "order"]
<1>1. Opens(e) /\ desk' = [desk EXCEPT ![e] = d]
  BY DEF Approve, Becomes
<1>2. DocumentsOK' /\ DOMAIN orders' = DOMAIN orders
  BY DocumentsStand DEF Approve, DocumentsOK, ReqStages, Reopened
<1>3. DeskOK(d, orders') /\ d.step \in {"edit", "order"}
  BY DEF DeskOK
<1>4. agreed' = agreed /\ OrdersKept(orders, orders', demand') /\ Shrinks(demand, demand')
  BY NothingMoved DEF Approve
<1> HIDE DEF d
<1> QED BY <1>1, <1>2, <1>3, <1>4, OpensKeeps

LEMMA DiesKeeps ==
  ASSUME ChangesInv, NEW e \in Requesters, Dies(e) PROVE ChangesInv'
<1>0. DocumentsOK /\ (agreed => SettledBy(orders, demand) /\ \A x \in Requesters : WritesWanted(desk[x], orders, demand))
  BY DocumentsStand DEF ChangesInv, StaysSettled
<1>1. /\ desk[e] # Nobody /\ desk' = [desk EXCEPT ![e] = Nobody]
      /\ UNCHANGED <<undisturbed, changeCalls, demand, header, stage, inApproval, version, orders, agreed>>
  BY DEF Dies, Becomes
<1>2. DocumentsOK'
  BY <1>0, <1>1 DEF DocumentsOK
<1>3. DeskOK(Nobody, orders') /\ AboutToSettle(Nobody, orders', demand') /\ WritesWanted(Nobody, orders', demand')
  BY DEF DeskOK, Nobody, AboutToSettle, WritesWanted
<1>4. agreed' => SettledBy(orders', demand') /\ \A x \in Requesters \ {e} : WritesWanted(desk[x], orders', demand')
  BY <1>0, <1>1
<1>5. DOMAIN orders \subseteq DOMAIN orders'
  BY <1>1
<1> QED BY <1>1, <1>2, <1>3, <1>4, <1>5, GoesOnKeeps

(***************************************************************************)
(* Orders with one row replaced                                             *)
(***************************************************************************)
LEMMA RowReplaced ==
  ASSUME NEW os \in Seq(OrderRows), NEW n \in DOMAIN os, NEW r \in OrderRows,
         NEW os2, os2 = [os EXCEPT ![n] = r]
  PROVE  /\ os2 \in Seq(OrderRows) /\ Len(os2) = Len(os) /\ DOMAIN os2 = DOMAIN os
         /\ os2[n] = r /\ \A m \in DOMAIN os : m # n => os2[m] = os[m]
<1>1. os \in [1 .. Len(os) -> OrderRows] /\ Len(os) \in Nat /\ DOMAIN os = 1 .. Len(os)
  OBVIOUS
<1>2. os2 \in [1 .. Len(os) -> OrderRows]
  BY <1>1
<1>3. os2 \in Seq(OrderRows) /\ Len(os2) = Len(os)
  BY <1>1, <1>2
<1> QED BY <1>1, <1>2, <1>3

(* Its lines ask for the same, up to what was unlinked or is not wanted. *)
SameAsked(lines, now, want) ==
  /\ \A k \in DOMAIN now : now[k].item \in DOMAIN want => k \in DOMAIN lines /\ LineKept(lines[k], now[k])
  /\ \A k \in DOMAIN lines : lines[k].item \in DOMAIN want => k \in DOMAIN now /\ LineKept(lines[k], now[k])

LEMMA RowKept ==
  ASSUME NEW os \in Seq(OrderRows), NEW n \in DOMAIN os, NEW r \in OrderRows, NEW want,
         NEW os2, os2 = [os EXCEPT ![n] = r], SameAsked(os[n].lines, r.lines, want)
  PROVE  OrdersKept(os, os2, want)
<1>1. /\ DOMAIN os2 = DOMAIN os
      /\ os2[n] = r /\ \A m \in DOMAIN os : m # n => os2[m] = os[m]
  BY RowReplaced
<1>2. \A m \in DOMAIN os : SameAsked(os[m].lines, os2[m].lines, want)
  BY <1>1 DEF SameAsked, LineKept
<1> QED BY <1>1, <1>2 DEF OrdersKept, SameAsked

(* A request that only rewrites a row, and leaves what its lines ask for. *)
LEMMA RowStepKeeps ==
  ASSUME ChangesInv, NEW e \in Requesters, AtOnce(e), NEW n \in DOMAIN orders, NEW r \in OrderRows,
         orders' = [orders EXCEPT ![n] = r], SameAsked(orders[n].lines, r.lines, demand),
         UNCHANGED <<demand, header, inApproval, version, agreed>>, stage' \in ReqStages
  PROVE  ChangesInv'
<1>1. Opens(e) /\ desk' = desk
  BY DEF AtOnce
<1>2. DocumentsOK
  BY DocumentsStand
<1>3. orders \in Seq(OrderRows)
  BY <1>2 DEF DocumentsOK
<1>4. orders' \in Seq(OrderRows) /\ Len(orders') = Len(orders) /\ DOMAIN orders' = DOMAIN orders
  BY <1>3, RowReplaced
<1>5. OrdersKept(orders, orders', demand)
  BY <1>3, RowKept
<1>6. Shrinks(demand, demand')
  BY NothingMoved
<1>7. DocumentsOK'
  BY <1>2, <1>4 DEF DocumentsOK
<1> QED BY <1>1, <1>4, <1>5, <1>6, <1>7, OpensKeeps

LEMMA RowsOfOrders ==
  ASSUME ChangesInv, NEW n \in DOMAIN orders
  PROVE  /\ orders[n] \in OrderRows /\ orders[n].lines \in Seq(OrderLines) /\ stage \in ReqStages
         /\ orders[n].version \in Nat /\ orders[n].state \in OrderStates
<1>1. orders[n] \in OrderRows
  BY DocumentsStand DEF DocumentsOK
<1> QED BY <1>1, DocumentsStand DEF OrderRows, DocumentsOK

LEMMA SameLines == ASSUME NEW lines, NEW want PROVE SameAsked(lines, lines, want)
BY DEF SameAsked, LineKept

Changes == {"original", "amendment", "split", "cancelled", "closed", "reopened"}

LEMMA RowRenumbered ==
  ASSUME NEW row \in OrderRows, NEW w \in Nat, NEW kind \in Changes
  PROVE  /\ [row EXCEPT !.version = w, !.change = kind] \in OrderRows
         /\ [row EXCEPT !.version = w, !.change = kind].lines = row.lines
BY DEF OrderRows, Changes

LEMMA RowMoved ==
  ASSUME NEW row \in OrderRows, NEW state \in OrderStates, NEW w \in Nat, NEW kind \in Changes,
         NEW stocked \in BOOLEAN,
         NEW r, r = [row EXCEPT !.state = state, !.stocked = stocked, !.version = w, !.change = kind]
  PROVE  r \in OrderRows /\ r.lines = row.lines
BY DEF OrderRows, Changes

LEMMA AmendByHandKeeps ==
  ASSUME ChangesInv, NEW e \in Requesters, NEW n \in DOMAIN orders, AmendByHand(e, n)
  PROVE  ChangesInv'
<1> DEFINE r == [orders[n] EXCEPT !.version = @ + 1, !.change = "amendment"]
<1>0. orders[n] \in OrderRows /\ stage \in ReqStages /\ orders[n].version \in Nat
  BY RowsOfOrders
<1>1. r \in OrderRows /\ r.lines = orders[n].lines
  <2>1. orders[n].version + 1 \in Nat /\ "amendment" \in Changes
    BY <1>0 DEF Changes
  <2> QED BY <1>0, <2>1, RowRenumbered
<1>2. AtOnce(e) /\ orders' = [orders EXCEPT ![n] = r] /\ UNCHANGED <<demand, header, inApproval, version, agreed>>
      /\ stage' \in ReqStages
  BY <1>0 DEF AmendByHand
<1>3. SameAsked(orders[n].lines, r.lines, demand)
  BY <1>1, SameLines
<1> HIDE DEF r
<1> QED BY <1>1, <1>2, <1>3, RowStepKeeps

LEMMA MoveOrderKeeps ==
  ASSUME ChangesInv, NEW e \in Requesters, NEW n \in DOMAIN orders, MoveOrder(e, n)
  PROVE  ChangesInv'
<1>1. PICK state \in OrderMoves[orders[n].state] :
        LET amends == state \in {"cancelled", "closed", "reopened"} IN
        /\ orders' = [orders EXCEPT ![n] =
                       [orders[n] EXCEPT !.state = IF state = "ordered" /\ NoneExpected(orders[n])
                                                   THEN "fully_received" ELSE state,
                                         !.stocked = @ \/ (state = "ordered" /\ Awaited(orders[n]) # {}),
                                         !.version = IF amends THEN @ + 1 ELSE @,
                                         !.change = IF amends THEN state ELSE @]]
        /\ stage' = IF state = "cancelled" /\ stage \notin {"cancelled", "closed", "rejected"}
                    THEN "cancelled" ELSE stage
  BY DEF MoveOrder
<1> DEFINE amends == state \in {"cancelled", "closed", "reopened"}
           r == [orders[n] EXCEPT !.state = IF state = "ordered" /\ NoneExpected(orders[n])
                                            THEN "fully_received" ELSE state,
                                  !.stocked = @ \/ (state = "ordered" /\ Awaited(orders[n]) # {}),
                                  !.version = IF amends THEN @ + 1 ELSE @,
                                  !.change = IF amends THEN state ELSE @]
<1>2. state \in OrderStates
  <2>1. orders[n].state \in OrderStates
    BY RowsOfOrders
  <2>2. \A s \in OrderStates : OrderMoves[s] \subseteq OrderStates
    BY DEF OrderMoves, OrderStates, Terminal
  <2> QED BY <2>1, <2>2
<1>3. r \in OrderRows /\ r.lines = orders[n].lines
  <2>0. orders[n] \in OrderRows /\ orders[n].version \in Nat
    BY RowsOfOrders
  <2> DEFINE to == IF state = "ordered" /\ NoneExpected(orders[n]) THEN "fully_received" ELSE state
             stocked == orders[n].stocked \/ (state = "ordered" /\ Awaited(orders[n]) # {})
             w == IF amends THEN orders[n].version + 1 ELSE orders[n].version
             kind == IF amends THEN state ELSE orders[n].change
  <2>1. w \in Nat
    BY <2>0
  <2>2. kind \in Changes
    BY <2>0 DEF OrderRows, Changes
  <2>3. r = [orders[n] EXCEPT !.state = to, !.stocked = stocked, !.version = w, !.change = kind]
    OBVIOUS
  <2>6. to \in OrderStates /\ stocked \in BOOLEAN
    BY <1>2, <2>0 DEF OrderRows, OrderStates, Terminal
  <2> HIDE DEF to, stocked, w, kind, r
  <2>4. r \in OrderRows
    BY <2>0, <2>1, <2>2, <2>3, <2>6, RowMoved
  <2>5. r.lines = orders[n].lines
    BY <2>0, <2>3 DEF OrderRows
  <2> QED BY <2>4, <2>5
<1>4. AtOnce(e) /\ UNCHANGED <<demand, header, inApproval, version, agreed>>
  BY DEF MoveOrder
<1>5. stage' \in ReqStages
  BY <1>1, RowsOfOrders DEF ReqStages, ReadOnly
<1>6. orders' = [orders EXCEPT ![n] = r]
  BY <1>1
<1>7. SameAsked(orders[n].lines, r.lines, demand)
  BY <1>3, SameLines
<1> HIDE DEF r
<1> QED BY <1>3, <1>4, <1>5, <1>6, <1>7, RowStepKeeps

LEMMA LinesAppended ==
  ASSUME NEW lines \in Seq(OrderLines), NEW line \in OrderLines
  PROVE  /\ Append(lines, line) \in Seq(OrderLines)
         /\ DOMAIN Append(lines, line) = DOMAIN lines \cup {Len(lines) + 1}
         /\ \A k \in DOMAIN lines : Append(lines, line)[k] = lines[k]
         /\ Append(lines, line)[Len(lines) + 1] = line /\ Len(lines) + 1 \notin DOMAIN lines
OBVIOUS

LEMMA RowRelined ==
  ASSUME NEW row \in OrderRows, NEW lines \in Seq(OrderLines), NEW totalled \in BOOLEAN,
         NEW r, r = [row EXCEPT !.lines = lines, !.totalled = totalled]
  PROVE  r \in OrderRows /\ r.lines = lines
BY DEF OrderRows

LEMMA AddOrderLineKeeps ==
  ASSUME ChangesInv, NEW e \in Requesters, NEW n \in DOMAIN orders, NEW q \in LineQuantities, NEW p \in Prices,
         AddOrderLine(e, n, q, p)
  PROVE  ChangesInv'
<1> DEFINE line == OrderLine(Unlinked, q, p)
           lines == Append(orders[n].lines, line)
           r == [orders[n] EXCEPT !.lines = lines, !.totalled = FALSE]
<1>0. orders[n] \in OrderRows /\ orders[n].lines \in Seq(OrderLines) /\ stage \in ReqStages
  BY RowsOfOrders
<1>1. line \in OrderLines /\ line.item = Unlinked
  <2>1. 0 \in 0 .. MaxQuantity
    BY ChangesAssumption
  <2> QED BY <2>1 DEF OrderLine, OrderLines
<1>2. Unlinked \notin DOMAIN demand
  BY ChangesAssumption, DocumentsStand DEF DocumentsOK
<1>3. AtOnce(e) /\ orders' = [orders EXCEPT ![n] = r] /\ UNCHANGED <<demand, header, inApproval, version, agreed>>
      /\ stage' \in ReqStages
  BY <1>0 DEF AddOrderLine
<1> HIDE DEF line
<1>4. /\ lines \in Seq(OrderLines)
      /\ DOMAIN lines = DOMAIN orders[n].lines \cup {Len(orders[n].lines) + 1}
      /\ \A k \in DOMAIN orders[n].lines : lines[k] = orders[n].lines[k]
      /\ lines[Len(orders[n].lines) + 1] = line
  BY <1>0, <1>1, LinesAppended
<1> HIDE DEF lines
<1>5. r \in OrderRows /\ r.lines = lines
  <2>1. r = [orders[n] EXCEPT !.lines = lines, !.totalled = FALSE]
    OBVIOUS
  <2> HIDE DEF r
  <2>3. r \in OrderRows
    BY <1>0, <1>4, <2>1, RowRelined
  <2>4. r.lines = lines
    BY <1>0, <2>1 DEF OrderRows
  <2> QED BY <2>3, <2>4
<1>6. SameAsked(orders[n].lines, lines, demand)
  BY <1>1, <1>2, <1>4 DEF SameAsked, LineKept
<1> HIDE DEF r
<1> QED BY <1>3, <1>5, <1>6, RowStepKeeps

(* A line with more of it received or invoiced. *)
LEMMA LineCounted ==
  ASSUME NEW lines \in Seq(OrderLines), NEW k \in DOMAIN lines, NEW m \in 0 .. MaxQuantity,
         NEW field \in {"received", "invoiced"}, NEW now, now = [lines EXCEPT ![k] = [lines[k] EXCEPT ![field] = m]],
         NEW want
  PROVE  now \in Seq(OrderLines) /\ SameAsked(lines, now, want)
<1>1. lines[k] \in OrderLines /\ lines \in [1 .. Len(lines) -> OrderLines] /\ Len(lines) \in Nat
  OBVIOUS
<1> DEFINE line == [lines[k] EXCEPT ![field] = m]
<1>2. line \in OrderLines /\ LineKept(lines[k], line)
  BY <1>1 DEF OrderLines, LineKept
<1> HIDE DEF line
<1>3. now = [lines EXCEPT ![k] = line]
  BY DEF line
<1>4. now \in [1 .. Len(lines) -> OrderLines] /\ DOMAIN now = DOMAIN lines
  BY <1>1, <1>2, <1>3
<1>5. now \in Seq(OrderLines)
  BY <1>1, <1>4
<1>6. \A l \in DOMAIN lines : LineKept(lines[l], now[l])
  BY <1>1, <1>2, <1>3 DEF LineKept
<1> QED BY <1>4, <1>5, <1>6 DEF SameAsked, LineKept

LEMMA RowReceived ==
  ASSUME NEW row \in OrderRows, NEW lines \in Seq(OrderLines), NEW state \in OrderStates,
         NEW r, r = [row EXCEPT !.lines = lines, !.stocked = TRUE, !.state = state]
  PROVE  r \in OrderRows
BY DEF OrderRows

LEMMA RowBilled ==
  ASSUME NEW row \in OrderRows, NEW lines \in Seq(OrderLines), NEW state \in OrderStates,
         NEW r, r = [row EXCEPT !.lines = lines, !.billed = TRUE, !.state = state]
  PROVE  r \in OrderRows
BY DEF OrderRows

LEMMA ReceiveKeeps ==
  ASSUME ChangesInv, NEW e \in Requesters, NEW n \in DOMAIN orders, NEW k \in 1 .. MaxOrderLines,
         NEW q \in LineQuantities, Receive(e, n, k, q)
  PROVE  ChangesInv'
<1> DEFINE old == orders[n].lines
           m == old[k].received + q
           lines == [old EXCEPT ![k] = [old[k] EXCEPT !["received"] = m]]
<1>0. /\ orders[n] \in OrderRows /\ old \in Seq(OrderLines) /\ stage \in ReqStages
      /\ orders[n].state \in OrderStates
  BY RowsOfOrders
<1>1. PICK state \in OrderStates :
        orders' = [orders EXCEPT ![n] = [orders[n] EXCEPT !.lines = lines, !.stocked = TRUE, !.state = state]]
  BY <1>0 DEF Receive, OrderStates, Terminal
<1>2. k \in DOMAIN old /\ m <= MaxQuantity /\ AtOnce(e)
      /\ UNCHANGED <<demand, header, stage, inApproval, version, agreed>>
  BY DEF Receive
<1>3. m \in 0 .. MaxQuantity
  <2>1. old[k] \in OrderLines
    BY <1>0, <1>2
  <2> QED BY <1>2, <2>1, ChangesAssumption DEF OrderLines, LineQuantities
<1>4. lines \in Seq(OrderLines) /\ SameAsked(old, lines, demand)
  <2> HIDE DEF old, m
  <2> QED BY <1>0, <1>2, <1>3, LineCounted
<1> DEFINE r == [orders[n] EXCEPT !.lines = lines, !.stocked = TRUE, !.state = state]
<1> HIDE DEF lines
<1>5. r \in OrderRows /\ r.lines = lines
  <2>1. r = [orders[n] EXCEPT !.lines = lines, !.stocked = TRUE, !.state = state]
    OBVIOUS
  <2> HIDE DEF r
  <2>3. r \in OrderRows
    BY <1>0, <1>4, <2>1, RowReceived
  <2>4. r.lines = lines
    BY <1>0, <2>1 DEF OrderRows
  <2> QED BY <2>3, <2>4
<1>6. orders' = [orders EXCEPT ![n] = r] /\ stage' \in ReqStages
  BY <1>0, <1>1, <1>2
<1> HIDE DEF r
<1> QED BY <1>2, <1>4, <1>5, <1>6, RowStepKeeps

LEMMA BillKeeps ==
  ASSUME ChangesInv, NEW e \in Requesters, NEW n \in DOMAIN orders, NEW k \in 1 .. MaxOrderLines,
         NEW q \in LineQuantities, Bill(e, n, k, q)
  PROVE  ChangesInv'
<1> DEFINE old == orders[n].lines
           m == old[k].invoiced + q
           lines == [old EXCEPT ![k] = [old[k] EXCEPT !["invoiced"] = m]]
           r == [orders[n] EXCEPT !.lines = lines, !.billed = TRUE, !.state = "invoiced"]
<1>0. orders[n] \in OrderRows /\ old \in Seq(OrderLines) /\ stage \in ReqStages
  BY RowsOfOrders
<1>2. /\ k \in DOMAIN old /\ m <= MaxQuantity /\ AtOnce(e) /\ orders' = [orders EXCEPT ![n] = r]
      /\ UNCHANGED <<demand, header, stage, inApproval, version, agreed>>
  BY DEF Bill
<1>3. m \in 0 .. MaxQuantity
  <2>1. old[k] \in OrderLines
    BY <1>0, <1>2
  <2> QED BY <1>2, <2>1, ChangesAssumption DEF OrderLines, LineQuantities
<1>4. lines \in Seq(OrderLines) /\ SameAsked(old, lines, demand)
  <2> HIDE DEF old, m
  <2> QED BY <1>0, <1>2, <1>3, LineCounted
<1> HIDE DEF lines
<1>5. r \in OrderRows /\ r.lines = lines
  <2>1. "invoiced" \in OrderStates
    BY DEF OrderStates, Terminal
  <2>2. r = [orders[n] EXCEPT !.lines = lines, !.billed = TRUE, !.state = "invoiced"]
    OBVIOUS
  <2> HIDE DEF r
  <2>3. r \in OrderRows
    BY <1>0, <1>4, <2>1, <2>2, RowBilled
  <2>4. r.lines = lines
    BY <1>0, <2>2 DEF OrderRows
  <2> QED BY <2>3, <2>4
<1>6. stage' \in ReqStages
  BY <1>0, <1>2
<1> HIDE DEF r
<1> QED BY <1>2, <1>4, <1>5, <1>6, RowStepKeeps

(***************************************************************************)
(* The steps that move lines                                                *)
(***************************************************************************)
(* A finite set is numbered without gaps or repeats. *)
LEMMA NumberedIsAll ==
  ASSUME NEW S, IsFiniteSet(S)
  PROVE  /\ Cardinality(S) \in Nat
         /\ Numbered(S) \in [1 .. Cardinality(S) -> S]
         /\ \A i \in S : \E k \in 1 .. Cardinality(S) : Numbered(S)[k] = i
<1> DEFINE c == Cardinality(S)
<1>1. c \in Nat /\ ExistsBijection(1 .. c, S)
  BY FS_CardinalityType
<1>2. \E s \in [1 .. c -> S] : \A j, k \in DOMAIN s : s[j] = s[k] => j = k
  <2>1. PICK s \in Bijection(1 .. c, S) : TRUE
    BY <1>1 DEF ExistsBijection
  <2>2. s \in [1 .. c -> S] /\ IsInjective(s)
    BY <2>1 DEF Bijection, Injection
  <2> QED BY <2>2 DEF IsInjective
<1>3. /\ Numbered(S) \in [1 .. c -> S]
      /\ \A j, k \in DOMAIN Numbered(S) : Numbered(S)[j] = Numbered(S)[k] => j = k
  BY <1>2 DEF Numbered
<1>4. Numbered(S) \in Injection(1 .. c, S)
  BY <1>3 DEF Injection, IsInjective
<1>5. Cardinality(1 .. c) = c
  <2>1. 1 \in Int /\ c \in Int /\ (1 > c <=> c = 0)
    BY <1>1
  <2>2. Cardinality(1 .. c) = IF 1 > c THEN 0 ELSE c - 1 + 1
    BY <2>1, FS_Interval
  <2> QED BY <1>1, <2>1, <2>2
<1>6. Numbered(S) \in Surjection(1 .. c, S)
  <2> HIDE DEF c
  <2>1. Cardinality(1 .. c) = Cardinality(S)
    BY <1>5 DEF c
  <2> QED BY <1>4, <2>1, FS_Injection
<1>7. \A i \in S : \E k \in 1 .. c : Numbered(S)[k] = i
  BY <1>6 DEF Surjection
<1> QED BY <1>1, <1>3, <1>7

LEMMA LinesUnlinked ==
  ASSUME NEW lines \in Seq(OrderLines), NEW i \in Items, NEW want, DOMAIN want \subseteq Items \ {i},
         NEW now, now = [k \in DOMAIN lines |->
                           IF lines[k].item = i THEN [lines[k] EXCEPT !.item = Unlinked] ELSE lines[k]]
  PROVE  now \in Seq(OrderLines) /\ SameAsked(lines, now, want)
<1>1. lines \in [1 .. Len(lines) -> OrderLines] /\ Len(lines) \in Nat /\ DOMAIN lines = 1 .. Len(lines)
  OBVIOUS
<1>2. \A k \in DOMAIN lines :
        /\ now[k] \in OrderLines
        /\ lines[k].item = i => now[k].item = Unlinked
        /\ lines[k].item # i => now[k] = lines[k]
  <2> SUFFICES ASSUME NEW k \in DOMAIN lines
               PROVE  /\ now[k] \in OrderLines
                      /\ lines[k].item = i => now[k].item = Unlinked
                      /\ lines[k].item # i => now[k] = lines[k]
    OBVIOUS
  <2>1. lines[k] \in OrderLines
    BY <1>1
  <2>2. now[k] = IF lines[k].item = i THEN [lines[k] EXCEPT !.item = Unlinked] ELSE lines[k]
    OBVIOUS
  <2>3. CASE lines[k].item = i
    BY <2>1, <2>2, <2>3 DEF OrderLines
  <2>4. CASE lines[k].item # i
    BY <2>1, <2>2, <2>4
  <2> QED BY <2>3, <2>4
<1>3. DOMAIN now = DOMAIN lines
  OBVIOUS
<1>4. now \in Seq(OrderLines)
  <2>1. now = [k \in 1 .. Len(lines) |-> now[k]]
    BY <1>1
  <2> QED BY <1>1, <1>2, <1>3, <2>1
<1>5. SameAsked(lines, now, want)
  BY <1>2, <1>3, ChangesAssumption DEF SameAsked, LineKept
<1> QED BY <1>4, <1>5

LEMMA RemoveItemKeeps ==
  ASSUME ChangesInv, NEW e \in Requesters, NEW i \in Items, RemoveItem(e, i)
  PROVE  ChangesInv'
<1> DEFINE Freed(n) == [k \in DOMAIN orders[n].lines |->
                         IF orders[n].lines[k].item = i THEN [orders[n].lines[k] EXCEPT !.item = Unlinked]
                         ELSE orders[n].lines[k]]
<1>0. DocumentsOK
  BY DocumentsStand
<1>1. Opens(e) /\ desk' = desk /\ agreed' = agreed /\ UNCHANGED <<header, stage, inApproval>> /\ version' = version + 1
  BY DEF RemoveItem, AtOnce
<1>2. /\ DOMAIN demand' = DOMAIN demand \ {i} /\ \A j \in DOMAIN demand' : demand'[j] = demand[j]
      /\ demand' \in [DOMAIN demand' -> [quantity : LineQuantities, price : Prices]]
  BY <1>0 DEF RemoveItem, DocumentsOK
<1>3. orders' = [n \in DOMAIN orders |-> [orders[n] EXCEPT !.lines = Freed(n)]]
  BY DEF RemoveItem
<1>4. DOMAIN demand' \subseteq Items \ {i}
  BY <1>0, <1>2 DEF DocumentsOK
<1>5. \A n \in DOMAIN orders :
        orders'[n] \in OrderRows /\ SameAsked(orders[n].lines, orders'[n].lines, demand')
  <2> SUFFICES ASSUME NEW n \in DOMAIN orders
               PROVE  orders'[n] \in OrderRows /\ SameAsked(orders[n].lines, orders'[n].lines, demand')
    OBVIOUS
  <2>1. orders[n] \in OrderRows /\ orders[n].lines \in Seq(OrderLines)
    BY RowsOfOrders
  <2>2. Freed(n) \in Seq(OrderLines) /\ SameAsked(orders[n].lines, Freed(n), demand')
    BY <1>4, <2>1, LinesUnlinked
  <2> DEFINE lines == Freed(n)
  <2>3. orders'[n] = [orders[n] EXCEPT !.lines = lines]
    BY <1>3
  <2> HIDE DEF lines
  <2>4. orders'[n] \in OrderRows /\ orders'[n].lines = lines
    BY <2>1, <2>2, <2>3 DEF OrderRows, lines
  <2> QED BY <2>2, <2>4 DEF lines
<1> HIDE DEF Freed
<1>6. DOMAIN orders' = DOMAIN orders
  BY <1>3
<1>7. orders' \in Seq(OrderRows) /\ Len(orders') = Len(orders)
  <2>1. orders \in Seq(OrderRows)
    BY <1>0 DEF DocumentsOK
  <2>2. DOMAIN orders = 1 .. Len(orders) /\ Len(orders) \in Nat
    BY <2>1
  <2>3. orders' = [n \in 1 .. Len(orders) |-> orders'[n]]
    BY <1>3, <1>6, <2>2
  <2> QED BY <1>5, <2>2, <2>3
<1>8. OrdersKept(orders, orders', demand') /\ Shrinks(demand, demand')
  <2>1. OrdersKept(orders, orders', demand')
    BY <1>5, <1>6 DEF OrdersKept, SameAsked
  <2>2. Shrinks(demand, demand')
    BY <1>2 DEF Shrinks
  <2> QED BY <2>1, <2>2
<1>9. DocumentsOK'
  BY <1>0, <1>1, <1>2, <1>4, <1>7 DEF DocumentsOK
<1> QED BY <1>1, <1>6, <1>8, <1>9, OpensKeeps

(***************************************************************************)
(* The steps of a new approval                                              *)
(***************************************************************************)
(* A request that answers with success: what was agreed before is settled, and
   so is what it agrees. *)
LEMMA SucceedsKeeps ==
  ASSUME ChangesInv, NEW e \in Requesters, desk[e] # Nobody, Succeeds(e),
         UNCHANGED <<undisturbed, changeCalls>>, DocumentsOK', DOMAIN orders \subseteq DOMAIN orders',
         agreed \/ e \in undisturbed => SettledBy(orders', demand'),
         agreed => \A x \in Requesters \ {e} : WritesWanted(desk[x], orders', demand')
  PROVE  ChangesInv'
<1>1. desk' = [desk EXCEPT ![e] = Nobody] /\ (agreed' => agreed \/ e \in undisturbed)
  BY DocumentsStand DEF Succeeds, Becomes, DocumentsOK
<1>2. DeskOK(Nobody, orders') /\ AboutToSettle(Nobody, orders', demand') /\ WritesWanted(Nobody, orders', demand')
  BY DEF DeskOK, Nobody, AboutToSettle, WritesWanted
<1>3. agreed' => /\ SettledBy(orders', demand')
                 /\ \/ e \in undisturbed
                    \/ \A x \in Requesters \ {e} : WritesWanted(desk[x], orders', demand')
  BY <1>1
<1> QED BY <1>1, <1>2, <1>3, GoesOnKeeps

LEMMA WhatIsSettled ==
  ASSUME ChangesInv
  PROVE  /\ agreed => SettledBy(orders, demand) /\ \A x \in Requesters : WritesWanted(desk[x], orders, demand)
         /\ \A e \in Requesters : DeskOK(desk[e], orders)
         /\ \A e \in undisturbed : AboutToSettle(desk[e], orders, demand)
BY DEF ChangesInv, ChangesTypes, DesksOK, StaysSettled, WillSettle

LEMMA NoteSplitKeeps ==
  ASSUME ChangesInv, NEW e \in Requesters, NoteSplit(e) PROVE ChangesInv'
<1> DEFINE n == desk[e].order
           r == [orders[n] EXCEPT !.version = @ + 1, !.change = "split"]
<1>0. DocumentsOK /\ desk[e].step = "note" /\ n \in DOMAIN orders
  BY DocumentsStand, WhatIsSettled DEF NoteSplit, DeskOK
<1>1. /\ desk[e] # Nobody /\ Succeeds(e) /\ UNCHANGED <<undisturbed, changeCalls, demand, header, stage, inApproval, version>>
      /\ orders' = [orders EXCEPT ![n] = r]
  BY DEF NoteSplit, Nobody
<1>2. r \in OrderRows /\ r.lines = orders[n].lines
  <2>1. orders[n] \in OrderRows /\ orders[n].version + 1 \in Nat /\ "split" \in Changes
    BY <1>0, RowsOfOrders DEF Changes
  <2> QED BY <2>1, RowRenumbered
<1> HIDE DEF n, r
<1>3. SameAsked(orders[n].lines, r.lines, demand)
  BY <1>2, SameLines
<1>4. orders \in Seq(OrderRows)
  BY <1>0 DEF DocumentsOK
<1>5. orders' \in Seq(OrderRows) /\ Len(orders') = Len(orders) /\ DOMAIN orders' = DOMAIN orders
  BY <1>0, <1>1, <1>2, <1>4, RowReplaced
<1>6. OrdersKept(orders, orders', demand) /\ Shrinks(demand, demand)
  BY <1>0, <1>1, <1>2, <1>3, <1>4, RowKept, NothingMoved
<1>7. DocumentsOK'
  <2>1. agreed' \in BOOLEAN
    BY <1>1 DEF Succeeds
  <2> QED BY <1>0, <1>1, <1>5, <2>1 DEF DocumentsOK
<1>8. agreed \/ e \in undisturbed => SettledBy(orders', demand')
  <2>1. agreed \/ e \in undisturbed => SettledBy(orders, demand)
    BY <1>0, WhatIsSettled DEF AboutToSettle
  <2> QED BY <1>1, <1>6, <2>1, KeptIsSettled
<1>9. agreed => \A x \in Requesters \ {e} : WritesWanted(desk[x], orders', demand')
  BY <1>1, <1>6, WhatIsSettled, WritesOn
<1> QED BY <1>1, <1>5, <1>7, <1>8, <1>9, SucceedsKeeps

(* A line made for an item, with what is wanted of it. *)
LEMMA MadeAsWanted ==
  ASSUME DocumentsOK, NEW i \in DOMAIN demand
  PROVE  /\ OrderLine(i, demand[i].quantity, demand[i].price) \in OrderLines
         /\ OrderLine(i, demand[i].quantity, demand[i].price).item = i
         /\ Agrees(OrderLine(i, demand[i].quantity, demand[i].price), demand)
         /\ demand[i].quantity \in LineQuantities /\ demand[i].price \in Prices
<1>1. /\ i \in Items /\ demand[i].quantity \in LineQuantities /\ demand[i].price \in Prices
      /\ 0 \in 0 .. MaxQuantity
  BY ChangesAssumption DEF DocumentsOK
<1> QED BY <1>1 DEF OrderLine, OrderLines, Agrees

(* A new order is a row. *)
LEMMA FreshIsRow ==
  ASSUME NEW lines \in Seq(OrderLines), NEW vendor \in Vendors, NEW terms \in Terms,
         NEW state \in OrderStates, NEW stocked \in BOOLEAN
  PROVE  FreshOrder(lines, vendor, terms, state, stocked) \in OrderRows
BY DEF FreshOrder, OrderRows

(* The lines of the requisition, as an order's, ask for what is wanted. *)
LEMMA LinesAsWanted ==
  ASSUME DocumentsOK
  PROVE  LinesWanted \in Seq(OrderLines) /\ \A k \in DOMAIN LinesWanted : Agrees(LinesWanted[k], demand)
<1> DEFINE items == Numbered(DOMAIN demand)
           lines == [k \in DOMAIN items |-> OrderLine(items[k], demand[items[k]].quantity, demand[items[k]].price)]
<1>1. IsFiniteSet(DOMAIN demand)
  BY ChangesAssumption, FS_Subset DEF DocumentsOK
<1>2. Cardinality(DOMAIN demand) \in Nat /\ items \in [1 .. Cardinality(DOMAIN demand) -> DOMAIN demand]
  BY <1>1, NumberedIsAll
<1>3. \A k \in DOMAIN items : lines[k] \in OrderLines /\ Agrees(lines[k], demand)
  BY <1>2, MadeAsWanted
<1>4. DOMAIN items = 1 .. Cardinality(DOMAIN demand) /\ DOMAIN lines = DOMAIN items
  BY <1>2
<1>5. lines \in Seq(OrderLines)
  <2>1. lines = [k \in 1 .. Cardinality(DOMAIN demand) |-> lines[k]]
    BY <1>4
  <2> HIDE DEF lines
  <2> QED BY <1>2, <1>3, <1>4, <2>1
<1>6. LinesWanted = lines
  BY DEF LinesWanted
<1> HIDE DEF items, lines
<1> QED BY <1>3, <1>4, <1>5, <1>6

LEMMA AutoOrderIsRow ==
  ASSUME DocumentsOK
  PROVE  AutoOrder \in OrderRows /\ \A k \in DOMAIN AutoOrder.lines : Agrees(AutoOrder.lines[k], demand)
<1> DEFINE state == IF DOMAIN demand \in SUBSET TwoWay \ {{}} THEN "fully_received" ELSE "ordered"
           stocked == ~ (DOMAIN demand \subseteq TwoWay)
<1>1. AutoOrder = FreshOrder(LinesWanted, header.vendor, header.terms, state, stocked)
  BY DEF AutoOrder
<1>2. header.vendor \in Vendors /\ header.terms \in Terms
  BY DEF DocumentsOK
<1>3. state \in OrderStates /\ stocked \in BOOLEAN
  BY DEF OrderStates, Terminal
<1> HIDE DEF state, stocked
<1>4. AutoOrder \in OrderRows
  BY <1>1, <1>2, <1>3, LinesAsWanted, FreshIsRow
<1>5. AutoOrder.lines = LinesWanted
  BY <1>1 DEF FreshOrder
<1> QED BY <1>4, <1>5, LinesAsWanted

LEMMA OrderOnceKeeps ==
  ASSUME ChangesInv, NEW e \in Requesters, OrderOnce(e) PROVE ChangesInv'
<1>0. /\ DocumentsOK /\ desk[e].step = "order" /\ desk[e] # Nobody
      /\ UNCHANGED <<undisturbed, changeCalls, demand, header, inApproval, version, agreed>>
  BY DocumentsStand DEF OrderOnce, Nobody
<1>1. CASE orders = << >> /\ orders' # orders
  <2> DEFINE fresh == AutoOrder
             d == [step |-> "compare"]
  <2>1. orders' = <<fresh>> /\ stage' = "po_created" /\ desk' = [desk EXCEPT ![e] = d]
    BY <1>1 DEF OrderOnce, Becomes
  <2>7. fresh \in OrderRows /\ \A k \in DOMAIN fresh.lines : Agrees(fresh.lines[k], demand)
    BY <1>0, AutoOrderIsRow
  <2> HIDE DEF fresh
  <2>9. orders' \in Seq(OrderRows) /\ Len(orders') = 1 /\ DOMAIN orders' = {1} /\ orders'[1] = fresh
    BY <2>1, <2>7
  <2>10. DocumentsOK' /\ DOMAIN orders \subseteq DOMAIN orders'
    BY <1>0, <1>1, <2>1, <2>9, ChangesAssumption DEF DocumentsOK, ReqStages, ReadOnly
  <2>11. DeskOK(d, orders') /\ AboutToSettle(d, orders', demand') /\ WritesWanted(d, orders', demand')
    <3>1. orders' # << >>
      BY <2>9
    <3> QED BY <2>9, <3>1 DEF DeskOK, AboutToSettle, WritesWanted
  <2>12. SettledBy(orders', demand')
    BY <1>0, <2>7, <2>9 DEF SettledBy
  <2>13. agreed => \A x \in Requesters \ {e} : WritesWanted(desk[x], orders', demand')
    BY <1>0, <1>1, WhatIsSettled DEF WritesWanted, DeskOK, AmendmentOK, SplitOK
  <2> HIDE DEF d
  <2> QED BY <1>0, <2>1, <2>10, <2>11, <2>12, <2>13, GoesOnKeeps
<1>2. CASE orders' = orders
  <2>1. PICK d \in {[step |-> "compare"], Nobody} :
          /\ desk' = [desk EXCEPT ![e] = d]
          /\ d.step = "compare" => Len(orders) = 1
          /\ stage' \in ReqStages
    <3>1. CASE orders = << >>
      BY <1>2, <3>1 DEF OrderOnce
    <3>2. CASE orders # << >>
      BY <1>0, <3>2 DEF OrderOnce, Becomes, Nobody, DocumentsOK
    <3> QED BY <3>1, <3>2
  <2>2. DocumentsOK'
    BY <1>0, <1>2, <2>1 DEF DocumentsOK
  <2>3. DeskOK(d, orders') /\ AboutToSettle(d, orders', demand') /\ WritesWanted(d, orders', demand')
    <3>1. CASE d = Nobody
      BY <3>1 DEF DeskOK, AboutToSettle, WritesWanted, Nobody
    <3>2. CASE d = [step |-> "compare"]
      <4>1. Len(orders') = 1 /\ orders' # << >>
        BY <1>2, <2>1, <3>2
      <4> QED BY <3>2, <4>1 DEF DeskOK, AboutToSettle, WritesWanted
    <3> QED BY <3>1, <3>2
  <2>4. agreed' => SettledBy(orders', demand') /\ \A x \in Requesters \ {e} : WritesWanted(desk[x], orders', demand')
    BY <1>0, <1>2, WhatIsSettled
  <2> QED BY <1>0, <1>2, <2>1, <2>2, <2>3, <2>4, GoesOnKeeps
<1>3. orders # << >> => orders' = orders
  BY DEF OrderOnce
<1> QED BY <1>1, <1>2, <1>3

(* The lines of an order that do not differ are as is wanted. *)
LEMMA NoDifference ==
  ASSUME NEW row, NEW k \in DOMAIN row.lines
  PROVE  /\ row.lines[k].item \in DOMAIN demand =>
              /\ <<k, "quantity">> \notin Differs(row) => row.lines[k].quantity = demand[row.lines[k].item].quantity
              /\ <<k, "price">> \notin Differs(row) => row.lines[k].price = demand[row.lines[k].item].price
         /\ k \notin {at[1] : at \in Differs(row)} => Agrees(row.lines[k], demand)
<1>1. \A field \in LineFields : <<k, field>> \in (DOMAIN row.lines) \X LineFields
  OBVIOUS
<1>2. \A field \in LineFields :
        row.lines[k].item \in DOMAIN demand /\ <<k, field>> \notin Differs(row) =>
          demand[row.lines[k].item][field] = row.lines[k][field]
  BY <1>1 DEF Differs
<1>3. row.lines[k].item \in DOMAIN demand =>
        /\ <<k, "quantity">> \notin Differs(row) => row.lines[k].quantity = demand[row.lines[k].item].quantity
        /\ <<k, "price">> \notin Differs(row) => row.lines[k].price = demand[row.lines[k].item].price
  BY <1>2 DEF LineFields
<1>4. k \notin {at[1] : at \in Differs(row)} =>
        <<k, "quantity">> \notin Differs(row) /\ <<k, "price">> \notin Differs(row)
  OBVIOUS
<1> QED BY <1>3, <1>4 DEF Agrees

(* Nor is anything unsettled on an only order that does not differ. *)
LEMMA OnlyOrderAgrees ==
  ASSUME Len(orders) = 1, orders \in Seq(OrderRows), Differs(orders[1]) = {}
  PROVE  SettledBy(orders, demand)
<1>1. DOMAIN orders = {1}
  OBVIOUS
<1>2. \A k \in DOMAIN orders[1].lines : Agrees(orders[1].lines[k], demand)
  BY NoDifference
<1> QED BY <1>1, <1>2 DEF SettledBy

LEMMA CompareKeeps ==
  ASSUME ChangesInv, NEW e \in Requesters, Compare(e) PROVE ChangesInv'
<1> DEFINE n == Len(orders)
           row == orders[n]
           moving == {at[1] : at \in Differs(row)}
           amends == [step |-> "amend", order |-> n, version |-> row.version + 1, terms |-> header.terms,
                      new |-> [at \in Applied(row) |-> demand[row.lines[at[1]].item][at[2]]]]
           splits == [step |-> "split", order |-> n, vendor |-> header.vendor, terms |-> header.terms,
                      lines |-> [k \in moving |-> OrderLine(row.lines[k].item,
                                                             demand[row.lines[k].item].quantity,
                                                             demand[row.lines[k].item].price)]]
<1>0. /\ DocumentsOK /\ desk[e].step = "compare" /\ desk[e] # Nobody /\ orders # << >>
      /\ UNCHANGED <<demand, header, stage, inApproval, version, orders, undisturbed, changeCalls>>
  <2>1. desk[e].step = "compare" /\ UNCHANGED <<demand, header, stage, inApproval, version, orders, undisturbed, changeCalls>>
    BY DEF Compare
  <2>2. desk[e] # Nobody
    BY <2>1 DEF Nobody
  <2>3. orders # << >>
    BY <2>1, WhatIsSettled DEF DeskOK
  <2> QED BY <2>1, <2>2, <2>3, DocumentsStand
<1>1. n \in DOMAIN orders /\ n \in Nat /\ orders \in Seq(OrderRows)
  BY <1>0 DEF DocumentsOK
<1>2. /\ row \in OrderRows /\ row.version \in Nat
      /\ row.lines \in Seq(OrderLines) /\ header.vendor \in Vendors /\ header.terms \in Terms
  BY <1>0, <1>1, RowsOfOrders DEF DocumentsOK
<1>3. e \in undisturbed => n = 1
  BY <1>0, WhatIsSettled DEF AboutToSettle
<1>4. \/ Succeeds(e) /\ Differs(row) = {}
      \/ Becomes(e, amends) /\ UNCHANGED agreed
      \/ Becomes(e, Nobody) /\ UNCHANGED agreed
      \/ Becomes(e, splits) /\ UNCHANGED agreed
  <2> HIDE DEF amends, splits
  <2>1. moving = {} => Differs(row) = {}
    OBVIOUS
  <2> QED BY <2>1 DEF Compare, Applied, amends, splits
<1>5. CASE Succeeds(e) /\ Differs(row) = {}
  <2>1. DocumentsOK'
    BY <1>0, <1>5 DEF DocumentsOK, Succeeds
  <2>2. e \in undisturbed => SettledBy(orders, demand)
    BY <1>1, <1>3, <1>5, OnlyOrderAgrees
  <2>3. agreed \/ e \in undisturbed => SettledBy(orders', demand')
    BY <1>0, <2>2, WhatIsSettled
  <2>4. agreed => \A x \in Requesters \ {e} : WritesWanted(desk[x], orders', demand')
    BY <1>0, WhatIsSettled
  <2> QED BY <1>0, <1>5, <2>1, <2>3, <2>4, SucceedsKeeps
<1>6. ASSUME UNCHANGED agreed
      PROVE  /\ DocumentsOK' /\ DOMAIN orders \subseteq DOMAIN orders'
             /\ agreed' => SettledBy(orders', demand') /\ \A x \in Requesters \ {e} : WritesWanted(desk[x], orders', demand')
  BY <1>0, <1>6, WhatIsSettled DEF DocumentsOK
<1>7. CASE Becomes(e, Nobody) /\ UNCHANGED agreed
  <2>1. DeskOK(Nobody, orders') /\ AboutToSettle(Nobody, orders', demand') /\ WritesWanted(Nobody, orders', demand')
    BY DEF DeskOK, Nobody, AboutToSettle, WritesWanted
  <2> QED BY <1>0, <1>6, <1>7, <2>1, GoesOnKeeps DEF Becomes
<1>8. CASE Becomes(e, amends) /\ UNCHANGED agreed
  <2> DEFINE d == amends
  <2>1. \A k \in DOMAIN row.lines : \A field \in LineFields :
          <<k, field>> \in Applied(row) =>
            row.lines[k].item \in DOMAIN demand /\ d.new[<<k, field>>] = demand[row.lines[k].item][field]
    BY DEF Applied, Differs
  <2>2. \A at \in Applied(row) :
          /\ at[2] \in LineFields /\ row.lines[at[1]].item \in DOMAIN demand
          /\ d.new[at] = demand[row.lines[at[1]].item][at[2]]
    BY DEF Applied, Differs
  <2>3. \A at \in DOMAIN d.new : d.new[at] \in IF at[2] = "quantity" THEN LineQuantities ELSE Prices
    BY <1>0, <2>2, MadeAsWanted DEF LineFields
  <2>4. DeskOK(d, orders')
    <3>1. AmendmentOK(d, orders)
      BY <1>1, <1>2, <2>3 DEF AmendmentOK
    <3> QED BY <1>0, <3>1 DEF DeskOK
  <2>5. Carries(d, orders, demand)
    BY <2>1 DEF Carries, LineFields
  <2>6. Completes(d, orders, demand)
    BY NoDifference DEF Completes, Applied
  <2>7. e \in undisturbed => AboutToSettle(d, orders', demand')
    BY <1>0, <1>3, <2>5, <2>6 DEF AboutToSettle
  <2>8. WritesWanted(d, orders', demand')
    BY <1>0, <2>5 DEF WritesWanted
  <2>9. desk' = [desk EXCEPT ![e] = d]
    BY <1>8 DEF Becomes
  <2> HIDE DEF amends, d
  <2> QED BY <1>0, <1>6, <1>8, <2>4, <2>7, <2>8, <2>9, GoesOnKeeps
<1>9. CASE Becomes(e, splits) /\ UNCHANGED agreed
  <2> DEFINE d == splits
  <2>1. \A k \in moving : k \in DOMAIN row.lines /\ row.lines[k].item \in DOMAIN demand
    BY DEF Differs
  <2>2. \A k \in moving : /\ d.lines[k] \in OrderLines /\ Agrees(d.lines[k], demand)
                           /\ d.lines[k].item = row.lines[k].item
    BY <1>0, <2>1, MadeAsWanted
  <2>3. IsFiniteSet(moving)
    <3>1. DOMAIN row.lines = 1 .. Len(row.lines) /\ Len(row.lines) \in Nat
      BY <1>2
    <3>2. IsFiniteSet(1 .. Len(row.lines))
      <4> DEFINE last == Len(row.lines)
      <4>1. 1 \in Int /\ last \in Int
        BY <3>1
      <4> HIDE DEF last
      <4>2. IsFiniteSet(1 .. last)
        BY <4>1, FS_Interval
      <4> QED BY <4>2 DEF last
    <3> QED BY <2>1, <3>1, <3>2, FS_Subset
  <2>4. DeskOK(d, orders')
    <3>1. SplitOK(d, orders)
      BY <1>1, <1>2, <2>2, <2>3 DEF SplitOK
    <3> QED BY <1>0, <3>1 DEF DeskOK
  <2>5. SplitCarries(d, demand)
    BY <2>2 DEF SplitCarries
  <2>6. SplitCompletes(d, orders, demand)
    BY <2>2, NoDifference DEF SplitCompletes
  <2>7. e \in undisturbed => AboutToSettle(d, orders', demand')
    BY <1>0, <1>3, <2>5, <2>6 DEF AboutToSettle
  <2>8. WritesWanted(d, orders', demand')
    BY <1>0, <2>5 DEF WritesWanted
  <2>9. desk' = [desk EXCEPT ![e] = d]
    BY <1>9 DEF Becomes
  <2> HIDE DEF splits, d
  <2> QED BY <1>0, <1>6, <1>9, <2>4, <2>7, <2>8, <2>9, GoesOnKeeps
<1> QED BY <1>4, <1>5, <1>7, <1>8, <1>9

(* What another request is about to write stays what is wanted, as long as the
   orders it knows keep their items. *)
LEMMA WritesOnItems ==
  ASSUME NEW os, NEW os2, NEW want, NEW d, DeskOK(d, os), WritesWanted(d, os, want),
         \A n \in DOMAIN os :
           /\ DOMAIN os2[n].lines = DOMAIN os[n].lines
           /\ \A k \in DOMAIN os[n].lines : os2[n].lines[k].item = os[n].lines[k].item
  PROVE  WritesWanted(d, os2, want)
<1>1. CASE d.step = "amend"
  <2>1. d.order \in DOMAIN os /\ Carries(d, os, want)
    BY <1>1 DEF DeskOK, AmendmentOK, WritesWanted
  <2>2. Carries(d, os2, want)
    BY <2>1 DEF Carries
  <2> QED BY <1>1, <2>2 DEF WritesWanted
<1>2. CASE d.step # "amend"
  BY <1>2 DEF WritesWanted
<1> QED BY <1>1, <1>2

LEMMA LineAmended ==
  ASSUME NEW line \in OrderLines, NEW q \in LineQuantities, NEW p \in Prices,
         NEW now, now = [line EXCEPT !.quantity = q, !.price = p]
  PROVE  now \in OrderLines
BY DEF OrderLines

LEMMA NumberedIsSeq ==
  ASSUME NEW S, NEW m \in Nat, NEW f, f = [k \in 1 .. m |-> f[k]], \A k \in 1 .. m : f[k] \in S
  PROVE  f \in Seq(S)
OBVIOUS

LEMMA RowAmended ==
  ASSUME NEW row \in OrderRows, NEW w \in Nat, NEW terms \in Terms, NEW lines \in Seq(OrderLines),
         NEW r, r = [row EXCEPT !.version = w, !.change = "amendment", !.terms = terms, !.totalled = TRUE,
                                !.lines = lines]
  PROVE  r \in OrderRows
BY DEF OrderRows

LEMMA AmendOrderKeeps ==
  ASSUME ChangesInv, NEW e \in Requesters, AmendOrder(e) PROVE ChangesInv'
<1> DEFINE d == desk[e]
           n == d.order
           old == orders[n].lines
           New(k, field, was) == IF <<k, field>> \in DOMAIN d.new THEN d.new[<<k, field>>] ELSE was
           lines == [k \in DOMAIN old |-> [old[k] EXCEPT !.quantity = New(k, "quantity", @),
                                                         !.price = New(k, "price", @)]]
           r == [orders[n] EXCEPT !.version = d.version, !.change = "amendment", !.terms = d.terms,
                                  !.totalled = TRUE, !.lines = lines]
<1>0. /\ DocumentsOK /\ d.step = "amend" /\ desk[e] # Nobody
      /\ UNCHANGED <<demand, header, stage, inApproval, version, undisturbed, changeCalls>> /\ Succeeds(e)
  BY DocumentsStand DEF AmendOrder, Nobody
<1>1. /\ AmendmentOK(d, orders) /\ (agreed => SettledBy(orders, demand) /\ Carries(d, orders, demand))
      /\ e \in undisturbed => Len(orders) = 1 /\ Carries(d, orders, demand) /\ Completes(d, orders, demand)
  BY <1>0, WhatIsSettled DEF DeskOK, WritesWanted, AboutToSettle
<1>2. orders' = [orders EXCEPT ![n] = r]
  BY DEF AmendOrder
<1>3. /\ n \in DOMAIN orders /\ orders[n] \in OrderRows /\ old \in Seq(OrderLines)
      /\ d.version \in Nat /\ d.terms \in Terms /\ orders \in Seq(OrderRows)
  BY <1>0, <1>1, RowsOfOrders DEF AmendmentOK, DocumentsOK
<1>4. \A k \in DOMAIN old :
        /\ lines[k] \in OrderLines /\ lines[k].item = old[k].item
        /\ lines[k].quantity = New(k, "quantity", old[k].quantity)
        /\ lines[k].price = New(k, "price", old[k].price)
  <2> SUFFICES ASSUME NEW k \in DOMAIN old
               PROVE  /\ lines[k] \in OrderLines /\ lines[k].item = old[k].item
                      /\ lines[k].quantity = New(k, "quantity", old[k].quantity)
                      /\ lines[k].price = New(k, "price", old[k].price)
    OBVIOUS
  <2> DEFINE q == New(k, "quantity", old[k].quantity)
             p == New(k, "price", old[k].price)
             line == old[k]
             now == lines[k]
  <2>1. line \in OrderLines
    BY <1>3
  <2>2. line.quantity \in LineQuantities /\ line.price \in Prices
    BY <2>1 DEF OrderLines
  <2>3. q \in LineQuantities
    <3>1. <<k, "quantity">> \in DOMAIN d.new => d.new[<<k, "quantity">>] \in LineQuantities
      BY <1>1 DEF AmendmentOK
    <3> QED BY <2>2, <3>1
  <2>4. p \in Prices
    <3>1. <<k, "price">> \in DOMAIN d.new => d.new[<<k, "price">>] \in Prices
      BY <1>1 DEF AmendmentOK
    <3> QED BY <2>2, <3>1
  <2>5. now = [line EXCEPT !.quantity = q, !.price = p]
    OBVIOUS
  <2> HIDE DEF q, p, line, now
  <2>6. now \in OrderLines
    BY <2>1, <2>3, <2>4, <2>5, LineAmended
  <2>7. now.item = line.item /\ now.quantity = q /\ now.price = p
    BY <2>1, <2>5 DEF OrderLines
  <2> QED BY <2>6, <2>7 DEF q, p, line, now
<1>5. DOMAIN lines = DOMAIN old
  OBVIOUS
<1>6. lines \in Seq(OrderLines)
  <2>1. DOMAIN old = 1 .. Len(old) /\ Len(old) \in Nat
    BY <1>3
  <2>2. lines = [k \in 1 .. Len(old) |-> lines[k]]
    BY <2>1
  <2> HIDE DEF lines
  <2>3. \A k \in 1 .. Len(old) : lines[k] \in OrderLines
    BY <1>4, <2>1
  <2> QED BY <2>1, <2>2, <2>3, NumberedIsSeq
<1> HIDE DEF lines
<1>7. r \in OrderRows /\ r.lines = lines
  <2>1. r = [orders[n] EXCEPT !.version = d.version, !.change = "amendment", !.terms = d.terms,
                              !.totalled = TRUE, !.lines = lines]
    OBVIOUS
  <2> DEFINE row == orders[n]
             w == d.version
             terms == d.terms
  <2>2. row \in OrderRows /\ w \in Nat /\ terms \in Terms
    BY <1>3
  <2> HIDE DEF r, row, w, terms
  <2>3. r = [row EXCEPT !.version = w, !.change = "amendment", !.terms = terms, !.totalled = TRUE, !.lines = lines]
    BY <2>1 DEF row, w, terms
  <2>4. r \in OrderRows
    BY <1>6, <2>2, <2>3, RowAmended
  <2>5. r.lines = lines
    BY <2>2, <2>3 DEF OrderRows
  <2> QED BY <2>4, <2>5
<1> HIDE DEF r
<1>8. /\ orders' \in Seq(OrderRows) /\ Len(orders') = Len(orders) /\ DOMAIN orders' = DOMAIN orders
      /\ orders'[n] = r /\ \A m \in DOMAIN orders : m # n => orders'[m] = orders[m]
  BY <1>2, <1>3, <1>7, RowReplaced
<1>9. \A m \in DOMAIN orders :
        /\ DOMAIN orders'[m].lines = DOMAIN orders[m].lines
        /\ \A k \in DOMAIN orders[m].lines : orders'[m].lines[k].item = orders[m].lines[k].item
  BY <1>4, <1>5, <1>7, <1>8
<1>10. DocumentsOK'
  <2>1. agreed' \in BOOLEAN
    BY <1>0 DEF Succeeds
  <2> QED BY <1>0, <1>8, <2>1 DEF DocumentsOK
<1>11. \A k \in DOMAIN old :
         Carries(d, orders, demand) /\ (Completes(d, orders, demand) \/ Agrees(old[k], demand)) =>
           Agrees(lines[k], demand)
  BY <1>4 DEF Carries, Completes, Agrees
<1>12. agreed => SettledBy(orders', demand')
  <2> SUFFICES ASSUME agreed, NEW m \in DOMAIN orders, NEW k \in DOMAIN orders[m].lines,
                      NewestOf(m, orders'[m].lines[k].item, orders')
               PROVE  Agrees(orders'[m].lines[k], demand)
    BY <1>0, <1>8, <1>9 DEF SettledBy
  <2>1. NewestOf(m, orders[m].lines[k].item, orders)
    BY <1>8, <1>9 DEF NewestOf
  <2>2. Agrees(orders[m].lines[k], demand)
    BY <1>1, <2>1 DEF SettledBy
  <2>3. CASE m = n
    BY <1>1, <1>7, <1>8, <1>11, <2>2, <2>3
  <2>4. CASE m # n
    BY <1>8, <2>2, <2>4
  <2> QED BY <2>3, <2>4
<1>13. e \in undisturbed => SettledBy(orders', demand')
  <2> SUFFICES ASSUME e \in undisturbed PROVE SettledBy(orders', demand')
    OBVIOUS
  <2>1. DOMAIN orders = {1} /\ n = 1
    BY <1>1, <1>3
  <2>2. \A k \in DOMAIN old : Agrees(lines[k], demand)
    BY <1>1, <1>11
  <2> QED BY <1>0, <1>5, <1>7, <1>8, <2>1, <2>2 DEF SettledBy
<1>14. agreed => \A x \in Requesters \ {e} : WritesWanted(desk[x], orders', demand')
  BY <1>0, <1>9, WhatIsSettled, WritesOnItems
<1> QED BY <1>0, <1>8, <1>10, <1>12, <1>13, <1>14, SucceedsKeeps

LEMMA SplitOrderKeeps ==
  ASSUME ChangesInv, NEW e \in Requesters, SplitOrder(e) PROVE ChangesInv'
<1> DEFINE d == desk[e]
           moved == Numbered(DOMAIN d.lines)
           lines == [k \in DOMAIN moved |-> d.lines[moved[k]]]
           fresh == FreshOrder(lines, d.vendor, d.terms, "draft", FALSE)
           note == [step |-> "note", order |-> d.order]
<1>0. /\ DocumentsOK /\ d.step = "split" /\ desk[e] # Nobody /\ Len(orders) < MaxOrders
      /\ UNCHANGED <<demand, header, stage, inApproval, version, undisturbed, agreed, changeCalls>>
      /\ orders' = Append(orders, fresh) /\ desk' = [desk EXCEPT ![e] = note]
  BY DocumentsStand DEF SplitOrder, Nobody, Becomes
<1>1. /\ SplitOK(d, orders) /\ (agreed => SettledBy(orders, demand) /\ SplitCarries(d, demand))
      /\ e \in undisturbed => Len(orders) = 1 /\ SplitCarries(d, demand) /\ SplitCompletes(d, orders, demand)
  BY <1>0, WhatIsSettled DEF DeskOK, WritesWanted, AboutToSettle
<1>2. /\ Cardinality(DOMAIN d.lines) \in Nat
      /\ moved \in [1 .. Cardinality(DOMAIN d.lines) -> DOMAIN d.lines]
      /\ \A j \in DOMAIN d.lines : \E k \in 1 .. Cardinality(DOMAIN d.lines) : moved[k] = j
  BY <1>1, NumberedIsAll DEF SplitOK
<1>3. /\ DOMAIN lines = 1 .. Cardinality(DOMAIN d.lines)
      /\ \A k \in DOMAIN lines : \E j \in DOMAIN d.lines : lines[k] = d.lines[j]
      /\ \A j \in DOMAIN d.lines : \E k \in DOMAIN lines : lines[k] = d.lines[j]
  BY <1>2
<1>4. lines \in Seq(OrderLines)
  <2>1. \A k \in DOMAIN lines : lines[k] \in OrderLines
    BY <1>1, <1>3 DEF SplitOK
  <2>2. lines = [k \in 1 .. Cardinality(DOMAIN d.lines) |-> lines[k]]
    BY <1>3
  <2>3. \A k \in 1 .. Cardinality(DOMAIN d.lines) : lines[k] \in OrderLines
    BY <1>3, <2>1
  <2> HIDE DEF lines
  <2> QED BY <1>2, <2>2, <2>3, NumberedIsSeq
<1> HIDE DEF moved, lines
<1>5. fresh \in OrderRows /\ fresh.lines = lines
  <2>1. fresh \in OrderRows
    BY <1>1, <1>4, FreshIsRow DEF SplitOK, OrderStates
  <2>2. fresh.lines = lines
    BY DEF FreshOrder
  <2> QED BY <2>1, <2>2
<1> HIDE DEF fresh
<1>6. orders \in Seq(OrderRows) /\ d.order \in DOMAIN orders
  BY <1>0, <1>1 DEF DocumentsOK, SplitOK
<1>7. /\ orders' \in Seq(OrderRows) /\ Len(orders') = Len(orders) + 1
      /\ DOMAIN orders' = DOMAIN orders \cup {Len(orders) + 1}
      /\ \A m \in DOMAIN orders : orders'[m] = orders[m] /\ m < Len(orders) + 1
      /\ orders'[Len(orders) + 1] = fresh
  BY <1>0, <1>5, <1>6
<1>8. DocumentsOK'
  <2>1. Len(orders') <= MaxOrders
    BY <1>0, <1>6, <1>7, ChangesAssumption
  <2> QED BY <1>0, <1>7, <2>1 DEF DocumentsOK
<1>9. SplitCarries(d, demand) => \A k \in DOMAIN lines : Agrees(lines[k], demand)
  BY <1>3 DEF SplitCarries
<1>10. ASSUME SplitCarries(d, demand),
              \A m \in DOMAIN orders : \A k \in DOMAIN orders[m].lines :
                \/ NewestOf(m, orders[m].lines[k].item, orders) => Agrees(orders[m].lines[k], demand)
                \/ \E l \in DOMAIN lines : lines[l].item = orders[m].lines[k].item
       PROVE  SettledBy(orders', demand')
  <2> SUFFICES ASSUME NEW m \in DOMAIN orders', NEW k \in DOMAIN orders'[m].lines,
                      NewestOf(m, orders'[m].lines[k].item, orders')
               PROVE  Agrees(orders'[m].lines[k], demand)
    BY <1>0 DEF SettledBy
  <2>1. CASE m = Len(orders) + 1
    BY <1>5, <1>7, <1>9, <1>10, <2>1
  <2>2. CASE m \in DOMAIN orders
    <3>1. orders'[m] = orders[m] /\ k \in DOMAIN orders[m].lines /\ Len(orders) + 1 > m
      BY <1>6, <1>7, <2>2
    <3>2. NewestOf(m, orders[m].lines[k].item, orders)
      BY <1>7, <3>1 DEF NewestOf
    <3>3. ~ \E l \in DOMAIN lines : lines[l].item = orders[m].lines[k].item
      <4>1. Len(orders) + 1 \in DOMAIN orders' /\ orders'[Len(orders) + 1].lines = lines
        BY <1>5, <1>7
      <4> QED BY <3>1, <4>1 DEF NewestOf
    <3> QED BY <1>10, <2>2, <3>1, <3>2, <3>3
  <2> QED BY <1>7, <2>1, <2>2
<1>11. agreed => SettledBy(orders', demand')
  BY <1>1, <1>10 DEF SettledBy
<1>12. e \in undisturbed => SettledBy(orders', demand')
  <2> SUFFICES ASSUME e \in undisturbed PROVE SettledBy(orders', demand')
    OBVIOUS
  <2>1. DOMAIN orders = {1} /\ d.order = 1
    BY <1>1, <1>6
  <2>2. ASSUME NEW m \in DOMAIN orders, NEW k \in DOMAIN orders[m].lines
        PROVE  \/ Agrees(orders[m].lines[k], demand)
               \/ \E l \in DOMAIN lines : lines[l].item = orders[m].lines[k].item
    <3>1. m = d.order
      BY <2>1
    <3>2. CASE k \in DOMAIN d.lines
      <4>1. d.lines[k].item = orders[m].lines[k].item
        BY <1>1, <3>1, <3>2 DEF SplitCompletes
      <4> QED BY <1>3, <3>2, <4>1
    <3>3. CASE k \notin DOMAIN d.lines
      BY <1>1, <3>1, <3>3 DEF SplitCompletes
    <3> QED BY <3>2, <3>3
  <2> QED BY <1>1, <1>10, <2>2
<1>13. agreed' => SettledBy(orders', demand') /\ \A x \in Requesters \ {e} : WritesWanted(desk[x], orders', demand')
  BY <1>0, <1>7, <1>11, WhatIsSettled, WritesOnItems
<1>14. DeskOK(note, orders') /\ WritesWanted(note, orders', demand')
  BY <1>6, <1>7 DEF DeskOK, WritesWanted
<1>15. e \in undisturbed => AboutToSettle(note, orders', demand')
  BY <1>12 DEF AboutToSettle
<1>16. DOMAIN orders \subseteq DOMAIN orders'
  BY <1>7
<1> HIDE DEF d, note
<1> QED BY <1>0, <1>8, <1>13, <1>14, <1>15, <1>16, GoesOnKeeps DEF d

(* A request that adds an order.  It may take the agreement back; it keeps it with
   an order of what is wanted, or of lines the requisition does not have; and it
   gives it with the first. *)
LEMMA OrderAddedKeeps ==
  ASSUME ChangesInv, NEW e \in Requesters, AtOnce(e), Len(orders) < MaxOrders,
         NEW fresh \in OrderRows, orders' = Append(orders, fresh),
         UNCHANGED <<demand, header, version>>, stage' \in ReqStages, inApproval' \in BOOLEAN,
         agreed' \in BOOLEAN, agreed' => agreed \/ orders = << >>,
         agreed' => \A k \in DOMAIN fresh.lines : Agrees(fresh.lines[k], demand)
  PROVE  ChangesInv'
<1>0. Opens(e) /\ desk' = desk
  BY DEF AtOnce
<1>1. /\ AloneAtWork' /\ undisturbed' \subseteq Requesters /\ changeCalls' \in 0 .. MaxChangeCalls
      /\ \A x \in undisturbed' : x # e => desk'[x] = Nobody
      /\ desk[e] = Nobody
  BY <1>0, OpensDisturbs
<1>2. /\ DocumentsOK /\ DOMAIN desk = Requesters
      /\ \A x \in Requesters : DeskOK(desk[x], orders)
      /\ agreed => SettledBy(orders, demand) /\ \A x \in Requesters : WritesWanted(desk[x], orders, demand)
  BY DocumentsStand, WhatIsSettled DEF ChangesInv, ChangesTypes, DesksOK
<1>3. orders \in Seq(OrderRows)
  BY <1>2 DEF DocumentsOK
<1>4. /\ orders' \in Seq(OrderRows) /\ Len(orders') = Len(orders) + 1
      /\ DOMAIN orders' = DOMAIN orders \cup {Len(orders) + 1}
      /\ \A m \in DOMAIN orders : orders'[m] = orders[m] /\ m < Len(orders) + 1
      /\ orders'[Len(orders) + 1] = fresh
  BY <1>3
<1>5. DocumentsOK'
  <2>1. Len(orders') <= MaxOrders
    BY <1>3, <1>4, ChangesAssumption
  <2> QED BY <1>2, <1>4, <2>1 DEF DocumentsOK
<1>6. \A x \in Requesters : DeskOK(desk'[x], orders')
  <2>1. DOMAIN orders \subseteq DOMAIN orders'
    BY <1>4
  <2> QED BY <1>0, <1>2, <1>3, <1>4, <2>1, DeskStays
<1>7. WillSettle'
  <2> SUFFICES ASSUME NEW x \in undisturbed' PROVE AboutToSettle(desk'[x], orders', demand')
    BY DEF WillSettle
  <2>1. desk'[x] = Nobody
    BY <1>0, <1>1
  <2> QED BY <2>1 DEF AboutToSettle, Nobody
<1>8. ASSUME agreed' PROVE SettledBy(orders', demand')
  <2> SUFFICES ASSUME NEW m \in DOMAIN orders', NEW k \in DOMAIN orders'[m].lines,
                      NewestOf(m, orders'[m].lines[k].item, orders')
               PROVE  Agrees(orders'[m].lines[k], demand)
    BY DEF SettledBy
  <2>1. CASE m = Len(orders) + 1
    BY <1>4, <1>8, <2>1
  <2>2. CASE m \in DOMAIN orders
    <3>1. agreed /\ orders'[m] = orders[m] /\ k \in DOMAIN orders[m].lines
      BY <1>4, <1>8, <2>2
    <3>2. NewestOf(m, orders[m].lines[k].item, orders)
      BY <1>4, <3>1 DEF NewestOf
    <3> QED BY <1>2, <2>2, <3>1, <3>2 DEF SettledBy
  <2> QED BY <1>4, <2>1, <2>2
<1>9. ASSUME agreed', NEW x \in Requesters PROVE WritesWanted(desk'[x], orders', demand')
  <2>1. CASE agreed
    BY <1>0, <1>2, <1>4, <2>1, WritesOnItems
  <2>2. CASE orders = << >>
    BY <1>0, <1>2, <2>2 DEF WritesWanted, DeskOK, AmendmentOK, SplitOK
  <2> QED BY <1>9, <2>1, <2>2
<1> QED BY <1>0, <1>1, <1>2, <1>5, <1>6, <1>7, <1>8, <1>9
        DEF ChangesInv, ChangesTypes, ChangesTypeOK, DocumentsOK, DesksOK, DeskOK, StaysSettled

(* A request that changes the requisition's state, and no line or order. *)
LEMMA StageStepKeeps ==
  ASSUME ChangesInv, NEW e \in Requesters, AtOnce(e), UNCHANGED <<demand, header, version, orders, agreed>>,
         stage' \in ReqStages, inApproval' \in BOOLEAN
  PROVE  ChangesInv'
<1>1. Opens(e) /\ desk' = desk
  BY DEF AtOnce
<1>2. DocumentsOK' /\ DOMAIN orders' = DOMAIN orders
  BY DocumentsStand DEF DocumentsOK
<1>3. agreed' = agreed /\ OrdersKept(orders, orders', demand') /\ Shrinks(demand, demand')
  BY NothingMoved
<1> QED BY <1>1, <1>2, <1>3, OpensKeeps

LEMMA TransitionsKeep ==
  ASSUME ChangesInv, NEW e \in Requesters, Submit(e) \/ OtherTransition(e) \/ EngineRejects(e)
  PROVE  ChangesInv'
<1>1. AtOnce(e) /\ UNCHANGED <<demand, header, version, orders, agreed>>
  BY DEF Submit, OtherTransition, EngineRejects
<1>2. inApproval \in BOOLEAN
  BY DocumentsStand DEF DocumentsOK
<1>3. stage' \in ReqStages /\ inApproval' \in BOOLEAN
  BY <1>2 DEF Submit, OtherTransition, EngineRejects, ReqStages, ReadOnly, Reopened
<1> QED BY <1>1, <1>3, StageStepKeeps

LEMMA EngineApprovesKeeps ==
  ASSUME ChangesInv, NEW e \in Requesters, EngineApproves(e) PROVE ChangesInv'
<1>0. DocumentsOK
  BY DocumentsStand
<1>1. AtOnce(e) /\ inApproval' \in BOOLEAN /\ UNCHANGED <<demand, header, version>>
  BY <1>0 DEF EngineApproves, DocumentsOK
<1>2. CASE /\ orders = << >>
           /\ orders' = <<AutoOrder>> /\ stage' = "po_created" /\ agreed' = TRUE
  <2>1. orders' = Append(orders, AutoOrder) /\ Len(orders) < MaxOrders
    BY <1>2, ChangesAssumption
  <2>2. stage' \in ReqStages
    BY <1>2 DEF ReqStages, ReadOnly
  <2>3. AutoOrder \in OrderRows /\ \A k \in DOMAIN AutoOrder.lines : Agrees(AutoOrder.lines[k], demand)
    BY <1>0, AutoOrderIsRow
  <2> QED BY <1>1, <1>2, <2>1, <2>2, <2>3, OrderAddedKeeps
<1>3. CASE stage' = "approved" /\ UNCHANGED <<orders, agreed>>
  BY <1>1, <1>3, StageStepKeeps DEF ReqStages, Reopened
<1> QED BY <1>2, <1>3 DEF EngineApproves

LEMMA ConvertKeeps ==
  ASSUME ChangesInv, NEW e \in Requesters, ConvertToPO(e) PROVE ChangesInv'
<1>0. DocumentsOK
  BY DocumentsStand
<1>1. /\ AtOnce(e) /\ Len(orders) < MaxOrders /\ UNCHANGED <<demand, header, version>>
      /\ stage' \in ReqStages /\ inApproval' \in BOOLEAN /\ "draft" \in OrderStates
  BY <1>0 DEF ConvertToPO, DocumentsOK, OrderStates
<1>2. PICK vendor \in Vendors, terms \in Terms :
        \/ /\ orders' = Append(orders, FreshOrder(LinesWanted, vendor, terms, "draft", FALSE))
           /\ UNCHANGED agreed
        \/ \E typed \in TypedLines :
             /\ orders' = Append(orders, FreshOrder(<<OrderLine(typed.item, typed.quantity, typed.price)>>,
                                                    vendor, terms, "draft", FALSE))
             /\ agreed' = (agreed /\ typed.item = Unlinked)
  BY DEF ConvertToPO
<1>3. CASE /\ orders' = Append(orders, FreshOrder(LinesWanted, vendor, terms, "draft", FALSE))
           /\ UNCHANGED agreed
  <2> DEFINE fresh == FreshOrder(LinesWanted, vendor, terms, "draft", FALSE)
  <2>1. fresh \in OrderRows
    BY <1>0, <1>1, LinesAsWanted, FreshIsRow
  <2>2. fresh.lines = LinesWanted
    BY DEF FreshOrder
  <2>3. agreed' \in BOOLEAN
    BY <1>0, <1>3 DEF DocumentsOK
  <2> HIDE DEF fresh
  <2>4. \A k \in DOMAIN fresh.lines : Agrees(fresh.lines[k], demand)
    BY <1>0, <2>2, LinesAsWanted
  <2>5. orders' = Append(orders, fresh)
    BY <1>3 DEF fresh
  <2> QED BY <1>1, <1>3, <2>1, <2>3, <2>4, <2>5, OrderAddedKeeps
<1>4. ASSUME NEW typed \in TypedLines,
             orders' = Append(orders, FreshOrder(<<OrderLine(typed.item, typed.quantity, typed.price)>>,
                                                 vendor, terms, "draft", FALSE)),
             agreed' = (agreed /\ typed.item = Unlinked)
      PROVE  ChangesInv'
  <2> DEFINE line == OrderLine(typed.item, typed.quantity, typed.price)
             fresh == FreshOrder(<<line>>, vendor, terms, "draft", FALSE)
  <2>1. line \in OrderLines /\ line.item = typed.item
    BY ChangesAssumption DEF OrderLine, OrderLines, LineQuantities
  <2>2. fresh.lines = <<line>>
    BY DEF FreshOrder
  <2>3. orders' = Append(orders, fresh)
    BY <1>4
  <2> HIDE DEF line
  <2>7. <<line>> \in Seq(OrderLines)
    BY <2>1
  <2>4. fresh \in OrderRows
    BY <1>1, <2>7, FreshIsRow
  <2>5. agreed' \in BOOLEAN /\ (agreed' => agreed) /\ (agreed' => typed.item = Unlinked)
    BY <1>0, <1>4 DEF DocumentsOK
  <2> HIDE DEF fresh
  <2>6. agreed' => \A k \in DOMAIN fresh.lines : Agrees(fresh.lines[k], demand)
    <3>1. Unlinked \notin DOMAIN demand
      BY <1>0, ChangesAssumption DEF DocumentsOK
    <3>2. \A k \in DOMAIN fresh.lines : fresh.lines[k] = line
      BY <2>2
    <3> QED BY <2>1, <2>5, <3>1, <3>2 DEF Agrees
  <2> QED BY <1>1, <2>3, <2>4, <2>5, <2>6, OrderAddedKeeps
<1> QED BY <1>2, <1>3, <1>4

LEMMA ChangesInvStep == ChangesInv /\ [ChangesNext]_changeVars => ChangesInv'
<1> SUFFICES ASSUME ChangesInv, [ChangesNext]_changeVars PROVE ChangesInv'
  OBVIOUS
<1>1. CASE UNCHANGED changeVars
  BY <1>1 DEF changeVars, ChangesInv, ChangesTypes, ChangesTypeOK, DesksOK, AloneAtWork, WillSettle, StaysSettled
<1>2. CASE ChangesNext
  <2> PICK e \in Requesters :
        \/ \E i \in Items :
             \/ \E q \in LineQuantities, p \in Prices : AddItem(e, i, q, p)
             \/ \E q \in LineQuantities : EditItem(e, i, "quantity", q)
             \/ \E p \in Prices : EditItem(e, i, "price", p)
             \/ RemoveItem(e, i)
        \/ SaveItem(e)
        \/ \E new \in [vendor : Vendors, terms : Terms] : EditHeader(e, new)
        \/ Submit(e) \/ OtherTransition(e) \/ EngineApproves(e) \/ EngineRejects(e)
        \/ ConvertToPO(e) \/ Approve(e) \/ OrderOnce(e) \/ Compare(e) \/ AmendOrder(e)
        \/ SplitOrder(e) \/ NoteSplit(e) \/ Dies(e)
        \/ \E n \in DOMAIN orders :
             \/ AmendByHand(e, n) \/ MoveOrder(e, n)
             \/ \E q \in LineQuantities, p \in Prices : AddOrderLine(e, n, q, p)
             \/ \E k \in 1 .. MaxOrderLines, q \in LineQuantities : Receive(e, n, k, q) \/ Bill(e, n, k, q)
    BY <1>2 DEF ChangesNext
  <2>1. ASSUME NEW i \in Items, NEW q \in LineQuantities, NEW p \in Prices, AddItem(e, i, q, p) PROVE ChangesInv'
    BY <2>1, AddItemKeeps
  <2>2. ASSUME NEW i \in Items, NEW q \in LineQuantities, EditItem(e, i, "quantity", q) PROVE ChangesInv'
    BY <2>2, EditItemKeeps
  <2>3. ASSUME NEW i \in Items, NEW p \in Prices, EditItem(e, i, "price", p) PROVE ChangesInv'
    BY <2>3, EditItemKeeps
  <2>4. ASSUME NEW i \in Items, RemoveItem(e, i) PROVE ChangesInv'
    BY <2>4, RemoveItemKeeps
  <2>5. ASSUME NEW new \in [vendor : Vendors, terms : Terms], EditHeader(e, new) PROVE ChangesInv'
    BY <2>5, EditHeaderKeeps
  <2>6. SaveItem(e) \/ Approve(e) \/ OrderOnce(e) \/ Compare(e) \/ AmendOrder(e) \/ SplitOrder(e) \/ NoteSplit(e)
          \/ Dies(e) => ChangesInv'
    BY SaveItemKeeps, ApproveKeeps, OrderOnceKeeps, CompareKeeps, AmendOrderKeeps, SplitOrderKeeps,
       NoteSplitKeeps, DiesKeeps
  <2>10. Submit(e) \/ OtherTransition(e) \/ EngineApproves(e) \/ EngineRejects(e) \/ ConvertToPO(e) => ChangesInv'
    BY TransitionsKeep, EngineApprovesKeeps, ConvertKeeps
  <2>7. ASSUME NEW n \in DOMAIN orders, AmendByHand(e, n) \/ MoveOrder(e, n) PROVE ChangesInv'
    BY <2>7, AmendByHandKeeps, MoveOrderKeeps
  <2>8. ASSUME NEW n \in DOMAIN orders, NEW q \in LineQuantities, NEW p \in Prices, AddOrderLine(e, n, q, p)
        PROVE  ChangesInv'
    BY <2>8, AddOrderLineKeeps
  <2>9. ASSUME NEW n \in DOMAIN orders, NEW k \in 1 .. MaxOrderLines, NEW q \in LineQuantities,
               Receive(e, n, k, q) \/ Bill(e, n, k, q)
        PROVE  ChangesInv'
    BY <2>9, ReceiveKeeps, BillKeeps
  <2> QED BY <2>1, <2>2, <2>3, <2>4, <2>5, <2>6, <2>7, <2>8, <2>9, <2>10
<1> QED BY <1>1, <1>2

(* The requisition's and the order's rows keep their types: demand, header,
   stage and version of the requisition, its orders and the requests at work. *)
THEOREM ChangesTypeCorrect == ChangesSpec => []ChangesTypeOK
<1>1. ChangesInv => ChangesTypeOK
  BY DEF ChangesInv, ChangesTypes
<1> QED BY ChangesInvInit, ChangesInvStep, <1>1, PTL DEF ChangesSpec

(* A requisition that was approved again with success, by a request no other
   overlapped, is what its newest orders hold, whatever was received, billed,
   closed, amended or split since (versioned re-approval of the two documents). *)
THEOREM ReapprovalsSettle == ChangesSpec => []ReapprovalSettles
<1>1. ChangesInv => ReapprovalSettles
  BY SettledIsReapproval DEF ChangesInv, ChangesTypes
<1> QED BY ChangesInvInit, ChangesInvStep, <1>1, PTL DEF ChangesSpec
=============================================================================
