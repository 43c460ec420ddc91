--------------------------- MODULE SourcingEvents ----------------------------
(***************************************************************************)
(* One sourcing event and the bids (SourcingEventResponse) on it:          *)
(* crud/sourcing.py and routers/sourcing.py.  An award rewrites the event   *)
(* and every bid it lists; evaluations, transitions, edits, new bids and    *)
(* other awards run beside it, each with the rows it read.  A column whose   *)
(* new value equals the value read is not written.                         *)
(***************************************************************************)
EXTENDS Naturals, FiniteSets

CONSTANTS
  Bids,             \* identifiers of responses
  Bidders,          \* suppliers that respond
  BidderOf,         \* the supplier of each response
  Buyers,           \* users working on the event, one request each at a time
  NoBid, NoBidder,  \* nulls
  EventStates,      \* values an edit of the event writes into its status
  MaxSourcingCalls  \* bound: requests begun in all

ASSUME SourcingAssumption ==
  /\ BidderOf \in [Bids -> Bidders] /\ NoBid \notin Bids /\ NoBidder \notin Bidders
  /\ MaxSourcingCalls \in Nat

VARIABLES
  event,       \* the event's row: status, awarded_response_id, awarded_supplier_id
  bid,         \* status of each response, "none" while there is no such row
  bidders,     \* suppliers whose row exists
  task,        \* per buyer: the request in progress, or NoTask
  sourced,     \* requests begun (bound)
  late,        \* history: bids placed after the last award listed the bids
  misaward     \* history: an award or an evaluation was committed although an
               \* award had been committed since it read the bids

sourcingVars == <<event, bid, bidders, task, sourced, late, misaward>>

\* _TRANSITION_MAP: the status only; lifecycle_status always moves with it.
NextStatus == [publish |-> "published", close |-> "closed", cancel |-> "cancelled"]

Statuses == {"draft", "awarded"} \cup {NextStatus[a] : a \in DOMAIN NextStatus} \cup EventStates
BidStates == {"none", "submitted", "shortlisted", "awarded", "rejected"}

\* A task holds the rows it read: the event and the status of every bid.
NoTask == [kind |-> "none"]
Tasks == [kind : {"award", "listed", "evaluate", "status"}, for : Bids \cup {NoBid}, to : Statuses,
          event : [status : Statuses, bid : Bids \cup {NoBid}, supplier : Bidders \cup {NoBidder}],
          read : [Bids -> BidStates], fresh : BOOLEAN]

SourcingInit ==
  /\ event = [status |-> "draft", bid |-> NoBid, supplier |-> NoBidder]
  /\ bid = [b \in Bids |-> "none"]
  /\ bidders = Bidders
  /\ task = [u \in Buyers |-> NoTask]
  /\ sourced = 0
  /\ late = {}
  /\ misaward = FALSE

----------------------------------------------------------------------------
Sourced == sourced < MaxSourcingCalls /\ sourced' = sourced + 1

Placed == {b \in Bids : bid[b] # "none"}

Reads(kind, b, to) ==
  [kind |-> kind, for |-> b, to |-> to, event |-> event, read |-> bid, fresh |-> TRUE]

\* What a request writes: the new value, unless it equals the one it read.
Written(read, new, stored) == IF new = read THEN stored ELSE new

\* POST .../responses: no check of the event's status or due date.
SubmitResponse(b) ==
  /\ Sourced
  /\ bid[b] = "none" /\ BidderOf[b] \in bidders
  /\ bid' = [bid EXCEPT ![b] = "submitted"]
  /\ late' = late \cup {b}
  /\ UNCHANGED <<event, bidders, task, misaward>>

\* award_sourcing_event: the event with its responses and the winning response
\* are read; then the responses are listed again, where those that came
\* meanwhile are seen and those already read keep the status they had.
BeginAward(u, b) ==
  /\ Sourced
  /\ task[u] = NoTask /\ b \in Placed
  /\ task' = [task EXCEPT ![u] = Reads("award", b, "awarded")]
  /\ UNCHANGED <<event, bid, bidders, late, misaward>>

ListResponses(u) ==
  /\ task[u].kind = "award"
  /\ LET read == task[u].read
     IN task' = [task EXCEPT ![u].kind = "listed",
                             ![u].read = [b \in Bids |-> IF bid[b] = "none" \/ read[b] = "none"
                                                         THEN bid[b] ELSE read[b]]]
  /\ UNCHANGED <<event, bid, bidders, sourced, late, misaward>>

\* Mutants: an earlier winner keeps its award; a shortlisted bid is left alone.
VerdictKeepingWinner(t, b) == IF b = t.for \/ t.read[b] = "awarded" THEN "awarded" ELSE "rejected"

\* The verdict an award gives to the bids it listed.
Verdict(t, b) == IF b = t.for THEN "awarded" ELSE "rejected"

\* A bid that has to be updated and was deleted meanwhile fails the commit, and
\* so does the supplier of the winner.
AwardFails(t) ==
  \/ \E b \in Bids : t.read[b] \notin {"none", Verdict(t, b)} /\ bid[b] = "none"
  \/ BidderOf[t.for] \notin bidders

\* Mutants: the two columns are swapped; a supplier that is set stays.
AwardedEventSwapped(t) ==
  [status |-> "awarded", bid |-> BidderOf[t.for], supplier |-> t.for]

\* The event after the award: each column that differs from what was read.
AwardedEvent(t) ==
  [status   |-> Written(t.event.status, "awarded", event.status),
   bid      |-> Written(t.event.bid, t.for, event.bid),
   supplier |-> Written(t.event.supplier, BidderOf[t.for], event.supplier)]

Overtaken(u) == [v \in Buyers |-> IF v = u THEN NoTask
                                  ELSE IF task[v] = NoTask THEN NoTask
                                  ELSE [task[v] EXCEPT !.fresh = FALSE]]

CommitAward(u) ==
  LET t == task[u] IN
  /\ t.kind = "listed"
  /\ IF AwardFails(t)
     THEN /\ task' = [task EXCEPT ![u] = NoTask]
          /\ UNCHANGED <<event, bid, late, misaward>>
     ELSE /\ bid' = [b \in Bids |-> IF t.read[b] = "none" THEN bid[b]
                                    ELSE Written(t.read[b], Verdict(t, b), bid[b])]
          /\ event' = AwardedEvent(t)
          /\ late' = {b \in Placed : t.read[b] = "none"}
          /\ misaward' = (misaward \/ ~ t.fresh)
          /\ task' = Overtaken(u)
  /\ UNCHANGED <<bidders, sourced>>

\* POST .../evaluate: only a submitted bid becomes shortlisted.
BeginEvaluate(u, b) ==
  /\ Sourced
  /\ task[u] = NoTask /\ b \in Placed
  /\ task' = [task EXCEPT ![u] = Reads("evaluate", b, event.status)]
  /\ UNCHANGED <<event, bid, bidders, late, misaward>>

CommitEvaluate(u) ==
  LET t == task[u]
      shortlists == t.read[t.for] = "submitted" /\ bid[t.for] # "none"
  IN
  /\ t.kind = "evaluate"
  /\ bid' = IF shortlists THEN [bid EXCEPT ![t.for] = "shortlisted"] ELSE bid
  /\ misaward' = (misaward \/ (shortlists /\ ~ t.fresh))
  /\ task' = [task EXCEPT ![u] = NoTask]
  /\ UNCHANGED <<event, bidders, sourced, late>>

\* POST .../transition (any state, "award" excepted) and PATCH of the event.
BeginStatus(u, to) ==
  /\ Sourced
  /\ task[u] = NoTask
  /\ task' = [task EXCEPT ![u] = Reads("status", NoBid, to)]
  /\ UNCHANGED <<event, bid, bidders, late, misaward>>

TransitionEvent(u, action) == BeginStatus(u, NextStatus[action])
UpdateEvent(u, status) == BeginStatus(u, status)

CommitStatus(u) ==
  LET t == task[u] IN
  /\ t.kind = "status"
  /\ event' = [event EXCEPT !.status = Written(t.event.status, t.to, event.status)]
  /\ task' = [task EXCEPT ![u] = NoTask]
  /\ UNCHANGED <<bid, bidders, sourced, late, misaward>>

\* The deletion of a supplier takes its responses along (CASCADE) and empties
\* awarded_supplier_id (SET NULL); awarded_response_id refers to nothing.
DeleteBidder(s) ==
  /\ Sourced
  /\ s \in bidders
  /\ bidders' = bidders \ {s}
  /\ bid' = [b \in Bids |-> IF BidderOf[b] = s THEN "none" ELSE bid[b]]
  /\ event' = IF event.supplier = s THEN [event EXCEPT !.supplier = NoBidder] ELSE event
  /\ UNCHANGED <<task, late, misaward>>

----------------------------------------------------------------------------
SourcingNext ==
  \/ \E b \in Bids : SubmitResponse(b)
  \/ \E u \in Buyers, b \in Bids : BeginAward(u, b) \/ BeginEvaluate(u, b)
  \/ \E u \in Buyers : ListResponses(u) \/ CommitAward(u) \/ CommitEvaluate(u) \/ CommitStatus(u)
  \/ \E u \in Buyers, a \in DOMAIN NextStatus : TransitionEvent(u, a)
  \/ \E u \in Buyers, s \in EventStates : UpdateEvent(u, s)
  \/ \E s \in Bidders : DeleteBidder(s)

SourcingSpec == SourcingInit /\ [][SourcingNext]_sourcingVars

----------------------------------------------------------------------------
\* The type invariant of the event, its bids and the requests.
SourcingTypeOK ==
  /\ event \in [status : Statuses, bid : Bids \cup {NoBid}, supplier : Bidders \cup {NoBidder}]
  /\ bid \in [Bids -> BidStates]
  /\ bidders \in SUBSET Bidders
  /\ task \in [Buyers -> Tasks \cup {NoTask}]
  /\ sourced \in 0..MaxSourcingCalls
  /\ late \in SUBSET Bids /\ misaward \in BOOLEAN

\* The bid marked awarded is the one the event names, so there is at most one,
\* however often the event is awarded again, bids are evaluated and suppliers
\* go; awards that cross an award, and evaluations that do, are the exception.
OneWinner ==
  ~ misaward => \A b \in Placed : (bid[b] = "awarded") <=> (event.bid = b)

\* "Marks ... every other response on the event as rejected": once the event
\* is awarded, a bid that still waits came after the award had listed them.
EveryBidIsAnswered ==
  (~ misaward /\ event.bid # NoBid) =>
     \A b \in Placed : bid[b] \in {"awarded", "rejected"} \/ b \in late

\* The supplier the event names is the winner's, or gone.
WinnersSupplier ==
  (~ misaward /\ event.supplier # NoBidder) =>
     event.bid # NoBid /\ event.supplier = BidderOf[event.bid]

\* An award is one decision: one winner, the others answered, the winner's supplier
\* on the event, with the exceptions each part names.
AwardAgrees == OneWinner /\ EveryBidIsAnswered /\ WinnersSupplier
=============================================================================
