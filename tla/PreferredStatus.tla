---------------------------- MODULE PreferredStatus ----------------------------
(***************************************************************************)
(* The preferred-supplier status: services/preferred_supplier.py, the         *)
(* requests of routers/suppliers.py around it, and what crud/analytics.py     *)
(* and the qualification record give it to score.                           *)
(*                                                                          *)
(* A request reads the one row a supplier has, works out the new one, and     *)
(* writes the columns that differ from what it read: "tray" holds both.       *)
(***************************************************************************)
EXTENDS Integers, FiniteSets, FiniteSetsExt

CONSTANTS
  Rated,           \* the suppliers
  SomeFacts,       \* what may be known of one (records as in FactsType)
  Targets,         \* statuses an override asks for
  Scorers,         \* users, one request each at a time
  Unknown,         \* no value
  NoRow,           \* a supplier without a status row
  MaxReviews,      \* bound: reviews asked for in all
  MaxStatusCalls   \* bound: requests begun, and changes elsewhere, in all

PreferredStatuses == {"strategic", "preferred", "approved", "blocked", "none"}

ASSUME PreferredAssumption ==
  /\ Targets \subseteq PreferredStatuses /\ Unknown \notin PreferredStatuses
  /\ {MaxReviews, MaxStatusCalls} \subseteq Nat \ {0}

VARIABLES
  facts,        \* per supplier: what the other modules hold of it
  row,          \* per supplier: its PreferredSupplierStatus, or NoRow
  reviewed,     \* whether a preferred_supplier_review definition is active
  reviews,      \* override reviews under way: [supplier, target, nr]
  tray,         \* per user: the request under way
  told,         \* history: per supplier, the last override that was applied
  blurred,      \* history: suppliers whose row a request wrote that had read an
                \* older one, until it is written afresh
  statusCalls   \* requests begun (bound)

preferredVars == <<facts, row, reviewed, reviews, tray, told, blurred, statusCalls>>

-----------------------------------------------------------------------------
(***************************************************************************)
(* The components, the composite and the classification.  Percentages and    *)
(* the composite are in hundredths, as the columns hold them.               *)
(***************************************************************************)
\* Decimal.quantize rounds half to even.
Quantized(n, d) ==
  LET q == n \div d  twice == 2 * (n % d)
  IN IF twice > d \/ (twice = d /\ q % 2 = 1) THEN q + 1 ELSE q

\* spend_to_tier: how many of the three thresholds are reached.  No spend is
\* tier 1, so a supplier always has one.
Tier(f) == f.spend + 1

\* compute_supplier_performance_score: the share of receipts and of matched
\* invoices without exception, over whichever of the two there are.
Performance(f) ==
  LET r == f.receipts  i == f.invoices
      fine(h) == 10000 * (h.all - h.bad) IN
  CASE r.all = 0 /\ i.all = 0 -> Unknown
    [] r.all > 0 /\ i.all = 0 -> Quantized(fine(r), r.all)
    [] r.all = 0 /\ i.all > 0 -> Quantized(fine(i), i.all)
    [] r.all > 0 /\ i.all > 0 -> Quantized(fine(r) * i.all + fine(i) * r.all, 2 * r.all * i.all)

\* gather_inputs
Inputs(f) ==
  [quality |-> f.quality, performance |-> Performance(f), risk |-> f.risk, tier |-> Tier(f),
   contract |-> f.contract]

\* compute_preferred_score: the weights of what is known, the risk turned round.
Composite(in) ==
  LET parts == {p \in {<<30, "quality", IF in.quality = Unknown THEN Unknown ELSE 100 * in.quality>>,
                       <<30, "performance", in.performance>>,
                       <<20, "risk", IF in.risk = Unknown THEN Unknown ELSE 100 * (100 - in.risk)>>,
                       <<20, "spend", 2500 * in.tier>>} : p[3] # Unknown}
  IN Quantized(MapThenSumSet(LAMBDA p : p[1] * p[3], parts), MapThenSumSet(LAMBDA p : p[1], parts))

AtLeast(v, n) == v # Unknown /\ v >= n

\* classify.  There is always a composite, and nothing records compliance or
\* certifications yet.
BadData(in) == AtLeast(in.risk, 81) \/ (in.performance # Unknown /\ in.performance < 6000)

AutoPreferred(in) ==
  /\ AtLeast(in.quality, 90) /\ AtLeast(in.performance, 9000)
  /\ in.risk # Unknown /\ in.risk <= 20
  /\ in.tier >= 3

Classify(in) ==
  LET score == Composite(in) IN
  CASE BadData(in) -> "blocked"
    [] ~ BadData(in) /\ score >= 9000 /\ in.contract -> "strategic"
    [] OTHER ->
         CASE AutoPreferred(in) \/ score >= 8500 -> "preferred"
           [] OTHER -> IF score >= 7000 THEN "approved" ELSE IF score < 6000 THEN "blocked" ELSE "none"

-----------------------------------------------------------------------------
EmptyTray == [step |-> "idle"]
Scored(status, forced, score, in) ==
  [status |-> status, forced |-> forced, score |-> score, quality |-> in.quality,
   performance |-> in.performance, risk |-> in.risk, tier |-> in.tier, contract |-> in.contract]

\* mutant: the engine's verdict is written over an override
RecomputedOver(old, f) == Scored(Classify(Inputs(f)), old # NoRow /\ old.forced,
                                 Composite(Inputs(f)), Inputs(f))

\* recompute_preferred_status: what the row is to be.
Recomputed(old, f) ==
  LET forced == old # NoRow /\ old.forced
  IN Scored(IF forced THEN old.status ELSE Classify(Inputs(f)), forced,
            Composite(Inputs(f)), Inputs(f))

\* apply_preferred_override: likewise; a row it has to make has no components.
Overridden(old, target) ==
  IF old = NoRow
  THEN Scored(target, TRUE, Unknown, [quality |-> Unknown, performance |-> Unknown,
                                      risk |-> Unknown, tier |-> Unknown, contract |-> FALSE])
  ELSE [old EXCEPT !.status = target, !.forced = TRUE]

\* The UPDATE: the columns that differ from what was read.
WrittenColumns(now, old, new) ==
  IF old = NoRow THEN new ELSE [c \in DOMAIN new |-> IF new[c] = old[c] THEN now[c] ELSE new[c]]

PreferredInit ==
  /\ facts \in [Rated -> SomeFacts]
  /\ row = [s \in Rated |-> NoRow]
  /\ reviewed \in BOOLEAN
  /\ reviews = {}
  /\ tray = [u \in Scorers |-> EmptyTray]
  /\ told = [s \in Rated |-> Unknown]
  /\ blurred = {}
  /\ statusCalls = 0

Call(u) == tray[u] = EmptyTray /\ statusCalls < MaxStatusCalls /\ statusCalls' = statusCalls + 1
Puts(u, t) == tray' = [tray EXCEPT ![u] = t]
NoneRead == [s \in {} |-> NoRow]
ReadToo(rows, s, new) ==
  [t \in DOMAIN rows \cup {s} |-> IF t = s THEN [read |-> row[s], new |-> new] ELSE rows[t]]
ReadRow(s, new) == ReadToo(NoneRead, s, new)

\* A request that has read its rows; "override" is the status a person asked for.
Holding(rows, override, review) ==
  [step |-> "commit", rows |-> rows, override |-> override, review |-> review]

-----------------------------------------------------------------------------
\* Receipts, invoices, contracts, risk assessments: the other modules' work.
Drifts(s, f) ==
  /\ f # facts[s] /\ statusCalls < MaxStatusCalls /\ statusCalls' = statusCalls + 1
  /\ facts' = [facts EXCEPT ![s] = [f EXCEPT !.quality = facts[s].quality]]
  /\ UNCHANGED <<row, reviewed, reviews, tray, told, blurred>>

\* upsert_supplier_qualification
Qualify(u, s, quality) ==
  /\ Call(u)
  /\ facts' = [facts EXCEPT ![s].quality = quality]
  /\ UNCHANGED <<row, reviewed, reviews, tray, told, blurred>>

\* recompute_preferred_endpoint: the reads
Recompute(u, s) ==
  /\ Call(u)
  /\ Puts(u, Holding(ReadRow(s, Recomputed(row[s], facts[s])), Unknown, {}))
  /\ UNCHANGED <<facts, row, reviewed, reviews, told, blurred>>

\* recompute_all_preferred_endpoint: one supplier after another, one commit.
RecomputeAll(u) ==
  /\ Call(u)
  /\ Puts(u, [step |-> "all", rows |-> NoneRead])
  /\ UNCHANGED <<facts, row, reviewed, reviews, told, blurred>>

RecomputeNext(u, s) ==
  /\ tray[u].step = "all" /\ s \notin DOMAIN tray[u].rows
  /\ LET rows == ReadToo(tray[u].rows, s, Recomputed(row[s], facts[s])) IN
       Puts(u, IF DOMAIN rows = Rated THEN Holding(rows, Unknown, {})
               ELSE [step |-> "all", rows |-> rows])
  /\ UNCHANGED <<facts, row, reviewed, reviews, told, blurred, statusCalls>>

\* override_preferred_status_endpoint without a review definition ...
OverrideAtOnce(u, s, target) ==
  /\ ~ reviewed
  /\ Call(u)
  /\ Puts(u, Holding(ReadRow(s, Overridden(row[s], target)), target, {}))
  /\ UNCHANGED <<facts, row, reviewed, reviews, told, blurred>>

\* ... and with one: the instance is committed, then a missing row is made.
OverrideForReview(u, s, target) ==
  /\ reviewed
  /\ Call(u)
  /\ \E nr \in (1..MaxReviews) \ {r.nr : r \in reviews} :
       reviews' = reviews \cup {[supplier |-> s, target |-> target, nr |-> nr]}
  /\ Puts(u, IF row[s] = NoRow THEN [step |-> "baseline", supplier |-> s] ELSE EmptyTray)
  /\ UNCHANGED <<facts, row, reviewed, told, blurred>>

Baseline(u) ==
  /\ tray[u].step = "baseline"
  /\ LET s == tray[u].supplier IN
       Puts(u, Holding(ReadRow(s, Recomputed(row[s], facts[s])), Unknown, {}))
  /\ UNCHANGED <<facts, row, reviewed, reviews, told, blurred, statusCalls>>

\* The last reviewer's answer: the completion hook applies the override in the
\* transaction of the answer; a rejection leaves the row as it is.
ReviewApproved(u, r) ==
  /\ Call(u)
  /\ Puts(u, Holding(ReadRow(r.supplier, Overridden(row[r.supplier], r.target)), r.target, {r}))
  /\ UNCHANGED <<facts, row, reviewed, reviews, told, blurred>>

ReviewRejected(u, r) ==
  /\ Call(u)
  /\ reviews' = reviews \ {r}
  /\ UNCHANGED <<facts, row, reviewed, tray, told, blurred>>

\* The commit.  A supplier has one row: a second one is refused, and all of the
\* transaction with it; so is the answer of a review that has ended.
Refuses(u) ==
  \/ \E s \in DOMAIN tray[u].rows : tray[u].rows[s].read = NoRow /\ row[s] # NoRow
  \/ ~ (tray[u].review \subseteq reviews)

Commit(u) ==
  /\ tray[u].step = "commit" /\ ~ Refuses(u)
  /\ LET rows == tray[u].rows
         asked == tray[u].override
         late == {s \in DOMAIN rows : row[s] # rows[s].read}
         afresh == {s \in DOMAIN rows \ late : asked # Unknown \/ row[s] = NoRow \/ ~ row[s].forced} IN
       /\ row' = [s \in Rated |-> IF s \in DOMAIN rows
                                  THEN WrittenColumns(row[s], rows[s].read, rows[s].new) ELSE row[s]]
       /\ told' = [s \in Rated |-> IF s \in DOMAIN rows /\ asked # Unknown THEN asked ELSE told[s]]
       /\ blurred' = (blurred \ afresh) \cup late
  /\ reviews' = reviews \ tray[u].review
  /\ Puts(u, EmptyTray)
  /\ UNCHANGED <<facts, reviewed, statusCalls>>

\* A request refused, or cut off before its commit.
Fails(u) ==
  /\ tray[u] # EmptyTray
  /\ Puts(u, EmptyTray)
  /\ UNCHANGED <<facts, row, reviewed, reviews, told, blurred, statusCalls>>

PreferredNext ==
  \/ \E s \in Rated, f \in SomeFacts : Drifts(s, f)
  \/ \E u \in Scorers :
       \/ \E s \in Rated :
            \/ \E f \in SomeFacts : f.quality # Unknown /\ Qualify(u, s, f.quality)
            \/ Recompute(u, s) \/ RecomputeNext(u, s)
            \/ \E target \in Targets : OverrideAtOnce(u, s, target) \/ OverrideForReview(u, s, target)
       \/ RecomputeAll(u) \/ Baseline(u)
       \/ \E r \in reviews : ReviewApproved(u, r) \/ ReviewRejected(u, r)
       \/ Commit(u) \/ Fails(u)

PreferredSpec == PreferredInit /\ [][PreferredNext]_preferredVars

-----------------------------------------------------------------------------
Percent == 0..100 \cup {Unknown}
Hundredths == 0..10000 \cup {Unknown}

\* The type invariant.
PreferredTypeOK ==
  /\ \A s \in Rated : row[s] # NoRow =>
       /\ row[s].status \in PreferredStatuses /\ row[s].forced \in BOOLEAN
       /\ row[s].score \in Hundredths /\ row[s].performance \in Hundredths
       /\ row[s].quality \in Percent /\ row[s].risk \in Percent
       /\ row[s].tier \in 1..4 \cup {Unknown} /\ row[s].contract \in BOOLEAN
  /\ \A r \in reviews : r.supplier \in Rated /\ r.target \in PreferredStatuses
  /\ \A s \in Rated : told[s] \in PreferredStatuses \cup {Unknown}
  /\ blurred \subseteq Rated /\ reviewed \in BOOLEAN /\ statusCalls \in 0..MaxStatusCalls
  /\ \A u \in Scorers : tray[u].step \in {"idle", "all", "baseline", "commit"}

\* The components as a row holds them.
Components(r) ==
  [quality |-> r.quality, performance |-> r.performance, risk |-> r.risk, tier |-> r.tier,
   contract |-> r.contract]

\* The status a supplier is shown with has its reason on record: after an
\* override it is the one asked for last, reviewed or not, however often the
\* supplier was scored since; otherwise it is what the components in the same row
\* are classified as, and the score is theirs.  A row that two overlapping
\* requests wrote is held to it once it is written afresh.
StatusHasItsReason ==
  \A s \in Rated \ blurred : row[s] # NoRow =>
    IF row[s].forced THEN row[s].status = told[s]
    ELSE /\ row[s].status = Classify(Components(row[s]))
         /\ row[s].score = Composite(Components(row[s]))
=============================================================================
