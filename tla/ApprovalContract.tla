-------------------------- MODULE ApprovalContract --------------------------
(***************************************************************************)
(* What a document under approval expects from the workflow engine, without *)
(* steps, routes or task rows: a set of gates is asked, answered and never  *)
(* asked again, until the document is approved or declined for good.        *)
(***************************************************************************)
CONSTANT Gates

VARIABLES
  phase,         \* where the document stands
  outstanding,   \* gates waiting for an answer
  closed         \* gates that need no further answer

cvars == <<phase, outstanding, closed>>

Phases == {"absent", "open", "stalled", "approved", "declined"}

Init == phase = "absent" /\ outstanding = {} /\ closed = {}

Live == phase \in {"absent", "open", "stalled"}

(* Gates only ever close: those answered or withdrawn in this step, too *)
Close ==
  /\ closed \subseteq closed'
  /\ outstanding \ outstanding' \subseteq closed'
  /\ outstanding' \cap closed' = {}
  /\ closed' \subseteq Gates

(* Somebody is asked, or still has to answer *)
Ask ==
  /\ Live
  /\ phase' = "open"
  /\ outstanding' \in (SUBSET Gates) \ {{}}
  /\ Close

(* Nobody can be asked: an administrator has to step in *)
Stall ==
  /\ Live
  /\ phase' = "stalled"
  /\ outstanding' = {}
  /\ Close

Grant ==
  /\ Live
  /\ phase' = "approved"
  /\ outstanding' = {}
  /\ Close

(* Only somebody who was asked can decline *)
Decline ==
  /\ outstanding # {}
  /\ phase' = "declined"
  /\ outstanding' = {}
  /\ Close

Next == Ask \/ Stall \/ Grant \/ Decline

Spec == Init /\ [][Next]_cvars

=============================================================================
