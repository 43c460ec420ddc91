------------------------- MODULE MCInvoiceVerification -------------------------
(***************************************************************************)
(* Invoices for TLC.  One invoice is followed through its exceptions, block  *)
(* and approval; or two invoices of one order are matched with its receipts,  *)
(* and no request gets to the GR/IR records; or they all do, and no invoice   *)
(* is matched again.  The scene, chosen at the start, says which.           *)
(***************************************************************************)
EXTENDS InvoiceVerification, ThreeWayMatch, TLC

CONSTANTS duplicate, price, receipt, no, goods, service, i1, i2, r1, r2, r3

VARIABLE scene

Kind ==
  [x \in Rows |->
     CASE x = duplicate -> "duplicate_invoice"
       [] x = price -> "price_variance"
       [] x = receipt -> "quantity_exceeds_receipt"
       [] OTHER -> "approval_rejected"]

\* A piece of goods and a service are ordered.  An invoice is for all of it, for the
\* goods alone at their price or a higher one, or for one more than was ordered.
OneEach == goods :> 1 @@ service :> 1
Bill(pieces, hours, dear, memo, amount) ==
  [quantity |-> goods :> pieces @@ service :> hours, dear |-> dear, memo |-> memo, amount |-> amount]
SomeBills == {Bill(1, 1, {}, FALSE, 2), Bill(1, 0, {goods}, FALSE, 2), Bill(2, 0, {}, TRUE, 3)}

\* Requests are alike, and so are invoices; lines are not.
AnyRequest == Permutations(MatchRequests) \cup Permutations(Invoices)

SceneInit ==
  /\ scene \in {"lifecycle", "matching", "ledger"}
  /\ Init /\ MatchingInit
  /\ scene # "lifecycle" => ~linked /\ facts = {} /\ instance = "none"

SceneNext ==
  /\ UNCHANGED scene
  /\ \/ scene = "lifecycle" /\ Next /\ UNCHANGED matchVars
     \/ /\ scene # "lifecycle" /\ MatchingNext /\ UNCHANGED vars
        /\ \A r \in MatchRequests :
             IF scene = "matching" THEN calls'[r].stage # "summed" /\ ~shut'
             ELSE calls'[r].stage = "loaded" =>
                    calls'[r].override = "none" /\ bills'[calls'[r].invoice].dear = {}

SceneSpec == SceneInit /\ [][SceneNext]_<<scene, vars, matchVars>>

=============================================================================
