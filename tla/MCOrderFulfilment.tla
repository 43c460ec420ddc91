-------------------------- MODULE MCOrderFulfilment --------------------------
(***************************************************************************)
(* Instances of OrderFulfilment: two lines, one piece each.                 *)
(***************************************************************************)
EXTENDS OrderFulfilment, TLC

CONSTANTS a, b

Two == [l \in {a, b} |-> 1]

Mix(first, second) == [l \in {a, b} |-> IF l = a THEN first ELSE second]

(* One line received automatically and one that nothing is configured for, *)
(* one by hand and one never, and an order that is never received          *)
Mixes == {Mix("auto", "none"), Mix("three_way", "two_way"), Mix("two_way", "two_way")}

Piece(received, rejected) == [received |-> received, rejected |-> rejected]

(* A damaged piece of one line; everything, with one piece too many *)
Deliveries == {[l \in {a} |-> Piece(1, 1)],
               [l \in {a, b} |-> IF l = a THEN Piece(1, 0) ELSE Piece(2, 0)]}

AnySession == Permutations(Sessions)

=============================================================================
