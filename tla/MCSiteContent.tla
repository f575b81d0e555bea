----------------------------- MODULE MCSiteContent -----------------------------
(***************************************************************************)
(* A small instance of SiteContent.  The two halves are independent, so    *)
(* the space is the product of theirs.                                     *)
(***************************************************************************)
EXTENDS SiteContent, TLC

CONSTANTS b1, b2, l1, p1, p2, p3, x, y

TwoBatches == {b1, b2}
OneListing == {l1}
ThreePuts == {p1, p2, p3}
TwoValues == {x, y}

PutOf(place, zoom, text) ==
  [f \in Fields |-> IF f \in Required THEN place ELSE IF f = "zoom" THEN zoom ELSE text]
SomeBodies == {PutOf(x, y, y), PutOf(y, Missing, Null)}

PutSymmetry == Permutations(Batches) \cup Permutations(Puts)
=============================================================================
