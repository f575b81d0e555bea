---------------------------- MODULE MCCatalogue ----------------------------
(***************************************************************************)
(* Small instances of Catalogue: one room type and one venue exist, one    *)
(* more of each may be created.  The default hours, 8 to 22, stand as they *)
(* are; the bodies move one side of a pair, or both, or clear one.         *)
(***************************************************************************)
EXTENDS Catalogue, TLC

CONSTANTS q1, q2, q3, r1, r2, v1, v2, n1, n2, n3

TwoRequests == {q1, q2}
ThreeRequests == {q1, q2, q3}
TwoRooms == {r1, r2}
TwoVenues == {v1, v2}
OneOfEach == {r1, v1}
OneVenue == {v1}
ThreeNames == {n1, n2, n3}
NoOffers == {}

Body(name, fields) == [name |-> name, isActive |-> Unsent, fields |-> fields]
NoFields == [f \in {} |-> Null]

SaleFrom(day) == "discountPercent" :> 15 @@ "discountStartsAt" :> day
SaleBodies ==
  {Body(Unsent, SaleFrom(3)),
   Body(Unsent, "discountEndsAt" :> 2),
   Body(Unsent, SaleFrom(2) @@ "discountEndsAt" :> 3),
   Body(Unsent, SaleFrom(3) @@ "discountEndsAt" :> 2),
   Body(n3, "discountStartsAt" :> Null)}
HireBodies ==
  {Body(Unsent, "openingHour" :> 12),
   Body(n3, "closingHour" :> 12),
   Body(Unsent, "openingHour" :> Null @@ "closingHour" :> 1),
   Body(Unsent, "minHours" :> 5),
   Body(Unsent, "maxHours" :> 4)}
Relisting(active) == [name |-> Unsent, isActive |-> active, fields |-> NoFields]

\* The last one leaves the closing hour of a venue to the default by sending null.
MixedCreates(o) ==
  {Body(n3, NoFields), Body(n3, SaleFrom(2) @@ "discountEndsAt" :> 2)}
    \cup (IF o \in Venues THEN {Body(n3, "closingHour" :> Null)} ELSE {})
MixedPatches(o) ==
  {Relisting(TRUE), Relisting(Null)} \cup SaleBodies \cup (IF o \in Venues THEN HireBodies ELSE {})

\* Two staff move the two ends of a venue's opening hours.
HourPatches(o) == IF o \in Rooms THEN {} ELSE {Body(Unsent, "openingHour" :> 20), Body(Unsent, "closingHour" :> 10)}
NoCreates(o) == {}
RequestSymmetry == Permutations(Requests)
=============================================================================
