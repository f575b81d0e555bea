------------------------ MODULE RoomBookingProperties ------------------------
(***************************************************************************)
(* What room bookings have to guarantee.                                   *)
(***************************************************************************)
EXTENDS RoomBookings

Holding(b) == status[b] \in HOLDING_STATUSES

HasOrder == CreateSteps \cup {"granted", "failed"}

\* How the control states agree with the data: a request has an order exactly while
\* it is served or may have a document, only a request past its insert has a
\* document, and a save knows its task.
Consistent ==
  /\ \A b \in Bookings : creating[b] \in HasOrder <=> order[b] # NoOrder
  /\ \A b \in Bookings :
       status[b] # "absent" =>
         creating[b] \in {"recounting", "withdrawing", "granted", "failed"}
  /\ \A d \in Decisions : deciding[d] = "saving" => task[d] # NoTask

\* The bookings the guest was told are theirs and that nobody has cancelled.  A
\* booking that came back from a cancellation is not one of them: it belongs to
\* nobody's successful request.
Sold == {b \in Bookings : creating[b] = "granted" /\ Holding(b) /\ b \notin revived}

SoldOn(r, n) == {b \in Sold : order[b].room = r /\ n \in Nights(order[b])}

HeldOn(r, n) ==
  {b \in Bookings : Holding(b) /\ order[b].room = r /\ n \in Nights(order[b])}

InFlight(b) == creating[b] \in CreateSteps

\* Never that both win: on every night of every room type there are no more sold
\* bookings than the units one of them saw when its request read the room.
\* BookingService.create keeps this by counting again after its insert.
NoDoubleSale ==
  \A r \in Rooms, n \in Calendar :
    SoldOn(r, n) # {} =>
      \E b \in SoldOn(r, n) : Cardinality(SoldOn(r, n)) <= order[b].units

\* While no create request is being served, no night holds more bookings than
\* the room type has units: the surplus of every race has been withdrawn.  Meant
\* for runs in which staff do not change totalUnits.
QuietWithinInventory ==
  (\A b \in Bookings : ~InFlight(b)) =>
    \A r \in Rooms, n \in Calendar :
      Cardinality(HeldOn(r, n)) <= room[r].totalUnits

\* A sold booking goes away only by a cancellation: no recount of another guest,
\* no late save and no change of the room takes it back.
SoldUntilCancelled ==
  [][\A b \in Sold : b \in Sold' \/ status'[b] = "cancelled"]_vars

\* A night on which more bookings are held than there are units is a passing
\* state of a race between create requests: it ends.
Overbooked(r, n) == Cardinality(HeldOn(r, n)) > room[r].totalUnits
OverbookingEnds ==
  \A r \in Rooms, n \in Calendar : Overbooked(r, n) ~> ~Overbooked(r, n)

\* Why it ends: an overbooked night has a booking whose request has still to count again
\* or to withdraw.  Meant for runs in which no call fails and staff edit nothing.
SurplusHasAnOwner ==
  \A r \in Rooms, n \in Calendar :
    Overbooked(r, n) => \E b \in HeldOn(r, n) : creating[b] \in {"recounting", "withdrawing"}

\* And a request that counts again is granted no stay with an overbooked night, as long
\* as the units it has read are those of the room.
NoGrantWhileOverbooked ==
  [][\A b \in Bookings, n \in Calendar :
       /\ edits = 0
       /\ creating[b] = "recounting"
       /\ n \in Nights(order[b]) /\ Overbooked(order[b].room, n)
       => creating'[b] # "granted"]_vars

\* A stay that has a free unit on each of its nights is not turned away
\* (BOOKING-DESIGN.md: what constrains a stay is its worst night).
FreeEveryNight(b) ==
  \A n \in Nights(order[b]) :
    Cardinality(HeldOn(order[b].room, n)) < order[b].units
NoNeedlessRefusal ==
  [][\A b \in Bookings :
       creating[b] = "counting" /\ FreeEveryNight(b) => creating'[b] # "refused"]_vars

\* Where the advice of BOOKING-DESIGN.md and the code part: two of the stays that are
\* counted lie on different nights.
Uneven(b) ==
  \E x, y \in Held(order[b].room, order[b].checkIn, order[b].checkOut) :
    Nights(order[x]) \cap Nights(order[y]) = {}

\* There alone is a stay turned away that has a free unit on each of its nights.
NeedlessOnlyIfUneven ==
  [][\A b \in Bookings :
       creating[b] = "counting" /\ FreeEveryNight(b) /\ failures' = failures /\ ~Uneven(b)
         => creating'[b] # "refused"]_vars

-----------------------------------------------------------------------------
(* Room bookings implement the abstract inventory.  A claim is open from   *)
(* the moment the request has read its room until it is refused, dies, or  *)
(* is no longer sold.                                                      *)

NoClaim == NoOrder

Open(b) ==
  \/ creating[b] \in {"counting", "inserting", "recounting", "withdrawing"}
  \/ b \in Sold

claimOf ==
  [b \in Bookings |->
     IF Open(b)
     THEN [resource |-> order[b].room, slots |-> Nights(order[b]), quote |-> order[b].units]
     ELSE NoClaim]

Abstract ==
  INSTANCE Inventory WITH
    Claims <- Bookings, Resources <- Rooms, Slots <- Calendar,
    Capacities <- UnitCounts \cup {0},
    capacity <- [r \in Rooms |-> room[r].totalUnits],
    claim <- claimOf, sold <- Sold

ASSUME NoClaimAssumption == NoClaim \notin Abstract!Claim

\* Every behaviour of the service is one the abstract inventory allows.
ImplementsInventory == Abstract!Spec
=============================================================================
