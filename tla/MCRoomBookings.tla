--------------------------- MODULE MCRoomBookings ---------------------------
(***************************************************************************)
(* Small instances of RoomBookings.  Night n is the night from day n to    *)
(* day n + 1.                                                              *)
(***************************************************************************)
EXTENDS RoomBookingProperties, TLC

CONSTANTS b1, b2, b3, d1, d2, r1, r2, g1, g2, s1

TwoBookings == {b1, b2}
ThreeBookings == {b1, b2, b3}
OneDecision == {d1}
TwoDecisions == {d1, d2}
OneRoom == {r1}
TwoRooms == {r1, r2}
OneGuest == {g1}
TwoGuests == {g1, g2}
OneStaff == {s1}

Days(i, o) == [checkIn |-> i, checkOut |-> o]

OneNight == {Days(0, 1)}
\* Two stays that overlap on one of two nights.
TwoStays == {Days(0, 2), Days(1, 2)}
\* Two stays back to back, and one across both.
AdjacentStays == {Days(0, 1), Days(1, 2), Days(0, 2)}
\* Two stays that overlap, and one that is too long.
MixedStays == TwoStays \cup {Days(0, 3)}
\* The stays of the worked example of BOOKING-DESIGN.md.
DesignStays == {Days(0, 1), Days(2, 3), Days(0, 3)}
BookingSymmetry == Permutations(Bookings)
CallSymmetry == Permutations(Bookings) \cup Permutations(Decisions)
=============================================================================
