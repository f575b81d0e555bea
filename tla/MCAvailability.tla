---------------------------- MODULE MCAvailability ----------------------------
(***************************************************************************)
(* A small instance of Availability: one search over two room types while  *)
(* two bookings are made and staff edit a room.  Night n is the night from *)
(* day n to day n + 1.                                                     *)
(***************************************************************************)
EXTENDS Availability, TLC

CONSTANTS b1, b2, r1, r2, s1, q1

TwoBookings == {b1, b2}
TwoRooms == {r1, r2}
OneStaff == {s1}
OneSearch == {q1}

Days(i, o) == [checkIn |-> i, checkOut |-> o]
\* Back to back, around one another, and one without a night.
SearchedStays == {Days(0, 1), Days(0, 2), Days(1, 2), Days(1, 1)}
BookingSymmetry == Permutations(Bookings) \cup Permutations(Rooms)
=============================================================================
