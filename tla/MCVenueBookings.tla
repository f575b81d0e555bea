--------------------------- MODULE MCVenueBookings ---------------------------
(***************************************************************************)
(* A small instance of VenueBookings: two guests ask for overlapping hours *)
(* of one venue that opens from 8 to 10, or from 9 to 10 after an edit.    *)
(***************************************************************************)
EXTENDS VenueBookings, TLC

CONSTANTS h1, h2, d1, d2, v1, g1, s1

TwoHires == {h1, h2}
TwoDecisions == {d1, d2}
OneVenue == {v1}
OneGuest == {g1}
OneStaff == {s1}

From8To10 == 8..10
SlotOn(day, from, to) == [date |-> day, startHour |-> from, endHour |-> to]
\* Two hires that overlap on one of two hours, one whose hours are out of order and
\* one too far ahead.
MixedSlots == {SlotOn(0, 8, 10), SlotOn(0, 9, 10), SlotOn(0, 9, 8), SlotOn(1, 9, 10)}

Rules(from, longest) ==
  [openingHour |-> from, closingHour |-> 10, minHours |-> 1, maxHours |-> longest]
TwoRules == {Rules(8, 2), Rules(9, 1)}
CallSymmetry == Permutations(Hires) \cup Permutations(Decisions)
=============================================================================
