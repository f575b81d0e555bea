----------------------------- MODULE Availability -----------------------------
(***************************************************************************)
(* The search guests see: BookingService.findAvailableRooms over           *)
(* RoomsService.findAvailable.  It reads twice, first the rooms and then   *)
(* the counts of what is held, while bookings are made, withdrawn and      *)
(* cancelled and staff edit the rooms.                                     *)
(***************************************************************************)
EXTENDS RoomBookingProperties

CONSTANTS
  Searches,
  Anyone,   \* the number of guests when it is left open
  NoSearch

Wanted == [checkIn: 0..LastDay + 1, checkOut: 0..LastDay + 1, guests: Parties \cup {Anyone}]

ASSUME SearchAssumption == Anyone \notin Parties /\ NoSearch \notin Wanted

VARIABLES
  searching,  \* where each search is
  wanted,     \* what it asks for
  listed,     \* totalUnits of the rooms it read
  shown,      \* its answer: availableUnits of each of them
  overtaken   \* history: the searches since whose arrival something changed

searchCalls == <<searching, wanted, listed, shown>>
allVars == <<vars, searchCalls, overtaken>>

SearchTypeOK ==
  /\ searching \in [Searches -> {"idle", "finding", "counting", "answered", "refused"}]
  /\ wanted \in [Searches -> Wanted \cup {NoSearch}]
  /\ \A s \in Searches : searching[s] \in {"finding", "counting", "answered"} <=> wanted[s] # NoSearch
  /\ DOMAIN listed = Searches /\ DOMAIN shown = Searches
  /\ \A s \in Searches : \E R \in SUBSET Rooms : listed[s] \in [R -> UnitCounts]
  /\ \A s \in Searches : \E R \in SUBSET Rooms : shown[s] \in [R -> Nat]
  /\ overtaken \subseteq Searches

Nothing == [r \in {} |-> 0]

SearchInit ==
  /\ Init
  /\ searching = [s \in Searches |-> "idle"]
  /\ wanted = [s \in Searches |-> NoSearch]
  /\ listed = [s \in Searches |-> Nothing]
  /\ shown = [s \in Searches |-> Nothing]
  /\ overtaken = {}

RefuseSearch(s) ==
  /\ searching' = [searching EXCEPT ![s] = "refused"]
  /\ wanted' = [wanted EXCEPT ![s] = NoSearch]
  /\ listed' = [listed EXCEPT ![s] = Nothing]
  /\ UNCHANGED <<shown, overtaken>>

\* The search arrives: parseStay, the same as for a booking.
Search(s) ==
  /\ searching[s] = "idle"
  /\ \E stay \in RequestedStays, guests \in Parties \cup {Anyone} :
       \/ /\ LegalStay(stay.checkIn, stay.checkOut)
          /\ searching' = [searching EXCEPT ![s] = "finding"]
          /\ wanted' = [wanted EXCEPT ![s] =
               [checkIn |-> stay.checkIn, checkOut |-> stay.checkOut, guests |-> guests]]
          /\ UNCHANGED <<listed, shown, overtaken>>
       \/ /\ ~LegalStay(stay.checkIn, stay.checkOut)
          /\ RefuseSearch(s)
  /\ UNCHANGED vars

\* A slip in findAvailable: rooms that are off the catalogue are listed, too.
AlsoWithdrawn(guests) == {r \in Rooms : guests = Anyone \/ room[r].capacity >= guests}

\* The rooms that are sold and sleep the party.
findAvailable(guests) ==
  {r \in Rooms : room[r].isActive /\ (guests = Anyone \/ room[r].capacity >= guests)}

FindRooms(s) ==
  /\ searching[s] = "finding"
  /\ searching' = [searching EXCEPT ![s] = "counting"]
  /\ listed' = [listed EXCEPT ![s] =
       [r \in findAvailable(wanted[s].guests) |-> room[r].totalUnits]]
  /\ UNCHANGED <<vars, wanted, shown, overtaken>>

\* A slip in heldByRoom: a stay that runs past the requested one is missed.
HeldEndingInside(r, checkIn, checkOut) ==
  Cardinality({b \in Bookings :
    /\ status[b] \in HOLDING_STATUSES
    /\ order[b].room = r
    /\ order[b].checkOut > checkIn /\ order[b].checkOut <= checkOut})

\* countHeldByRoom: the match and the count of one group.
heldByRoom(r, checkIn, checkOut) ==
  Cardinality({b \in Bookings :
    /\ status[b] \in HOLDING_STATUSES
    /\ order[b].room = r
    /\ order[b].checkIn < checkOut
    /\ order[b].checkOut > checkIn})

\* A slip in free: what exceeds the inventory is not cut off.
FreeOrOwed(units, held) == units - held

\* Math.max(0, ...)
free(units, held) == IF held >= units THEN 0 ELSE units - held

\* The counts arrive and the answer is put together.
CountHeldByRoom(s) ==
  /\ searching[s] = "counting"
  /\ searching' = [searching EXCEPT ![s] = "answered"]
  /\ shown' = [shown EXCEPT ![s] =
       [r \in DOMAIN listed[s] |->
          free(listed[s][r], heldByRoom(r, wanted[s].checkIn, wanted[s].checkOut))]]
  /\ UNCHANGED <<vars, wanted, listed, overtaken>>

\* A database call of the search fails.
FailSearch(s) ==
  /\ searching[s] \in {"finding", "counting"}
  /\ RefuseSearch(s)
  /\ UNCHANGED vars

\* A step of the bookings, the rooms or the calendar.
Elsewhere ==
  /\ Next
  /\ overtaken' =
       IF UNCHANGED <<store, today>> THEN overtaken
       ELSE overtaken \cup {s \in Searches : searching[s] # "idle"}
  /\ UNCHANGED searchCalls

SearchNext ==
  \/ Elsewhere
  \/ \E s \in Searches : Search(s) \/ FindRooms(s) \/ CountHeldByRoom(s) \/ FailSearch(s)

SearchSpec == SearchInit /\ [][SearchNext]_allVars

-----------------------------------------------------------------------------
(* What a search has to guarantee.                                         *)

\* A create request for this stay that ran now would get past all its checks and its
\* first count.
Bookable(r, w) ==
  /\ LegalStay(w.checkIn, w.checkOut)
  /\ room[r].isActive
  /\ w.guests # Anyone => w.guests <= room[r].capacity
  /\ Cardinality(Held(r, w.checkIn, w.checkOut)) < room[r].totalUnits

\* The search and the booking never disagree: unless something changed since the
\* search came in, a room is shown with a free unit exactly when a request to
\* book it would be let through, whoever is still being served.
SearchAgreesWithCreate ==
  \A s \in Searches \ overtaken : searching[s] = "answered" =>
    \A r \in Rooms : (r \in DOMAIN shown[s] /\ shown[s][r] > 0) <=> Bookable(r, wanted[s])

\* A search never shows more than there is: whatever changed between its two reads,
\* at the moment it counts the units it shows are free on each night of the stay, out
\* of the units it read.
ShownIsFreeEveryNight ==
  [][\A s \in Searches : searching[s] = "counting" /\ searching'[s] = "answered" =>
       \A r \in DOMAIN shown'[s], n \in Nights(wanted[s]) :
         shown'[s][r] > 0 => shown'[s][r] + Cardinality(HeldOn(r, n)) <= listed[s][r]]_allVars
=============================================================================
