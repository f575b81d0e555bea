-------------------------- MODULE AvailabilityProofs --------------------------
(***************************************************************************)
(* A search never shows more units than each night of the stay has, for    *)
(* every set of searches, bookings and rooms, whatever happens between its *)
(* two reads.                                                              *)
(***************************************************************************)
EXTENDS Availability, RoomBookingProofs

SearchInv == Inv /\ SearchTypeOK

\* The initial states are typed.
LEMMA SearchInitInv == SearchInit => SearchInv
<1> SUFFICES ASSUME SearchInit
             PROVE  SearchInv
  OBVIOUS
<1>1. Inv
  BY InitInv DEF SearchInit
<1>2. Nothing \in [{} -> UnitCounts] /\ Nothing \in [{} -> Nat]
  BY DEF Nothing
<1>3. SearchTypeOK
  BY <1>2 DEF SearchInit, SearchTypeOK
<1> QED
  BY <1>1, <1>3 DEF SearchInv

\* A search that is refused stays typed.
LEMMA RefuseSearchInv ==
  ASSUME SearchInv, NEW s \in Searches, RefuseSearch(s), UNCHANGED vars
  PROVE  SearchTypeOK'
<1>1. Nothing \in [{} -> UnitCounts]
  BY DEF Nothing
<1>2. \A q \in Searches : \E R \in SUBSET Rooms : listed'[q] \in [R -> UnitCounts]
  BY <1>1 DEF SearchInv, SearchTypeOK, RefuseSearch
<1> QED
  BY <1>2 DEF SearchInv, SearchTypeOK, RefuseSearch

\* What is left of the units after what is held is a number.
LEMMA FreeTyped ==
  ASSUME NEW units \in Nat, NEW held \in Nat
  PROVE  free(units, held) \in Nat
BY DEF free

\* The counts of a search are numbers.
LEMMA HeldIsNumber ==
  ASSUME NEW r, NEW checkIn, NEW checkOut
  PROVE  heldByRoom(r, checkIn, checkOut) \in Nat
BY BookingsAssumption, FS_Subset, FS_CardinalityType DEF heldByRoom

\* Every step keeps the types.
LEMMA SearchNextInv == SearchInv /\ [SearchNext]_allVars => SearchInv'
<1> SUFFICES ASSUME SearchInv, [SearchNext]_allVars
             PROVE  SearchInv'
  OBVIOUS
<1>1. [Next]_vars
  BY DEF SearchNext, Elsewhere, Search, FindRooms, CountHeldByRoom, FailSearch, allVars
<1>2. Inv'
  BY <1>1, NextInv DEF SearchInv
<1>3. CASE Elsewhere
  <2>1. overtaken' \subseteq Searches
    BY <1>3 DEF Elsewhere, SearchInv, SearchTypeOK
  <2>2. SearchTypeOK'
    BY <1>3, <2>1 DEF Elsewhere, searchCalls, SearchInv, SearchTypeOK
  <2> QED
    BY <1>2, <2>2 DEF SearchInv
<1>4. ASSUME NEW s \in Searches, Search(s)
      PROVE  SearchInv'
  <2>1. CASE RefuseSearch(s)
    BY <1>2, <1>4, <2>1, RefuseSearchInv DEF Search, SearchInv
  <2>2. CASE ~RefuseSearch(s)
    <3>1. PICK stay \in RequestedStays, guests \in Parties \cup {Anyone} :
            /\ searching' = [searching EXCEPT ![s] = "finding"]
            /\ wanted' = [wanted EXCEPT ![s] =
                 [checkIn |-> stay.checkIn, checkOut |-> stay.checkOut, guests |-> guests]]
            /\ UNCHANGED <<listed, shown, overtaken>>
      BY <1>4, <2>2 DEF Search
    <3>2. [checkIn |-> stay.checkIn, checkOut |-> stay.checkOut, guests |-> guests] \in Wanted
      BY StaysAssumption DEF Wanted, Stay
    <3>3. SearchTypeOK'
      BY <3>1, <3>2, SearchAssumption DEF SearchInv, SearchTypeOK
    <3> QED
      BY <1>2, <3>3 DEF SearchInv
  <2> QED
    BY <2>1, <2>2
<1>5. ASSUME NEW s \in Searches, FindRooms(s)
      PROVE  SearchInv'
  <2>1. findAvailable(wanted[s].guests) \in SUBSET Rooms
    BY DEF findAvailable
  <2>2. [r \in findAvailable(wanted[s].guests) |-> room[r].totalUnits]
          \in [findAvailable(wanted[s].guests) -> UnitCounts]
    BY <2>1 DEF SearchInv, Inv, TypeOK, Room
  <2>3. \A q \in Searches : \E R \in SUBSET Rooms : listed'[q] \in [R -> UnitCounts]
    BY <1>5, <2>1, <2>2 DEF FindRooms, SearchInv, SearchTypeOK
  <2>4. SearchTypeOK'
    BY <1>5, <2>3 DEF FindRooms, SearchInv, SearchTypeOK
  <2> QED
    BY <1>2, <2>4 DEF SearchInv
<1>6. ASSUME NEW s \in Searches, CountHeldByRoom(s)
      PROVE  SearchInv'
  <2>1. PICK R \in SUBSET Rooms : listed[s] \in [R -> UnitCounts]
    BY DEF SearchInv, SearchTypeOK
  <2>2. \A r \in R :
          free(listed[s][r], heldByRoom(r, wanted[s].checkIn, wanted[s].checkOut)) \in Nat
    BY <2>1, HeldIsNumber, FreeTyped, CountsAssumption
  <2>3. shown'[s] \in [R -> Nat]
    BY <1>6, <2>1, <2>2 DEF CountHeldByRoom, SearchInv, SearchTypeOK
  <2>4. \A q \in Searches : \E Q \in SUBSET Rooms : shown'[q] \in [Q -> Nat]
    BY <1>6, <2>3 DEF CountHeldByRoom, SearchInv, SearchTypeOK
  <2>5. SearchTypeOK'
    BY <1>6, <2>4 DEF CountHeldByRoom, SearchInv, SearchTypeOK
  <2> QED
    BY <1>2, <2>5 DEF SearchInv
<1>7. ASSUME NEW s \in Searches, FailSearch(s)
      PROVE  SearchInv'
  BY <1>2, <1>7, RefuseSearchInv DEF FailSearch, SearchInv
<1>8. CASE UNCHANGED allVars
  <2>1. SearchTypeOK'
    BY <1>8 DEF allVars, searchCalls, SearchInv, SearchTypeOK
  <2> QED
    BY <1>2, <2>1 DEF SearchInv
<1> QED
  BY <1>3, <1>4, <1>5, <1>6, <1>7, <1>8 DEF SearchNext

\* Every reachable state is typed.
LEMMA SearchReachable == SearchSpec => []SearchInv
BY SearchInitInv, SearchNextInv, PTL DEF SearchSpec

\* Searches and their answers are typed: no answer is negative, however many bookings
\* a race or an edit has left above the inventory.
THEOREM SearchTyped == SearchSpec => []SearchTypeOK
BY SearchReachable, PTL DEF SearchInv

-----------------------------------------------------------------------------

\* Whoever holds a unit on one night of a stay is counted for the stay.
LEMMA NightIsCounted ==
  ASSUME Inv, NEW r \in Rooms, NEW o \in Wanted, NEW n \in Nights(o)
  PROVE  Cardinality(HeldOn(r, n)) <= heldByRoom(r, o.checkIn, o.checkOut)
<1> DEFINE Counted == {b \in Bookings :
      /\ status[b] \in HOLDING_STATUSES
      /\ order[b].room = r
      /\ order[b].checkIn < o.checkOut
      /\ order[b].checkOut > o.checkIn}
<1>1. o.checkIn \in Nat /\ o.checkOut \in Nat /\ n \in Nat /\ o.checkIn <= n /\ n < o.checkOut
  BY LastDayAssumption DEF Nights, Wanted, Calendar
<1>2. ASSUME NEW b \in HeldOn(r, n)
      PROVE  b \in Counted
  <2>1. b \in Bookings /\ status[b] \in HOLDING_STATUSES /\ order[b].room = r
    BY <1>2 DEF HeldOn, Holding
  <2>2. order[b] \in Order
    BY <2>1 DEF Inv, TypeOK, Consistent, HasOrder, HOLDING_STATUSES, PENDING, CreateSteps
  <2>3. order[b].checkIn \in Nat /\ order[b].checkOut \in Nat
    BY <2>2, LastDayAssumption DEF Order
  <2>4. order[b].checkIn <= n /\ n < order[b].checkOut
    BY <1>2 DEF HeldOn, Nights
  <2> QED
    BY <1>1, <2>1, <2>3, <2>4
<1>3. HeldOn(r, n) \subseteq Counted /\ Counted \subseteq Bookings
  BY <1>2
<1>4. Cardinality(HeldOn(r, n)) <= Cardinality(Counted)
  BY <1>3, BookingsAssumption, FS_Subset
<1> QED
  BY <1>4 DEF heldByRoom

\* What a search shows is free on each night of the stay when it counts, whatever
\* was booked, cancelled or edited since it read the rooms.
THEOREM NeverShowsTooMuch == SearchSpec => ShownIsFreeEveryNight
<1> DEFINE Fits == \A s \in Searches : searching[s] = "counting" /\ searching'[s] = "answered" =>
      \A r \in DOMAIN shown'[s], n \in Nights(wanted[s]) :
        shown'[s][r] > 0 => shown'[s][r] + Cardinality(HeldOn(r, n)) <= listed[s][r]
<1>1. SearchInv /\ [SearchNext]_allVars => [Fits]_allVars
  <2> SUFFICES ASSUME SearchInv, [SearchNext]_allVars,
                      NEW s \in Searches, searching[s] = "counting", searching'[s] = "answered",
                      NEW r \in DOMAIN shown'[s], NEW n \in Nights(wanted[s]), shown'[s][r] > 0
               PROVE  shown'[s][r] + Cardinality(HeldOn(r, n)) <= listed[s][r]
    OBVIOUS
  <2>1. CountHeldByRoom(s)
    BY DEF SearchNext, allVars, searchCalls, Elsewhere, Search, FindRooms, CountHeldByRoom,
           FailSearch, RefuseSearch, SearchInv, SearchTypeOK
  <2>2. PICK R \in SUBSET Rooms : listed[s] \in [R -> UnitCounts]
    BY DEF SearchInv, SearchTypeOK
  <2>3. PICK held : held = heldByRoom(r, wanted[s].checkIn, wanted[s].checkOut)
    OBVIOUS
  <2>4. r \in R /\ shown'[s][r] = free(listed[s][r], held)
    BY <2>1, <2>2, <2>3 DEF CountHeldByRoom, SearchInv, SearchTypeOK
  <2>5. listed[s][r] \in Nat /\ held \in Nat
    BY <2>2, <2>3, <2>4, HeldIsNumber, CountsAssumption
  <2>6. wanted[s] \in Wanted
    BY DEF SearchInv, SearchTypeOK
  <2>7. Cardinality(HeldOn(r, n)) <= held
    BY <2>2, <2>3, <2>4, <2>6, NightIsCounted DEF SearchInv
  <2>8. Cardinality(HeldOn(r, n)) \in Nat
    BY BookingsAssumption, FS_Subset, FS_CardinalityType DEF HeldOn
  <2>9. shown'[s][r] = listed[s][r] - held
    BY <2>4, <2>5 DEF free
  <2> QED
    BY <2>5, <2>7, <2>8, <2>9
<1> QED
  BY <1>1, SearchReachable, PTL DEF SearchSpec, ShownIsFreeEveryNight
-----------------------------------------------------------------------------

\* What the searches that nothing has overtaken know is still so.
Current ==
  \A s \in Searches \ overtaken :
    /\ searching[s] \in {"finding", "counting", "answered"} =>
         LegalStay(wanted[s].checkIn, wanted[s].checkOut)
    /\ searching[s] \in {"counting", "answered"} =>
         listed[s] = [r \in findAvailable(wanted[s].guests) |-> room[r].totalUnits]
    /\ searching[s] = "answered" =>
         shown[s] = [r \in DOMAIN listed[s] |->
           free(listed[s][r], heldByRoom(r, wanted[s].checkIn, wanted[s].checkOut))]

\* As long as no status changes, no document does.
LEMMA DocumentsStay ==
  ASSUME Inv, [Next]_vars, UNCHANGED status, NEW b \in Bookings, status[b] \in HOLDING_STATUSES
  PROVE  order'[b] = order[b]
<1>1. creating[b] \in {"recounting", "withdrawing", "granted", "failed"} /\ status[b] # "absent"
  BY DEF Inv, Consistent, HOLDING_STATUSES, PENDING
<1>2. ASSUME NEW c \in Bookings, Request(c) \/ CreateStep(c) \/ Fail(c)
      PROVE  order'[b] = order[b]
  <2>1. CASE c # b
    BY <1>2, <2>1
    DEF Request, CreateStep, FindRoom, Count, Insert, Recount, Withdraw, Fail, Refuse,
        Inv, TypeOK
  <2>2. CASE c = b /\ Withdraw(c)
    BY <1>1, <2>2 DEF Withdraw, Inv, TypeOK
  <2>3. CASE c = b /\ ~Withdraw(c)
    BY <1>1, <1>2, <2>3
    DEF Request, CreateStep, FindRoom, Count, Insert, Recount, Fail, Refuse, CreateSteps,
        Inv, TypeOK
  <2> QED
    BY <2>1, <2>2, <2>3
<1>3. CASE UNCHANGED createCalls
  BY <1>3 DEF createCalls
<1> QED
  BY <1>2, <1>3 DEF Next, Load, Save, LoseSave, EditRoom, NextDay, vars, createCalls

\* So the counts of a search stay the same.
LEMMA CountsStay ==
  ASSUME Inv, [Next]_vars, UNCHANGED status, NEW r, NEW checkIn, NEW checkOut
  PROVE  heldByRoom(r, checkIn, checkOut)' = heldByRoom(r, checkIn, checkOut)
<1>1. {b \in Bookings :
         /\ status'[b] \in HOLDING_STATUSES
         /\ order'[b].room = r
         /\ order'[b].checkIn < checkOut
         /\ order'[b].checkOut > checkIn} =
      {b \in Bookings :
         /\ status[b] \in HOLDING_STATUSES
         /\ order[b].room = r
         /\ order[b].checkIn < checkOut
         /\ order[b].checkOut > checkIn}
  BY DocumentsStay
<1> QED
  BY <1>1 DEF heldByRoom

\* Every step keeps what is current.
LEMMA CurrentStays == SearchInv /\ Current /\ [SearchNext]_allVars => Current'
<1> SUFFICES ASSUME SearchInv, Current, [SearchNext]_allVars
             PROVE  Current'
  OBVIOUS
<1>1. CASE UNCHANGED <<vars, searchCalls, overtaken>>
  BY <1>1 DEF Current, searchCalls, vars, store, createCalls, LegalStay, findAvailable, heldByRoom
<1>2. CASE Elsewhere
  <2>1. CASE UNCHANGED <<store, today>>
    <3>1. \A r, checkIn, checkOut :
            heldByRoom(r, checkIn, checkOut)' = heldByRoom(r, checkIn, checkOut)
      BY <1>2, <2>1, CountsStay DEF Elsewhere, SearchInv, store
    <3>2. \A guests : findAvailable(guests)' = findAvailable(guests)
      BY <2>1 DEF findAvailable, store
    <3>3. \A checkIn, checkOut : LegalStay(checkIn, checkOut)' <=> LegalStay(checkIn, checkOut)
      BY <2>1 DEF LegalStay
    <3> QED
      BY <1>2, <2>1, <3>1, <3>2, <3>3 DEF Elsewhere, Current, searchCalls, store
  <2>2. CASE ~UNCHANGED <<store, today>>
    BY <1>2, <2>2 DEF Elsewhere, Current, searchCalls
  <2> QED
    BY <2>1, <2>2
<1>3. ASSUME NEW s \in Searches, UNCHANGED <<vars, overtaken>>,
             \A q \in Searches \ {s} : /\ searching'[q] = searching[q] /\ wanted'[q] = wanted[q]
                                       /\ listed'[q] = listed[q] /\ shown'[q] = shown[q]
      PROVE  \A q \in Searches \ (overtaken' \cup {s}) :
               /\ searching'[q] \in {"finding", "counting", "answered"} =>
                    LegalStay(wanted[q].checkIn, wanted[q].checkOut)'
               /\ searching'[q] \in {"counting", "answered"} =>
                    listed'[q] = [r \in findAvailable(wanted[q].guests)' |-> room'[r].totalUnits]
               /\ searching'[q] = "answered" =>
                    shown'[q] = [r \in DOMAIN listed'[q] |->
                      free(listed'[q][r], heldByRoom(r, wanted[q].checkIn, wanted[q].checkOut)')]
  BY <1>3 DEF Current, vars, store, createCalls, LegalStay, findAvailable, heldByRoom
<1>4. ASSUME NEW s \in Searches, RefuseSearch(s), UNCHANGED vars
      PROVE  Current'
  BY <1>3, <1>4 DEF RefuseSearch, Current, SearchInv, SearchTypeOK
<1>5. ASSUME NEW s \in Searches, Search(s), ~RefuseSearch(s)
      PROVE  Current'
  <2>1. PICK stay \in RequestedStays, guests \in Parties \cup {Anyone} :
          /\ LegalStay(stay.checkIn, stay.checkOut)
          /\ searching' = [searching EXCEPT ![s] = "finding"]
          /\ wanted' = [wanted EXCEPT ![s] =
               [checkIn |-> stay.checkIn, checkOut |-> stay.checkOut, guests |-> guests]]
          /\ UNCHANGED <<listed, shown, overtaken>>
    BY <1>5 DEF Search
  <2>2. searching'[s] = "finding" /\ LegalStay(wanted[s].checkIn, wanted[s].checkOut)'
    BY <1>5, <2>1 DEF Search, SearchInv, SearchTypeOK, LegalStay, vars
  <2> QED
    BY <1>3, <1>5, <2>1, <2>2 DEF Search, Current, SearchInv, SearchTypeOK
<1>6. ASSUME NEW s \in Searches, FindRooms(s)
      PROVE  Current'
  <2>1. /\ searching'[s] = "counting"
        /\ listed'[s] = [r \in findAvailable(wanted[s].guests)' |-> room'[r].totalUnits]
    BY <1>6 DEF FindRooms, SearchInv, SearchTypeOK, findAvailable, vars, store
  <2>2. s \notin overtaken => LegalStay(wanted[s].checkIn, wanted[s].checkOut)'
    BY <1>6 DEF FindRooms, Current, LegalStay, vars
  <2> QED
    BY <1>3, <1>6, <2>1, <2>2 DEF FindRooms, Current, SearchInv, SearchTypeOK
<1>7. ASSUME NEW s \in Searches, CountHeldByRoom(s)
      PROVE  Current'
  <2>1. /\ shown'[s] = [r \in DOMAIN listed'[s] |->
             free(listed'[s][r], heldByRoom(r, wanted[s].checkIn, wanted[s].checkOut)')]
        /\ searching'[s] = "answered"
    BY <1>7 DEF CountHeldByRoom, SearchInv, SearchTypeOK, heldByRoom, vars, store, createCalls
  <2>2. s \notin overtaken =>
          /\ LegalStay(wanted[s].checkIn, wanted[s].checkOut)'
          /\ listed'[s] = [r \in findAvailable(wanted[s].guests)' |-> room'[r].totalUnits]
    <3>1. UNCHANGED <<room, today, wanted, listed>> /\ searching[s] = "counting"
      BY <1>7 DEF CountHeldByRoom, vars, store
    <3>2. findAvailable(wanted[s].guests)' = findAvailable(wanted[s].guests)
      BY <3>1 DEF findAvailable
    <3>3. s \notin overtaken =>
            /\ LegalStay(wanted[s].checkIn, wanted[s].checkOut)
            /\ listed[s] = [r \in findAvailable(wanted[s].guests) |-> room[r].totalUnits]
      BY <3>1 DEF Current
    <3> QED
      BY <3>1, <3>2, <3>3 DEF LegalStay
  <2> QED
    BY <1>3, <1>7, <2>1, <2>2 DEF CountHeldByRoom, Current, SearchInv, SearchTypeOK
<1> QED
  BY <1>1, <1>2, <1>4, <1>5, <1>6, <1>7 DEF SearchNext, Search, FailSearch, allVars

\* What is current is what a request to book would find.
LEMMA CurrentAgrees == SearchInv /\ Current => SearchAgreesWithCreate
<1> SUFFICES ASSUME SearchInv, Current,
                    NEW s \in Searches \ overtaken, searching[s] = "answered", NEW r \in Rooms
             PROVE  (r \in DOMAIN shown[s] /\ shown[s][r] > 0) <=> Bookable(r, wanted[s])
  BY DEF SearchAgreesWithCreate
<1>1. /\ LegalStay(wanted[s].checkIn, wanted[s].checkOut)
      /\ listed[s] = [q \in findAvailable(wanted[s].guests) |-> room[q].totalUnits]
      /\ shown[s] = [q \in DOMAIN listed[s] |->
           free(listed[s][q], heldByRoom(q, wanted[s].checkIn, wanted[s].checkOut))]
  BY DEF Current
<1>2. PICK held : held = heldByRoom(r, wanted[s].checkIn, wanted[s].checkOut)
  OBVIOUS
<1>3. Cardinality(Held(r, wanted[s].checkIn, wanted[s].checkOut)) = held
  BY <1>2 DEF Held, heldByRoom
<1>4. held \in Nat /\ room[r].totalUnits \in Nat /\ room[r].capacity \in Nat
  BY <1>2, HeldIsNumber, CountsAssumption DEF SearchInv, Inv, TypeOK, Room
<1>5. wanted[s].guests \in Parties \cup {Anyone} /\ Parties \subseteq Nat
  BY CountsAssumption DEF SearchInv, SearchTypeOK, Wanted
<1>6. r \in findAvailable(wanted[s].guests) <=>
        room[r].isActive /\ (wanted[s].guests # Anyone => wanted[s].guests <= room[r].capacity)
  BY <1>4, <1>5 DEF findAvailable
<1>7. r \in findAvailable(wanted[s].guests) => shown[s][r] = free(room[r].totalUnits, held)
  BY <1>1, <1>2
<1>8. free(room[r].totalUnits, held) > 0 <=> held < room[r].totalUnits
  BY <1>4 DEF free
<1>9. DOMAIN shown[s] = findAvailable(wanted[s].guests)
  BY <1>1
<1> QED
  BY <1>1, <1>3, <1>6, <1>7, <1>8, <1>9 DEF Bookable

\* Unless something changed since a search came in, it shows a room with a free unit
\* exactly when a request to book that room would be let through.
THEOREM SearchAndBookingAgree == SearchSpec => []SearchAgreesWithCreate
<1>1. SearchInit => Current
  BY DEF SearchInit, Current
<1> QED
  BY <1>1, CurrentStays, CurrentAgrees, SearchReachable, PTL DEF SearchSpec
=============================================================================
