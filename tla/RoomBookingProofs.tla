-------------------------- MODULE RoomBookingProofs --------------------------
(***************************************************************************)
(* RoomBookings never sells a unit twice, for every finite set of requests,*)
(* every calendar and every inventory, whatever fails and whatever staff   *)
(* edit: it implements Inventory, and Inventory never oversells.           *)
(***************************************************************************)
EXTENDS RoomBookingProperties, FiniteSetTheorems, WellFoundedInduction, TLAPS

AbstractFacts ==
  INSTANCE InventoryProofs WITH
    Claims <- Bookings, Resources <- Rooms, Slots <- Calendar,
    Capacities <- UnitCounts \cup {0},
    capacity <- [r \in Rooms |-> room[r].totalUnits],
    claim <- claimOf, sold <- Sold

Inv == TypeOK /\ Consistent

-----------------------------------------------------------------------------

\* The initial states are typed and consistent.
LEMMA InitInv == Init => Inv
<1> SUFFICES ASSUME Init
             PROVE  Inv
  OBVIOUS
<1>1. room \in [Rooms -> Room]
  BY DEF Init
<1>2. today \in Calendar
  BY LastDayAssumption DEF Init, Calendar
<1>3. TypeOK
  BY <1>1, <1>2 DEF Init, TypeOK, CreateSteps
<1>4. Consistent
  BY DEF Init, Consistent, HasOrder, CreateSteps
<1> QED
  BY <1>3, <1>4 DEF Inv

\* A refusal keeps the types and touches one request only.
LEMMA RefuseTyping ==
  ASSUME Inv, NEW b \in Bookings, Refuse(b)
  PROVE  /\ creating' \in [Bookings -> CreateSteps \cup {"idle", "granted", "refused", "failed"}]
         /\ order' \in [Bookings -> Order \cup {NoOrder}]
         /\ creating'[b] = "refused" /\ order'[b] = NoOrder
         /\ \A c \in Bookings \ {b} : creating'[c] = creating[c] /\ order'[c] = order[c]
  BY DEF Inv, TypeOK, Refuse

\* Every step keeps the types and the agreement of control and data.
LEMMA NextInv == Inv /\ [Next]_vars => Inv'
<1> SUFFICES ASSUME Inv, [Next]_vars
             PROVE  Inv'
  OBVIOUS
<1> USE DEF Inv
<1>1. ASSUME NEW b \in Bookings, Request(b)
      PROVE  Inv'
  <2>1. PICK user \in Users, r \in Rooms, stay \in RequestedStays, guests \in Parties :
          \/ /\ creating' = [creating EXCEPT ![b] = "findingRoom"]
             /\ order' = [order EXCEPT ![b] =
                  [user |-> user, room |-> r, checkIn |-> stay.checkIn,
                   checkOut |-> stay.checkOut, guests |-> guests, units |-> 0]]
          \/ Refuse(b)
    BY <1>1 DEF Request
  <2>2. [user |-> user, room |-> r, checkIn |-> stay.checkIn,
         checkOut |-> stay.checkOut, guests |-> guests, units |-> 0] \in Order
    BY StaysAssumption DEF Order, Stay
  <2>3. status[b] = "absent"
    BY <1>1 DEF Request, Consistent
  <2>4. TypeOK'
    BY <1>1, <2>1, <2>2
       DEF Request, Refuse, TypeOK, CreateSteps, store, decisionCalls, bounds
  <2>5. Consistent'
    BY <1>1, <2>1, <2>2, <2>3, NoOrderAssumption
       DEF Request, Refuse, TypeOK, Consistent, HasOrder, CreateSteps, store,
           decisionCalls, bounds
  <2> QED
    BY <2>4, <2>5
<1>2. ASSUME NEW b \in Bookings, FindRoom(b)
      PROVE  Inv'
  <2>1. order[b] \in Order
    BY <1>2 DEF FindRoom, TypeOK, Consistent, HasOrder, CreateSteps
  <2>2. room[order[b].room].totalUnits \in UnitCounts
    BY <2>1 DEF TypeOK, Order, Room
  <2>3. [order[b] EXCEPT !.units = room[order[b].room].totalUnits] \in Order
    BY <2>1, <2>2 DEF Order
  <2>4. status[b] = "absent"
    BY <1>2 DEF FindRoom, Consistent
  <2>5. CASE Refuse(b)
    BY <1>2, <2>4, <2>5, RefuseTyping
       DEF FindRoom, TypeOK, Consistent, HasOrder, CreateSteps, store, decisionCalls, bounds
  <2>6. CASE /\ creating' = [creating EXCEPT ![b] = "counting"]
             /\ order' = [order EXCEPT ![b].units = room[order[b].room].totalUnits]
    BY <1>2, <2>1, <2>3, <2>4, <2>6, NoOrderAssumption
       DEF FindRoom, TypeOK, Consistent, HasOrder, CreateSteps, store, decisionCalls, bounds
  <2> QED
    BY <1>2, <2>5, <2>6 DEF FindRoom
<1>3. ASSUME NEW b \in Bookings, Count(b)
      PROVE  Inv'
  <2>1. status[b] = "absent"
    BY <1>3 DEF Count, Consistent
  <2>2. CASE Refuse(b)
    BY <1>3, <2>1, <2>2, RefuseTyping
       DEF Count, TypeOK, Consistent, HasOrder, CreateSteps, store, decisionCalls, bounds
  <2>3. CASE creating' = [creating EXCEPT ![b] = "inserting"] /\ UNCHANGED order
    BY <1>3, <2>1, <2>3
       DEF Count, TypeOK, Consistent, HasOrder, CreateSteps, store, decisionCalls, bounds
  <2> QED
    BY <1>3, <2>2, <2>3 DEF Count
<1>4. ASSUME NEW b \in Bookings, Insert(b)
      PROVE  Inv'
  BY <1>4
     DEF Insert, TypeOK, Consistent, HasOrder, CreateSteps, decisionCalls, bounds,
         BOOKING_STATUSES, HOLDING_STATUSES, PENDING
<1>5. ASSUME NEW b \in Bookings, Recount(b)
      PROVE  Inv'
  BY <1>5 DEF Recount, TypeOK, Consistent, HasOrder, CreateSteps, store, decisionCalls, bounds
<1>6. ASSUME NEW b \in Bookings, Withdraw(b)
      PROVE  Inv'
  BY <1>6, RefuseTyping
     DEF Withdraw, TypeOK, Consistent, HasOrder, CreateSteps, decisionCalls, bounds
<1>7. ASSUME NEW b \in Bookings, Fail(b)
      PROVE  Inv'
  <2>1. CASE status[b] = "absent"
    <3>1. Refuse(b)
      BY <1>7, <2>1 DEF Fail
    <3> QED
      BY <1>7, <2>1, <3>1, RefuseTyping
         DEF Fail, TypeOK, Consistent, HasOrder, CreateSteps, store, decisionCalls, bounds
  <2>2. CASE status[b] # "absent"
    BY <1>7, <2>2
       DEF Fail, TypeOK, Consistent, HasOrder, CreateSteps, store, decisionCalls, bounds
  <2> QED
    BY <2>1, <2>2
<1>8. ASSUME NEW d \in Decisions, Load(d)
      PROVE  Inv'
  <2>1. PICK b \in Bookings, op \in {"cancel", "confirm"} :
          \/ /\ deciding' = [deciding EXCEPT ![d] = "saving"]
             /\ task' = [task EXCEPT ![d] = [op |-> op, booking |-> b]]
          \/ /\ deciding' = [deciding EXCEPT ![d] = "answered"]
             /\ UNCHANGED task
    BY <1>8 DEF Load
  <2>2. [op |-> op, booking |-> b] \in Task
    BY DEF Task
  <2> QED
    BY <1>8, <2>1, <2>2, NoOrderAssumption
       DEF Load, TypeOK, Consistent, HasOrder, CreateSteps, store, createCalls, bounds
<1>9. ASSUME NEW d \in Decisions, Save(d)
      PROVE  Inv'
  <2>1. task[d] \in Task /\ task[d].booking \in Bookings
    BY <1>9 DEF Save, TypeOK, Consistent, Task
  <2>2. /\ status' \in [Bookings -> BOOKING_STATUSES \cup {"absent"}]
        /\ revived' \subseteq Bookings
        /\ \A b \in Bookings : status'[b] # "absent" => status[b] # "absent"
    BY <1>9, <2>1
       DEF Save, NewStatus, TypeOK, BOOKING_STATUSES, HOLDING_STATUSES, PENDING
  <2> QED
    BY <1>9, <2>2
       DEF Save, TypeOK, Consistent, HasOrder, CreateSteps, createCalls, bounds
<1>10. ASSUME NEW d \in Decisions, LoseSave(d)
       PROVE  Inv'
  BY <1>10 DEF LoseSave, TypeOK, Consistent, HasOrder, CreateSteps, store, createCalls
<1>11. ASSUME NEW r \in Rooms, EditRoom(r)
       PROVE  Inv'
  <2>1. room' \in [Rooms -> Room]
    BY <1>11 DEF EditRoom, TypeOK, Room
  <2> QED
    BY <1>11, <2>1
       DEF EditRoom, TypeOK, Consistent, HasOrder, CreateSteps, createCalls, decisionCalls
<1>12. CASE NextDay
  BY <1>12, LastDayAssumption
     DEF NextDay, TypeOK, Consistent, HasOrder, CreateSteps, store, createCalls,
         decisionCalls, bounds, Calendar
<1>13. CASE UNCHANGED vars
  BY <1>13
     DEF vars, TypeOK, Consistent, HasOrder, CreateSteps, store, createCalls,
         decisionCalls, bounds
<1> QED
  BY <1>1, <1>2, <1>3, <1>4, <1>5, <1>6, <1>7, <1>8, <1>9, <1>10, <1>11, <1>12, <1>13
     DEF Next, CreateStep

\* The control states and the data agree in every reachable state.
THEOREM Invariance == Spec => []Inv
  BY InitInv, NextInv, PTL DEF Spec

\* Type correctness of the service.
THEOREM TypeCorrect == Spec => []TypeOK
<1>1. Inv => TypeOK
  BY DEF Inv
<1> QED
  BY <1>1, Invariance, PTL

-----------------------------------------------------------------------------
(* The refinement: every step of the service is a step of Inventory or     *)
(* leaves its variables alone.                                             *)

\* An open request has a claim the abstract inventory accepts.
LEMMA ClaimTyped ==
  ASSUME Inv, NEW b \in Bookings, Open(b)
  PROVE  /\ order[b] \in Order
         /\ claimOf[b] = [resource |-> order[b].room, slots |-> Nights(order[b]),
                          quote |-> order[b].units]
         /\ claimOf[b] \in Abstract!Claim
         /\ claimOf[b] # NoClaim
<1>1. creating[b] \in HasOrder
  BY DEF Open, Sold, HasOrder, CreateSteps
<1>2. order[b] \in Order
  BY <1>1 DEF Inv, TypeOK, Consistent
<1>3. claimOf[b] = [resource |-> order[b].room, slots |-> Nights(order[b]),
                    quote |-> order[b].units]
  BY DEF claimOf
<1>4. Nights(order[b]) \in SUBSET Calendar
  BY DEF Nights
<1>5. claimOf[b] \in Abstract!Claim
  BY <1>2, <1>3, <1>4 DEF Order, Abstract!Claim
<1> QED
  BY <1>2, <1>3, <1>5, NoClaimAssumption

\* What the abstract variables are made of does not change.
LEMMA StutterIf ==
  ASSUME UNCHANGED room,
         \A b \in Bookings : Open(b)' <=> Open(b),
         \A b \in Bookings : Open(b) => order'[b] = order[b],
         Sold' = Sold
  PROVE  UNCHANGED Abstract!vars
<1>1. claimOf' = claimOf
  BY DEF claimOf, Nights, NoClaim
<1> QED
  BY <1>1 DEF Abstract!vars

\* One request stops being open, and sold if it was.
LEMMA CloseIf ==
  ASSUME Inv, NEW b \in Bookings, UNCHANGED room,
         Open(b), ~Open(b)',
         \A c \in Bookings \ {b} : Open(c)' <=> Open(c),
         \A c \in Bookings \ {b} : Open(c) => order'[c] = order[c],
         Sold' = Sold \ {b}
  PROVE  Abstract!Close(b)
<1>1. claimOf' = [claimOf EXCEPT ![b] = NoClaim]
  BY DEF claimOf, Nights, NoClaim
<1> QED
  BY <1>1, ClaimTyped DEF Abstract!Close

\* A request that is refused closes its claim if it had one.
LEMMA RefuseStep ==
  ASSUME Inv, NEW b \in Bookings, Refuse(b), UNCHANGED <<room, revived>>,
         creating[b] # "granted",
         \A c \in Bookings \ {b} : status'[c] = status[c]
  PROVE  \/ Abstract!Close(b)
         \/ UNCHANGED Abstract!vars
<1>1. /\ creating'[b] = "refused"
      /\ \A c \in Bookings \ {b} : creating'[c] = creating[c] /\ order'[c] = order[c]
  BY RefuseTyping
<1>2. b \notin Sold /\ b \notin Sold' /\ ~Open(b)'
  BY <1>1 DEF Sold, Open
<1>3. Sold' = Sold
  BY <1>1, <1>2 DEF Sold, Holding
<1>4. \A c \in Bookings \ {b} : Open(c)' <=> Open(c)
  BY <1>1, <1>3 DEF Open
<1>5. CASE Open(b)
  BY <1>1, <1>2, <1>3, <1>4, <1>5, CloseIf
<1>6. CASE ~Open(b)
  BY <1>1, <1>2, <1>3, <1>4, <1>6, StutterIf
<1> QED
  BY <1>5, <1>6

\* A booking that was neither sold nor becomes so: steps inside the create
\* request that keep its claim open.
LEMMA ProgressStep ==
  ASSUME Inv, NEW b \in Bookings, NEW to, creating' = [creating EXCEPT ![b] = to],
         creating[b] # "granted", to # "granted",
         UNCHANGED <<room, order, revived>>,
         \A c \in Bookings \ {b} : status'[c] = status[c],
         creating[b] \in {"counting", "inserting", "recounting", "withdrawing"} <=>
           to \in {"counting", "inserting", "recounting", "withdrawing"}
  PROVE  UNCHANGED Abstract!vars
<1>1. /\ creating'[b] = to
      /\ \A c \in Bookings \ {b} : creating'[c] = creating[c]
  BY DEF Inv, TypeOK
<1>2. Sold' = Sold
  BY <1>1 DEF Sold, Holding
<1>3. \A c \in Bookings : Open(c)' <=> Open(c)
  BY <1>1, <1>2 DEF Open
<1> QED
  BY <1>2, <1>3, StutterIf

\* Reading the room opens the claim: it is quoted the units of the copy.
LEMMA FindRoomStep ==
  ASSUME Inv, NEW b \in Bookings, FindRoom(b)
  PROVE  [Abstract!Next]_(Abstract!vars)
<1>1. UNCHANGED <<room, status, revived>>
  BY DEF FindRoom, store
<1>2. CASE Refuse(b)
  BY <1>1, <1>2, RefuseStep DEF FindRoom, Abstract!Next
<1>3. CASE /\ creating' = [creating EXCEPT ![b] = "counting"]
           /\ order' = [order EXCEPT ![b].units = room[order[b].room].totalUnits]
  <2>1. order[b] \in Order
    BY DEF FindRoom, Inv, TypeOK, Consistent, HasOrder, CreateSteps
  <2>2. /\ creating'[b] = "counting"
        /\ order'[b] = [order[b] EXCEPT !.units = room[order[b].room].totalUnits]
        /\ \A c \in Bookings \ {b} : creating'[c] = creating[c] /\ order'[c] = order[c]
    BY <1>3 DEF Inv, TypeOK
  <2>3. /\ order'[b].room = order[b].room
        /\ order'[b].checkIn = order[b].checkIn
        /\ order'[b].checkOut = order[b].checkOut
        /\ order'[b].units = room[order[b].room].totalUnits
        /\ order[b].room \in Rooms
    BY <2>1, <2>2 DEF Order
  <2>4. Nights(order'[b]) = Nights(order[b]) /\ Nights(order[b]) \in SUBSET Calendar
    BY <2>3 DEF Nights
  <2>5. Sold' = Sold
    BY <1>1, <2>2 DEF FindRoom, Sold, Holding
  <2>6. Open(b)' /\ ~Open(b) /\ \A c \in Bookings \ {b} : Open(c)' <=> Open(c)
    BY <2>2, <2>5 DEF FindRoom, Open, Sold
  <2>7. claimOf[b] = NoClaim
    BY <2>6 DEF claimOf
  <2>8. claimOf' = [claimOf EXCEPT ![b] =
          [resource |-> order[b].room, slots |-> Nights(order[b]),
           quote |-> room[order[b].room].totalUnits]]
    BY <2>2, <2>3, <2>4, <2>6 DEF claimOf, Nights
  <2>9. Abstract!Quote(b)
    BY <1>1, <2>3, <2>4, <2>5, <2>7, <2>8 DEF Abstract!Quote
  <2> QED
    BY <2>9 DEF Abstract!Next
<1> QED
  BY <1>2, <1>3 DEF FindRoom

\* The instance counts as this module does.
LEMMA SameCardinality == \A S : Abstract!Cardinality(S) = Cardinality(S)
  BY DEF Abstract!Cardinality, Cardinality

\* A copy of totalUnits is a number.
LEMMA UnitsAreNumbers == \A o \in Order : o.units \in Nat
<1>1. \A n \in UnitCounts \cup {0} : n \in Nat
  BY CountsAssumption
<1> QED
  BY <1>1 DEF Order

\* The heart of it.  A booking is granted when the second count, which includes
\* the booking itself, is within the units of its copy of the room.  All sold
\* bookings of any of its nights are in that count, so each night had a unit left.
LEMMA GrantFindsFreeNights ==
  ASSUME Inv, NEW b \in Bookings, creating[b] = "recounting", Holding(b),
         countHeld(b) <= order[b].units, NEW n \in Nights(order[b])
  PROVE  Cardinality(Abstract!SoldAt(order[b].room, n)) < order[b].units
<1> DEFINE H == Held(order[b].room, order[b].checkIn, order[b].checkOut)
           A == Abstract!SoldAt(order[b].room, n)
<1>1. order[b] \in Order
  BY DEF Inv, TypeOK, Consistent, HasOrder, CreateSteps
<1>2. /\ order[b].checkIn \in Nat /\ order[b].checkOut \in Nat /\ n \in Nat
      /\ order[b].checkIn <= n /\ n < order[b].checkOut
  BY <1>1, LastDayAssumption DEF Order, Nights, Calendar
<1>3. b \in H
  BY <1>2 DEF Held, Holding
<1>4. ASSUME NEW c \in A
      PROVE  c \in H
  <2>1. c \in Sold /\ claimOf[c].resource = order[b].room /\ n \in claimOf[c].slots
    BY <1>4 DEF Abstract!SoldAt
  <2>2. c \in Bookings /\ Holding(c) /\ Open(c)
    BY <2>1 DEF Sold, Open
  <2>3. /\ order[c] \in Order
        /\ claimOf[c] = [resource |-> order[c].room, slots |-> Nights(order[c]),
                         quote |-> order[c].units]
    BY <2>2, ClaimTyped
  <2>5. order[c].room = order[b].room /\ n \in Nights(order[c])
    BY <2>1, <2>3
  <2>4. /\ order[c].checkIn \in Nat /\ order[c].checkOut \in Nat
        /\ order[c].checkIn <= n /\ n < order[c].checkOut
    BY <2>3, <2>5, LastDayAssumption DEF Order, Nights
  <2> QED
    BY <1>2, <2>2, <2>5, <2>4 DEF Held, Holding
<1>5. b \notin A
  BY DEF Abstract!SoldAt, Sold
<1>6. IsFiniteSet(H) /\ Cardinality(H) \in Nat
  BY BookingsAssumption, FS_Subset, FS_CardinalityType DEF Held
<1>7. IsFiniteSet(A) /\ A \cup {b} \subseteq H
  BY <1>3, <1>4, <1>6, FS_Subset
<1>8. Cardinality(A) \in Nat /\ Cardinality(A \cup {b}) = Cardinality(A) + 1
  BY <1>5, <1>7, FS_AddElement, FS_CardinalityType
<1>9. Cardinality(A) + 1 <= Cardinality(H)
  BY <1>6, <1>7, <1>8, FS_Subset
<1>10. order[b].units \in Nat /\ Cardinality(H) <= order[b].units
  BY <1>1, UnitsAreNumbers DEF countHeld
<1> HIDE DEF A, H
<1>11. Cardinality(A) < order[b].units
  BY <1>6, <1>8, <1>9, <1>10
<1> QED
  BY <1>11 DEF A

\* A recount that grants sells the claim, unless it was cancelled meanwhile.
LEMMA RecountStep ==
  ASSUME Inv, NEW b \in Bookings, Recount(b)
  PROVE  [Abstract!Next]_(Abstract!vars)
<1>1. UNCHANGED <<room, status, order, revived>> /\ creating[b] = "recounting"
  BY DEF Recount, store
<1>2. CASE creating' = [creating EXCEPT ![b] = "withdrawing"]
  BY <1>1, <1>2, ProgressStep
<1>3. CASE creating' = [creating EXCEPT ![b] = "granted"] /\ countHeld(b) <= order[b].units
  <2>1. /\ creating'[b] = "granted"
        /\ \A c \in Bookings \ {b} : creating'[c] = creating[c]
    BY <1>3 DEF Inv, TypeOK
  <2>2. Open(b) /\ b \notin Sold
    BY <1>1 DEF Open, Sold
  <2>3. CASE Holding(b) /\ b \notin revived
    <3>1. Sold' = Sold \cup {b}
      BY <1>1, <2>1, <2>3 DEF Sold, Holding
    <3>2. \A c \in Bookings : Open(c)' <=> Open(c)
      BY <2>1, <2>2, <3>1 DEF Open
    <3>3. claimOf' = claimOf
      BY <1>1, <3>2 DEF claimOf, Nights
    <3>4. \A t \in claimOf[b].slots :
            Cardinality(Abstract!SoldAt(claimOf[b].resource, t)) < claimOf[b].quote
      <4>1. /\ claimOf[b] = [resource |-> order[b].room, slots |-> Nights(order[b]),
                             quote |-> order[b].units]
            /\ claimOf[b] # NoClaim
        BY <2>2, ClaimTyped
      <4>2. \A t \in Nights(order[b]) :
              Cardinality(Abstract!SoldAt(order[b].room, t)) < order[b].units
        BY <1>1, <1>3, <2>3, GrantFindsFreeNights
      <4> QED
        BY <4>1, <4>2
    <3>5. Abstract!Sell(b)
      <4>1. claimOf[b] # NoClaim
        BY <2>2, ClaimTyped
      <4>2. UNCHANGED [r \in Rooms |-> room[r].totalUnits]
        BY <1>1
      <4> QED
        BY <2>2, <3>1, <3>3, <3>4, <4>1, <4>2, SameCardinality DEF Abstract!Sell
    <3> QED
      BY <3>5 DEF Abstract!Next
  <2>4. CASE ~(Holding(b) /\ b \notin revived)
    <3>1. Sold' = Sold /\ b \notin Sold'
      BY <1>1, <2>1, <2>2, <2>4 DEF Sold, Holding
    <3>2. ~Open(b)' /\ \A c \in Bookings \ {b} : Open(c)' <=> Open(c)
      BY <2>1, <3>1 DEF Open
    <3>3. Abstract!Close(b)
      BY <1>1, <2>2, <3>1, <3>2, CloseIf
    <3> QED
      BY <3>3 DEF Abstract!Next
  <2> QED
    BY <2>3, <2>4
<1> QED
  BY <1>2, <1>3 DEF Recount

\* A request that dies gives its claim up.
LEMMA FailStep ==
  ASSUME Inv, NEW b \in Bookings, Fail(b)
  PROVE  [Abstract!Next]_(Abstract!vars)
<1>1. UNCHANGED <<room, status, revived>> /\ creating[b] \in CreateSteps
  BY DEF Fail, store
<1>2. CASE Refuse(b)
  BY <1>1, <1>2, RefuseStep DEF CreateSteps, Abstract!Next
<1>3. CASE creating' = [creating EXCEPT ![b] = "failed"] /\ UNCHANGED order
  <2>1. /\ creating'[b] = "failed"
        /\ \A c \in Bookings \ {b} : creating'[c] = creating[c]
    BY <1>3 DEF Inv, TypeOK
  <2>2. b \notin Sold /\ Sold' = Sold
    BY <1>1, <2>1 DEF Sold, Holding, CreateSteps
  <2>3. ~Open(b)' /\ \A c \in Bookings \ {b} : Open(c)' <=> Open(c)
    BY <2>1, <2>2 DEF Open
  <2>4. Abstract!Close(b) \/ UNCHANGED Abstract!vars
    BY <1>1, <1>3, <2>2, <2>3, CloseIf, StutterIf
  <2> QED
    BY <2>4 DEF Abstract!Next
<1> QED
  BY <1>2, <1>3 DEF Fail

\* A save closes the claim of the booking it cancels.
LEMMA SaveStep ==
  ASSUME Inv, NEW d \in Decisions, Save(d)
  PROVE  [Abstract!Next]_(Abstract!vars)
<1>1. PICK b \in Bookings : b = task[d].booking
  BY DEF Save, Inv, TypeOK, Consistent, Task
<1>2. UNCHANGED <<room, creating, order>>
  BY DEF Save, createCalls
<1>3. \/ UNCHANGED <<status, revived>>
      \/ /\ status' = [status EXCEPT ![b] = "cancelled"]
         /\ revived' = revived
      \/ /\ status' = [status EXCEPT ![b] = "confirmed"]
         /\ status[b] # "absent"
         /\ revived' = IF status[b] = "cancelled" THEN revived \cup {b} ELSE revived
  <2>1. task[d].op \in {"cancel", "confirm"}
    BY DEF Save, Inv, TypeOK, Consistent, Task
  <2> QED
    BY <1>1, <2>1 DEF Save, NewStatus
<1>4. \A c \in Bookings \ {b} : (c \in Sold' <=> c \in Sold)
  BY <1>1, <1>2, <1>3 DEF Sold, Holding, Inv, TypeOK
<1>5. b \in Sold' => b \in Sold
  BY <1>1, <1>2, <1>3
     DEF Sold, Holding, Inv, TypeOK, HOLDING_STATUSES, BOOKING_STATUSES, PENDING
<1>6. CASE b \in Sold' <=> b \in Sold
  <2>1. Sold' = Sold
    BY <1>1, <1>4, <1>6 DEF Sold
  <2>2. \A c \in Bookings : Open(c)' <=> Open(c)
    BY <1>2, <2>1 DEF Open
  <2> QED
    BY <1>2, <2>1, <2>2, StutterIf
<1>7. CASE b \in Sold /\ b \notin Sold'
  <2>1. Sold' = Sold \ {b}
    BY <1>1, <1>4, <1>7 DEF Sold
  <2>2. Open(b) /\ \A c \in Bookings \ {b} : Open(c)' <=> Open(c)
    BY <1>2, <1>7, <2>1 DEF Open
  <2>3. ~Open(b)'
    <3>1. creating'[b] = "granted"
      BY <1>2, <1>7 DEF Sold
    <3> QED
      BY <1>7, <3>1 DEF Open
  <2>4. Abstract!Close(b)
    BY <1>1, <1>2, <2>1, <2>2, <2>3, CloseIf
  <2> QED
    BY <1>1, <2>4 DEF Abstract!Next
<1> QED
  BY <1>5, <1>6, <1>7

\* Initial states map to initial states.
LEMMA InitRefines == Init => Abstract!Init
<1> SUFFICES ASSUME Init
             PROVE  Abstract!Init
  OBVIOUS
<1>1. [r \in Rooms |-> room[r].totalUnits] \in [Rooms -> UnitCounts \cup {0}]
  BY DEF Init, Room
<1>2. Sold = {}
  BY DEF Init, Sold
<1>3. \A b \in Bookings : ~Open(b)
  BY <1>2 DEF Init, Open
<1>4. claimOf = [b \in Bookings |-> NoClaim]
  BY <1>3 DEF claimOf
<1> QED
  BY <1>1, <1>2, <1>4 DEF Abstract!Init

\* Every step maps to a step or a stutter.
LEMMA NextRefines == Inv /\ [Next]_vars => [Abstract!Next]_(Abstract!vars)
<1> SUFFICES ASSUME Inv, [Next]_vars
             PROVE  [Abstract!Next]_(Abstract!vars)
  OBVIOUS
<1>0. ASSUME UNCHANGED <<room, status, createCalls, revived>>
      PROVE  UNCHANGED Abstract!vars
  <2>1. Sold' = Sold /\ \A b \in Bookings : Open(b)' <=> Open(b)
    BY <1>0 DEF Sold, Open, Holding, createCalls
  <2> QED
    BY <1>0, <2>1, StutterIf DEF createCalls
<1>1. ASSUME NEW b \in Bookings, Request(b)
      PROVE  [Abstract!Next]_(Abstract!vars)
  <2>1. UNCHANGED <<room, status, revived>> /\ creating[b] = "idle"
    BY <1>1 DEF Request, store
  <2>2. CASE Refuse(b)
    BY <2>1, <2>2, RefuseStep DEF Abstract!Next
  <2>3. CASE ~Refuse(b)
    <3>1. /\ creating' = [creating EXCEPT ![b] = "findingRoom"]
          /\ \A c \in Bookings \ {b} : order'[c] = order[c]
      BY <1>1, <2>3 DEF Request, Inv, TypeOK
    <3>2. /\ creating'[b] = "findingRoom"
          /\ \A c \in Bookings \ {b} : creating'[c] = creating[c]
      BY <3>1 DEF Inv, TypeOK
    <3>3. Sold' = Sold /\ b \notin Sold
      BY <2>1, <3>2 DEF Sold, Holding
    <3>4. ~Open(b) /\ \A c \in Bookings : Open(c)' <=> Open(c)
      BY <2>1, <3>2, <3>3 DEF Open
    <3> QED
      BY <2>1, <3>1, <3>3, <3>4, StutterIf
  <2> QED
    BY <2>2, <2>3
<1>2. ASSUME NEW b \in Bookings, FindRoom(b)
      PROVE  [Abstract!Next]_(Abstract!vars)
  BY <1>2, FindRoomStep
<1>3. ASSUME NEW b \in Bookings, Count(b)
      PROVE  [Abstract!Next]_(Abstract!vars)
  <2>1. UNCHANGED <<room, status, revived>> /\ creating[b] = "counting"
    BY <1>3 DEF Count, store
  <2>2. CASE Refuse(b)
    BY <2>1, <2>2, RefuseStep DEF Abstract!Next
  <2>3. CASE creating' = [creating EXCEPT ![b] = "inserting"] /\ UNCHANGED order
    BY <2>1, <2>3, ProgressStep
  <2> QED
    BY <1>3, <2>2, <2>3 DEF Count
<1>4. ASSUME NEW b \in Bookings, Insert(b)
      PROVE  [Abstract!Next]_(Abstract!vars)
  <2>1. \A c \in Bookings \ {b} : status'[c] = status[c]
    BY <1>4 DEF Insert, Inv, TypeOK
  <2> QED
    BY <1>4, <2>1, ProgressStep DEF Insert
<1>5. ASSUME NEW b \in Bookings, Recount(b)
      PROVE  [Abstract!Next]_(Abstract!vars)
  BY <1>5, RecountStep
<1>6. ASSUME NEW b \in Bookings, Withdraw(b)
      PROVE  [Abstract!Next]_(Abstract!vars)
  <2>1. \A c \in Bookings \ {b} : status'[c] = status[c]
    BY <1>6 DEF Withdraw, Inv, TypeOK
  <2> QED
    BY <1>6, <2>1, RefuseStep DEF Withdraw, Abstract!Next
<1>7. ASSUME NEW b \in Bookings, Fail(b)
      PROVE  [Abstract!Next]_(Abstract!vars)
  BY <1>7, FailStep
<1>8. ASSUME NEW d \in Decisions, Load(d)
      PROVE  [Abstract!Next]_(Abstract!vars)
  BY <1>0, <1>8 DEF Load, store
<1>9. ASSUME NEW d \in Decisions, Save(d)
      PROVE  [Abstract!Next]_(Abstract!vars)
  BY <1>9, SaveStep
<1>10. ASSUME NEW d \in Decisions, LoseSave(d)
       PROVE  [Abstract!Next]_(Abstract!vars)
  BY <1>0, <1>10 DEF LoseSave, store
<1>11. ASSUME NEW r \in Rooms, EditRoom(r)
       PROVE  [Abstract!Next]_(Abstract!vars)
  <2>1. UNCHANGED <<status, creating, order, revived>>
    BY <1>11 DEF EditRoom, createCalls
  <2>2. Sold' = Sold /\ \A b \in Bookings : Open(b)' <=> Open(b)
    BY <2>1 DEF Sold, Open, Holding
  <2>3. claimOf' = claimOf
    BY <2>1, <2>2 DEF claimOf, Nights
  <2>4. PICK n \in UnitCounts :
          \/ [q \in Rooms |-> room[q].totalUnits]' =
               [[q \in Rooms |-> room[q].totalUnits] EXCEPT ![r] = n]
          \/ UNCHANGED [q \in Rooms |-> room[q].totalUnits]
    <3>1. CASE \E n \in UnitCounts : room' = [room EXCEPT ![r].totalUnits = n]
      <4>1. PICK n \in UnitCounts : room' = [room EXCEPT ![r].totalUnits = n]
        BY <3>1
      <4>2. \A q \in Rooms :
              room'[q].totalUnits = IF q = r THEN n ELSE room[q].totalUnits
        BY <4>1 DEF Inv, TypeOK, Room
      <4> QED
        BY <4>2
    <3>2. CASE \/ \E n \in Parties : room' = [room EXCEPT ![r].capacity = n]
               \/ \E active \in BOOLEAN : room' = [room EXCEPT ![r].isActive = active]
      <4>1. \A q \in Rooms : room'[q].totalUnits = room[q].totalUnits
        BY <3>2 DEF Inv, TypeOK, Room
      <4>2. room[r].totalUnits \in UnitCounts
        BY DEF Inv, TypeOK, Room
      <4> QED
        BY <4>1, <4>2
    <3> QED
      BY <1>11, <3>1, <3>2 DEF EditRoom
  <2>5. Abstract!Resize(r) \/ UNCHANGED Abstract!vars
    BY <2>2, <2>3, <2>4 DEF Abstract!Resize, Abstract!vars
  <2> QED
    BY <2>5 DEF Abstract!Next
<1>12. CASE NextDay
  BY <1>0, <1>12 DEF NextDay, store
<1>13. CASE UNCHANGED vars
  BY <1>0, <1>13 DEF vars, store
<1> QED
  BY <1>1, <1>2, <1>3, <1>4, <1>5, <1>6, <1>7, <1>8, <1>9, <1>10, <1>11, <1>12, <1>13
     DEF Next, CreateStep

\* Room bookings implement the abstract inventory.
THEOREM Refinement == Spec => ImplementsInventory
  BY InitRefines, NextRefines, Invariance, PTL
     DEF Spec, ImplementsInventory, Abstract!Spec

-----------------------------------------------------------------------------
(* What Inventory guarantees therefore holds of the service.               *)

\* The two instances say the same.
LEMMA SameInit == Abstract!Init => AbstractFacts!Init
  BY DEF Abstract!Init, AbstractFacts!Init

\* The same of their steps.
LEMMA SameNext == [Abstract!Next]_(Abstract!vars) => [AbstractFacts!Next]_(AbstractFacts!vars)
<1>1. \A S : Abstract!Cardinality(S) = AbstractFacts!Cardinality(S)
  BY DEF Abstract!Cardinality, AbstractFacts!Cardinality
<1> QED
  BY <1>1
     DEF Abstract!Next, AbstractFacts!Next, Abstract!vars, AbstractFacts!vars,
         Abstract!Quote, AbstractFacts!Quote, Abstract!Sell, AbstractFacts!Sell,
         Abstract!Close, AbstractFacts!Close, Abstract!Resize, AbstractFacts!Resize,
         Abstract!SoldAt, AbstractFacts!SoldAt

\* The abstract guarantee, said of the sold bookings.
LEMMA OversaleIsDoubleSale == AbstractFacts!NoOversale => NoDoubleSale
<1>1. \A S : AbstractFacts!Cardinality(S) = Cardinality(S)
  BY DEF AbstractFacts!Cardinality, Cardinality
<1>2. \A b \in Sold : /\ claimOf[b].resource = order[b].room
                      /\ claimOf[b].slots = Nights(order[b])
                      /\ claimOf[b].quote = order[b].units
  BY DEF Sold, Open, claimOf
<1>3. \A r \in Rooms, n \in Calendar : AbstractFacts!SoldAt(r, n) = SoldOn(r, n)
  BY <1>2 DEF AbstractFacts!SoldAt, SoldOn
<1>4. \A r, n : SoldOn(r, n) \subseteq Sold
  BY DEF SoldOn
<1> QED
  BY <1>1, <1>2, <1>3, <1>4 DEF AbstractFacts!NoOversale, NoDoubleSale

\* No unit is sold twice, in any behaviour.
THEOREM NeverSoldTwice == Spec => []NoDoubleSale
<1>1. AbstractFacts!IsFiniteSet(Bookings) /\ UnitCounts \cup {0} \subseteq Nat
  BY BookingsAssumption, CountsAssumption DEF AbstractFacts!IsFiniteSet, IsFiniteSet
<1>2. NoClaim \notin AbstractFacts!Claim
  BY NoClaimAssumption DEF Abstract!Claim, AbstractFacts!Claim
<1>3. AbstractFacts!Spec => []AbstractFacts!NoOversale
  BY <1>1, <1>2, AbstractFacts!NeverOversold
<1>4. Spec => AbstractFacts!Spec
  BY InitRefines, NextRefines, SameInit, SameNext, Invariance, PTL
     DEF Spec, AbstractFacts!Spec
<1> QED
  BY <1>3, <1>4, OversaleIsDoubleSale, PTL

-----------------------------------------------------------------------------

\* A sold booking is untouched by every step but a save of its own cancellation.
LEMMA SoldStep ==
  ASSUME Inv, [Next]_vars, NEW b \in Sold
  PROVE  b \in Sold' \/ status'[b] = "cancelled"
<1> USE DEF Sold, Holding
<1>1. b \in Bookings /\ creating[b] = "granted"
  OBVIOUS
<1>2. ASSUME creating'[b] = creating[b], status'[b] = status[b], revived' = revived
      PROVE  b \in Sold'
  BY <1>2
<1>3. ASSUME NEW c \in Bookings, Request(c) \/ CreateStep(c) \/ Fail(c)
      PROVE  b \in Sold'
  <2>1. c # b
    BY <1>1, <1>3
       DEF Request, CreateStep, FindRoom, Count, Insert, Recount, Withdraw, Fail, CreateSteps
  <2>2. creating'[b] = creating[b]
    BY <1>1, <1>3, <2>1
       DEF Request, CreateStep, FindRoom, Count, Insert, Recount, Withdraw, Fail, Refuse,
           Inv, TypeOK
  <2>3. status'[b] = status[b] /\ revived' = revived
    BY <1>1, <1>3, <2>1
       DEF Request, CreateStep, FindRoom, Count, Insert, Recount, Withdraw, Fail, store,
           Inv, TypeOK
  <2> QED
    BY <1>2, <2>2, <2>3
<1>4. ASSUME NEW d \in Decisions, Save(d)
      PROVE  b \in Sold' \/ status'[b] = "cancelled"
  BY <1>1, <1>4
     DEF Save, NewStatus, createCalls, Inv, TypeOK, HOLDING_STATUSES, PENDING
<1>5. ASSUME NEW d \in Decisions, Load(d) \/ LoseSave(d)
      PROVE  b \in Sold'
  BY <1>2, <1>5 DEF Load, LoseSave, store, createCalls
<1>6. ASSUME NEW r \in Rooms, EditRoom(r)
      PROVE  b \in Sold'
  BY <1>2, <1>6 DEF EditRoom, createCalls
<1>7. CASE NextDay \/ UNCHANGED vars
  BY <1>2, <1>7 DEF NextDay, vars, store, createCalls
<1> QED
  BY <1>3, <1>4, <1>5, <1>6, <1>7 DEF Next

\* Nothing but a cancellation takes a sold booking away, in any behaviour.
THEOREM SoldStaysSold == Spec => SoldUntilCancelled
<1>1. Inv /\ [Next]_vars => [\A b \in Sold : b \in Sold' \/ status'[b] = "cancelled"]_vars
  BY SoldStep
<1> QED
  BY <1>1, Invariance, PTL DEF Spec, SoldUntilCancelled

-----------------------------------------------------------------------------
(* After a race: as long as no call has failed, staff have not edited a    *)
(* room and no cancelled booking was brought back, no surplus is left.     *)

\* What failures and edits leave alone: without a failure no request died, and without an
\* edit the units a request has read are those of the room.
Calm ==
  /\ \A b \in Bookings : creating[b] = "failed" => failures # 0
  /\ edits = 0 =>
       \A b \in Bookings :
         creating[b] \in {"counting", "inserting", "recounting", "withdrawing", "granted"} =>
           order[b].units = room[order[b].room].totalUnits

\* The steps of a create request.
LEMMA CalmCreate ==
  ASSUME Inv, Calm, NEW c \in Bookings, Request(c) \/ CreateStep(c)
  PROVE  Calm'
<1>1. /\ room' = room /\ failures' = failures /\ edits' = edits
      /\ \A b \in Bookings \ {c} : creating'[b] = creating[b] /\ order'[b] = order[b]
  BY DEF Request, CreateStep, FindRoom, Count, Insert, Recount, Withdraw, Refuse,
         Inv, TypeOK, store, bounds
<1>2. creating'[c] # "failed"
  BY DEF Request, CreateStep, FindRoom, Count, Insert, Recount, Withdraw, Refuse, Inv, TypeOK
<1>3. CASE Request(c)
  BY <1>1, <1>2, <1>3 DEF Calm, Request, Refuse, Inv, TypeOK
<1>4. CASE FindRoom(c)
  <2>1. order[c] \in Order
    BY <1>4 DEF FindRoom, Inv, TypeOK, Consistent, HasOrder, CreateSteps
  <2>2. CASE creating'[c] = "counting"
    <3>1. order' = [order EXCEPT ![c].units = room[order[c].room].totalUnits]
      BY <1>4, <2>2 DEF FindRoom, Refuse, Inv, TypeOK
    <3>2. order'[c].units = room[order[c].room].totalUnits /\ order'[c].room = order[c].room
      BY <2>1, <3>1 DEF Inv, TypeOK, Order
    <3>. QED
      BY <1>1, <1>2, <3>2 DEF Calm
  <2>3. CASE creating'[c] = "refused"
    BY <1>1, <1>2, <2>3 DEF Calm
  <2>. QED
    BY <1>4, <2>2, <2>3 DEF FindRoom, Refuse, Inv, TypeOK
<1>5. CASE Count(c) \/ Insert(c) \/ Recount(c)
  <2>1. \/ creating'[c] = "refused"
        \/ /\ creating[c] \in {"counting", "inserting", "recounting"}
           /\ order' = order
    BY <1>5 DEF Count, Insert, Recount, Refuse, Inv, TypeOK
  <2>. QED
    BY <1>1, <1>2, <2>1 DEF Calm
<1>6. CASE Withdraw(c)
  BY <1>1, <1>2, <1>6 DEF Calm, Withdraw, Refuse, Inv, TypeOK
<1>. QED
  BY <1>3, <1>4, <1>5, <1>6 DEF CreateStep

\* Every step keeps it.
LEMMA CalmStays == Inv /\ Calm /\ [Next]_vars => Calm'
<1>. SUFFICES ASSUME Inv, Calm, [Next]_vars PROVE Calm'
  OBVIOUS
<1>1. ASSUME NEW c \in Bookings, Request(c) \/ CreateStep(c) PROVE Calm'
  BY <1>1, CalmCreate
<1>2. ASSUME NEW c \in Bookings, Fail(c) PROVE Calm'
  <2>1. /\ failures' # 0 /\ edits' = edits /\ room' = room
        /\ creating'[c] \in {"refused", "failed"}
        /\ \A b \in Bookings \ {c} : creating'[b] = creating[b] /\ order'[b] = order[b]
    BY <1>2 DEF Fail, Refuse, store, Inv, TypeOK
  <2>. QED
    BY <2>1 DEF Calm
<1>3. ASSUME NEW d \in Decisions, Load(d) \/ Save(d) \/ LoseSave(d) PROVE Calm'
  <2>1. UNCHANGED <<room, createCalls, edits>> /\ (failures # 0 => failures' # 0)
    BY <1>3 DEF Load, Save, LoseSave, store, bounds, Inv, TypeOK
  <2>. QED
    BY <2>1 DEF Calm, createCalls
<1>4. ASSUME NEW r \in Rooms, EditRoom(r) PROVE Calm'
  <2>1. edits' # 0 /\ UNCHANGED <<createCalls, failures>>
    BY <1>4 DEF EditRoom, Inv, TypeOK
  <2>. QED
    BY <2>1 DEF Calm, createCalls
<1>5. CASE NextDay \/ UNCHANGED vars
  BY <1>5 DEF NextDay, vars, store, createCalls, bounds, Calm
<1>. QED
  BY <1>1, <1>2, <1>3, <1>4, <1>5 DEF Next

\* If nobody is left who could give a unit back, all that is held was granted.
LEMMA OwnerOfSurplus ==
  ASSUME Inv, Calm, NoDoubleSale, failures = 0, edits = 0, revived = {}
  PROVE  SurplusHasAnOwner
<1>. SUFFICES ASSUME NEW r \in Rooms, NEW n \in Calendar,
                     ~\E b \in HeldOn(r, n) : creating[b] \in {"recounting", "withdrawing"}
              PROVE  Cardinality(HeldOn(r, n)) <= room[r].totalUnits
  <2>1. \A r \in Rooms, n \in Calendar :
          Cardinality(HeldOn(r, n)) \in Nat /\ room[r].totalUnits \in Nat
    <3>1. \A r \in Rooms, n \in Calendar : Cardinality(HeldOn(r, n)) \in Nat
      BY BookingsAssumption, FS_Subset, FS_CardinalityType DEF HeldOn
    <3>. QED
      BY <3>1, CountsAssumption DEF Inv, TypeOK, Room
  <2>. QED
    BY <2>1 DEF SurplusHasAnOwner, Overbooked
<1>1. HeldOn(r, n) = SoldOn(r, n)
  <2>1. ASSUME NEW b \in HeldOn(r, n) PROVE b \in Sold
    <3>1. creating[b] \in {"recounting", "withdrawing", "granted", "failed"} /\ Holding(b)
      BY DEF Inv, Consistent, HeldOn, Holding, HOLDING_STATUSES, PENDING
    <3>2. creating[b] = "granted"
      BY <3>1 DEF Calm, HeldOn
    <3>. QED
      BY <3>1, <3>2 DEF Sold, HeldOn
  <2>. QED
    BY <2>1 DEF HeldOn, SoldOn, Sold
<1>2. room[r].totalUnits \in Nat
  BY CountsAssumption DEF Inv, TypeOK, Room
<1>3. CASE SoldOn(r, n) = {}
  <2>1. Cardinality(SoldOn(r, n)) = 0
    BY <1>3, FS_EmptySet
  <2>. QED
    BY <1>1, <1>2, <2>1
<1>4. CASE SoldOn(r, n) # {}
  <2>1. PICK b \in SoldOn(r, n) : Cardinality(SoldOn(r, n)) <= order[b].units
    BY <1>4 DEF NoDoubleSale
  <2>2. order[b].units = room[r].totalUnits
    BY DEF SoldOn, Sold, Calm
  <2>. QED
    BY <1>1, <2>1, <2>2
<1>. QED
  BY <1>3, <1>4

\* When nobody is served there is no such booking.
LEMMA QuietIsSold ==
  ASSUME Inv, SurplusHasAnOwner
  PROVE  QuietWithinInventory
<1>. SUFFICES ASSUME \A b \in Bookings : ~InFlight(b), NEW r \in Rooms, NEW n \in Calendar
              PROVE  Cardinality(HeldOn(r, n)) <= room[r].totalUnits
  BY DEF QuietWithinInventory
<1>1. Cardinality(HeldOn(r, n)) \in Nat /\ room[r].totalUnits \in Nat
  <2>1. Cardinality(HeldOn(r, n)) \in Nat
    BY BookingsAssumption, FS_Subset, FS_CardinalityType DEF HeldOn
  <2>. QED
    BY <2>1, CountsAssumption DEF Inv, TypeOK, Room
<1>2. ~Overbooked(r, n)
  BY DEF SurplusHasAnOwner, InFlight, CreateSteps, HeldOn
<1>. QED
  BY <1>1, <1>2 DEF Overbooked

\* The control of a request and the data it has left agree in every reachable state.
THEOREM ControlAgreesWithData == Spec => []Consistent
<1>1. Inv => Consistent
  BY DEF Inv
<1>. QED
  BY <1>1, Invariance, PTL

\* After any race between any number of requests no surplus is left: each night holds at
\* most as many bookings as there are units, unless a call failed, staff edited a room, or
\* a confirm brought a cancelled booking back.
THEOREM QuietAfterRaces ==
  Spec => [](failures = 0 /\ edits = 0 /\ revived = {} => QuietWithinInventory)
<1>1. Init => Calm
  BY DEF Init, Calm
<1>2. Inv /\ Calm /\ NoDoubleSale =>
        (failures = 0 /\ edits = 0 /\ revived = {} => QuietWithinInventory)
  BY OwnerOfSurplus, QuietIsSold
<1>. QED
  BY <1>1, <1>2, CalmStays, Invariance, NeverSoldTwice, PTL DEF Spec

\* As long as staff edit no room, no night of a room type has more bookings that were
\* granted than the room type has units: during every race, after every failure.
THEOREM SoldWithinInventory ==
  Spec => [](edits = 0 =>
               \A r \in Rooms, n \in Calendar : Cardinality(SoldOn(r, n)) <= room[r].totalUnits)
<1>1. Init => Calm
  BY DEF Init, Calm
<1>2. Inv /\ Calm /\ NoDoubleSale =>
        (edits = 0 =>
           \A r \in Rooms, n \in Calendar : Cardinality(SoldOn(r, n)) <= room[r].totalUnits)
  <2>. SUFFICES ASSUME Inv, Calm, NoDoubleSale, edits = 0, NEW r \in Rooms, NEW n \in Calendar
                PROVE  Cardinality(SoldOn(r, n)) <= room[r].totalUnits
    OBVIOUS
  <2>1. room[r].totalUnits \in Nat
    BY CountsAssumption DEF Inv, TypeOK, Room
  <2>2. CASE SoldOn(r, n) = {}
    <3>1. Cardinality(SoldOn(r, n)) = 0
      BY <2>2, FS_EmptySet
    <3>. QED
      BY <2>1, <3>1
  <2>3. CASE SoldOn(r, n) # {}
    <3>1. PICK b \in SoldOn(r, n) : Cardinality(SoldOn(r, n)) <= order[b].units
      BY <2>3 DEF NoDoubleSale
    <3>2. order[b].units = room[r].totalUnits
      BY DEF SoldOn, Sold, Calm
    <3>. QED
      BY <3>1, <3>2
  <2>. QED
    BY <2>2, <2>3
<1>. QED
  BY <1>1, <1>2, CalmStays, Invariance, NeverSoldTwice, PTL DEF Spec

-----------------------------------------------------------------------------
(* Why overbooking ends.  The fairness that OverbookingEnds adds is beyond *)
(* the prover; what it needs of the steps is not.                          *)

\* What a stay holds on a night is in the count of every stay that has the night.
LEMMA HeldOnIsHeld ==
  ASSUME Inv, NEW b \in Bookings, order[b] \in Order, NEW n \in Nights(order[b])
  PROVE  /\ HeldOn(order[b].room, n)
              \subseteq Held(order[b].room, order[b].checkIn, order[b].checkOut)
         /\ Cardinality(HeldOn(order[b].room, n)) <= countHeld(b)
<1>. DEFINE A == HeldOn(order[b].room, n)
            H == Held(order[b].room, order[b].checkIn, order[b].checkOut)
<1>1. /\ order[b].checkIn \in Nat /\ order[b].checkOut \in Nat /\ n \in Nat
      /\ order[b].checkIn <= n /\ n < order[b].checkOut
  BY LastDayAssumption DEF Order, Nights, Calendar
<1>2. ASSUME NEW c \in A PROVE c \in H
  <2>1. c \in Bookings /\ Holding(c) /\ order[c].room = order[b].room /\ n \in Nights(order[c])
    BY <1>2 DEF HeldOn
  <2>2. order[c] \in Order
    BY <2>1 DEF Inv, TypeOK, Consistent, Holding, HOLDING_STATUSES, PENDING, HasOrder, CreateSteps
  <2>3. /\ order[c].checkIn \in Nat /\ order[c].checkOut \in Nat
        /\ order[c].checkIn <= n /\ n < order[c].checkOut
    BY <2>1, <2>2, LastDayAssumption DEF Order, Nights
  <2>. QED
    BY <1>1, <2>1, <2>3 DEF Held, Holding
<1>3. IsFiniteSet(H)
  BY BookingsAssumption, FS_Subset DEF Held
<1>4. Cardinality(A) <= Cardinality(H)
  BY <1>2, <1>3, FS_Subset
<1>. QED
  BY <1>2, <1>4 DEF countHeld

\* A night on which more is held than there is has a booking whose request is about to
\* count again or to withdraw, in every race, unless a call failed, staff edited a room or
\* a confirm brought a cancelled booking back.
THEOREM SurplusIsOwned ==
  Spec => [](failures = 0 /\ edits = 0 /\ revived = {} => SurplusHasAnOwner)
<1>1. Init => Calm
  BY DEF Init, Calm
<1>2. Inv /\ Calm /\ NoDoubleSale =>
        (failures = 0 /\ edits = 0 /\ revived = {} => SurplusHasAnOwner)
  BY OwnerOfSurplus
<1>. QED
  BY <1>1, <1>2, CalmStays, Invariance, NeverSoldTwice, PTL DEF Spec

\* A request that counts again on an overbooked night withdraws.
THEOREM OverbookedNightsAreNotGranted == Spec => NoGrantWhileOverbooked
<1>. DEFINE Withheld ==
       \A b \in Bookings, n \in Calendar :
         /\ edits = 0
         /\ creating[b] = "recounting"
         /\ n \in Nights(order[b]) /\ Overbooked(order[b].room, n)
         => creating'[b] # "granted"
<1>1. ASSUME Inv, Calm, [Next]_vars PROVE [Withheld]_vars
  <2>. SUFFICES ASSUME NEW b \in Bookings, NEW n \in Nights(order[b]), edits = 0,
                       creating[b] = "recounting", Overbooked(order[b].room, n),
                       creating'[b] = "granted"
                PROVE  FALSE
    OBVIOUS
  <2>1. order[b] \in Order /\ order[b].units = room[order[b].room].totalUnits
    BY <1>1 DEF Inv, TypeOK, Consistent, HasOrder, CreateSteps, Calm
  <2>2. Recount(b)
    <3>1. ASSUME NEW c \in Bookings, Request(c) \/ CreateStep(c) \/ Fail(c), c # b
          PROVE  creating'[b] = creating[b]
      BY <1>1, <3>1
         DEF Request, CreateStep, FindRoom, Count, Insert, Recount, Withdraw, Fail, Refuse,
             Inv, TypeOK
    <3>2. Request(b) \/ Fail(b) => creating'[b] # "granted"
      BY <1>1 DEF Request, Fail, Refuse, Inv, TypeOK
    <3>3. FindRoom(b) \/ Count(b) \/ Insert(b) \/ Withdraw(b) => creating[b] # "recounting"
      BY DEF FindRoom, Count, Insert, Withdraw
    <3>. QED
      BY <1>1, <3>1, <3>2, <3>3
         DEF Next, CreateStep, Load, Save, LoseSave, EditRoom, NextDay, vars, createCalls
  <2>3. countHeld(b) <= order[b].units
    BY <1>1, <2>2 DEF Recount, Inv, TypeOK
  <2>4. Cardinality(HeldOn(order[b].room, n)) <= countHeld(b)
    BY <1>1, <2>1, HeldOnIsHeld
  <2>5. /\ Cardinality(HeldOn(order[b].room, n)) \in Nat
        /\ countHeld(b) \in Nat /\ order[b].units \in Nat
    <3>1. Cardinality(HeldOn(order[b].room, n)) \in Nat /\ countHeld(b) \in Nat
      BY BookingsAssumption, FS_Subset, FS_CardinalityType DEF HeldOn, Held, countHeld
    <3>. QED
      BY <2>1, <3>1, UnitsAreNumbers
  <2>. QED
    BY <2>1, <2>3, <2>4, <2>5 DEF Overbooked
<1>2. Init => Calm
  BY DEF Init, Calm
<1>. QED
  BY <1>1, <1>2, CalmStays, Invariance, PTL DEF Spec, NoGrantWhileOverbooked
-----------------------------------------------------------------------------
(* Which stays are turned away although each of their nights has a free    *)
(* unit: Helly's theorem for intervals.  Stays that overlap one another in *)
(* pairs all have a night in common, the first night of the one that       *)
(* begins last, and that night is full when the count is.                  *)

\* A set of numbers that is not empty has a least one.
LEMMA LeastNatural ==
  ASSUME NEW S \in SUBSET Nat, S # {}
  PROVE  \E least \in S : \A n \in S : least <= n
<1>. DEFINE R == OpToRel(<, Nat)
<1>1. R = {ss \in Nat \X Nat : ss[1] < ss[2]}
  BY DEF OpToRel
<1>2. IsWellFoundedOn(R, Nat)
  BY NatLessThanWellFounded
<1>. HIDE DEF R
<1>3. PICK x \in S : \A y \in S : ~(<<y, x>> \in R)
  BY <1>2, WFMin
<1>4. \A y \in S : ~(y < x)
  BY <1>1, <1>3
<1>. QED
  BY <1>4

\* One that is bounded has a greatest one.
LEMMA GreatestDay ==
  ASSUME NEW bound \in Nat, NEW S \in SUBSET (0..bound), S # {}
  PROVE  \E last \in S : \A n \in S : n <= last
<1>. DEFINE T == {bound - n : n \in S}
<1>1. T \in SUBSET Nat /\ T # {}
  <2>1. \A n \in S : bound - n \in Nat /\ bound - n \in T
    OBVIOUS
  <2>2. \A m \in T : m \in Nat
    BY <2>1
  <2>. HIDE DEF T
  <2>. QED
    BY <2>1, <2>2
<1>2. PICK least \in T : \A m \in T : least <= m
  <2>. HIDE DEF T
  <2>. QED
    BY <1>1, LeastNatural
<1>3. PICK last \in S : least = bound - last
  OBVIOUS
<1>4. ASSUME NEW n \in S PROVE n <= last
  <2>1. bound - n \in T
    OBVIOUS
  <2>2. bound - last <= bound - n
    BY <1>2, <1>3, <2>1
  <2>. QED
    BY <2>2
<1>. QED
  BY <1>4

\* A stay that was let in has a night.
OrdersLegal ==
  \A b \in Bookings : order[b] # NoOrder => order[b].checkIn < order[b].checkOut

LEMMA OrdersStayLegal == Inv /\ OrdersLegal /\ [Next]_vars => OrdersLegal'
<1>. SUFFICES ASSUME Inv, OrdersLegal, [Next]_vars PROVE OrdersLegal'
  OBVIOUS
<1>1. ASSUME NEW b \in Bookings, Refuse(b) PROVE OrdersLegal'
  BY <1>1, RefuseTyping DEF OrdersLegal
<1>2. CASE UNCHANGED order
  BY <1>2 DEF OrdersLegal
<1>3. ASSUME NEW b \in Bookings, Request(b) PROVE OrdersLegal'
  <2>1. CASE Refuse(b)
    BY <1>1, <2>1
  <2>2. CASE ~Refuse(b)
    <3>1. PICK user \in Users, r \in Rooms, stay \in RequestedStays, guests \in Parties :
            /\ LegalStay(stay.checkIn, stay.checkOut)
            /\ order' = [order EXCEPT ![b] =
                 [user |-> user, room |-> r, checkIn |-> stay.checkIn,
                  checkOut |-> stay.checkOut, guests |-> guests, units |-> 0]]
      BY <1>3, <2>2 DEF Request
    <3>2. stay.checkIn < stay.checkOut
      BY <3>1, StaysAssumption, LastDayAssumption DEF LegalStay, Stay
    <3>. QED
      BY <3>1, <3>2 DEF OrdersLegal, Inv, TypeOK
  <2>. QED
    BY <2>1, <2>2
<1>4. ASSUME NEW b \in Bookings, FindRoom(b) PROVE OrdersLegal'
  <2>1. CASE Refuse(b)
    BY <1>1, <2>1
  <2>2. CASE order' = [order EXCEPT ![b].units = room[order[b].room].totalUnits]
    <3>1. order[b] \in Order /\ order[b] # NoOrder
      BY <1>4, NoOrderAssumption DEF FindRoom, Inv, TypeOK, Consistent, HasOrder, CreateSteps
    <3>2. order'[b].checkIn = order[b].checkIn /\ order'[b].checkOut = order[b].checkOut
      BY <2>2, <3>1 DEF Inv, TypeOK, Order
    <3>. QED
      BY <2>2, <3>1, <3>2 DEF OrdersLegal, Inv, TypeOK
  <2>. QED
    BY <1>4, <2>1, <2>2 DEF FindRoom
<1>5. ASSUME NEW b \in Bookings, Count(b) \/ Insert(b) \/ Recount(b) \/ Withdraw(b) \/ Fail(b)
      PROVE  OrdersLegal'
  BY <1>1, <1>2, <1>5 DEF Count, Insert, Recount, Withdraw, Fail
<1>6. ASSUME NEW d \in Decisions, Load(d) \/ Save(d) \/ LoseSave(d) PROVE OrdersLegal'
  BY <1>2, <1>6 DEF Load, Save, LoseSave, createCalls
<1>7. ASSUME NEW r \in Rooms, EditRoom(r) PROVE OrdersLegal'
  BY <1>2, <1>7 DEF EditRoom, createCalls
<1>8. CASE NextDay \/ UNCHANGED vars
  BY <1>2, <1>8 DEF NextDay, vars, createCalls
<1>. QED
  BY <1>3, <1>4, <1>5, <1>6, <1>7, <1>8 DEF Next, CreateStep

\* Stays that are counted together, each with each of which a night is shared, share one.
LEMMA CommonNight ==
  ASSUME Inv, OrdersLegal, NEW b \in Bookings, order[b] \in Order, ~Uneven(b)
  PROVE  \E n \in Nights(order[b]) :
           Held(order[b].room, order[b].checkIn, order[b].checkOut) = HeldOn(order[b].room, n)
<1>. DEFINE H == Held(order[b].room, order[b].checkIn, order[b].checkOut)
            starts == {order[b].checkIn} \cup {order[x].checkIn : x \in H}
<1>1. ASSUME NEW x \in H
      PROVE  /\ x \in Bookings /\ Holding(x) /\ order[x] \in Order
             /\ order[x].room = order[b].room
             /\ order[x].checkIn < order[b].checkOut /\ order[b].checkIn < order[x].checkOut
             /\ order[x].checkIn \in 0..LastDay + 1 /\ order[x].checkOut \in 0..LastDay + 1
  <2>1. /\ x \in Bookings /\ Holding(x)
        /\ order[x].room = order[b].room
        /\ order[x].checkIn < order[b].checkOut /\ order[x].checkOut > order[b].checkIn
    BY DEF Held, Holding
  <2>2. order[x] \in Order
    BY <2>1 DEF Inv, TypeOK, Consistent, Holding, HOLDING_STATUSES, PENDING, HasOrder, CreateSteps
  <2>. QED
    BY <2>1, <2>2, LastDayAssumption DEF Order
<1>2. /\ order[b].checkIn \in 0..LastDay + 1 /\ order[b].checkOut \in 0..LastDay + 1
      /\ order[b].checkIn < order[b].checkOut
  BY NoOrderAssumption DEF Order, OrdersLegal
<1>3. PICK n \in starts : \A m \in starts : m <= n
  <2>1. starts \in SUBSET (0..LastDay + 1) /\ starts # {}
    BY <1>1, <1>2
  <2>2. LastDay + 1 \in Nat
    BY LastDayAssumption
  <2>. HIDE DEF starts
  <2>. QED
    BY <2>1, <2>2, GreatestDay
<1>4. \A x, y \in H : order[x].checkIn < order[y].checkOut
  <2>. SUFFICES ASSUME NEW x \in H, NEW y \in H PROVE order[x].checkIn < order[y].checkOut
    OBVIOUS
  <2>1. PICK t : t \in Nights(order[x]) /\ t \in Nights(order[y])
    BY DEF Uneven
  <2>2. t \in Nat /\ order[x].checkIn <= t /\ t < order[y].checkOut
    BY <2>1, LastDayAssumption DEF Nights, Calendar
  <2>. QED
    BY <1>1, <2>2, LastDayAssumption
<1>5. /\ n \in 0..LastDay + 1 /\ order[b].checkIn <= n /\ n < order[b].checkOut
      /\ \A x \in H : order[x].checkIn <= n /\ n < order[x].checkOut
  <2>1. CASE n = order[b].checkIn
    BY <1>1, <1>2, <1>3, <2>1
  <2>2. CASE \E x \in H : n = order[x].checkIn
    BY <1>1, <1>2, <1>3, <1>4, <2>2
  <2>. QED
    BY <1>3, <2>1, <2>2
<1>6. n \in Calendar /\ n \in Nights(order[b])
  BY <1>2, <1>5, LastDayAssumption DEF Nights, Calendar
<1>7. \A x \in H : x \in HeldOn(order[b].room, n)
  <2>. SUFFICES ASSUME NEW x \in H PROVE x \in HeldOn(order[b].room, n)
    OBVIOUS
  <2>1. n \in Nights(order[x])
    BY <1>5, <1>6 DEF Nights
  <2>. QED
    BY <1>1, <2>1 DEF HeldOn
<1>8. HeldOn(order[b].room, n) \subseteq H
  BY <1>6, HeldOnIsHeld
<1>. HIDE DEF H
<1>9. H = HeldOn(order[b].room, n)
  BY <1>7, <1>8
<1>. QED
  BY <1>6, <1>9 DEF H

\* A stay with a free unit on each of its nights is turned away by the count only if two
\* of the stays that were counted lie on different nights: what remains of the promise of
\* BOOKING-DESIGN.md, and exactly how far the code falls short of it.
THEOREM NeedlessRefusalsAreUneven == Spec => NeedlessOnlyIfUneven
<1>. DEFINE Admitted ==
       \A b \in Bookings :
         creating[b] = "counting" /\ FreeEveryNight(b) /\ failures' = failures /\ ~Uneven(b)
           => creating'[b] # "refused"
<1>1. ASSUME Inv, OrdersLegal, [Next]_vars PROVE [Admitted]_vars
  <2>. SUFFICES ASSUME NEW b \in Bookings, creating[b] = "counting", FreeEveryNight(b),
                       failures' = failures, ~Uneven(b), creating'[b] = "refused"
                PROVE  FALSE
    OBVIOUS
  <2>1. order[b] \in Order /\ order[b].units \in Nat
    BY <1>1, UnitsAreNumbers DEF Inv, TypeOK, Consistent, HasOrder, CreateSteps
  <2>2. Count(b)
    <3>1. ASSUME NEW c \in Bookings, Request(c) \/ CreateStep(c) \/ Fail(c), c # b
          PROVE  creating'[b] = creating[b]
      BY <1>1, <3>1
         DEF Request, CreateStep, FindRoom, Count, Insert, Recount, Withdraw, Fail, Refuse,
             Inv, TypeOK
    <3>2. \A c \in Bookings : ~Fail(c)
      BY <1>1 DEF Fail, Inv, TypeOK
    <3>3. ~(Request(b) \/ FindRoom(b) \/ Insert(b) \/ Recount(b) \/ Withdraw(b))
      BY DEF Request, FindRoom, Insert, Recount, Withdraw
    <3>. QED
      BY <1>1, <3>1, <3>2, <3>3
         DEF Next, CreateStep, Load, Save, LoseSave, EditRoom, NextDay, vars, createCalls
  <2>3. countHeld(b) >= order[b].units
    BY <1>1, <2>2 DEF Count, Inv, TypeOK
  <2>4. PICK n \in Nights(order[b]) :
          Held(order[b].room, order[b].checkIn, order[b].checkOut) = HeldOn(order[b].room, n)
    BY <1>1, <2>1, CommonNight
  <2>5. Cardinality(HeldOn(order[b].room, n)) < order[b].units
    BY DEF FreeEveryNight
  <2>6. countHeld(b) \in Nat
    BY BookingsAssumption, FS_Subset, FS_CardinalityType DEF Held, countHeld
  <2>. QED
    BY <2>1, <2>3, <2>4, <2>5, <2>6 DEF countHeld
<1>2. Init => OrdersLegal
  BY DEF Init, OrdersLegal
<1>. QED
  BY <1>1, <1>2, OrdersStayLegal, Invariance, PTL DEF Spec, NeedlessOnlyIfUneven
=============================================================================
