---------------------------- MODULE RoomBookings ----------------------------
(***************************************************************************)
(* Room bookings: BookingService of src/booking/booking.service.ts over    *)
(* the bookings and rooms collections.                                     *)
(*                                                                         *)
(* Every operation is an async function, so two operations interleave only *)
(* where they await a database call, and each database call reads or       *)
(* writes the store in one step.  A create request therefore takes up to   *)
(* five steps (read the room, count, insert, count again, withdraw), a     *)
(* cancel or a confirm two (load, save).                                   *)
(***************************************************************************)
EXTENDS Naturals, FiniteSets

CONSTANTS
  Bookings,       \* create requests; each inserts at most one document, which
                  \* goes by the same name
  Decisions,      \* cancel and confirm requests
  Rooms,          \* room types
  Guests, Staff,  \* signed-in users of role user, of role admin
  RequestedStays, \* the stays that are asked for, legal or not
  Parties,        \* numbers of guests, and room capacities
  UnitCounts,     \* the values staff give to totalUnits
  MAX_STAY_NIGHTS,
  LastDay,        \* bound: the last night of the calendar
  MaxEdits,       \* bound: edits of rooms by staff
  MaxFailures,    \* bound: requests that die at a database call
  NoOrder, NoTask

Users == Guests \cup Staff
Calendar == 0..LastDay
Stay == [checkIn: 0..LastDay + 1, checkOut: 0..LastDay + 1]

ASSUME BookingsAssumption == IsFiniteSet(Bookings)
ASSUME CountsAssumption == UnitCounts \subseteq Nat /\ Parties \subseteq Nat
ASSUME LastDayAssumption == LastDay \in Nat /\ MAX_STAY_NIGHTS \in Nat
ASSUME StaysAssumption == RequestedStays \subseteq Stay

PENDING == "pending"
HOLDING_STATUSES == {PENDING, "confirmed"}
BOOKING_STATUSES == HOLDING_STATUSES \cup {"cancelled"}

\* A room type, as far as booking reads it.
Room == [totalUnits: UnitCounts, capacity: Parties, isActive: BOOLEAN]

\* What a create request works with: the fields of the document it inserts and,
\* once it has read its room, the totalUnits of that copy of the room.
Order == [user: Users, room: Rooms, checkIn: 0..LastDay + 1,
          checkOut: 0..LastDay + 1, guests: Parties, units: UnitCounts \cup {0}]
Task == [op: {"cancel", "confirm"}, booking: Bookings]

ASSUME NoOrderAssumption == NoOrder \notin Order /\ NoTask \notin Task

VARIABLES
  room,      \* the rooms collection
  status,    \* the bookings collection: the status of each document, or "absent"
  creating,  \* where each create request is
  order,     \* what each create request, and its document, says
  deciding,  \* where each cancel or confirm request is
  task,      \* the save each of them has still to issue
  today,
  revived,   \* history: the bookings a confirm saved over a cancellation
  edits, failures

store == <<room, status>>
createCalls == <<creating, order>>
decisionCalls == <<deciding, task>>
bounds == <<edits, failures>>
vars == <<store, createCalls, decisionCalls, today, revived, bounds>>

CreateSteps == {"findingRoom", "counting", "inserting", "recounting", "withdrawing"}

TypeOK ==
  /\ room \in [Rooms -> Room]
  /\ status \in [Bookings -> BOOKING_STATUSES \cup {"absent"}]
  /\ creating \in [Bookings -> CreateSteps \cup {"idle", "granted", "refused", "failed"}]
  /\ order \in [Bookings -> Order \cup {NoOrder}]
  /\ deciding \in [Decisions -> {"idle", "saving", "answered"}]
  /\ task \in [Decisions -> Task \cup {NoTask}]
  /\ today \in Calendar
  /\ revived \subseteq Bookings
  /\ edits \in Nat /\ failures \in Nat

-----------------------------------------------------------------------------
(* Stays and counting.                                                     *)

\* parseStay, once the two dates are real ones.
LegalStay(checkIn, checkOut) ==
  /\ checkIn >= today
  /\ checkOut > checkIn
  /\ checkOut - checkIn <= MAX_STAY_NIGHTS

Nights(o) == {n \in Calendar : o.checkIn <= n /\ n < o.checkOut}

\* Slips in Held that a run must notice: the stays that began before the requested
\* one are missed; a stay counts that ends on the day the requested one begins; a
\* request that staff have not accepted is thought to hold nothing.
HeldStartingInside(r, checkIn, checkOut) ==
  {b \in Bookings :
     /\ status[b] \in HOLDING_STATUSES
     /\ order[b].room = r
     /\ checkIn <= order[b].checkIn /\ order[b].checkIn < checkOut}
HeldBackToBack(r, checkIn, checkOut) ==
  {b \in Bookings :
     /\ status[b] \in HOLDING_STATUSES
     /\ order[b].room = r
     /\ order[b].checkIn < checkOut
     /\ order[b].checkOut >= checkIn}
HeldIfConfirmed(r, checkIn, checkOut) ==
  {b \in Bookings :
     /\ status[b] = "confirmed"
     /\ order[b].room = r
     /\ order[b].checkIn < checkOut
     /\ order[b].checkOut > checkIn}

\* The documents countHeld counts: the bookings that hold a unit of room r for
\* any part of [checkIn, checkOut).
Held(r, checkIn, checkOut) ==
  {b \in Bookings :
     /\ status[b] \in HOLDING_STATUSES
     /\ order[b].room = r
     /\ order[b].checkIn < checkOut
     /\ order[b].checkOut > checkIn}

countHeld(b) ==
  Cardinality(Held(order[b].room, order[b].checkIn, order[b].checkOut))

-----------------------------------------------------------------------------
(* Creating a booking: BookingService.create, one action per await.        *)

Init ==
  /\ room \in [Rooms -> {r \in Room : r.isActive}]
  /\ status = [b \in Bookings |-> "absent"]
  /\ creating = [b \in Bookings |-> "idle"]
  /\ order = [b \in Bookings |-> NoOrder]
  /\ deciding = [d \in Decisions |-> "idle"]
  /\ task = [d \in Decisions |-> NoTask]
  /\ today = 0
  /\ revived = {}
  /\ edits = 0 /\ failures = 0

\* The request ends with an HTTP error and leaves no document.
Refuse(b) ==
  /\ creating' = [creating EXCEPT ![b] = "refused"]
  /\ order' = [order EXCEPT ![b] = NoOrder]

\* The request arrives and its stay is parsed.
Request(b) ==
  /\ creating[b] = "idle"
  /\ \E user \in Users, r \in Rooms, stay \in RequestedStays, guests \in Parties :
       \/ /\ LegalStay(stay.checkIn, stay.checkOut)
          /\ creating' = [creating EXCEPT ![b] = "findingRoom"]
          /\ order' = [order EXCEPT ![b] =
               [user |-> user, room |-> r, checkIn |-> stay.checkIn,
                checkOut |-> stay.checkOut, guests |-> guests, units |-> 0]]
       \/ /\ ~LegalStay(stay.checkIn, stay.checkOut)
          /\ Refuse(b)
  /\ UNCHANGED <<store, decisionCalls, today, revived, bounds>>

\* roomsService.findOne answers.  The copy of the room it returns is the one the
\* rest of the request uses.
FindRoom(b) ==
  /\ creating[b] = "findingRoom"
  /\ LET copy == room[order[b].room] IN
       \/ /\ copy.isActive /\ order[b].guests <= copy.capacity
          /\ creating' = [creating EXCEPT ![b] = "counting"]
          /\ order' = [order EXCEPT ![b].units = copy.totalUnits]
       \/ /\ ~copy.isActive \/ order[b].guests > copy.capacity
          /\ Refuse(b)
  /\ UNCHANGED <<store, decisionCalls, today, revived, bounds>>

\* The first count, before the insert.
Count(b) ==
  /\ creating[b] = "counting"
  /\ \/ /\ countHeld(b) < order[b].units
        /\ creating' = [creating EXCEPT ![b] = "inserting"]
        /\ UNCHANGED order
     \/ /\ countHeld(b) >= order[b].units
        /\ Refuse(b)
  /\ UNCHANGED <<store, decisionCalls, today, revived, bounds>>

\* bookingModel.create.
Insert(b) ==
  /\ creating[b] = "inserting"
  /\ status' = [status EXCEPT ![b] = PENDING]
  /\ creating' = [creating EXCEPT ![b] = "recounting"]
  /\ UNCHANGED <<room, order, decisionCalls, today, revived, bounds>>

\* Slips in Recount: the second count is left out; it lets one too many stay.
RecountForgotten(b) ==
  /\ creating[b] = "recounting"
  /\ creating' = [creating EXCEPT ![b] = "granted"]
  /\ UNCHANGED <<store, order, decisionCalls, today, revived, bounds>>
RecountOffByOne(b) ==
  /\ creating[b] = "recounting"
  /\ creating' = [creating EXCEPT ![b] =
       IF countHeld(b) > order[b].units + 1 THEN "withdrawing" ELSE "granted"]
  /\ UNCHANGED <<store, order, decisionCalls, today, revived, bounds>>

\* The second count.  The request is answered here: the populate that follows in
\* the code reads and changes nothing.
Recount(b) ==
  /\ creating[b] = "recounting"
  /\ \/ /\ countHeld(b) > order[b].units
        /\ creating' = [creating EXCEPT ![b] = "withdrawing"]
     \/ /\ countHeld(b) <= order[b].units
        /\ creating' = [creating EXCEPT ![b] = "granted"]
  /\ UNCHANGED <<store, order, decisionCalls, today, revived, bounds>>

\* A slip in Withdraw: the request is refused and its document stays.
WithdrawNothing(b) ==
  /\ creating[b] = "withdrawing"
  /\ creating' = [creating EXCEPT ![b] = "refused"]
  /\ UNCHANGED <<store, order, decisionCalls, today, revived, bounds>>

\* bookingModel.deleteOne({ _id }), whatever the document says by now.
Withdraw(b) ==
  /\ creating[b] = "withdrawing"
  /\ status' = [status EXCEPT ![b] = "absent"]
  /\ Refuse(b)
  /\ UNCHANGED <<room, decisionCalls, today, revived, bounds>>

\* A database call of the request fails or the process dies: nothing of the rest
\* of the request happens and what it wrote stays.
Fail(b) ==
  /\ creating[b] \in CreateSteps
  /\ failures < MaxFailures
  /\ failures' = failures + 1
  /\ IF status[b] = "absent" THEN Refuse(b)
     ELSE creating' = [creating EXCEPT ![b] = "failed"] /\ UNCHANGED order
  /\ UNCHANGED <<store, decisionCalls, today, revived, edits>>

-----------------------------------------------------------------------------
(* Cancelling and confirming: load, check, save.                           *)

CanActOn(b, actor) == actor \in Staff \/ order[b].user = actor

\* The checks of each operation on the document it loaded.  RolesGuard lets only
\* staff reach confirm.
MayCancel(b, actor) ==
  /\ CanActOn(b, actor)
  /\ status[b] # "cancelled"
  /\ actor \in Staff \/ order[b].checkIn >= today

MayConfirm(b, actor) ==
  /\ actor \in Staff
  /\ status[b] = PENDING

\* findOne and the checks that follow it.
Load(d) ==
  /\ deciding[d] = "idle"
  /\ \E b \in Bookings, actor \in Users, op \in {"cancel", "confirm"} :
       LET found == status[b] # "absent"
           may == IF op = "cancel" THEN MayCancel(b, actor) ELSE MayConfirm(b, actor)
       IN \/ /\ found /\ may
             /\ deciding' = [deciding EXCEPT ![d] = "saving"]
             /\ task' = [task EXCEPT ![d] = [op |-> op, booking |-> b]]
          \/ /\ ~(found /\ may)
             /\ deciding' = [deciding EXCEPT ![d] = "answered"]
             /\ UNCHANGED task
  /\ UNCHANGED <<store, createCalls, today, revived, bounds>>

\* Slips in NewStatus: the name of the operation is stored; cancelling deletes.
OperationAsStatus(op) == op
CancelDeletes(op) == IF op = "cancel" THEN "absent" ELSE "confirmed"

\* The status each operation stores.
NewStatus(op) == IF op = "cancel" THEN "cancelled" ELSE "confirmed"

\* booking.save(): an update of the status by _id, which does not look at the
\* status the document has by now.  It fails if the document is gone.
Save(d) ==
  /\ deciding[d] = "saving"
  /\ LET b == task[d].booking
         to == NewStatus(task[d].op)
     IN \/ /\ status[b] # "absent"
           /\ status' = [status EXCEPT ![b] = to]
           /\ revived' = IF status[b] = "cancelled" /\ to = "confirmed"
                         THEN revived \cup {b} ELSE revived
        \/ /\ status[b] = "absent"
           /\ UNCHANGED <<status, revived>>
  /\ deciding' = [deciding EXCEPT ![d] = "answered"]
  /\ task' = [task EXCEPT ![d] = NoTask]
  /\ UNCHANGED <<room, createCalls, today, bounds>>

\* The save never reaches the database.
LoseSave(d) ==
  /\ deciding[d] = "saving"
  /\ failures < MaxFailures
  /\ failures' = failures + 1
  /\ deciding' = [deciding EXCEPT ![d] = "answered"]
  /\ task' = [task EXCEPT ![d] = NoTask]
  /\ UNCHANGED <<store, createCalls, today, revived, edits>>

-----------------------------------------------------------------------------
(* The surroundings.                                                       *)

\* RoomsService.update and remove, as far as booking can tell: staff set the
\* inventory, the capacity, or whether the room is offered.
EditRoom(r) ==
  /\ edits < MaxEdits
  /\ edits' = edits + 1
  /\ \/ \E n \in UnitCounts : room' = [room EXCEPT ![r].totalUnits = n]
     \/ \E n \in Parties : room' = [room EXCEPT ![r].capacity = n]
     \/ \E active \in BOOLEAN : room' = [room EXCEPT ![r].isActive = active]
  /\ UNCHANGED <<status, createCalls, decisionCalls, today, revived, failures>>

\* Midnight, UTC.
NextDay ==
  /\ today < LastDay
  /\ today' = today + 1
  /\ UNCHANGED <<store, createCalls, decisionCalls, revived, bounds>>

CreateStep(b) == FindRoom(b) \/ Count(b) \/ Insert(b) \/ Recount(b) \/ Withdraw(b)

Next ==
  \/ \E b \in Bookings : Request(b) \/ CreateStep(b) \/ Fail(b)
  \/ \E d \in Decisions : Load(d) \/ Save(d) \/ LoseSave(d)
  \/ \E r \in Rooms : EditRoom(r)
  \/ NextDay

Spec == Init /\ [][Next]_vars

\* A request that is being served goes on: the event loop resumes each await when
\* the database answers.  Nothing says that anybody sends a request.
Fairness ==
  /\ \A b \in Bookings : WF_vars(CreateStep(b))
  /\ \A d \in Decisions : WF_vars(Save(d))

FairSpec == Spec /\ Fairness
=============================================================================
