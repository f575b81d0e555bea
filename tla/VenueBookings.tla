---------------------------- MODULE VenueBookings ----------------------------
(***************************************************************************)
(* Venue hires: VenueBookingsService of                                    *)
(* src/venues/venue-bookings.service.ts.  A venue is one space that is     *)
(* hired by the hour, so the race guard asks whether a hire is the only    *)
(* one of its hours.  Steps are split as in RoomBookings, at each await.   *)
(***************************************************************************)
EXTENDS Naturals, FiniteSets

CONSTANTS
  Hires,          \* create requests; each inserts at most one document, which
                  \* goes by the same name
  Decisions,      \* cancel and confirm requests
  Venues,
  Guests, Staff,  \* signed-in users of role user, of role admin
  Hours,          \* the hours of a day
  RequestedSlots, \* the dates and hours that are asked for, legal or not
  Parties,        \* numbers of guests, and venue capacities
  HourRules,      \* what staff set a venue's opening hours and hire lengths to
  MAX_ADVANCE_DAYS,
  LastDay,        \* bound: the last day of the calendar
  MaxEdits,       \* bound: edits of venues by staff
  MaxFailures,    \* bound: requests that die at a database call
  NoOrder, NoTask

Users == Guests \cup Staff
Calendar == 0..LastDay
Slot == [date: Calendar, startHour: Hours, endHour: Hours]

ASSUME HiresAssumption == IsFiniteSet(Hires)
ASSUME NumbersAssumption == Parties \subseteq Nat /\ Hours \subseteq 0..24
ASSUME CalendarAssumption == LastDay \in Nat /\ MAX_ADVANCE_DAYS \in Nat
ASSUME SlotsAssumption == RequestedSlots \subseteq Slot
\* A null, which create stores where it is sent, counts as 0 in every comparison below.
ASSUME RulesAssumption ==
  HourRules \subseteq [openingHour: Hours, closingHour: Hours, minHours: Nat, maxHours: Nat]

HOLDING_STATUSES == {"pending", "confirmed"}

Venue == [rules: HourRules, capacity: Parties, isActive: BOOLEAN]
Order == [user: Users, venue: Venues, date: Calendar, startHour: Hours, endHour: Hours,
          guests: Parties]
Task == [op: {"cancel", "confirm"}, hire: Hires]

ASSUME NoOrderAssumption == NoOrder \notin Order /\ NoTask \notin Task

VARIABLES
  venue,     \* the venues collection
  status,    \* the venuebookings collection: the status of each, or "absent"
  creating,  \* where each create request is
  order,     \* what each create request, and its document, says
  deciding,  \* where each cancel or confirm request is
  task,      \* the save each of them has still to issue
  today,
  revived,   \* history: the hires a confirm saved over a cancellation
  edits, failures

store == <<venue, status>>
createCalls == <<creating, order>>
decisionCalls == <<deciding, task>>
bounds == <<edits, failures>>
vars == <<store, createCalls, decisionCalls, today, revived, bounds>>

CreateSteps == {"findingVenue", "counting", "inserting", "recounting", "withdrawing"}

TypeOK ==
  /\ venue \in [Venues -> Venue]
  /\ status \in [Hires -> HOLDING_STATUSES \cup {"cancelled", "absent"}]
  /\ creating \in [Hires -> CreateSteps \cup {"idle", "granted", "refused", "failed"}]
  /\ order \in [Hires -> Order \cup {NoOrder}]
  /\ deciding \in [Decisions -> {"idle", "saving", "answered"}]
  /\ task \in [Decisions -> Task \cup {NoTask}]
  /\ today \in Calendar
  /\ revived \subseteq Hires
  /\ edits \in Nat /\ failures \in Nat

-----------------------------------------------------------------------------
(* What is asked for and what is held.                                     *)

\* The checks create makes before it reads anything: parseBookingDate, and hours
\* that are in order.
LegalSlot(s) ==
  /\ s.date >= today
  /\ s.date - today <= MAX_ADVANCE_DAYS
  /\ s.endHour > s.startHour

\* The checks on the copy of the venue: offered, large enough, open then, and
\* hired for that long.
Accepts(v, o) ==
  /\ v.isActive
  /\ o.guests <= v.capacity
  /\ o.startHour >= v.rules.openingHour /\ o.endHour <= v.rules.closingHour
  /\ o.endHour - o.startHour >= v.rules.minHours
  /\ o.endHour - o.startHour <= v.rules.maxHours

\* Two orders want the venue at the same time.
Clash(o, p) ==
  /\ o.venue = p.venue /\ o.date = p.date
  /\ o.startHour < p.endHour /\ o.endHour > p.startHour

\* Slips in HeldWith: a hire that began before the requested hours is missed; a
\* hire that has not been accepted by staff is thought to hold nothing.
HeldStartingInside(o) ==
  {h \in Hires :
     /\ status[h] \in HOLDING_STATUSES
     /\ order[h].venue = o.venue /\ order[h].date = o.date
     /\ o.startHour <= order[h].startHour /\ order[h].startHour < o.endHour}
ConfirmedWith(o) == {h \in Hires : status[h] = "confirmed" /\ Clash(order[h], o)}

\* The documents countHeld counts.
HeldWith(o) == {h \in Hires : status[h] \in HOLDING_STATUSES /\ Clash(order[h], o)}

countHeld(h) == Cardinality(HeldWith(order[h]))

-----------------------------------------------------------------------------
(* The hours of a day as guests see them.  findDayAvailability is a query: *)
(* it reads the venue, on sale or not, and then the hires of the day, here *)
(* in one moment, since what matters is which hires it takes for holds.    *)

\* A slip in HiresOn: a request that staff have not accepted yet is left out.
AcceptedOn(v, date) ==
  {h \in Hires : status[h] = "confirmed" /\ order[h].venue = v /\ order[h].date = date}

\* The hires that hold hours of the venue on the day.
HiresOn(v, date) ==
  {h \in Hires : status[h] \in HOLDING_STATUSES /\ order[h].venue = v /\ order[h].date = date}

\* Only the slots, never who holds them.
findDayAvailability(v, date) ==
  [openingHour |-> venue[v].rules.openingHour, closingHour |-> venue[v].rules.closingHour,
   booked |-> {[startHour |-> order[h].startHour, endHour |-> order[h].endHour] :
                 h \in HiresOn(v, date)}]

-----------------------------------------------------------------------------
(* Creating a hire.                                                        *)

Init ==
  /\ venue \in [Venues -> {v \in Venue : v.isActive}]
  /\ status = [h \in Hires |-> "absent"]
  /\ creating = [h \in Hires |-> "idle"]
  /\ order = [h \in Hires |-> NoOrder]
  /\ deciding = [d \in Decisions |-> "idle"]
  /\ task = [d \in Decisions |-> NoTask]
  /\ today = 0
  /\ revived = {}
  /\ edits = 0 /\ failures = 0

\* The request ends with an HTTP error and leaves no document.
Refuse(h) ==
  /\ creating' = [creating EXCEPT ![h] = "refused"]
  /\ order' = [order EXCEPT ![h] = NoOrder]

Request(h) ==
  /\ creating[h] = "idle"
  /\ \E user \in Users, v \in Venues, s \in RequestedSlots, guests \in Parties :
       \/ /\ LegalSlot(s)
          /\ creating' = [creating EXCEPT ![h] = "findingVenue"]
          /\ order' = [order EXCEPT ![h] =
               [user |-> user, venue |-> v, date |-> s.date, startHour |-> s.startHour,
                endHour |-> s.endHour, guests |-> guests]]
       \/ /\ ~LegalSlot(s)
          /\ Refuse(h)
  /\ UNCHANGED <<store, decisionCalls, today, revived, bounds>>

\* venuesService.findOne answers; everything about the venue is checked on it.
FindVenue(h) ==
  /\ creating[h] = "findingVenue"
  /\ \/ /\ Accepts(venue[order[h].venue], order[h])
        /\ creating' = [creating EXCEPT ![h] = "counting"]
        /\ UNCHANGED order
     \/ /\ ~Accepts(venue[order[h].venue], order[h])
        /\ Refuse(h)
  /\ UNCHANGED <<store, decisionCalls, today, revived, bounds>>

Count(h) ==
  /\ creating[h] = "counting"
  /\ \/ /\ countHeld(h) = 0
        /\ creating' = [creating EXCEPT ![h] = "inserting"]
        /\ UNCHANGED order
     \/ /\ countHeld(h) > 0
        /\ Refuse(h)
  /\ UNCHANGED <<store, decisionCalls, today, revived, bounds>>

Insert(h) ==
  /\ creating[h] = "inserting"
  /\ status' = [status EXCEPT ![h] = "pending"]
  /\ creating' = [creating EXCEPT ![h] = "recounting"]
  /\ UNCHANGED <<venue, order, decisionCalls, today, revived, bounds>>

\* A slip in Recount: only the first count decides.
RecountForgotten(h) ==
  /\ creating[h] = "recounting"
  /\ creating' = [creating EXCEPT ![h] = "granted"]
  /\ UNCHANGED <<store, order, decisionCalls, today, revived, bounds>>

\* After the insert this hire must be the only hold on its hours.
Recount(h) ==
  /\ creating[h] = "recounting"
  /\ \/ /\ countHeld(h) > 1
        /\ creating' = [creating EXCEPT ![h] = "withdrawing"]
     \/ /\ countHeld(h) <= 1
        /\ creating' = [creating EXCEPT ![h] = "granted"]
  /\ UNCHANGED <<store, order, decisionCalls, today, revived, bounds>>

\* A slip in Withdraw: the request is refused and its document stays.
WithdrawNothing(h) ==
  /\ creating[h] = "withdrawing"
  /\ creating' = [creating EXCEPT ![h] = "refused"]
  /\ UNCHANGED <<store, order, decisionCalls, today, revived, bounds>>

Withdraw(h) ==
  /\ creating[h] = "withdrawing"
  /\ status' = [status EXCEPT ![h] = "absent"]
  /\ Refuse(h)
  /\ UNCHANGED <<venue, decisionCalls, today, revived, bounds>>

\* A database call of the request fails or the process dies.
Fail(h) ==
  /\ creating[h] \in CreateSteps
  /\ failures < MaxFailures
  /\ failures' = failures + 1
  /\ IF status[h] = "absent" THEN Refuse(h)
     ELSE creating' = [creating EXCEPT ![h] = "failed"] /\ UNCHANGED order
  /\ UNCHANGED <<store, decisionCalls, today, revived, edits>>

-----------------------------------------------------------------------------
(* Cancelling and confirming.                                              *)

CanActOn(h, actor) == actor \in Staff \/ order[h].user = actor

\* A guest can cancel up to and including the day itself.
MayCancel(h, actor) ==
  /\ CanActOn(h, actor)
  /\ status[h] # "cancelled"
  /\ actor \in Staff \/ order[h].date >= today

MayConfirm(h, actor) ==
  /\ actor \in Staff
  /\ status[h] = "pending"

Load(d) ==
  /\ deciding[d] = "idle"
  /\ \E h \in Hires, actor \in Users, op \in {"cancel", "confirm"} :
       LET found == status[h] # "absent"
           may == IF op = "cancel" THEN MayCancel(h, actor) ELSE MayConfirm(h, actor)
       IN \/ /\ found /\ may
             /\ deciding' = [deciding EXCEPT ![d] = "saving"]
             /\ task' = [task EXCEPT ![d] = [op |-> op, hire |-> h]]
          \/ /\ ~(found /\ may)
             /\ deciding' = [deciding EXCEPT ![d] = "answered"]
             /\ UNCHANGED task
  /\ UNCHANGED <<store, createCalls, today, revived, bounds>>

\* Slips in NewStatus: the operation is stored for the status; cancelling deletes.
OperationAsStatus(op) == op
CancelDeletes(op) == IF op = "cancel" THEN "absent" ELSE "confirmed"

NewStatus(op) == IF op = "cancel" THEN "cancelled" ELSE "confirmed"

\* booking.save(): an update by _id that does not look at the stored status.
Save(d) ==
  /\ deciding[d] = "saving"
  /\ LET h == task[d].hire
         to == NewStatus(task[d].op)
     IN \/ /\ status[h] # "absent"
           /\ status' = [status EXCEPT ![h] = to]
           /\ revived' = IF status[h] = "cancelled" /\ to = "confirmed"
                         THEN revived \cup {h} ELSE revived
        \/ /\ status[h] = "absent"
           /\ UNCHANGED <<status, revived>>
  /\ deciding' = [deciding EXCEPT ![d] = "answered"]
  /\ task' = [task EXCEPT ![d] = NoTask]
  /\ UNCHANGED <<venue, createCalls, today, bounds>>

\* The save never reaches the database.
LoseSave(d) ==
  /\ deciding[d] = "saving"
  /\ failures < MaxFailures
  /\ failures' = failures + 1
  /\ deciding' = [deciding EXCEPT ![d] = "answered"]
  /\ task' = [task EXCEPT ![d] = NoTask]
  /\ UNCHANGED <<store, createCalls, today, revived, edits>>

-----------------------------------------------------------------------------
(* The surroundings.                                                       *)

\* VenuesService.update and remove, as far as hiring can tell.
EditVenue(v) ==
  /\ edits < MaxEdits
  /\ edits' = edits + 1
  /\ \/ \E r \in HourRules : venue' = [venue EXCEPT ![v].rules = r]
     \/ \E n \in Parties : venue' = [venue EXCEPT ![v].capacity = n]
     \/ \E active \in BOOLEAN : venue' = [venue EXCEPT ![v].isActive = active]
  /\ UNCHANGED <<status, createCalls, decisionCalls, today, revived, failures>>

NextDay ==
  /\ today < LastDay
  /\ today' = today + 1
  /\ UNCHANGED <<store, createCalls, decisionCalls, revived, bounds>>

CreateStep(h) == FindVenue(h) \/ Count(h) \/ Insert(h) \/ Recount(h) \/ Withdraw(h)

Next ==
  \/ \E h \in Hires : Request(h) \/ CreateStep(h) \/ Fail(h)
  \/ \E d \in Decisions : Load(d) \/ Save(d) \/ LoseSave(d)
  \/ \E v \in Venues : EditVenue(v)
  \/ NextDay

Spec == Init /\ [][Next]_vars

-----------------------------------------------------------------------------
(* What venue hires have to guarantee.                                     *)

\* The hires the guest was told are theirs and that nobody has cancelled, save
\* those a late confirm brought back.
Sold == {h \in Hires :
           creating[h] = "granted" /\ status[h] \in HOLDING_STATUSES /\ h \notin revived}

\* A venue is one space: two sold hires never want it at the same time.
NoDoubleHire == \A h, i \in Sold : h # i => ~Clash(order[h], order[i])

\* Two holds of the same hours are a passing state of a race: one of them belongs to a
\* request that has still to count again or to withdraw, unless its request died or a
\* late confirm brought it back.
ClashHasAnOwner ==
  \A h, i \in Hires :
    h # i /\ {status[h], status[i]} \subseteq HOLDING_STATUSES /\ Clash(order[h], order[i]) =>
      \E x \in {h, i} :
        creating[x] \in {"recounting", "withdrawing", "failed"} \/ x \in revived

\* When nobody is served and nobody has died, no two holds of a venue clash: whatever was
\* released and hired again stays with the one who has it ("a cancelled one released its
\* slot, which may since have been taken", the comment above confirm).
QuietHiresApart ==
  (\A h \in Hires : creating[h] \notin CreateSteps \cup {"failed"}) =>
    \A h, i \in Hires :
      h # i /\ {status[h], status[i]} \subseteq HOLDING_STATUSES => ~Clash(order[h], order[i])

\* And a hire that is held is not granted while another one holds some of its hours.
NoGrantWhileClashing ==
  [][\A h, i \in Hires :
       /\ creating[h] = "recounting"
       /\ h # i /\ {status[h], status[i]} \subseteq HOLDING_STATUSES
       /\ Clash(order[h], order[i])
       => creating'[h] # "granted"]_vars

\* A sold hire goes away only by a cancellation: no recount of another guest, no
\* late save and no change of the venue takes it back.
HiredUntilCancelled ==
  [][\A h \in Sold : h \in Sold' \/ status'[h] = "cancelled"]_vars

\* Every hold is accounted for: it belongs to a request still being served, to one
\* that was granted, or to one that died.  A refused guest leaves no hold behind.
NoStrayHold ==
  \A h \in Hires :
    status[h] # "absent" =>
      /\ creating[h] \in {"recounting", "withdrawing", "granted", "failed"}
      /\ order[h] # NoOrder

\* The day that is shown and the requests to hire agree, though each has a query of
\* its own for what is taken: hours lie inside the opening hours and beside all booked
\* slots exactly when a request to hire them now would pass both the check of the
\* opening hours and the first count, whoever is still being served.
DayAgreesWithCreate ==
  \A v \in Venues, date \in Calendar, from, to \in Hours : from < to =>
    LET day == findDayAvailability(v, date)
        wish == [venue |-> v, date |-> date, startHour |-> from, endHour |-> to]
    IN /\ day.openingHour <= from /\ to <= day.closingHour
       /\ \A s \in day.booked : to <= s.startHour \/ s.endHour <= from
       <=>
       /\ from >= venue[v].rules.openingHour /\ to <= venue[v].rules.closingHour
       /\ HeldWith(wish) = {}

\* Venue hires implement the abstract inventory: a venue on a day is a resource
\* with one unit of each hour.
Open(h) ==
  \/ creating[h] \in {"counting", "inserting", "recounting", "withdrawing"}
  \/ h \in Sold

HiredHours(o) == {t \in Hours : o.startHour <= t /\ t < o.endHour}

claimOf ==
  [h \in Hires |->
     IF Open(h)
     THEN [resource |-> <<order[h].venue, order[h].date>>, slots |-> HiredHours(order[h]),
           quote |-> 1]
     ELSE NoOrder]

Abstract ==
  INSTANCE Inventory WITH
    Claims <- Hires, Resources <- Venues \X Calendar, Slots <- Hours,
    Capacities <- {1}, NoClaim <- NoOrder,
    capacity <- [r \in Venues \X Calendar |-> 1],
    claim <- claimOf, sold <- Sold

ASSUME NoClaimAssumption == NoOrder \notin Abstract!Claim

\* Every behaviour of the service is one the abstract inventory allows: Abstract!Spec
\* with the stutter put first, which TLC evaluates faster.
ImplementsInventory ==
  Abstract!Init /\ [][UNCHANGED Abstract!vars \/ Abstract!Next]_vars
=============================================================================
