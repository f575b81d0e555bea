-------------------------- MODULE VenueBookingProofs --------------------------
(***************************************************************************)
(* No hour of a venue is hired twice, for every finite set of requests,    *)
(* every calendar and all opening rules, whatever fails and whatever staff *)
(* edit.                                                                   *)
(***************************************************************************)
EXTENDS VenueBookings, FiniteSetTheorems, TLAPS

\* How the control states agree with the data.
Served ==
  /\ \A h \in Hires : creating[h] \in CreateSteps => order[h] # NoOrder
  /\ \A h \in Hires : order[h] # NoOrder => order[h].startHour < order[h].endHour
  /\ \A d \in Decisions : deciding[d] = "saving" => task[d] # NoTask

Inv == TypeOK /\ NoStrayHold /\ Served

-----------------------------------------------------------------------------

\* The initial states satisfy the invariant.
LEMMA InitInv == Init => Inv
  BY CalendarAssumption
     DEF Init, Inv, TypeOK, NoStrayHold, Served, CreateSteps, Calendar

\* A refused request has no document, so what is left of it is accounted for.
LEMMA RefuseInv ==
  ASSUME Inv, NEW h \in Hires, Refuse(h), status'[h] = "absent",
         status' \in [Hires -> HOLDING_STATUSES \cup {"cancelled", "absent"}],
         \A i \in Hires \ {h} : status'[i] = status[i],
         venue' \in [Venues -> Venue],
         UNCHANGED <<decisionCalls, today, revived>>, edits' \in Nat, failures' \in Nat
  PROVE  Inv'
<1>1. TypeOK'
  BY DEF Inv, TypeOK, Refuse, decisionCalls
<1>2. NoStrayHold'
  BY DEF Inv, TypeOK, NoStrayHold, Refuse
<1>3. Served'
  BY DEF Inv, TypeOK, Served, Refuse, decisionCalls, CreateSteps
<1> QED
  BY <1>1, <1>2, <1>3 DEF Inv

\* Every step keeps the invariant.
LEMMA NextInv == Inv /\ [Next]_vars => Inv'
<1> SUFFICES ASSUME Inv, [Next]_vars
             PROVE  Inv'
  OBVIOUS
<1>1. ASSUME NEW h \in Hires, Request(h)
      PROVE  Inv'
  <2>1. PICK user \in Users, v \in Venues, s \in RequestedSlots, guests \in Parties :
          \/ /\ LegalSlot(s)
             /\ creating' = [creating EXCEPT ![h] = "findingVenue"]
             /\ order' = [order EXCEPT ![h] =
                  [user |-> user, venue |-> v, date |-> s.date, startHour |-> s.startHour,
                   endHour |-> s.endHour, guests |-> guests]]
          \/ Refuse(h)
    BY <1>1 DEF Request
  <2>2. [user |-> user, venue |-> v, date |-> s.date, startHour |-> s.startHour,
         endHour |-> s.endHour, guests |-> guests] \in Order
    BY SlotsAssumption DEF Order, Slot
  <2>3. status[h] = "absent"
    BY <1>1 DEF Request, Inv, NoStrayHold
  <2>4. CASE Refuse(h)
    BY <1>1, <2>3, <2>4, RefuseInv DEF Request, Inv, TypeOK, store, bounds
  <2>5. CASE ~Refuse(h)
    <3>1. TypeOK'
      BY <1>1, <2>1, <2>2, <2>5
         DEF Request, Inv, TypeOK, CreateSteps, store, decisionCalls, bounds
    <3>2. NoStrayHold'
      BY <1>1, <2>1, <2>3, <2>5 DEF Request, Inv, TypeOK, NoStrayHold, store
    <3>3. s.startHour < s.endHour
      BY <2>1, <2>5, SlotsAssumption, NumbersAssumption DEF LegalSlot, Slot
    <3>4. Served'
      BY <1>1, <2>1, <2>2, <2>5, <3>3, NoOrderAssumption
         DEF Request, Inv, TypeOK, Served, CreateSteps, decisionCalls
    <3> QED
      BY <3>1, <3>2, <3>4 DEF Inv
  <2> QED
    BY <2>4, <2>5
<1>2. ASSUME NEW h \in Hires, FindVenue(h) \/ Count(h)
      PROVE  Inv'
  <2>1. status[h] = "absent"
    BY <1>2 DEF FindVenue, Count, Inv, NoStrayHold
  <2>2. CASE Refuse(h)
    BY <1>2, <2>1, <2>2, RefuseInv DEF FindVenue, Count, Inv, TypeOK, store, bounds
  <2>3. CASE ~Refuse(h)
    BY <1>2, <2>1, <2>3
       DEF FindVenue, Count, Inv, TypeOK, NoStrayHold, Served, CreateSteps, store,
           decisionCalls, bounds
  <2> QED
    BY <2>2, <2>3
<1>3. ASSUME NEW h \in Hires, Insert(h)
      PROVE  Inv'
  BY <1>3
     DEF Insert, Inv, TypeOK, NoStrayHold, Served, CreateSteps, decisionCalls, bounds,
         HOLDING_STATUSES
<1>4. ASSUME NEW h \in Hires, Recount(h)
      PROVE  Inv'
  BY <1>4
     DEF Recount, Inv, TypeOK, NoStrayHold, Served, CreateSteps, store, decisionCalls, bounds
<1>5. ASSUME NEW h \in Hires, Withdraw(h)
      PROVE  Inv'
  BY <1>5, RefuseInv DEF Withdraw, Inv, TypeOK, bounds
<1>6. ASSUME NEW h \in Hires, Fail(h)
      PROVE  Inv'
  <2>1. failures' \in Nat /\ edits' \in Nat
    BY <1>6 DEF Fail, Inv, TypeOK
  <2>2. CASE status[h] = "absent"
    BY <1>6, <2>1, <2>2, RefuseInv DEF Fail, Inv, TypeOK, store
  <2>3. CASE status[h] # "absent"
    BY <1>6, <2>1, <2>3
       DEF Fail, Inv, TypeOK, NoStrayHold, Served, CreateSteps, store, decisionCalls
  <2> QED
    BY <2>2, <2>3
<1>7. ASSUME NEW d \in Decisions, Load(d)
      PROVE  Inv'
  <2>1. PICK h \in Hires, op \in {"cancel", "confirm"} :
          \/ /\ deciding' = [deciding EXCEPT ![d] = "saving"]
             /\ task' = [task EXCEPT ![d] = [op |-> op, hire |-> h]]
          \/ /\ deciding' = [deciding EXCEPT ![d] = "answered"]
             /\ UNCHANGED task
    BY <1>7 DEF Load
  <2>2. [op |-> op, hire |-> h] \in Task
    BY DEF Task
  <2>3. UNCHANGED <<venue, status, creating, order, today, revived, edits, failures>>
    BY <1>7 DEF Load, store, createCalls, bounds
  <2>4. TypeOK'
    BY <2>1, <2>2, <2>3 DEF Inv, TypeOK
  <2>5. NoStrayHold'
    BY <2>3 DEF Inv, NoStrayHold
  <2>6. Served'
    BY <2>1, <2>2, <2>3, NoOrderAssumption DEF Inv, TypeOK, Served
  <2> QED
    BY <2>4, <2>5, <2>6 DEF Inv
<1>8. ASSUME NEW d \in Decisions, Save(d)
      PROVE  Inv'
  <2>1. task[d] \in Task
    BY <1>8 DEF Save, Inv, TypeOK, Served
  <2>2. PICK h \in Hires : task[d].hire = h
    BY <2>1 DEF Task
  <2>3. NewStatus(task[d].op) \in {"cancelled", "confirmed"}
    BY DEF NewStatus
  <2>4. TypeOK'
    BY <1>8, <2>1, <2>2, <2>3
       DEF Save, Inv, TypeOK, HOLDING_STATUSES, createCalls, bounds
  <2>5. NoStrayHold'
    BY <1>8, <2>2, <2>3 DEF Save, Inv, TypeOK, NoStrayHold, createCalls
  <2>6. Served'
    BY <1>8 DEF Save, Inv, TypeOK, Served, createCalls
  <2> QED
    BY <2>4, <2>5, <2>6 DEF Inv
<1>9. ASSUME NEW d \in Decisions, LoseSave(d)
      PROVE  Inv'
  BY <1>9 DEF LoseSave, Inv, TypeOK, NoStrayHold, Served, store, createCalls
<1>10. ASSUME NEW v \in Venues, EditVenue(v)
       PROVE  Inv'
  <2>1. venue' \in [Venues -> Venue] /\ edits' \in Nat
    BY <1>10 DEF EditVenue, Inv, TypeOK, Venue
  <2> QED
    BY <1>10, <2>1 DEF EditVenue, Inv, TypeOK, NoStrayHold, Served, createCalls, decisionCalls
<1>11. CASE NextDay
  BY <1>11, CalendarAssumption
     DEF NextDay, Inv, TypeOK, NoStrayHold, Served, Calendar, store, createCalls,
         decisionCalls, bounds
<1>12. CASE UNCHANGED vars
  BY <1>12
     DEF vars, Inv, TypeOK, NoStrayHold, Served, store, createCalls, decisionCalls, bounds
<1> QED
  BY <1>1, <1>2, <1>3, <1>4, <1>5, <1>6, <1>7, <1>8, <1>9, <1>10, <1>11, <1>12
     DEF Next, CreateStep

\* The invariant holds in every reachable state.
LEMMA Invariance == Spec => []Inv
  BY InitInv, NextInv, PTL DEF Spec

\* Every reachable state is typed.
THEOREM TypeCorrect == Spec => []TypeOK
<1>1. Inv => TypeOK
  BY DEF Inv
<1> QED
  BY <1>1, Invariance, PTL

\* A refused guest leaves no hold behind, in every reachable state.
THEOREM NothingStray == Spec => []NoStrayHold
<1>1. Inv => NoStrayHold
  BY DEF Inv
<1> QED
  BY <1>1, Invariance, PTL

-----------------------------------------------------------------------------
(* What a step does to the hires that are sold.                            *)

\* A hire that is sold after a step was sold before, or the step is the recount
\* that granted it; its order is the same.
LEMMA SoldAfter ==
  ASSUME Inv, [Next]_vars, NEW h \in Sold'
  PROVE  /\ h \in Hires /\ order'[h] = order[h]
         /\ \/ h \in Sold
            \/ Recount(h) /\ creating'[h] = "granted"
<1>1. h \in Hires /\ creating'[h] = "granted" /\ status'[h] \in HOLDING_STATUSES /\ h \notin revived'
  BY DEF Sold
<1>2. ASSUME NEW i \in Hires, Request(i) \/ CreateStep(i) \/ Fail(i)
      PROVE  order'[h] = order[h] /\ (h \in Sold \/ (h = i /\ Recount(i)))
  <2>1. CASE h = i
    BY <1>1, <1>2, <2>1
       DEF Request, CreateStep, FindVenue, Count, Insert, Recount, Withdraw, Fail, Refuse,
           Inv, TypeOK, store, CreateSteps
  <2>2. CASE h # i
    <3>1. creating'[h] = creating[h] /\ order'[h] = order[h]
      BY <1>1, <1>2, <2>2
         DEF Request, CreateStep, FindVenue, Count, Insert, Recount, Withdraw, Fail, Refuse,
             Inv, TypeOK
    <3>2. status'[h] = status[h] /\ revived' = revived
      BY <1>1, <1>2, <2>2
         DEF Request, CreateStep, FindVenue, Count, Insert, Recount, Withdraw, Fail,
             Inv, TypeOK, store
    <3> QED
      BY <1>1, <3>1, <3>2 DEF Sold
  <2> QED
    BY <2>1, <2>2
<1>3. ASSUME NEW d \in Decisions, Save(d)
      PROVE  order'[h] = order[h] /\ h \in Sold
  <2>1. creating' = creating /\ order' = order /\ revived \subseteq revived'
    BY <1>3 DEF Save, createCalls
  <2>2. creating[h] = "granted" /\ h \notin revived
    BY <1>1, <2>1
  <2>3. CASE status[h] = "cancelled"
    BY <1>1, <1>3, <2>3 DEF Save, NewStatus, Inv, TypeOK, HOLDING_STATUSES
  <2>4. CASE status[h] = "absent"
    BY <1>1, <1>3, <2>4 DEF Save, Inv, TypeOK, HOLDING_STATUSES
  <2>5. CASE status[h] \in HOLDING_STATUSES
    BY <1>1, <2>1, <2>2, <2>5 DEF Sold
  <2> QED
    BY <1>1, <2>3, <2>4, <2>5 DEF Inv, TypeOK
<1>4. CASE (\E d \in Decisions : Load(d) \/ LoseSave(d)) \/ (\E v \in Venues : EditVenue(v))
           \/ NextDay \/ UNCHANGED vars
  <2>1. UNCHANGED <<status, creating, order, revived>>
    BY <1>4 DEF Load, LoseSave, EditVenue, NextDay, vars, store, createCalls
  <2> QED
    BY <1>1, <2>1 DEF Sold
<1> QED
  BY <1>1, <1>2, <1>3, <1>4 DEF Next

\* Hours can be compared.
LEMMA HoursAreIntegers == \A t \in Hours : t \in Int
  BY NumbersAssumption

\* A recount that grants a hire has seen no other hold on its hours.
LEMMA GrantSeesNobody ==
  ASSUME Inv, NEW h \in Hires, Recount(h), creating'[h] = "granted",
         status[h] \in HOLDING_STATUSES,
         NEW i \in Hires, i # h, status[i] \in HOLDING_STATUSES
  PROVE  ~Clash(order[i], order[h])
<1> SUFFICES ASSUME Clash(order[i], order[h])
             PROVE  FALSE
  OBVIOUS
<1>1. Cardinality(HeldWith(order[h])) <= 1
  BY DEF Recount, countHeld, Inv, TypeOK
<1>2. h \in HeldWith(order[h])
  <2>1. order[h] # NoOrder /\ order[h] \in Order
    BY DEF Inv, TypeOK, NoStrayHold, HOLDING_STATUSES
  <2>2. order[h].startHour \in Hours /\ order[h].endHour \in Hours
    BY <2>1 DEF Order
  <2>4. order[h].startHour \in Int /\ order[h].endHour \in Int
    BY <2>2, HoursAreIntegers
  <2>3. order[h].startHour < order[h].endHour
    BY <2>1 DEF Inv, Served
  <2> QED
    BY <2>4, <2>3 DEF HeldWith, Clash
<1>3. i \in HeldWith(order[h])
  BY DEF HeldWith
<1>4. IsFiniteSet(HeldWith(order[h]))
  BY HiresAssumption, FS_Subset DEF HeldWith
<1>5. Cardinality({h, i}) = 2
  <2>1. IsFiniteSet({h}) /\ Cardinality({h}) = 1
    BY FS_Singleton
  <2>2. {h, i} = {h} \cup {i} /\ i \notin {h}
    OBVIOUS
  <2>3. Cardinality({h} \cup {i}) = 1 + 1
    BY <2>1, <2>2, FS_AddElement
  <2> QED
    BY <2>2, <2>3
<1>6. 2 <= Cardinality(HeldWith(order[h])) /\ Cardinality(HeldWith(order[h])) \in Nat
  BY <1>2, <1>3, <1>4, <1>5, FS_Subset, FS_CardinalityType
<1> QED
  BY <1>1, <1>6

\* Clash does not depend on which of the two hires comes first.
LEMMA ClashSymmetric == \A o, p : Clash(o, p) <=> Clash(p, o)
  BY DEF Clash

\* Two sold hires stay apart.
LEMMA NextApart == Inv /\ NoDoubleHire /\ [Next]_vars => NoDoubleHire'
<1> SUFFICES ASSUME Inv, NoDoubleHire, [Next]_vars,
                    NEW h \in Sold', NEW i \in Sold', h # i
             PROVE  ~Clash(order'[h], order'[i])
  BY DEF NoDoubleHire, Clash
<1>1. /\ h \in Hires /\ order'[h] = order[h]
      /\ h \in Sold \/ (Recount(h) /\ creating'[h] = "granted")
  BY SoldAfter
<1>2. /\ i \in Hires /\ order'[i] = order[i]
      /\ i \in Sold \/ (Recount(i) /\ creating'[i] = "granted")
  BY SoldAfter
<1>3. ASSUME NEW j \in Hires, NEW k \in Hires, j # k, k \in Sold,
             Recount(j), creating'[j] = "granted", j \in Sold'
      PROVE  ~Clash(order[k], order[j])
  <2>1. status[j] \in HOLDING_STATUSES
    BY <1>3 DEF Recount, Sold, store
  <2> QED
    BY <1>3, <2>1, GrantSeesNobody DEF Sold
<1>4. CASE h \in Sold /\ i \in Sold
  BY <1>1, <1>2, <1>4 DEF NoDoubleHire
<1>5. CASE h \notin Sold /\ i \in Sold
  BY <1>1, <1>2, <1>3, <1>5, ClashSymmetric
<1>6. CASE h \in Sold /\ i \notin Sold
  BY <1>1, <1>2, <1>3, <1>6, ClashSymmetric
<1>7. CASE h \notin Sold /\ i \notin Sold
  BY <1>1, <1>2, <1>7 DEF Recount, Inv, TypeOK
<1> QED
  BY <1>4, <1>5, <1>6, <1>7

\* A venue is never hired twice at the same time.
THEOREM NeverHiredTwice == Spec => []NoDoubleHire
<1>1. Init => NoDoubleHire
  BY DEF Init, NoDoubleHire, Sold
<1>2. Inv /\ NoDoubleHire /\ [Next]_vars => NoDoubleHire'
  BY NextApart
<1> QED
  BY <1>1, <1>2, Invariance, PTL DEF Spec

-----------------------------------------------------------------------------
(* How a race ends.                                                        *)

\* Of two holds of the same hours at least one is not sold, and its request has still to
\* count again or to withdraw, has died, or was brought back by a late confirm.
THEOREM ClashesAreOwned == Spec => []ClashHasAnOwner
<1>1. Inv /\ NoDoubleHire => ClashHasAnOwner
  <2>. SUFFICES ASSUME Inv, NoDoubleHire, NEW h \in Hires, NEW i \in Hires, h # i,
                       status[h] \in HOLDING_STATUSES, status[i] \in HOLDING_STATUSES,
                       Clash(order[h], order[i])
                PROVE  \E x \in {h, i} :
                         \/ creating[x] \in {"recounting", "withdrawing", "failed"}
                         \/ x \in revived
    BY DEF ClashHasAnOwner
  <2>1. \A x \in {h, i} : creating[x] \in {"recounting", "withdrawing", "granted", "failed"}
    BY DEF Inv, NoStrayHold, HOLDING_STATUSES
  <2>2. ~(h \in Sold /\ i \in Sold)
    BY DEF NoDoubleHire
  <2>. QED
    BY <2>1, <2>2 DEF Sold
<1>. QED
  BY <1>1, Invariance, NeverHiredTwice, PTL

\* Once nobody is being served the slots that a day shows as booked do not overlap, and
\* neither do the holds behind them, unless a request died or a late confirm brought a
\* hire back.
THEOREM QuietAfterRaces == Spec => [](revived = {} => QuietHiresApart)
<1>1. ClashHasAnOwner => (revived = {} => QuietHiresApart)
  BY DEF ClashHasAnOwner, QuietHiresApart, CreateSteps
<1>. QED
  BY <1>1, ClashesAreOwned, PTL

\* The second count of a hire finds every other hold of its hours.
THEOREM ClashesAreNotGranted == Spec => NoGrantWhileClashing
<1>. DEFINE Withheld ==
       \A h, i \in Hires :
         /\ creating[h] = "recounting"
         /\ h # i /\ {status[h], status[i]} \subseteq HOLDING_STATUSES
         /\ Clash(order[h], order[i])
         => creating'[h] # "granted"
<1>1. ASSUME Inv, [Next]_vars PROVE [Withheld]_vars
  <2>. SUFFICES ASSUME NEW h \in Hires, NEW i \in Hires, creating[h] = "recounting", h # i,
                       status[h] \in HOLDING_STATUSES, status[i] \in HOLDING_STATUSES,
                       Clash(order[h], order[i]), creating'[h] = "granted"
                PROVE  FALSE
    OBVIOUS
  <2>1. Recount(h)
    <3>1. ASSUME NEW j \in Hires, Request(j) \/ CreateStep(j) \/ Fail(j), j # h
          PROVE  creating'[h] = creating[h]
      BY <1>1, <3>1
         DEF Request, CreateStep, FindVenue, Count, Insert, Recount, Withdraw, Fail, Refuse,
             Inv, TypeOK
    <3>2. Request(h) \/ Fail(h) => creating'[h] # "granted"
      BY <1>1 DEF Request, Fail, Refuse, Inv, TypeOK
    <3>3. ~(FindVenue(h) \/ Count(h) \/ Insert(h) \/ Withdraw(h))
      BY DEF FindVenue, Count, Insert, Withdraw
    <3>. QED
      BY <1>1, <3>1, <3>2, <3>3
         DEF Next, CreateStep, Load, Save, LoseSave, EditVenue, NextDay, vars, createCalls
  <2>2. Clash(order[i], order[h])
    BY ClashSymmetric
  <2>. QED
    BY <1>1, <2>1, <2>2, GrantSeesNobody
<1>. QED
  BY <1>1, Invariance, PTL DEF Spec, NoGrantWhileClashing

-----------------------------------------------------------------------------
(* Nothing but a cancellation takes a sold hire back.                      *)

\* No step of another request, of staff or of the calendar changes a sold hire;
\* a save leaves it confirmed or cancelled.
LEMMA SoldKept ==
  ASSUME Inv, [Next]_vars, NEW h \in Sold
  PROVE  h \in Sold' \/ status'[h] = "cancelled"
<1>1. h \in Hires /\ creating[h] = "granted" /\ status[h] \in HOLDING_STATUSES /\ h \notin revived
  BY DEF Sold
<1>2. ASSUME NEW i \in Hires, Request(i) \/ CreateStep(i) \/ Fail(i)
      PROVE  h \in Sold'
  <2>1. h # i
    BY <1>1, <1>2
       DEF Request, CreateStep, FindVenue, Count, Insert, Recount, Withdraw, Fail, CreateSteps
  <2>2. creating'[h] = creating[h]
    BY <1>1, <1>2, <2>1
       DEF Request, CreateStep, FindVenue, Count, Insert, Recount, Withdraw, Fail, Refuse,
           Inv, TypeOK
  <2>3. status'[h] = status[h] /\ revived' = revived
    BY <1>1, <1>2, <2>1
       DEF Request, CreateStep, FindVenue, Count, Insert, Recount, Withdraw, Fail,
           Inv, TypeOK, store
  <2> QED
    BY <1>1, <2>2, <2>3 DEF Sold
<1>3. ASSUME NEW d \in Decisions, Save(d)
      PROVE  h \in Sold' \/ status'[h] = "cancelled"
  <2>1. creating' = creating
    BY <1>3 DEF Save, createCalls
  <2>2. CASE task[d].hire = h
    <3>1. status'[h] = NewStatus(task[d].op) /\ revived' = revived
      BY <1>1, <1>3, <2>2 DEF Save, Inv, TypeOK, HOLDING_STATUSES
    <3>2. status'[h] \in {"cancelled", "confirmed"}
      BY <3>1 DEF NewStatus
    <3> QED
      BY <1>1, <2>1, <3>1, <3>2 DEF Sold, HOLDING_STATUSES
  <2>3. CASE task[d].hire # h
    <3>1. status'[h] = status[h] /\ h \notin revived'
      BY <1>1, <1>3, <2>3 DEF Save, Inv, TypeOK
    <3> QED
      BY <1>1, <2>1, <3>1 DEF Sold
  <2> QED
    BY <2>2, <2>3
<1>4. CASE (\E d \in Decisions : Load(d) \/ LoseSave(d)) \/ (\E v \in Venues : EditVenue(v))
           \/ NextDay \/ UNCHANGED vars
  <2>1. UNCHANGED <<status, creating, revived>>
    BY <1>4 DEF Load, LoseSave, EditVenue, NextDay, vars, store, createCalls
  <2> QED
    BY <1>1, <2>1 DEF Sold
<1> QED
  BY <1>2, <1>3, <1>4 DEF Next

\* A sold hire goes away only by a cancellation.
THEOREM HiredStaysHired == Spec => HiredUntilCancelled
<1>1. Inv /\ [Next]_vars => [\A h \in Sold : h \in Sold' \/ status'[h] = "cancelled"]_vars
  BY SoldKept
<1> QED
  BY <1>1, Invariance, PTL DEF Spec, HiredUntilCancelled
-----------------------------------------------------------------------------
(* The day that is shown and the requests to hire agree.                   *)

\* A document has an order with hours of the day.
LEMMA HeldOrder ==
  ASSUME Inv, NEW h \in Hires, status[h] \in HOLDING_STATUSES
  PROVE  order[h].startHour \in Int /\ order[h].endHour \in Int
<1>1. order[h] \in Order
  BY DEF Inv, TypeOK, NoStrayHold, HOLDING_STATUSES
<1>2. order[h].startHour \in Hours /\ order[h].endHour \in Hours
  BY <1>1 DEF Order
<1> QED
  BY <1>2, HoursAreIntegers

\* Hours that touch no booked slot of the day are hours nobody holds.
LEMMA BookedAreHeld ==
  ASSUME Inv, NEW v \in Venues, NEW date \in Calendar, NEW from \in Hours, NEW to \in Hours
  PROVE  (\A s \in findDayAvailability(v, date).booked : to <= s.startHour \/ s.endHour <= from)
         <=> HeldWith([venue |-> v, date |-> date, startHour |-> from, endHour |-> to]) = {}
<1> DEFINE wish == [venue |-> v, date |-> date, startHour |-> from, endHour |-> to]
<1>1. findDayAvailability(v, date).booked =
        {[startHour |-> order[h].startHour, endHour |-> order[h].endHour] : h \in HiresOn(v, date)}
  BY DEF findDayAvailability
<1>2. (\A s \in findDayAvailability(v, date).booked : to <= s.startHour \/ s.endHour <= from)
      <=> \A h \in HiresOn(v, date) : to <= order[h].startHour \/ order[h].endHour <= from
  <2> DEFINE slotOf(h) == [startHour |-> order[h].startHour, endHour |-> order[h].endHour]
  <2>1. \A h : slotOf(h).startHour = order[h].startHour /\ slotOf(h).endHour = order[h].endHour
    OBVIOUS
  <2>2. findDayAvailability(v, date).booked = {slotOf(h) : h \in HiresOn(v, date)}
    BY <1>1
  <2> HIDE DEF slotOf
  <2> QED
    BY <2>1, <2>2
<1>3. from \in Int /\ to \in Int
  BY HoursAreIntegers
<1>4. \A h \in HiresOn(v, date) :
        (to <= order[h].startHour \/ order[h].endHour <= from) <=> ~Clash(order[h], wish)
  <2> SUFFICES ASSUME NEW h \in HiresOn(v, date)
               PROVE  (to <= order[h].startHour \/ order[h].endHour <= from)
                      <=> ~Clash(order[h], wish)
    OBVIOUS
  <2>1. h \in Hires /\ status[h] \in HOLDING_STATUSES
    BY DEF HiresOn
  <2>2. order[h].venue = v /\ order[h].date = date
    BY DEF HiresOn
  <2>3. order[h].startHour \in Int /\ order[h].endHour \in Int
    BY <2>1, HeldOrder
  <2> QED
    BY <1>3, <2>2, <2>3 DEF Clash
<1>5. \A h \in Hires :
        h \in HeldWith(wish) <=> h \in HiresOn(v, date) /\ Clash(order[h], wish)
  BY DEF HeldWith, HiresOn, Clash
<1>6. HeldWith(wish) \subseteq Hires /\ HiresOn(v, date) \subseteq Hires
  BY DEF HeldWith, HiresOn
<1>7. (\A h \in HiresOn(v, date) : ~Clash(order[h], wish)) <=> HeldWith(wish) = {}
  BY <1>5, <1>6
<1> QED
  BY <1>2, <1>4, <1>7

\* What findDayAvailability shows and what create accepts never disagree.
THEOREM DayAgrees == Spec => []DayAgreesWithCreate
<1>1. Inv => DayAgreesWithCreate
  <2> SUFFICES ASSUME Inv, NEW v \in Venues, NEW date \in Calendar,
                      NEW from \in Hours, NEW to \in Hours, from < to
               PROVE  (/\ /\ findDayAvailability(v, date).openingHour <= from
                          /\ to <= findDayAvailability(v, date).closingHour
                       /\ \A s \in findDayAvailability(v, date).booked :
                            to <= s.startHour \/ s.endHour <= from)
                      <=>
                      (/\ from >= venue[v].rules.openingHour /\ to <= venue[v].rules.closingHour
                       /\ HeldWith([venue |-> v, date |-> date, startHour |-> from,
                                    endHour |-> to]) = {})
    BY DEF DayAgreesWithCreate
  <2>1. /\ findDayAvailability(v, date).openingHour = venue[v].rules.openingHour
        /\ findDayAvailability(v, date).closingHour = venue[v].rules.closingHour
    BY DEF findDayAvailability
  <2>2. from \in Int /\ venue[v].rules.openingHour \in Int
    <3>1. venue[v].rules.openingHour \in Hours
      BY RulesAssumption DEF Inv, TypeOK, Venue
    <3> QED
      BY <3>1, HoursAreIntegers
  <2> QED
    BY <2>1, <2>2, BookedAreHeld
<1> QED
  BY <1>1, Invariance, PTL
-----------------------------------------------------------------------------
(* The refinement: every step of the service is a step of Inventory or     *)
(* leaves its variables alone.                                             *)

InClaim == {"counting", "inserting", "recounting", "withdrawing"}

\* An open request has a claim the abstract inventory accepts.
LEMMA ClaimTyped ==
  ASSUME Inv, NEW h \in Hires, Open(h)
  PROVE  /\ order[h] \in Order
         /\ claimOf[h] = [resource |-> <<order[h].venue, order[h].date>>,
                          slots |-> HiredHours(order[h]), quote |-> 1]
         /\ claimOf[h] # NoOrder
<1>1. order[h] # NoOrder
  BY DEF Open, Sold, Inv, Served, NoStrayHold, CreateSteps, HOLDING_STATUSES
<1>2. order[h] \in Order
  BY <1>1 DEF Inv, TypeOK
<1>3. claimOf[h] = [resource |-> <<order[h].venue, order[h].date>>,
                    slots |-> HiredHours(order[h]), quote |-> 1]
  BY DEF claimOf
<1>4. <<order[h].venue, order[h].date>> \in Venues \X Calendar
  BY <1>2 DEF Order
<1>5. claimOf[h] \in Abstract!Claim
  BY <1>3, <1>4 DEF Abstract!Claim, HiredHours
<1> QED
  BY <1>2, <1>3, <1>5, NoClaimAssumption

\* What the abstract variables are made of does not change.
LEMMA StutterIf ==
  ASSUME \A h \in Hires : Open(h)' <=> Open(h),
         \A h \in Hires : Open(h) => order'[h] = order[h],
         Sold' = Sold
  PROVE  UNCHANGED Abstract!vars
<1>1. claimOf' = claimOf
  BY DEF claimOf, HiredHours
<1> QED
  BY <1>1 DEF Abstract!vars

\* One request stops being open, and sold if it was.
LEMMA CloseIf ==
  ASSUME Inv, NEW h \in Hires, Open(h), ~Open(h)',
         \A i \in Hires \ {h} : Open(i)' <=> Open(i),
         \A i \in Hires \ {h} : Open(i) => order'[i] = order[i],
         Sold' = Sold \ {h}
  PROVE  Abstract!Close(h)
<1>1. claimOf' = [claimOf EXCEPT ![h] = NoOrder]
  BY DEF claimOf, HiredHours
<1> QED
  BY <1>1, ClaimTyped DEF Abstract!Close

\* A refusal touches one request only.
LEMMA RefuseFrame ==
  ASSUME Inv, NEW h \in Hires, Refuse(h)
  PROVE  /\ creating'[h] = "refused"
         /\ \A i \in Hires \ {h} : creating'[i] = creating[i] /\ order'[i] = order[i]
  BY DEF Inv, TypeOK, Refuse

\* A request that is refused closes its claim if it had one.
LEMMA RefuseStep ==
  ASSUME Inv, NEW h \in Hires, Refuse(h), UNCHANGED revived, creating[h] # "granted",
         \A i \in Hires \ {h} : status'[i] = status[i]
  PROVE  Abstract!Next \/ UNCHANGED Abstract!vars
<1>1. /\ creating'[h] = "refused"
      /\ \A i \in Hires \ {h} : creating'[i] = creating[i] /\ order'[i] = order[i]
  BY RefuseFrame
<1>2. h \notin Sold /\ h \notin Sold' /\ ~Open(h)'
  BY <1>1 DEF Sold, Open
<1>3. Sold' = Sold
  BY <1>1, <1>2 DEF Sold
<1>4. \A i \in Hires \ {h} : Open(i)' <=> Open(i)
  BY <1>1, <1>3 DEF Open
<1>5. CASE Open(h)
  BY <1>1, <1>2, <1>3, <1>4, <1>5, CloseIf DEF Abstract!Next
<1>6. CASE ~Open(h)
  BY <1>1, <1>2, <1>3, <1>4, <1>6, StutterIf
<1> QED
  BY <1>5, <1>6

\* Steps inside a create request that keep its claim as it is.
LEMMA ProgressStep ==
  ASSUME Inv, NEW h \in Hires, NEW to, creating' = [creating EXCEPT ![h] = to],
         creating[h] # "granted", to # "granted", creating[h] \in InClaim, to \in InClaim,
         UNCHANGED <<order, revived>>,
         \A i \in Hires \ {h} : status'[i] = status[i]
  PROVE  UNCHANGED Abstract!vars
<1>1. creating'[h] = to /\ \A i \in Hires \ {h} : creating'[i] = creating[i]
  BY DEF Inv, TypeOK
<1>2. Sold' = Sold
  BY <1>1 DEF Sold
<1>3. \A i \in Hires : Open(i)' <=> Open(i)
  BY <1>1, <1>2 DEF Open, InClaim
<1> QED
  BY <1>2, <1>3, StutterIf

\* Reading the venue opens the claim: it is quoted the one unit there is.
LEMMA FindVenueStep ==
  ASSUME Inv, NEW h \in Hires, FindVenue(h)
  PROVE  Abstract!Next \/ UNCHANGED Abstract!vars
<1>1. UNCHANGED <<status, revived>> /\ creating[h] = "findingVenue"
  BY DEF FindVenue, store
<1>2. CASE Refuse(h)
  BY <1>1, <1>2, RefuseStep
<1>3. CASE creating' = [creating EXCEPT ![h] = "counting"] /\ UNCHANGED order
  <2>1. /\ creating'[h] = "counting"
        /\ \A i \in Hires \ {h} : creating'[i] = creating[i]
    BY <1>3 DEF Inv, TypeOK
  <2>2. Sold' = Sold
    BY <1>1, <2>1 DEF Sold
  <2>3. Open(h)' /\ ~Open(h) /\ \A i \in Hires \ {h} : Open(i)' <=> Open(i)
    BY <1>1, <2>1, <2>2 DEF Open, Sold
  <2>4. order[h] \in Order
    BY <1>1 DEF Inv, TypeOK, Served, CreateSteps
  <2>5. /\ <<order[h].venue, order[h].date>> \in Venues \X Calendar
        /\ HiredHours(order[h]) \in SUBSET Hours
    BY <2>4 DEF Order, HiredHours
  <2>6. claimOf[h] = NoOrder
    BY <2>3 DEF claimOf
  <2>7. claimOf' = [claimOf EXCEPT ![h] =
          [resource |-> <<order[h].venue, order[h].date>>, slots |-> HiredHours(order[h]),
           quote |-> 1]]
    BY <1>3, <2>3 DEF claimOf, HiredHours
  <2>8. [r \in Venues \X Calendar |-> 1][<<order[h].venue, order[h].date>>] = 1
    BY <2>5
  <2>9. Abstract!Quote(h)
    BY <2>2, <2>5, <2>6, <2>7, <2>8 DEF Abstract!Quote
  <2> QED
    BY <2>9 DEF Abstract!Next
<1> QED
  BY <1>2, <1>3 DEF FindVenue

\* The instance counts as this module does.
LEMMA SameCardinality == \A S : Abstract!Cardinality(S) = Cardinality(S)
  BY DEF Abstract!Cardinality, Cardinality

\* A recount that grants a hire finds each of its hours unsold.
LEMMA GrantFindsFreeHours ==
  ASSUME Inv, NEW h \in Hires, Recount(h), creating'[h] = "granted",
         status[h] \in HOLDING_STATUSES, NEW t \in HiredHours(order[h])
  PROVE  Abstract!SoldAt(<<order[h].venue, order[h].date>>, t) = {}
<1> SUFFICES ASSUME NEW i \in Abstract!SoldAt(<<order[h].venue, order[h].date>>, t)
             PROVE  FALSE
  OBVIOUS
<1>1. /\ i \in Sold /\ t \in claimOf[i].slots
      /\ claimOf[i].resource = <<order[h].venue, order[h].date>>
  BY DEF Abstract!SoldAt
<1>2. i \in Hires /\ Open(i) /\ status[i] \in HOLDING_STATUSES
  BY <1>1 DEF Sold, Open
<1>3. /\ order[i].venue = order[h].venue /\ order[i].date = order[h].date
      /\ t \in HiredHours(order[i])
  <2>1. /\ claimOf[i].resource = <<order[i].venue, order[i].date>>
        /\ claimOf[i].slots = HiredHours(order[i])
    <3>1. claimOf[i] = [resource |-> <<order[i].venue, order[i].date>>,
                        slots |-> HiredHours(order[i]), quote |-> 1]
      BY <1>2, ClaimTyped
    <3> QED
      BY <3>1
  <2>2. <<order[i].venue, order[i].date>> = <<order[h].venue, order[h].date>>
    BY <1>1, <2>1
  <2> QED
    BY <1>1, <2>1, <2>2
<1>4. i # h
  BY <1>1 DEF Sold, Recount
<1>5. /\ order[h].startHour \in Int /\ order[h].endHour \in Int
      /\ order[i].startHour \in Int /\ order[i].endHour \in Int
  BY <1>2, HeldOrder
<1>6. t \in Int
  BY HoursAreIntegers DEF HiredHours
<1>7. Clash(order[i], order[h])
  BY <1>3, <1>5, <1>6 DEF Clash, HiredHours
<1> QED
  BY <1>2, <1>4, <1>7, GrantSeesNobody

\* A recount that grants sells the claim, unless the hire was cancelled meanwhile.
LEMMA RecountStep ==
  ASSUME Inv, NEW h \in Hires, Recount(h)
  PROVE  Abstract!Next \/ UNCHANGED Abstract!vars
<1>1. UNCHANGED <<status, order, revived>> /\ creating[h] = "recounting"
  BY DEF Recount, store
<1>2. CASE creating' = [creating EXCEPT ![h] = "withdrawing"]
  BY <1>1, <1>2, ProgressStep DEF InClaim
<1>3. CASE creating' = [creating EXCEPT ![h] = "granted"]
  <2>1. creating'[h] = "granted" /\ \A i \in Hires \ {h} : creating'[i] = creating[i]
    BY <1>3 DEF Inv, TypeOK
  <2>2. Open(h) /\ h \notin Sold
    BY <1>1 DEF Open, Sold
  <2>3. CASE status[h] \in HOLDING_STATUSES /\ h \notin revived
    <3>1. Sold' = Sold \cup {h}
      BY <1>1, <2>1, <2>3 DEF Sold
    <3>2. \A i \in Hires : Open(i)' <=> Open(i)
      BY <2>1, <2>2, <3>1 DEF Open
    <3>3. claimOf' = claimOf
      BY <1>1, <3>2 DEF claimOf, HiredHours
    <3>4. /\ claimOf[h] = [resource |-> <<order[h].venue, order[h].date>>,
                           slots |-> HiredHours(order[h]), quote |-> 1]
          /\ claimOf[h] # NoOrder
      BY <2>2, ClaimTyped
    <3>5. \A t \in HiredHours(order[h]) :
            Abstract!SoldAt(<<order[h].venue, order[h].date>>, t) = {}
      BY <2>1, <2>3, GrantFindsFreeHours
    <3>6. Abstract!Cardinality({}) = 0
      BY FS_EmptySet, SameCardinality
    <3>7. \A t \in claimOf[h].slots :
            Abstract!Cardinality(Abstract!SoldAt(claimOf[h].resource, t)) < claimOf[h].quote
      BY <3>4, <3>5, <3>6
    <3>8. Abstract!Sell(h)
      BY <2>2, <3>1, <3>3, <3>4, <3>7 DEF Abstract!Sell
    <3> QED
      BY <3>8 DEF Abstract!Next
  <2>4. CASE ~(status[h] \in HOLDING_STATUSES /\ h \notin revived)
    <3>1. Sold' = Sold /\ h \notin Sold'
      BY <1>1, <2>1, <2>2, <2>4 DEF Sold
    <3>2. ~Open(h)' /\ \A i \in Hires \ {h} : Open(i)' <=> Open(i)
      BY <2>1, <3>1 DEF Open
    <3>3. Abstract!Close(h)
      BY <1>1, <2>2, <3>1, <3>2, CloseIf
    <3> QED
      BY <3>3 DEF Abstract!Next
  <2> QED
    BY <2>3, <2>4
<1> QED
  BY <1>2, <1>3 DEF Recount

\* A request that dies gives its claim up, whether or not its document stays.
LEMMA FailStep ==
  ASSUME Inv, NEW h \in Hires, Fail(h)
  PROVE  Abstract!Next \/ UNCHANGED Abstract!vars
<1>1. UNCHANGED <<status, revived>> /\ creating[h] \in CreateSteps
  BY DEF Fail, store
<1>2. CASE Refuse(h)
  BY <1>1, <1>2, RefuseStep DEF CreateSteps
<1>3. CASE creating' = [creating EXCEPT ![h] = "failed"] /\ UNCHANGED order
  <2>1. creating'[h] = "failed" /\ \A i \in Hires \ {h} : creating'[i] = creating[i]
    BY <1>3 DEF Inv, TypeOK
  <2>2. h \notin Sold /\ Sold' = Sold
    BY <1>1, <2>1 DEF Sold, CreateSteps
  <2>3. ~Open(h)' /\ \A i \in Hires \ {h} : Open(i)' <=> Open(i)
    BY <2>1, <2>2 DEF Open
  <2>4. Abstract!Close(h) \/ UNCHANGED Abstract!vars
    BY <1>3, <2>2, <2>3, CloseIf, StutterIf
  <2> QED
    BY <2>4 DEF Abstract!Next
<1> QED
  BY <1>2, <1>3 DEF Fail

\* A save closes the claim of the hire it cancels.
LEMMA SaveStep ==
  ASSUME Inv, NEW d \in Decisions, Save(d)
  PROVE  Abstract!Next \/ UNCHANGED Abstract!vars
<1>1. PICK h \in Hires : task[d].hire = h
  BY DEF Save, Inv, TypeOK, Served, Task
<1>2. UNCHANGED <<creating, order>>
  BY DEF Save, createCalls
<1>3. \A i \in Hires \ {h} : status'[i] = status[i] /\ (i \in revived' <=> i \in revived)
  BY <1>1 DEF Save, Inv, TypeOK
<1>4. \A i \in Hires \ {h} : i \in Sold' <=> i \in Sold
  BY <1>2, <1>3 DEF Sold
<1>5. h \in Sold' => h \in Sold
  BY SoldAfter, <1>2 DEF Next, Recount
<1>6. CASE h \in Sold' <=> h \in Sold
  <2>1. Sold' = Sold
    BY <1>1, <1>4, <1>6 DEF Sold
  <2>2. \A i \in Hires : Open(i)' <=> Open(i)
    BY <1>2, <2>1 DEF Open
  <2> QED
    BY <1>2, <2>1, <2>2, StutterIf
<1>7. CASE h \in Sold /\ h \notin Sold'
  <2>1. Sold' = Sold \ {h}
    BY <1>1, <1>4, <1>7 DEF Sold
  <2>2. Open(h) /\ \A i \in Hires \ {h} : Open(i)' <=> Open(i)
    BY <1>2, <1>7, <2>1 DEF Open
  <2>3. creating'[h] = "granted"
    BY <1>2, <1>7 DEF Sold
  <2>4. ~Open(h)'
    BY <1>7, <2>3 DEF Open
  <2>5. Abstract!Close(h)
    BY <1>1, <1>2, <2>1, <2>2, <2>4, CloseIf
  <2> QED
    BY <1>1, <2>5 DEF Abstract!Next
<1> QED
  BY <1>5, <1>6, <1>7

\* Initial states map to initial states.
LEMMA InitRefines == Init => Abstract!Init
<1> SUFFICES ASSUME Init
             PROVE  Abstract!Init
  OBVIOUS
<1>1. Sold = {}
  BY DEF Init, Sold
<1>2. \A h \in Hires : ~Open(h)
  BY <1>1 DEF Init, Open
<1>3. claimOf = [h \in Hires |-> NoOrder]
  BY <1>2 DEF claimOf
<1>4. [r \in Venues \X Calendar |-> 1] \in [Venues \X Calendar -> {1}]
  OBVIOUS
<1> QED
  BY <1>1, <1>3, <1>4 DEF Abstract!Init

\* Every step maps to a step or a stutter.
LEMMA NextRefines == Inv /\ [Next]_vars => UNCHANGED Abstract!vars \/ Abstract!Next
<1> SUFFICES ASSUME Inv, [Next]_vars
             PROVE  Abstract!Next \/ UNCHANGED Abstract!vars
  OBVIOUS
<1>1. ASSUME UNCHANGED <<status, creating, order, revived>>
      PROVE  UNCHANGED Abstract!vars
  <2>1. Sold' = Sold /\ \A h \in Hires : Open(h)' <=> Open(h)
    BY <1>1 DEF Sold, Open
  <2> QED
    BY <1>1, <2>1, StutterIf
<1>2. ASSUME NEW h \in Hires, Request(h)
      PROVE  Abstract!Next \/ UNCHANGED Abstract!vars
  <2>1. UNCHANGED <<status, revived>> /\ creating[h] = "idle"
    BY <1>2 DEF Request, store
  <2>2. CASE Refuse(h)
    BY <2>1, <2>2, RefuseStep
  <2>3. CASE ~Refuse(h)
    <3>1. /\ creating'[h] = "findingVenue"
          /\ \A i \in Hires \ {h} : creating'[i] = creating[i] /\ order'[i] = order[i]
      BY <1>2, <2>3 DEF Request, Inv, TypeOK
    <3>2. Sold' = Sold /\ h \notin Sold
      BY <2>1, <3>1 DEF Sold
    <3>3. ~Open(h) /\ \A i \in Hires : Open(i)' <=> Open(i)
      BY <2>1, <3>1, <3>2 DEF Open
    <3> QED
      BY <3>1, <3>2, <3>3, StutterIf
  <2> QED
    BY <2>2, <2>3
<1>3. ASSUME NEW h \in Hires, Count(h)
      PROVE  Abstract!Next \/ UNCHANGED Abstract!vars
  <2>1. UNCHANGED <<status, revived>> /\ creating[h] = "counting"
    BY <1>3 DEF Count, store
  <2>2. CASE Refuse(h)
    BY <2>1, <2>2, RefuseStep
  <2>3. CASE creating' = [creating EXCEPT ![h] = "inserting"] /\ UNCHANGED order
    BY <2>1, <2>3, ProgressStep DEF InClaim
  <2> QED
    BY <1>3, <2>2, <2>3 DEF Count
<1>4. ASSUME NEW h \in Hires, Insert(h)
      PROVE  Abstract!Next \/ UNCHANGED Abstract!vars
  <2>1. \A i \in Hires \ {h} : status'[i] = status[i]
    BY <1>4 DEF Insert, Inv, TypeOK
  <2> QED
    BY <1>4, <2>1, ProgressStep DEF Insert, InClaim
<1>5. ASSUME NEW h \in Hires, Withdraw(h)
      PROVE  Abstract!Next \/ UNCHANGED Abstract!vars
  <2>1. \A i \in Hires \ {h} : status'[i] = status[i]
    BY <1>5 DEF Withdraw, Inv, TypeOK
  <2> QED
    BY <1>5, <2>1, RefuseStep DEF Withdraw
<1>6. CASE (\E d \in Decisions : Load(d) \/ LoseSave(d)) \/ (\E v \in Venues : EditVenue(v))
           \/ NextDay \/ UNCHANGED vars
  BY <1>1, <1>6 DEF Load, LoseSave, EditVenue, NextDay, vars, store, createCalls
<1> QED
  BY <1>2, <1>3, <1>4, <1>5, <1>6, FindVenueStep, RecountStep, FailStep, SaveStep
     DEF Next, CreateStep

\* Venue hires implement the abstract inventory.
THEOREM Refinement == Spec => ImplementsInventory
<1>1. Inv /\ [Next]_vars => [UNCHANGED Abstract!vars \/ Abstract!Next]_vars
  BY NextRefines
<1> QED
  BY <1>1, InitRefines, Invariance, PTL DEF Spec, ImplementsInventory
=============================================================================
