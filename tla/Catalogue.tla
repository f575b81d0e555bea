------------------------------ MODULE Catalogue ------------------------------
(***************************************************************************)
(* The catalogue staff maintain: RoomsService (src/rooms/rooms.service.ts) *)
(* and VenuesService (src/venues/venues.service.ts).  Both check rules     *)
(* that relate fields and names, at other awaits than the one that writes: *)
(*                                                                         *)
(*   create           ...        naming -> writing                         *)
(*   update a room    naming? -> reading? -> writing                       *)
(*   update a venue   reading -> naming? -> writing                        *)
(*   remove           writing                                              *)
(*                                                                         *)
(* A room skips reading unless the body moves one bound of the sale; both  *)
(* skip naming unless the body has a name.                                 *)
(***************************************************************************)
EXTENDS Discount

CONSTANTS
  Rooms, Venues,  \* the documents there may be of the two collections
  Existing,       \* those there are at the start
  Requests,       \* requests of staff
  Names,
  CreateBodies(_), \* what a request to create, and to update, an offer may say
  PatchBodies(_),
  Unsent,         \* the value of a field the body does not have
  Absent, NoTask, NoCopy

Offers == Rooms \cup Venues

SaleFields == {"discountPercent", "discountStartsAt", "discountEndsAt"}
Bounds == {"discountStartsAt", "discountEndsAt"}
HireFields == {"openingHour", "closingHour", "minHours", "maxHours"}
FieldsOf(o) == IF o \in Venues THEN SaleFields \cup HireFields ELSE SaleFields

Value == Nat \cup {Null}

\* What the schemas fill in for a field the document does not have.
Default ==
  [discountPercent |-> 0, discountStartsAt |-> Null, discountEndsAt |-> Null,
   openingHour |-> 8, closingHour |-> 22, minHours |-> 1, maxHours |-> 12]

\* @IsOptional() lets a null through; offers with it are not on sale.
Listing == BOOLEAN \cup {Null}

IsBody(o, body) ==
  /\ body.name \in Names \cup {Unsent}
  /\ body.isActive \in Listing \cup {Unsent}
  /\ DOMAIN body.fields \subseteq FieldsOf(o)
  /\ \A f \in DOMAIN body.fields : body.fields[f] \in Value

Document(o) == [name: Names, isActive: Listing, fields: [FieldsOf(o) -> Value]]

Removal == [name |-> Unsent, isActive |-> FALSE, fields |-> [f \in {} |-> Null]]

ASSUME OffersAssumption == Rooms \cap Venues = {} /\ Existing \subseteq Offers

\* A name is required of a new offer.
ASSUME BodiesAssumption ==
  /\ Unsent \notin Names
  /\ \A o \in Offers :
       /\ \A body \in CreateBodies(o) : IsBody(o, body) /\ body.name \in Names
       /\ \A body \in PatchBodies(o) : IsBody(o, body)

ASSUME NothingAssumption ==
  \A o \in Offers :
    /\ Absent \notin Document(o) /\ NoCopy \notin Document(o)
    /\ \A op \in {"create", "update", "remove"} :
         \A body \in {Removal} \cup CreateBodies(o) \cup PatchBodies(o) :
           NoTask # [op |-> op, offer |-> o, body |-> body]

VARIABLES
  item,   \* the rooms and venues collections
  step,   \* where each request is
  task,   \* what it is to do
  copy,   \* the document it read
  raced   \* history: the offers that had changed between a check and its write

vars == <<item, step, task, copy, raced>>

Busy == {"naming", "reading", "writing"}

TypeOK ==
  /\ DOMAIN item = Offers
  /\ \A o \in Offers : item[o] \in Document(o) \cup {Absent}
  /\ step \in [Requests -> Busy \cup {"idle", "refused", "answered"}]
  /\ \A q \in Requests :
       step[q] \in Busy =>
         /\ task[q].op \in {"create", "update", "remove"}
         /\ task[q].offer \in Offers
         /\ IsBody(task[q].offer, task[q].body)
  /\ \A q \in Requests :
       copy[q] = NoCopy \/ \E o \in Offers : copy[q] \in Document(o)
  /\ raced \subseteq Offers

-----------------------------------------------------------------------------
(* The rules.                                                              *)

\* In a comparison null counts as zero.
Number(x) == IF x = Null THEN 0 ELSE x

HireRules(fields) ==
  /\ Number(fields.closingHour) > Number(fields.openingHour)
  /\ Number(fields.maxHours) >= Number(fields.minHours)

\* assertVenueRules, and the one rule rooms have.
RulesHold(o, fields) ==
  /\ o \in Venues => HireRules(fields)
  /\ isValidDiscountWindow(fields.discountStartsAt, fields.discountEndsAt)

\* findByIdAndUpdate sets the fields of the body; pick looks at the same values.
Merge(fields, sent) ==
  [f \in DOMAIN fields |-> IF f \in DOMAIN sent THEN sent[f] ELSE fields[f]]

DefaultsOf(o) == [f \in FieldsOf(o) |-> Default[f]]

\* What VenuesService.create checks: "??" puts the default for null as well.
Checked(o, sent) ==
  [f \in FieldsOf(o) |->
     IF f \in DOMAIN sent /\ sent[f] # Null THEN sent[f] ELSE Default[f]]

\* The check of the body itself: the bounds of the sale, when both are sent.
LegalBody(body) ==
  Bounds \subseteq DOMAIN body.fields =>
    isValidDiscountWindow(body.fields.discountStartsAt, body.fields.discountEndsAt)

\* Another document of the same collection has the name.
Taken(o, name) ==
  \E p \in (IF o \in Venues THEN Venues ELSE Rooms) \ {o} :
    item[p] # Absent /\ item[p].name = name

-----------------------------------------------------------------------------
(* Serving a request.                                                      *)

\* A slip in OneBoundSent: a bound that is sent alone goes unnoticed.
NeverOneBound(body) == FALSE

OneBoundSent(body) ==
  Cardinality(Bounds \cap DOMAIN body.fields) = 1

FirstStep(t) ==
  IF t.op = "remove" THEN "writing"
  ELSE IF t.op = "update" /\ t.offer \in Venues THEN "reading"
  ELSE IF t.body.name # Unsent THEN "naming"
  ELSE IF OneBoundSent(t.body) THEN "reading"
  ELSE "writing"

AfterNaming(t) ==
  IF t.op = "update" /\ t.offer \in Rooms /\ OneBoundSent(t.body) THEN "reading" ELSE "writing"

AfterReading(t) ==
  IF t.offer \in Venues /\ t.body.name # Unsent THEN "naming" ELSE "writing"

Init ==
  /\ \E name \in [Existing -> Names] :
       /\ \A o, p \in Existing : o # p => name[o] # name[p]
       /\ item = [o \in Offers |->
                    IF o \in Existing
                    THEN [name |-> name[o], isActive |-> TRUE, fields |-> DefaultsOf(o)]
                    ELSE Absent]
  /\ step = [q \in Requests |-> "idle"]
  /\ task = [q \in Requests |-> NoTask]
  /\ copy = [q \in Requests |-> NoCopy]
  /\ raced = {}

\* The request ends with an HTTP error.
Refuse(q) ==
  /\ step' = [step EXCEPT ![q] = "refused"]
  /\ task' = [task EXCEPT ![q] = NoTask]
  /\ copy' = [copy EXCEPT ![q] = NoCopy]

Goto(q, next) ==
  /\ step' = [step EXCEPT ![q] = next]
  /\ UNCHANGED task

\* The id of a new document is fresh.
Fresh(o) == item[o] = Absent /\ \A q \in Requests : task[q] # NoTask => task[q].offer # o

\* A request arrives, and everything that needs no database is checked.
Arrive(q) ==
  /\ step[q] = "idle"
  /\ \E o \in Offers, op \in {"create", "update", "remove"} :
       \E body \in IF op = "remove" THEN {Removal}
                   ELSE IF op = "create" THEN CreateBodies(o) ELSE PatchBodies(o) :
         LET t == [op |-> op, offer |-> o, body |-> body]
             legal == /\ LegalBody(body)
                      /\ op = "create" => RulesHold(o, Checked(o, body.fields))
         IN /\ IF op = "create" THEN Fresh(o) ELSE item[o] # Absent
            /\ \/ /\ legal
                  /\ step' = [step EXCEPT ![q] = FirstStep(t)]
                  /\ task' = [task EXCEPT ![q] = t]
                  /\ UNCHANGED copy
               \/ /\ ~legal
                  /\ Refuse(q)
  /\ UNCHANGED <<item, raced>>

\* findOne({ name }): a readable 409 for a name that is taken.
CheckName(q) ==
  /\ step[q] = "naming"
  /\ \/ /\ ~Taken(task[q].offer, task[q].body.name)
        /\ Goto(q, AfterNaming(task[q]))
        /\ UNCHANGED copy
     \/ /\ Taken(task[q].offer, task[q].body.name)
        /\ Refuse(q)
  /\ UNCHANGED <<item, raced>>

\* findOne(id): the rules have to hold for the body put over the stored fields.
CheckRules(q) ==
  /\ step[q] = "reading"
  /\ LET o == task[q].offer
         valid == RulesHold(o, Merge(item[o].fields, task[q].body.fields))
     IN \/ /\ valid
           /\ Goto(q, AfterReading(task[q]))
           /\ copy' = [copy EXCEPT ![q] = item[o]]
        \/ /\ ~valid
           /\ Refuse(q)
  /\ UNCHANGED <<item, raced>>

\* A slip in Put: a field that is undefined in the body is written as such.
PutSent(sent, stored) == sent

Put(sent, stored) == IF sent = Unsent THEN stored ELSE sent

\* The document that body makes of a stored one.
Patched(stored, body) ==
  [name |-> Put(body.name, stored.name), isActive |-> Put(body.isActive, stored.isActive),
   fields |-> Merge(stored.fields, body.fields)]

\* A slip in Stored: the copy that was read is saved, with what has changed since.
StoredFromCopy(q) ==
  LET t == task[q] IN
  IF t.op = "create"
  THEN [name |-> t.body.name, isActive |-> TRUE,
        fields |-> Merge(DefaultsOf(t.offer), t.body.fields)]
  ELSE Patched(IF copy[q] # NoCopy THEN copy[q] ELSE item[t.offer], t.body)

\* The document the request writes: a new one as it was sent, defaults for what is
\* undefined; or the stored one with the fields of the body set.
Stored(q) ==
  LET t == task[q] IN
  IF t.op = "create"
  THEN [name |-> t.body.name, isActive |-> TRUE,
        fields |-> Merge(DefaultsOf(t.offer), t.body.fields)]
  ELSE Patched(item[t.offer], t.body)

\* A slip in Admits: the schema does not say that names are unique.
AdmitsAny(o, name) == TRUE

\* The unique index on the name.
Admits(o, name) == ~Taken(o, name)

Write(q) ==
  /\ step[q] = "writing"
  /\ LET o == task[q].offer
     IN \/ /\ Admits(o, Stored(q).name)
           /\ item' = [item EXCEPT ![o] = Stored(q)]
           /\ raced' = IF copy[q] # NoCopy /\ copy[q].fields # item[o].fields THEN raced \cup {o} ELSE raced
           /\ step' = [step EXCEPT ![q] = "answered"]
           /\ task' = [task EXCEPT ![q] = NoTask]
           /\ copy' = [copy EXCEPT ![q] = NoCopy]
        \/ /\ ~Admits(o, Stored(q).name)
           /\ Refuse(q)
           /\ UNCHANGED <<item, raced>>

\* A database call fails or the process dies: nothing has been written.
Fail(q) ==
  /\ step[q] \in Busy
  /\ Refuse(q)
  /\ UNCHANGED <<item, raced>>

Next == \E q \in Requests : Arrive(q) \/ CheckName(q) \/ CheckRules(q) \/ Write(q) \/ Fail(q)

Spec == Init /\ [][Next]_vars

-----------------------------------------------------------------------------
(* What the catalogue has to guarantee.                                    *)

Stocked == {o \in Offers : item[o] # Absent}

\* No two room types and no two venues ever have the same name, however many
\* requests passed the check of the name together.
UniqueNames == \A o \in Stocked : ~Taken(o, item[o].name)

\* The rules hold for everything that is stored, as update says they must: "the rule
\* has to hold against the stored other side".
RulesAlwaysHold == \A o \in Stocked : RulesHold(o, item[o].fields)

\* They do hold as long as no update overtook another one on the same document
\* between its check and its write, whichever fields the updates sent and in which
\* order the checks were made; for a null they hold as update reads it, which is zero,
\* or as create does, which is the default.
RulesHoldUnlessRaced ==
  \A o \in Stocked \ raced :
    RulesHold(o, item[o].fields) \/ RulesHold(o, Checked(o, item[o].fields))

\* No update is lost: a write leaves alone what its body does not name, also what
\* another request has written since the check.
NoLostUpdate ==
  [][\A o \in Stocked :
       item'[o] # item[o] =>
         \E q \in Requests :
           /\ step[q] = "writing" /\ task[q].offer = o
           /\ task[q].body.name = Unsent => item'[o].name = item[o].name
           /\ task[q].body.isActive = Unsent => item'[o].isActive = item[o].isActive
           /\ \A f \in FieldsOf(o) \ DOMAIN task[q].body.fields :
                item'[o].fields[f] = item[o].fields[f]]_vars

Sale(o) ==
  [discountPercent |-> item[o].fields.discountPercent,
   discountStartsAt |-> item[o].fields.discountStartsAt,
   discountEndsAt |-> item[o].fields.discountEndsAt]

CONSTANTS Prices, Days, MaxNights  \* for the prices: in cents; the days that occur

\* The bounds of a sale, where there are any, are days that occur.
OnDays(fields) == \A f \in Bounds \cap DOMAIN fields : fields[f] \in Days \cup {Null}

ASSUME PricesAssumption ==
  /\ Prices \subseteq Nat
  /\ Days \subseteq Nat /\ Days # {}
  /\ MaxNights \in Nat
  /\ \A o \in Offers : \A body \in CreateBodies(o) \cup PatchBodies(o) : OnDays(body.fields)

\* A sale that was checked is one guests can get: it has a day on which the price
\* is lower, if the discount comes to more than the half cent that is rounded away.
EverySaleHasItsDay ==
  \A o \in Stocked \ raced, cents \in Prices :
    HasPercent(Sale(o)) /\ cents * Sale(o).discountPercent > 50 =>
      \E day \in Days : priceOn(cents, Sale(o), day) < cents

\* The number of nights of a stay that lie in a sale, by the ends of the two ranges.
NightsInSale(sale, checkIn, nights) ==
  LET last == checkIn + nights - 1
      from == IF sale.discountStartsAt # Null /\ sale.discountStartsAt > checkIn
              THEN sale.discountStartsAt ELSE checkIn
      to == IF sale.discountEndsAt # Null /\ sale.discountEndsAt < last
            THEN sale.discountEndsAt ELSE last
  IN IF HasPercent(sale) /\ to >= from THEN to - from + 1 ELSE 0

\* A stay that runs into or out of a sale is discounted for the nights inside it
\* and for no other, whatever is stored.
StayPricedByNight ==
  \A o \in Stocked, cents \in Prices, checkIn \in Days, nights \in 1..MaxNights :
    LET sale == Sale(o)
        k == NightsInSale(sale, checkIn, nights)
    IN priceNights(cents, sale, checkIn, nights)
         = (nights - k) * cents + IF k = 0 THEN 0 ELSE k * applyDiscount(cents, sale.discountPercent)
=============================================================================
