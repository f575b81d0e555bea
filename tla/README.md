# A verification project for the hotel booking application

This directory specifies the parts of the application (a NestJS server over
MongoDB, in `src/src`) that carry its rules: room bookings, venue hires, the
catalogue staff maintain, sale prices, accounts with their sessions, reset tokens
and verification links, photos and the hotel's location. TLC checks the
modules on small instances; TLAPS proves the most important properties for all
values of the constants.

Paths below are relative to the application's own `src/` directory unless they
start with `docs/`.

## 1. The system

The server is one Node process (or several behind a balancer: nothing in the
models depends on their number). It keeps no state between requests: everything
lives in MongoDB collections. Every operation is an `async` function, so two
requests interleave exactly where they `await` a database call, a hash or a
mail. There are no transactions, no locks and no queues; what guards the rules is
the order of the calls, counting again after a write, and unique indexes.

| Component | State | Operations | Interacts with | What is hard |
|---|---|---|---|---|
| Room bookings, `booking/booking.service.ts` | `bookings` collection | create, cancel, confirm, queries | reads rooms; users own bookings | count then insert; count again and withdraw; load, check, save; a process that dies in between |
| Availability search, `BookingService.findAvailableRooms` | none | one query | reads rooms, then counts of all rooms | two reads at two moments; a second query for the same overlap |
| Stay dates, `booking/stay-dates.ts` | none | `parseStay`, `today` | both booking services | midnight between two steps |
| Venue hires, `venues/venue-bookings.service.ts` | `venuebookings` collection | create, cancel, confirm, the free hours of a day, queries | reads venues | as for rooms, with hours instead of nights and no capacity to compare with; a second query for the same overlap |
| Room catalogue, `rooms/rooms.service.ts` | `rooms` collection | create, update, remove (unlist) | read by bookings while staff edit it | rules that relate two fields are checked on a copy; the name is looked up before it is written |
| Venue catalogue, `venues/venues.service.ts` | `venues` collection | the same | read by hires | the same, with more pairs and with `null` |
| Discounts, `common/discount.ts` | none | pure functions | room and venue prices | which nights lie in a sale; open and inclusive ends |
| Accounts, `auth/auth.service.ts`, `users/users.service.ts` | `users` collection | register, forgot, reset and change password, update, remove | mail | a hash between load and save; tokens that are replaced, spent or expire |
| Sessions and guards, `auth/strategies`, `auth/guards`, `users/users.controller.ts` | none (signed cookie) | login, logout, validate, roles, ownership of a record | all controllers | a session outlives a changed role, a changed address and its account |
| E-mail verification, `AuthService.verifyEmail` | a flag of a user | verify | mail, tokens signed with JWT | the account is looked up, and marked later; the mail may be lost |
| Hotel location, `location/location.service.ts` | one document | get, set | none | two first writes; fields that are left out |
| Uploads, `uploads/uploads.service.ts` | files | save a batch | the file system; listings show the URLs | one file of several fails; a crash leaves a part of a file |
| Mail, `mail/mail.service.ts` | none | send | SMTP | it may not arrive |
| Text and shapes, `common/rich-text.ts`, the DTOs | none | pure | all controllers | formatting only |
| Seeds and start-up, `seed/` | none | scripts | all collections | the admin script may run beside the service |

What makes each modelled component correct:

- **Room bookings.** On no night are more bookings granted than there are units;
  a granted booking stays until it is cancelled; when nobody is being served no
  surplus holds a unit.
- **Availability search.** What is shown is free on each night of the stay; search and
  booking never disagree about a state that did not change.
- **Venue hires.** No two granted hires of a venue overlap; a refused hire leaves
  nothing behind; a granted hire stays until it is cancelled; the hours shown as free
  are those a request would be let through with.
- **Catalogue.** Names are unique; the rules that relate fields hold for what is
  stored; a write leaves alone what its body does not name.
- **Prices.** A stay costs the sum of its nights, each priced on its own date; a
  sale that was accepted has a day on which it counts.
- **Accounts.** Addresses are unique; a reset token that was spent, replaced or
  dropped never works again, and it opens only the account it was made for.
- **Sessions.** Nobody becomes staff, or holds a session that says so, except by the
  script; only the owner and staff change or remove an account, however accounts and
  tokens come and go in between.
- **Verification.** An account is verified by its own link only, also when its address
  has passed to another account.
- **Location.** There is never a second one, and it is the whole of one request.
- **Uploads.** A URL that was answered, and an image that is shown, is that of a whole
  file; a batch with a bad file leaves nothing on disk.

## 2. What the models assume of the surroundings

- A call of the database driver is one atomic read or write of one document, or
  one atomic count, on the primary; reads see every write that came before. With
  secondary reads or a replica set that rolls back acknowledged writes the race
  guard of `BookingService.create` would not work, and nothing here says it does.
- The unique indexes that the schemas declare exist (mongoose builds them at
  start-up): `Admits` in `Catalogue` and `Accounts`.
- `document.save()` is an update by `_id` of the fields that were changed, and
  fails when the document is gone. Setting a field to `undefined` unsets it, also
  one the query did not select (the two reset-token fields). A default replaces
  `undefined` and never `null`.
- Request bodies have passed the validation pipe, which lets `null` through where
  a field is `@IsOptional()`.
- A reset token is 32 random bytes and its digest stands for it, so tokens are
  different and cannot be guessed: a token goes by the name of its request.
- Ids of new documents are fresh.

These are the only things modelled that are not under `src/src`.

## 3. Modules

One action models one stretch of a handler between two awaits: the database call
it waited for together with all checks and assignments up to the next one.

| Module | Models | Extends |
|---|---|---|
| `Inventory` | what both booking services promise: quote, sell, close, with no database and no race | |
| `RoomBookings` | `BookingService` with `parseStay` and staff edits of rooms | |
| `RoomBookingProperties` | its properties and its refinement mapping to `Inventory` | `RoomBookings` |
| `Availability` | `BookingService.findAvailableRooms`, beside every action of `RoomBookings` | `RoomBookingProperties` |
| `VenueBookings` | `VenueBookingsService` with `findDayAvailability`, its properties and refinement mapping | |
| `Discount` | the pure functions of `common/discount.ts`, in cents | |
| `Catalogue` | `RoomsService` and `VenuesService` with `assertVenueRules`, over `Discount` | `Discount` |
| `ResetTokens` | what reset tokens promise: made, given, spent, with no collection and no lookup | |
| `Accounts` | the passwords, addresses and reset tokens of `AuthService` and `UsersService`, and its refinement mapping to `ResetTokens` | |
| `Sessions` | login, session tokens, the guards, verification links and the admin script, over every action of `Accounts` | `Accounts` |
| `Uploads` | `UploadsService`, with the listings that show the URLs | |
| `Location` | `LocationService` | |
| `SiteContent` | the two side by side | `Uploads`, `Location` |
| `InventoryProofs`, `RoomBookingProofs`, `AvailabilityProofs`, `VenueBookingProofs`, `CatalogueProofs`, `AccountProofs`, `SessionProofs`, `SiteContentProofs` | theorems | the module they are about (`SessionProofs` also `AccountProofs`) |
| `MC...` | small instances for TLC | the module they check |

`PROJECT.json` maps every definition to the lines it translates.

### Room bookings

`room` and `status` with `order` are the two collections: a booking is named after
the request that creates it, `order[b]` is what its document says and `status[b]`
its status, `"absent"` while there is no document. `creating[b]` is where the
request is.

| `creating` | The code is waiting for | Action that takes it on |
|---|---|---|
| `idle` | the request | `Request`: `parseStay` |
| `findingRoom` | `roomsService.findOne` | `FindRoom`: `isActive` and `capacity`; keeps `totalUnits` of the copy |
| `counting` | `countHeld` | `Count`: refuse with 409, or go on |
| `inserting` | `bookingModel.create` | `Insert` |
| `recounting` | the second `countHeld` | `Recount`: granted, or withdraw |
| `withdrawing` | `deleteOne({ _id })` | `Withdraw` |
| `granted`, `refused`, `failed` | the answer was sent, or the request died | |

`cancel` and `confirm` are `Load` (findOne and all checks) and `Save` (a save of the
status by `_id`). `Fail` and `LoseSave` are a database call that fails or a process
that dies: what has been written stays. `EditRoom` is what staff can do to a room
type meanwhile, `NextDay` is midnight.

`revived` is a history variable: the bookings that a confirm saved over a
cancellation it had not seen. This is a flaw of the code (section 7); the safety
properties speak of the other bookings so that they can say something about
everything else, and the run `rooms_revived` shows the flaw itself. `NoDoubleSale`,
`SoldUntilCancelled` and the refinement therefore say nothing of it.

### Availability search

A search is `finding` (it waits for `roomsService.findAvailable`), then `counting` (it
waits for `countHeldByRoom`), then `answered`. `listed` has the rooms of the first
read, `shown` the answer. Its steps interleave with all of `RoomBookings`
(`Elsewhere`), which it only reads. `overtaken` is a history variable: the searches
during which a room, a status or the date changed.

### Venue hires

The same steps under the same names; a hire covers hours of a day, and the race
guard asks whether the hire is alone (`countHeld > 1`), not whether it exceeds a
capacity. `confirm` has the same flaw, `revived` the same role, and
`VenuesRevived.cfg` shows it (section 7). A venue on a day is a resource of `Inventory` with one unit of each hour.
`findDayAvailability` is an operator: it reads a venue and then the hires of one day, here in
one moment, and `DayAgreesWithCreate` compares what it shows with what `create` would count, in
every reachable state. A `null` among the hours of a venue counts as 0 in each comparison
of `create`, so rules with a 0 stand for it. The queries differ (`HiresOn` reads by day, `countHeld` by day and
hours), and nothing in the code makes them agree but their conditions.

### Catalogue

`item` holds both collections. A request is at `naming` (`findOne({ name })`),
`reading` (`findOne(id)`, then the rules on the merged document) or `writing`
(`create` or `findByIdAndUpdate`). The two services do this in different orders
(`FirstStep`, `AfterNaming`, `AfterReading`), as the code does. Only the fields a
rule relates are kept; a body is a function on the fields it sends, so that a field
that is not sent, a field sent as `null` and a value are three different things. The same
goes for `isActive` (`Listing`); to the bookings a `null` there is the same as `FALSE`.
`raced` is a history variable: the offers whose fields had changed between the check
of an update and its write.

### Accounts

`user` is the collection, `step` and `task` are the requests, `mailed` the tokens that
have reached a mailbox, `now` the clock that tokens expire by. `issuedTo` and
`spentBy` are history: the account a token was generated for, and the requests
that set a password with it. `Insert`, `StoreToken`, `Save`, `ChangeEmail` and
`Remove` are the writes; the steps before them are the lookups whose answers may be
stale when the write comes. A mail that does not arrive is a disjunct of `Mail`.

`ResetTokens` is what this amounts to for a token: it is `unborn`, `made` while its
forgot request has it, `good` while it is in an account, and `dead` from then on
(`fateOf`). A password is set by `Spend`, with a token that is or has been good, or
by `Change`; both leave the account without a token.

### Sessions

`Sessions` runs every action of `Accounts` behind the guard of its route: `GuardedRegister`,
`GuardedInsert`, `GuardedChange`, `GuardedEdit`, and `Unguarded` for the open routes and
the later steps of the guarded ones. The guard of `PATCH` and `DELETE /users/:id` and the
write behind it are one moment, which is why `OnlyStaffActOnOthers` asks for a session
and not for one that is still good at the write. A `register` that dies after its insert is
a disjunct of `GuardedInsert`: there is an account, and perhaps no link and no session.
`sessions` is the set of tokens that were signed,
each with the account, the role it had then and the time it expires; a guard looks at
the token and never at the account, as `JwtStrategy.validate` does. Signing out clears
a cookie and no token, so it is no action. `links` are the verification links that
arrived in a mailbox.

A visit is a login or a click on a link: `Login` then `Sign` (bcrypt compares between
the two), `Verify` then `MarkVerified` (findOne, then findByIdAndUpdate). The script is
`SeedFind`, then `SeedSave`. `promoted` and `followed` are history: the accounts that
the script made staff, and those whose own link was followed. Ids are never used again
(`Unused`), which matters because tokens outlive accounts.

### Photos and the location

A batch is checked as a whole (`Upload`), the directory is made, and then every file is
written at once: `Write` puts a part of it on disk and then the rest, `FailWrite` ends one
write and answers the whole request with an error while the others go on, `Crash` ends
all of them. `disk` outlives a crash. `SetImages` is a `PATCH` of a listing with URLs that
were answered.

To the database a `PUT` of the location is a search (`Match`), and if nothing is there an
insert (`InsertLocation`) which the unique key may refuse; it is then tried again or
refused, and the model allows for both. A body says of each optional field whether it
has a value, `null` or nothing.

## 4. What the runs check

| Run | Instance | Distinct states | What it shows |
|---|---|---|---|
| `inventory` | 3 claims, 2 slots, capacities 0..2 | 5,703 | the abstract inventory never oversells, and the stronger form is what the proof uses |
| `rooms_safety` | 2 create requests, 2 decisions, 1 room with 0 or 1 units, 3 stays (one illegal), 1 edit, 1 failure, 3 days | 144,174 | no double sale, sold until cancelled, control and data agree, implements `Inventory` |
| `rooms_fair` | 3 create requests for 2 units, 3 stays (back to back, and one across both), 1 decision | 70,058 | every overbooked night ends, and has a request that will end it; a stay with a free unit on each night is turned away only when the counted stays lie on different nights |
| `search` | 1 search, 2 create requests, 2 room types with 1 unit and capacity 1 or 2, 4 stays (back to back, around one another, one empty), 1 edit, 2 days | 1,576,398 | no negative answer, what is shown is free every night, search and booking agree |
| `venues` | 2 hires, 2 decisions, 4 slots (2 overlapping, one out of order, one too far ahead), 1 edit, 1 failure, 2 days | 158,812 | no double hire, no stray hold, hired until cancelled, the day that is shown agrees with `create`, implements `Inventory` |
| `catalogue` | 3 requests on 1 existing and 1 new offer of each kind, 15 bodies, one of them a create with a `null`, one with a `null` for `isActive` | 391,542 | unique names, no lost update, the rules hold unless updates race, prices night by night |
| `accounts` | 4 requests, 2 accounts, 2 addresses, 2 passwords, lifetime 1 | 33,066 | a spent token is dead, a token opens its own account, implements `ResetTokens` |
| `sessions` | 2 requests, 2 visits, the script, 2 accounts, 2 addresses, 2 passwords, all lives 1 | 917,846 | staff are made by the script only; an account is removed or loses its address only while there is a session of its own, or a staff session of somebody the script promoted; verified by its own link, unique addresses |
| `site` | 2 batches of up to 2 files, 1 listing, 3 PUTs of 2 bodies | 190,256 | URLs name whole files, a bad batch saves nothing, one location, the whole of one PUT |
| `rooms_revived`, `rooms_needless_refusal`, `catalogue_race` | the smallest that shows it | | one disagreement each between the code and what its own texts say (section 7) |

**Why these bounds.** A race in `create` needs two requests and one unit; a surplus of
two, which two requests have to withdraw independently, needs three requests. A
booking that is brought back and then collides needs two decisions and two creates. A
staff edit between the two counts needs one edit, a crash one failure. Two overlapping
stays of different length are the smallest set in which some nights are shared and
others are not; a stay across two others, in `rooms_fair`, the smallest in which the stays
that are counted may or may not share a night. For accounts the longest chain any property needs is four requests:
two that ask for a token (one to be replaced), a reset and a change of password that
both loaded before either saved. For the catalogue it is three: one that changes a
bound, one that checked before, one that creates with the same name. For sessions, two
requests and two visits are a registration, a login, a change of address or a removal
and a click on a link, with the script before, between or after them: an address passes
to another account between a lookup and its write. For the location three PUTs are two
that both find nothing and one that then finds what the winner wrote. Each request is
served once; a retry is another request. Requests that are symmetric are permuted
(`SYMMETRY`) in runs that check no liveness. `MaxEdits`, `MaxFailures`, `LastDay` and
`LastTime` are the bounds on otherwise unbounded behaviour. `CHECK_DEADLOCK FALSE`
is set where every request may have been served and nothing is left to do; `site` has
it on, because staff may always send the images of a listing again.

**Fairness.** `FairSpec` of `RoomBookings` has weak fairness on the steps of a create
request that is being served and on `Save`: the event loop resumes an `await` when
the database answers, and the driver answers or fails. There is none on the arrival
of requests, on `Load`, on edits, midnight or failures. `rooms_fair` has no failures
because with one its property is false: a request that dies between its insert and
its withdrawal leaves a booking nobody was granted, and only staff can free the
unit (listed as a hazard). The runs for safety do include the failure.

Every property of a passing run has a mutant: a slip that a programmer could make
in the code (a dropped second count, an end that is compared the wrong way, a
forgotten unset, a whole document saved from a copy, a missing unique index), which
sits next to the definition it replaces and makes the property fail in that run.

## 5. What is proved

All theorems hold for every value of the constants that satisfies the named
assumptions: finite sets of requests, any number of rooms, venues, stays, days,
edits, failures, accounts and tokens.

**`InventoryProofs`.** `NeverOversold`: `NoOversale` is always true. It is not
inductive: closing a claim may remove the very claim whose quote it points at. The
strengthening `EveryPartWithinQuote` asks for such a claim in every part of the sold
set; that is inductive, because a claim is sold only while all its slots have fewer
sold claims than its own quote.

**`RoomBookingProofs`.**
- `Invariance`, `TypeCorrect`: types, and the agreement of control and data
  (`Consistent`).
- `Refinement`: every step of the service is a step of `Inventory` or a stutter. The
  claim of a booking opens when its room was read, is sold when its request was
  granted and closes when it is refused, dies or is cancelled. The step that
  matters is `Recount`; `GrantFindsFreeNights` shows that a request that counts no
  more than `totalUnits` bookings, itself among them, sees fewer than
  `totalUnits` sold ones on each of its nights.
- `NeverSoldTwice`: `NoDoubleSale`, from the refinement and `NeverOversold`.
- `SoldStaysSold`: the action property `SoldUntilCancelled`.
- `SoldWithinInventory`: as long as staff edit no room, every request has read the number
  of units there is now (`Calm`), and with `NoDoubleSale` no night has more granted
  bookings than that, during every race and after every failure.
- `SurplusIsOwned`: `SurplusHasAnOwner`, the reason why overbooking ends, in every state
  before the first failure, the first edit and the first booking that came back. What
  holds a unit on a night is sold, or its request has still to count again or to
  withdraw (`OwnerOfSurplus`); the sold ones alone do not overbook.
- `QuietAfterRaces`: `QuietWithinInventory` under the same conditions. When nobody is
  served a surplus would have no owner.
- `OverbookedNightsAreNotGranted`: what is held on a night of a stay is counted for the
  stay (`HeldOnIsHeld`), so a request that counts again on an overbooked night withdraws.
- `NeedlessRefusalsAreUneven`: how far the second disagreement of section 7 goes. The
  count over a stay is too high only when two of the counted stays lie on different
  nights. Otherwise any two of them share a night, and intervals that meet in pairs all
  meet: all have the night in common on which the last of them begins
  (`CommonNight`, with `GreatestDay` for that night), and that night is full.

**`AvailabilityProofs`.**
- `SearchTyped`: types; no answer is negative.
- `NeverShowsTooMuch`: whoever holds a unit on one night of the stay is counted for the
  stay (`NightIsCounted`), so the worst night has at least the units that are shown.
- `SearchAndBookingAgree`: what a search that nothing has overtaken has read is still so
  (`Current`); the step that matters is one that changes an order and no status, which
  never touches a document (`DocumentsStay`).

**`VenueBookingProofs`.**
- `TypeCorrect`, `NothingStray`: types, and `NoStrayHold` with the facts about orders
  it needs (`Served`).
- `NeverHiredTwice`: `NoDoubleHire`, directly. A granted hire counted only
  itself, so no sold hire clashes with it (`GrantSeesNobody`); clashing is
  symmetric, and no other step adds a sold hire.
- `HiredStaysHired`: the action property `HiredUntilCancelled`.
- `ClashesAreOwned`: two sold hires never clash, so of two holds that do one belongs to a
  request that has still to count again or to withdraw, has died, or was brought back
  (`ClashHasAnOwner`). `QuietAfterRaces` follows: after any race, with nobody dead and
  nothing brought back, the holds of a venue are apart (`QuietHiresApart`), so a hire that
  was brought back is the only way in which `QuietHiresApart` fails.
- `ClashesAreNotGranted`: the second count finds every other hold of its hours
  (`NoGrantWhileClashing`).
- `DayAgrees`: `DayAgreesWithCreate`, for all opening hours and all hires.
- `Refinement`: `ImplementsInventory`. A grant sells only hours nobody has
  (`GrantFindsFreeHours`); every other step keeps the sold claims, or closes one.

**`CatalogueProofs`.** `Served` says what is known of a request from its arrival on (its
body is legal, a new document is not there yet, any other is), `Claims` that a document that
is being created is nobody else's, and `Informed` which requests have read the
document, and that the rules hold for their body put over what they read.
- `NamesUnique`: the index admits no second document of a name (`NamesStay`).
- `RulesHeld`: `RulesHoldUnlessRaced` by cases of what is written (`RulesHoldForStored`):
  a new document passes the check of `create` also once the defaults are in it
  (`CreateChecked`); an update that read the document and was not overtaken writes what it
  checked; one that did not read it is a room's, with both bounds or neither
  (`RoomsNeedNoCopy`), or a removal.
- `NothingLost`: the action property `NoLostUpdate`.
- `SalesHaveTheirDay`: `EverySaleHasItsDay`. A bound that is stored came in a body, so it
  is a date (`BoundsOccur`); the rules put the start before the end; and the day of the
  bound is in the sale. That guests pay less on it needs a discount of more than the half
  cent that rounding can take away: 1% of 3 cents is a sale nobody notices.
- `StaysPricedByNight`: `StayPricedByNight`. `priceNights` is a loop over the nights; that n
  turns of it have charged the nights before the n-th as the formula over the ends of
  the two ranges says is shown for one turn (`Turn`) and carried through all of them by
  `Induction`: among the n for which it fails there would be a least one. (The induction
  theorems of the library take an operator as a parameter, which the provers cannot
  instantiate; `Induction` takes the set of the n for which the claim is true.)
- `StaysNeverDearer`: by the same induction, no sale makes a stay dearer.

What is assumed of bodies is what the validation pipe and the types of the DTOs grant
(`BodiesAssumption`), and of prices and dates that they are numbers (`PricesAssumption`).
Except for `SalesHaveTheirDay` the rules stay unexpanded: any rules on these fields would do.

**`AccountProofs`.** The invariant adds `TokenPlaces`: a token is in an account, or in
the hands of a reset, only after its forgot request has stored it, and only where it
was generated for.
- `SpentStaysDead`: when a reset saves, its token can be in no other account, and
  this one has lost it; a token that is about to be stored has not been spent.
- `DeadStaysDead`: the only write that brings a token into an account is the one
  of its own forgot request (`WritesNoToken`).
- `Refinement`: every step of the service is a step of `ResetTokens` or a stutter. A token
  that is in an account is in the one it was made for (`GoodIsLive`), so that a write of
  one account disturbs the tokens of this account only: a write that leaves it without a
  token is `Set` (`TokensCleared`), the one that stores a token is `Give`
  (`StoringGives`), and neither can make a dead token good. A forgot request whose
  account is gone, or which fails, loses its token.
- `OpensItsAccount`: part of `TokenPlaces`.
- `AddressesUnique`: each write changes the address of at most one account, to one
  the index admits.

**`SessionProofs`.** Every step is one of `Accounts`, or leaves the accounts alone, or is
the script's save (`StepOfAccounts`), so the invariant of `AccountProofs` is kept
(`AccountsKeep`). `SessionInv` adds three parts: `Claims` (the account of a registration,
or of the script when it creates one, is not there yet and is nobody else's),
`StaffKnown` (`AdminsAreSeeded`, and the same for a login that has read a role and not
signed yet) and `VerifiedKnown` (`VerifiedByOwnLink`, and the same for a visit that has
looked the account up and not marked it yet). `Claims` keeps the other two: a
registration that finished late would otherwise give an account somebody already has a
role and a flag of its own.
- `StaffIsSeeded`, `VerifiedIsOwn`: from the second and the third part.
- `OthersAreSafe`: the action property, from `StaffKnown` and the guard; the steps that
  write no address and remove nobody are `MostKeepOwners`.
- `AddressesUniqueBeside`, `TokensSafeBeside`: what was proved of `Accounts` holds
  beside the script, which writes to the same collection. So do `DeadStaysDeadBeside`, because
  the script writes no token (`SeedWritesNoToken`), and `TokensBeside`: beside the script
  the tokens live as `ResetTokens` says, with one exception, the save that sets
  `ADMIN_RESET_PASSWORD` and leaves the token (`SetsPassword`).

**`SiteContentProofs`.** For photos the invariant says that a name is on disk or being
written only if its batch was accepted (`WritesAccepted`), and that while a batch is
being written each of its names is whole or on its way (`WritesUnderWay`). A failed write
takes its batch out of that state in the same step, which is why `Settled` may look at
the writes alone. For the location `OneLocation` and `WholeOfOnePut` are inductive with
the types and the fact that the request that wrote last has been answered.
- `PhotosAreWhole`, `BadBatchLeavesNothing`, `LocationIsUnique`, `LocationIsWhole`.

## 6. What is only model-checked

Liveness, that is `OverbookingEnds`: fairness and `ENABLED` are beyond the prover. What it
rests on is proved: an overbooked night has a request that has still to count again or to
withdraw (`SurplusIsOwned`), and none that counts again is granted
(`OverbookedNightsAreNotGranted`). That the requests take these steps is their
fairness, and that each takes only finitely many is left to `rooms_fair`.

Every other property of a passing run is also proved. `SurplusHasAnOwner` is proved under
conditions (no failure, no edit, nothing brought back); `rooms_revived` shows that the last
is needed, and `VenuesRevived.cfg` the same for `QuietHiresApart`.

The other way round, some properties are proved and in no passing run:
`QuietWithinInventory` follows from `SurplusHasAnOwner`, `DeadTokensStayDead` is part of
`ImplementsResetTokens`, and `NoGrantWhileOverbooked`, `ClashHasAnOwner` and
`NoGrantWhileClashing` turn on the second count that `SurplusHasAnOwner` and
`NoDoubleHire` already check.

## 7. Disagreements between the code and its texts

For each TLC finds a counterexample.

1. `rooms_revived`: a confirm that loaded a pending booking saves `confirmed` over a
   cancellation. The unit may have been sold again in between, and the night then has
   two bookings. The comment above `confirm` says that this is what its check prevents.
   The confirm of a hire does the same, below the same comment
   (`venues/venue-bookings.service.ts:218-219`), and two hires hold the same hours.
2. `rooms_needless_refusal`: two bookings on different nights count as two units against a
   stay across both. `docs/BOOKING-DESIGN.md` works this example and asks for the stay
   to be accepted. `NeedlessRefusalsAreUneven` shows that this is the only way in which
   the count turns away a stay that has a free unit on each of its nights.
3. `catalogue_race`: two updates of the two ends of a pair are each checked against the
   stored other end, and both are written.
4. Two resets that match one token before either has saved both set the password. The
   comment above `replacePassword` (`users/users.service.ts:95-97`) says that clearing the
   token in the save "is what makes a reset token single-use". What it gives as the reason
   is true, and proved: once a reset has saved, no lookup matches the token again
   (`SpentTokenDead`). But the lookup is not part of the save, and in between the new
   password is hashed. `ResetTokens` allows a second `Spend` for this reason.

The first three are runs of `PROJECT.json`, which quotes the lines. The fourth, and the first for hires, have a
configuration of their own beside the runs, which TLC ends with a counterexample too:

    tlc -config AccountsSingleUse.cfg MCAccounts       violates SingleUse, in 8 states
    tlc -config VenuesRevived.cfg MCVenueBookings      violates QuietHiresApart, in 15 states

More was met that no text speaks of, or where the text is about something else:

- A booking can be confirmed before its own request has counted again, and the withdrawal
  then deletes the confirmed booking.
- `VenuesService.create` checks a `null` as the default and stores it as `null`; a venue
  without a closing hour cannot be hired, and no `PATCH` passes the rules until one is
  sent. `MCCatalogue` contains such a create, and `RulesHoldUnlessRaced` allows for both
  readings.
- The promotion script sets a password by a save that leaves a reset token where it is; the
  link of an earlier mail still works (`TokensBeside` shows that nothing else does this).
- `PATCH /users/:id` changes an address and leaves `isEmailVerified` as it was.
- A comment in `AuthService.register` points to an endpoint that sends a verification
  mail again; there is none.

## 8. What is not modelled

Text, HTML sanitising, response shapes, validation of the form of a request and mail
transports are input and output with no state. The text of a date is left out: days are
numbers. The cookie is left out because nothing on the server depends on it. The seeds of
rooms and venues are run by hand and upsert sample documents by name. The lists of
bookings change nothing. Prices stored in a booking are computed once, from the copy of
the room that was read; `Discount` has the functions, and what remains is the
assignment. Floating point is left out: the code rounds through whole cents, which is
exact for the percentages and prices it admits. Images of a listing may also be URLs from
elsewhere, of which the application knows nothing.

## 9. Plan

Done, in this order: `Inventory`; `RoomBookings` with its runs, refinement and proofs;
`Availability` with its proofs; `VenueBookings` with its runs, refinement and proofs;
`Discount` and `Catalogue` with its proofs; `Accounts` with its proofs; `Sessions` with
its proofs; `Uploads` and `Location` with their proofs; the proofs of prices and of how races
end; `ResetTokens` and the refinement that `Accounts` is.

What could still be added, the most useful first: the price stored with a booking as part of
`RoomBookings`, for rooms whose price is edited while a request is served; an abstract
specification of sessions, as `ResetTokens` is for tokens; a bound on the number of steps
the requests of a race can take, the missing half of `OverbookingEnds`; prices in floating
point, to confirm that whole cents stand for them.
