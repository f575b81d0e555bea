------------------------------- MODULE Discount -------------------------------
(***************************************************************************)
(* Sale pricing: the pure functions of src/common/discount.ts.  Money is   *)
(* in cents and a calendar day is a number.  A sale is a record with the   *)
(* three discount fields of a room type or a venue.                        *)
(***************************************************************************)
EXTENDS Integers, FiniteSets

CONSTANT Null  \* JavaScript's null: no bound, no percentage

ASSUME NullAssumption == Null \notin Int

\* Both bounds are inclusive and either may be open.
isValidDiscountWindow(startsAt, endsAt) ==
  startsAt # Null /\ endsAt # Null => endsAt >= startsAt

HasPercent(sale) == sale.discountPercent # Null /\ sale.discountPercent > 0

\* A slip in isDiscountActiveOn: the last day is not part of the sale.
LastDayExcluded(sale, day) ==
  /\ HasPercent(sale)
  /\ sale.discountStartsAt = Null \/ day >= sale.discountStartsAt
  /\ sale.discountEndsAt = Null \/ day < sale.discountEndsAt

isDiscountActiveOn(sale, day) ==
  /\ HasPercent(sale)
  /\ sale.discountStartsAt = Null \/ day >= sale.discountStartsAt
  /\ sale.discountEndsAt = Null \/ day <= sale.discountEndsAt

\* Rounded half up to a whole cent, as Math.round does.
applyDiscount(cents, percent) == (cents * (100 - percent) + 50) \div 100

priceOn(cents, sale, day) ==
  IF isDiscountActiveOn(sale, day) THEN applyDiscount(cents, sale.discountPercent) ELSE cents

\* A slip in priceNights: the day of departure is priced, the first night is not.
NightsFromOne(cents, sale, checkIn, nights) ==
  LET total[n \in 0..nights] ==
        IF n = 0 THEN 0 ELSE total[n - 1] + priceOn(cents, sale, checkIn + n)
  IN total[nights]

\* Each night is priced on its own date: total[n] is what the first n nights come to.
priceNights(cents, sale, checkIn, nights) ==
  LET total[n \in 0..nights] ==
        IF n = 0 THEN 0 ELSE total[n - 1] + priceOn(cents, sale, checkIn + (n - 1))
  IN total[nights]
=============================================================================
