------------------------------ MODULE Inventory ------------------------------
(***************************************************************************)
(* What both booking services promise, with no database, no counting and   *)
(* no race guard: a claim is quoted the capacity its resource has, it is   *)
(* sold only while every slot it covers has fewer sold claims than that    *)
(* quote, and from then on it counts against the slots until it is closed. *)
(*                                                                         *)
(* A resource is a room type or a venue, a slot a night or an hour of a    *)
(* day.  RoomBookings and VenueBookings implement this module.             *)
(***************************************************************************)
EXTENDS Naturals, FiniteSets

CONSTANTS
  Claims,      \* the requests that may ever be made
  Resources,   \* room types, venues
  Slots,       \* nights, hours
  Capacities,  \* the capacities a resource may be given
  NoClaim      \* the value of a claim that is not open

Claim == [resource: Resources, slots: SUBSET Slots, quote: Capacities]

ASSUME ClaimsAssumption == IsFiniteSet(Claims)
ASSUME CapacitiesAssumption == Capacities \subseteq Nat
ASSUME NoClaimAssumption == NoClaim \notin Claim

VARIABLES
  capacity,  \* the capacity of each resource
  claim,     \* what each open claim asks for and was quoted
  sold       \* the claims that were sold and not closed

vars == <<capacity, claim, sold>>

SoldAt(r, t) == {c \in sold : claim[c].resource = r /\ t \in claim[c].slots}

TypeOK ==
  /\ capacity \in [Resources -> Capacities]
  /\ claim \in [Claims -> Claim \cup {NoClaim}]
  /\ sold \subseteq {c \in Claims : claim[c] # NoClaim}

Init ==
  /\ capacity \in [Resources -> Capacities]
  /\ claim = [c \in Claims |-> NoClaim]
  /\ sold = {}

\* A claim is opened: from here on it is held to the capacity of this moment.
Quote(c) ==
  /\ claim[c] = NoClaim
  /\ \E r \in Resources, S \in SUBSET Slots :
       claim' = [claim EXCEPT ![c] =
                   [resource |-> r, slots |-> S, quote |-> capacity[r]]]
  /\ UNCHANGED <<capacity, sold>>

\* Slips in Sell: a claim too many; one free slot is taken for all of them.
SellOneTooMany(c) ==
  /\ claim[c] # NoClaim
  /\ c \notin sold
  /\ \A t \in claim[c].slots :
       Cardinality(SoldAt(claim[c].resource, t)) <= claim[c].quote
  /\ sold' = sold \cup {c}
  /\ UNCHANGED <<capacity, claim>>
SellForOneFreeSlot(c) ==
  /\ claim[c] # NoClaim
  /\ c \notin sold
  /\ \E t \in claim[c].slots :
       Cardinality(SoldAt(claim[c].resource, t)) < claim[c].quote
  /\ sold' = sold \cup {c}
  /\ UNCHANGED <<capacity, claim>>

\* The claim gets its slots, all of them at once.
Sell(c) ==
  /\ claim[c] # NoClaim
  /\ c \notin sold
  /\ \A t \in claim[c].slots :
       Cardinality(SoldAt(claim[c].resource, t)) < claim[c].quote
  /\ sold' = sold \cup {c}
  /\ UNCHANGED <<capacity, claim>>

\* A slip in Close: the claim goes but stays counted.
CloseKeepsSold(c) ==
  /\ claim[c] # NoClaim
  /\ claim' = [claim EXCEPT ![c] = NoClaim]
  /\ UNCHANGED <<capacity, sold>>

\* The claim is given up, refused or released.
Close(c) ==
  /\ claim[c] # NoClaim
  /\ claim' = [claim EXCEPT ![c] = NoClaim]
  /\ sold' = sold \ {c}
  /\ UNCHANGED capacity

Resize(r) ==
  /\ \E n \in Capacities : capacity' = [capacity EXCEPT ![r] = n]
  /\ UNCHANGED <<claim, sold>>

Next ==
  \/ \E c \in Claims : Quote(c) \/ Sell(c) \/ Close(c)
  \/ \E r \in Resources : Resize(r)

Spec == Init /\ [][Next]_vars

-----------------------------------------------------------------------------

\* No slot is oversold: of the claims sold on a slot, some claim was quoted at
\* least as many units as there are claims.  With a capacity that does not
\* change this says that at most "capacity" claims are sold on any slot.
NoOversale ==
  \A r \in Resources, t \in Slots :
    SoldAt(r, t) # {} =>
      \E c \in SoldAt(r, t) : Cardinality(SoldAt(r, t)) <= claim[c].quote

\* The strengthening that is inductive.  Closing a claim may remove the very one
\* NoOversale points at, so the bound has to hold for every part of the sold set.
EveryPartWithinQuote ==
  \A r \in Resources, t \in Slots : \A S \in SUBSET SoldAt(r, t) :
    S # {} => \E c \in S : Cardinality(S) <= claim[c].quote
=============================================================================
