--------------------------- MODULE InventoryProofs ---------------------------
(***************************************************************************)
(* The abstract inventory never oversells a slot, for every finite set of  *)
(* claims and every capacity.                                              *)
(***************************************************************************)
EXTENDS Inventory, FiniteSetTheorems, TLAPS

\* Claims are only ever open or not, and what is sold is an open claim.
THEOREM Typing == Spec => []TypeOK
<1>1. Init => TypeOK
  BY DEF Init, TypeOK
<1>2. TypeOK /\ [Next]_vars => TypeOK'
  <2> SUFFICES ASSUME TypeOK, [Next]_vars
               PROVE  TypeOK'
    OBVIOUS
  <2> USE DEF TypeOK
  <2>1. ASSUME NEW c \in Claims, Quote(c)
        PROVE  TypeOK'
    <3>1. PICK r \in Resources, S \in SUBSET Slots :
            claim' = [claim EXCEPT ![c] =
                        [resource |-> r, slots |-> S, quote |-> capacity[r]]]
      BY <2>1 DEF Quote
    <3>2. [resource |-> r, slots |-> S, quote |-> capacity[r]] \in Claim
      BY DEF Claim
    <3>3. claim' \in [Claims -> Claim \cup {NoClaim}]
      BY <3>1, <3>2
    <3>4. \A s \in sold : claim'[s] # NoClaim
      BY <2>1, <3>1 DEF Quote
    <3> QED
      BY <2>1, <3>3, <3>4 DEF Quote
  <2>2. ASSUME NEW c \in Claims, Sell(c)
        PROVE  TypeOK'
    BY <2>2 DEF Sell
  <2>3. ASSUME NEW c \in Claims, Close(c)
        PROVE  TypeOK'
    BY <2>3 DEF Close
  <2>4. ASSUME NEW r \in Resources, Resize(r)
        PROVE  TypeOK'
    BY <2>4 DEF Resize
  <2>5. CASE UNCHANGED vars
    BY <2>5 DEF vars
  <2> QED
    BY <2>1, <2>2, <2>3, <2>4, <2>5 DEF Next
<1> QED
  BY <1>1, <1>2, PTL DEF Spec

\* The claims sold on a slot are finitely many.
LEMMA SoldAtFinite ==
  ASSUME TypeOK, NEW r, NEW t
  PROVE  IsFiniteSet(SoldAt(r, t))
<1>1. SoldAt(r, t) \in SUBSET Claims
  BY DEF TypeOK, SoldAt
<1> QED
  BY <1>1, FS_Subset, ClaimsAssumption

\* Every part of the claims sold on a slot is within the quote of one of them.
THEOREM PartsInvariant == Spec => []EveryPartWithinQuote
<1>1. Init => EveryPartWithinQuote
  BY DEF Init, EveryPartWithinQuote, SoldAt
<1>2. TypeOK /\ EveryPartWithinQuote /\ [Next]_vars => EveryPartWithinQuote'
  <2> SUFFICES ASSUME TypeOK, EveryPartWithinQuote, [Next]_vars,
                      NEW r \in Resources, NEW t \in Slots,
                      NEW S \in SUBSET SoldAt(r, t)', S # {}
               PROVE  \E c \in S : Cardinality(S) <= claim'[c].quote
    BY DEF EveryPartWithinQuote
  <2>0. ASSUME S \subseteq SoldAt(r, t),
               \A c \in S : claim'[c] = claim[c]
        PROVE  \E c \in S : Cardinality(S) <= claim'[c].quote
    BY <2>0 DEF EveryPartWithinQuote
  <2>1. ASSUME NEW c \in Claims, Quote(c)
        PROVE  \E s \in S : Cardinality(S) <= claim'[s].quote
    <3>1. \A s \in sold : claim'[s] = claim[s]
      BY <2>1 DEF Quote, TypeOK
    <3> QED
      BY <2>0, <2>1, <3>1 DEF Quote, SoldAt
  <2>2. ASSUME NEW c \in Claims, Sell(c)
        PROVE  \E s \in S : Cardinality(S) <= claim'[s].quote
    <3>1. CASE c \notin S
      BY <2>0, <2>2, <3>1 DEF Sell, SoldAt
    <3>2. CASE c \in S
      <4>1. claim[c].resource = r /\ t \in claim[c].slots
        BY <2>2, <3>2 DEF Sell, SoldAt
      <4>2. Cardinality(SoldAt(r, t)) < claim[c].quote
        BY <2>2, <4>1 DEF Sell
      <4>3. c \notin SoldAt(r, t) /\ S \subseteq SoldAt(r, t) \cup {c}
        BY <2>2 DEF Sell, SoldAt
      <4>4. /\ IsFiniteSet(SoldAt(r, t) \cup {c})
            /\ Cardinality(SoldAt(r, t) \cup {c}) = Cardinality(SoldAt(r, t)) + 1
            /\ Cardinality(SoldAt(r, t)) \in Nat
        BY <4>3, SoldAtFinite, FS_AddElement, FS_CardinalityType
      <4>5. Cardinality(S) \in Nat
            /\ Cardinality(S) <= Cardinality(SoldAt(r, t)) + 1
        BY <4>3, <4>4, FS_Subset, FS_CardinalityType
      <4>6. claim[c].quote \in Nat
        BY <2>2, CapacitiesAssumption DEF Sell, TypeOK, Claim
      <4>7. Cardinality(S) <= claim[c].quote
        BY <4>2, <4>4, <4>5, <4>6
      <4> QED
        BY <2>2, <3>2, <4>7 DEF Sell
    <3> QED
      BY <3>1, <3>2
  <2>3. ASSUME NEW c \in Claims, Close(c)
        PROVE  \E s \in S : Cardinality(S) <= claim'[s].quote
    <3>1. \A s \in sold' : claim'[s] = claim[s]
      BY <2>3 DEF Close, TypeOK
    <3> QED
      BY <2>0, <2>3, <3>1 DEF Close, SoldAt
  <2>4. ASSUME NEW q \in Resources, Resize(q)
        PROVE  \E s \in S : Cardinality(S) <= claim'[s].quote
    BY <2>0, <2>4 DEF Resize, SoldAt
  <2>5. CASE UNCHANGED vars
    BY <2>0, <2>5 DEF vars, SoldAt
  <2> QED
    BY <2>1, <2>2, <2>3, <2>4, <2>5 DEF Next
<1> QED
  BY <1>1, <1>2, Typing, PTL DEF Spec

\* No slot is oversold: the part to look at is the whole of it.
THEOREM NeverOversold == Spec => []NoOversale
<1>1. EveryPartWithinQuote => NoOversale
  BY DEF EveryPartWithinQuote, NoOversale
<1> QED
  BY <1>1, PartsInvariant, PTL
=============================================================================
