-------------------------------- MODULE Location --------------------------------
(***************************************************************************)
(* Where the hotel is: LocationService (src/location/location.service.ts). *)
(* The collection is meant to hold one document, found by a fixed key.     *)
(* PUT is one upsert, which to the database is a search, an insert when    *)
(* there is nothing yet, and the unique index on the key between the two.  *)
(***************************************************************************)
CONSTANTS
  Puts,      \* requests to PUT /location, each by the document it would create
  Values,    \* what a field may hold
  Bodies,    \* the bodies that are sent
  Default,   \* the default of any field, by one name
  Missing, Null,
  Nowhere    \* no document

Required == {"latitude", "longitude"}
Optional == {"zoom", "address", "description"}
Fields == Required \cup Optional
Place == [Fields -> Values]

ASSUME BodiesAssumption ==
  /\ Default \in Values
  /\ Missing \notin Values /\ Null \notin Values
  /\ Nowhere \notin Place
  /\ Bodies \subseteq [Fields -> Values \cup {Missing, Null}]
  /\ \A body \in Bodies : \A f \in Required : body[f] \in Values

VARIABLES
  locations,  \* the collection
  putting,    \* where each request is
  sent,       \* its body
  lastPut     \* history: the request that wrote last

locationVars == <<locations, putting, sent, lastPut>>

LocationTypeOK ==
  /\ locations \in [Puts -> Place \cup {Nowhere}]
  /\ putting \in [Puts -> {"idle", "matching", "inserting", "refused", "answered"}]
  /\ sent \in [Puts -> Bodies \cup {Nowhere}]
  /\ \A p \in Puts : putting[p] # "idle" => sent[p] \in Bodies
  /\ lastPut \in Puts \cup {Nowhere}

LocationInit ==
  /\ locations = [p \in Puts |-> Nowhere]
  /\ putting = [p \in Puts |-> "idle"]
  /\ sent = [p \in Puts |-> Nowhere]
  /\ lastPut = Nowhere

Set == {p \in Puts : locations[p] # Nowhere}

\* A slip in Normalised: a field that is left out is written as undefined, which the
\* driver takes to mean "as it was".
NormalisedKeeping(body, stored) ==
  [f \in Fields |->
     IF body[f] = Missing /\ stored # Nowhere THEN stored[f]
     ELSE IF body[f] \in Values THEN body[f] ELSE Default]

\* Another: a default value for what is left out, which null passes by.
NormalisedNullKept(body, stored) ==
  [f \in Fields |-> IF body[f] = Missing THEN Default ELSE body[f]]

\* "??" puts the default for what is missing and for null.
Normalised(body, stored) ==
  [f \in Fields |-> IF body[f] \in Values THEN body[f] ELSE Default]

PutLocation(p) ==
  /\ putting[p] = "idle"
  /\ \E body \in Bodies : sent' = [sent EXCEPT ![p] = body]
  /\ putting' = [putting EXCEPT ![p] = "matching"]
  /\ UNCHANGED <<locations, lastPut>>

\* The document that is there is updated; if there is none, one will be inserted.
Match(p) ==
  /\ putting[p] = "matching"
  /\ \/ /\ \E found \in Set :
             locations' = [locations EXCEPT ![found] = Normalised(sent[p], @)]
        /\ lastPut' = p
        /\ putting' = [putting EXCEPT ![p] = "answered"]
     \/ /\ Set = {}
        /\ putting' = [putting EXCEPT ![p] = "inserting"]
        /\ UNCHANGED <<locations, lastPut>>
  /\ UNCHANGED sent

\* A slip in KeyIsFree: the schema does not say that the key is unique.
KeyIsNeverTaken == TRUE

\* The unique index on the key.
KeyIsFree == Set = {}

\* The loser of two first PUTs starts again, in the database, or is refused by it.
InsertLocation(p) ==
  /\ putting[p] = "inserting"
  /\ \/ /\ KeyIsFree
        /\ locations' = [locations EXCEPT ![p] = Normalised(sent[p], Nowhere)]
        /\ lastPut' = p
        /\ putting' = [putting EXCEPT ![p] = "answered"]
     \/ /\ ~KeyIsFree
        /\ \E next \in {"matching", "refused"} : putting' = [putting EXCEPT ![p] = next]
        /\ UNCHANGED <<locations, lastPut>>
  /\ UNCHANGED sent

FailPut(p) ==
  /\ putting[p] \in {"matching", "inserting"}
  /\ putting' = [putting EXCEPT ![p] = "refused"]
  /\ UNCHANGED <<locations, sent, lastPut>>

LocationNext ==
  \E p \in Puts : PutLocation(p) \/ Match(p) \/ InsertLocation(p) \/ FailPut(p)

-----------------------------------------------------------------------------
(* What the location has to guarantee.                                     *)

\* There is never a second location, however many first PUTs find none together ("One
\* hotel, so one location: the collection holds a single document").
OneLocation == \A p, q \in Set : p = q

\* What guests see is the whole of one request, the last that wrote: never some fields
\* of one and some of another ("Fields left out fall back to their defaults so a PUT
\* means the same thing twice").
WholeOfOnePut ==
  \A p \in Set :
    /\ lastPut \in Puts
    /\ locations[p] = [f \in Fields |-> IF sent[lastPut][f] \in Values
                                         THEN sent[lastPut][f] ELSE Default]
=============================================================================
