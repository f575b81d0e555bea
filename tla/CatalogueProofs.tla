--------------------------- MODULE CatalogueProofs ---------------------------
(***************************************************************************)
(* Names are unique, no update is lost and the rules hold unless updates   *)
(* race, for every number of offers and requests and whatever they say.    *)
(* What a stay costs is what its nights in and out of a sale come to, for  *)
(* stays of every length.                                                  *)
(***************************************************************************)
EXTENDS Catalogue, FiniteSetTheorems, WellFoundedInduction, TLAPS

\* A request that found something wrong, or is done, keeps no copy.  One that is being
\* served has a body that was found legal; a new document is not there yet, and one
\* that is to be changed is.
Served(q) ==
  /\ step[q] \notin Busy => copy[q] = NoCopy
  /\ step[q] \in Busy =>
       /\ task[q] # NoTask
       /\ LegalBody(task[q].body)
       /\ task[q].op = "remove" => step[q] = "writing" /\ task[q].body = Removal
       /\ task[q].op = "create" =>
            /\ item[task[q].offer] = Absent
            /\ task[q].body.name \in Names
            /\ step[q] # "reading"
            /\ RulesHold(task[q].offer, Checked(task[q].offer, task[q].body.fields))
       /\ task[q].op # "create" => item[task[q].offer] # Absent

\* Which requests have read the document, and that the rules hold for their body put
\* over what they read.
Informed(q) ==
  step[q] \in Busy =>
    /\ task[q].op = "update" /\ task[q].offer \in Venues =>
         (step[q] = "reading" <=> copy[q] = NoCopy)
    /\ task[q].op = "update" /\ task[q].offer \in Rooms =>
         /\ step[q] # "writing" => copy[q] = NoCopy
         /\ step[q] = "writing" /\ OneBoundSent(task[q].body) => copy[q] # NoCopy
    /\ task[q].op # "update" => copy[q] = NoCopy
    /\ copy[q] # NoCopy =>
         /\ copy[q] \in Document(task[q].offer)
         /\ RulesHold(task[q].offer, Merge(copy[q].fields, task[q].body.fields))

\* A document that is being created is no other request's.
Claims ==
  \A p, q \in Requests :
    p # q /\ step[p] \in Busy /\ step[q] \in Busy /\ task[p].op = "create" =>
      task[p].offer # task[q].offer

Inv ==
  /\ TypeOK /\ DOMAIN task = Requests /\ DOMAIN copy = Requests
  /\ \A q \in Requests : Served(q) /\ Informed(q)
  /\ Claims

-----------------------------------------------------------------------------
(* What a body makes of a document.                                        *)

\* Defaults are values.
LEMMA DefaultsAreValues ==
  ASSUME NEW o \in Offers
  PROVE  DefaultsOf(o) \in [FieldsOf(o) -> Value]
BY DEF DefaultsOf, FieldsOf, Default, Value, SaleFields, HireFields

\* A body put over stored fields gives fields.
LEMMA MergeTyped ==
  ASSUME NEW o \in Offers, NEW body, IsBody(o, body),
         NEW stored \in [FieldsOf(o) -> Value]
  PROVE  Merge(stored, body.fields) \in [FieldsOf(o) -> Value]
BY DEF Merge, IsBody

\* What remove writes is a body.
LEMMA RemovalIsBody ==
  ASSUME NEW o \in Offers
  PROVE  IsBody(o, Removal) /\ LegalBody(Removal)
BY DEF IsBody, Removal, LegalBody, Bounds, Listing

\* The bodies of requests are.
LEMMA TaskIsBody ==
  ASSUME NEW o \in Offers, NEW op \in {"create", "update", "remove"},
         NEW body \in IF op = "remove" THEN {Removal}
                      ELSE IF op = "create" THEN CreateBodies(o) ELSE PatchBodies(o)
  PROVE  /\ IsBody(o, body)
         /\ NoTask # [op |-> op, offer |-> o, body |-> body]
         /\ op = "create" => body.name \in Names
         /\ op = "remove" => body = Removal
BY RemovalIsBody, BodiesAssumption, NothingAssumption

\* What a request that was served writes is a document.
LEMMA StoredIsDocument ==
  ASSUME Inv, NEW q \in Requests, step[q] = "writing"
  PROVE  Stored(q) \in Document(task[q].offer)
<1>. DEFINE o == task[q].offer
            body == task[q].body
<1>1. /\ o \in Offers /\ IsBody(o, body) /\ Served(q)
      /\ task[q].op \in {"create", "update", "remove"}
      /\ item[o] \in Document(o) \cup {Absent}
  BY DEF Inv, TypeOK, Busy
<1>2. CASE task[q].op = "create"
  <2>1. Merge(DefaultsOf(o), body.fields) \in [FieldsOf(o) -> Value]
    BY <1>1, DefaultsAreValues, MergeTyped
  <2>. QED
    BY <1>1, <1>2, <2>1 DEF Stored, Document, Served, Busy, Listing
<1>3. CASE task[q].op # "create"
  <2>1. item[o] \in Document(o)
    BY <1>1, <1>3 DEF Served, Busy
  <2>2. /\ item[o].name \in Names /\ item[o].isActive \in Listing
        /\ item[o].fields \in [FieldsOf(o) -> Value]
    BY <2>1 DEF Document
  <2>3. Merge(item[o].fields, body.fields) \in [FieldsOf(o) -> Value]
    BY <1>1, <2>2, MergeTyped
  <2>4. /\ Put(body.name, item[o].name) \in Names
        /\ Put(body.isActive, item[o].isActive) \in Listing
    BY <1>1, <2>2 DEF Put, IsBody
  <2>. QED
    BY <1>3, <2>3, <2>4 DEF Stored, Patched, Document
<1>. QED
  BY <1>2, <1>3

-----------------------------------------------------------------------------
(* The invariant.                                                          *)

\* In the initial states no request has come yet.
LEMMA InitInv == Init => Inv
<1>. SUFFICES ASSUME Init PROVE Inv
  OBVIOUS
<1>1. PICK name \in [Existing -> Names] :
        item = [o \in Offers |->
                  IF o \in Existing
                  THEN [name |-> name[o], isActive |-> TRUE, fields |-> DefaultsOf(o)]
                  ELSE Absent]
  BY DEF Init
<1>2. \A o \in Offers : item[o] \in Document(o) \cup {Absent}
  BY <1>1, DefaultsAreValues, OffersAssumption DEF Document, Listing
<1>3. TypeOK
  BY <1>1, <1>2 DEF Init, TypeOK, Busy
<1>. QED
  BY <1>3 DEF Init, Inv, Served, Informed, Claims, Busy

\* A request that does not move notices of the others only whether its document is there.
LEMMA OthersStay ==
  ASSUME Inv, NEW p \in Requests,
         step'[p] = step[p], task'[p] = task[p], copy'[p] = copy[p],
         step[p] \in Busy =>
           (item'[task[p].offer] = Absent <=> item[task[p].offer] = Absent)
  PROVE  Served(p)' /\ Informed(p)'
BY DEF Inv, Served, Informed

\* A refusal and a failure.
LEMMA RefuseInv ==
  ASSUME Inv, NEW q \in Requests, Refuse(q), UNCHANGED <<item, raced>>
  PROVE  Inv'
<1>1. /\ step'[q] = "refused" /\ copy'[q] = NoCopy
      /\ \A p \in Requests \ {q} :
           step'[p] = step[p] /\ task'[p] = task[p] /\ copy'[p] = copy[p]
      /\ DOMAIN task' = Requests /\ DOMAIN copy' = Requests
      /\ step' \in [Requests -> Busy \cup {"idle", "refused", "answered"}]
  BY DEF Inv, TypeOK, Refuse
<1>2. TypeOK'
  BY <1>1 DEF Inv, TypeOK, Busy, IsBody
<1>3. ASSUME NEW p \in Requests PROVE Served(p)' /\ Informed(p)'
  <2>1. CASE p = q
    BY <1>1, <2>1 DEF Served, Informed, Busy
  <2>2. CASE p # q
    BY <1>1, <2>2, OthersStay
  <2>. QED
    BY <2>1, <2>2
<1>4. Claims'
  BY <1>1 DEF Inv, Claims, Busy
<1>. QED
  BY <1>1, <1>2, <1>3, <1>4 DEF Inv

\* A request that goes on to another step.
LEMMA GoInv ==
  ASSUME Inv, NEW q \in Requests, step[q] \in Busy, NEW next \in Busy, Goto(q, next),
         UNCHANGED <<item, raced>>, DOMAIN copy' = Requests,
         \A p \in Requests \ {q} : copy'[p] = copy[p],
         copy'[q] = NoCopy \/ copy'[q] \in Document(task[q].offer),
         Served(q)', Informed(q)'
  PROVE  Inv'
<1>1. /\ step'[q] = next /\ task' = task
      /\ \A p \in Requests \ {q} : step'[p] = step[p]
      /\ step' \in [Requests -> Busy \cup {"idle", "refused", "answered"}]
  BY DEF Inv, TypeOK, Goto
<1>2. TypeOK'
  BY <1>1 DEF Inv, TypeOK, Busy, IsBody
<1>3. ASSUME NEW p \in Requests PROVE Served(p)' /\ Informed(p)'
  BY <1>1, OthersStay
<1>4. Claims'
  BY <1>1 DEF Inv, Claims
<1>. QED
  BY <1>1, <1>2, <1>3, <1>4 DEF Inv

\* A request that arrives has been checked as far as that needs no database, and what it
\* creates is nobody else's.
LEMMA ArriveInv == ASSUME Inv, NEW q \in Requests, Arrive(q) PROVE Inv'
<1>1. PICK o \in Offers, op \in {"create", "update", "remove"} :
        \E body \in IF op = "remove" THEN {Removal}
                     ELSE IF op = "create" THEN CreateBodies(o) ELSE PatchBodies(o) :
          LET t == [op |-> op, offer |-> o, body |-> body]
              legal == /\ LegalBody(body)
                       /\ op = "create" => RulesHold(o, Checked(o, body.fields))
          IN /\ IF op = "create" THEN Fresh(o) ELSE item[o] # Absent
             /\ \/ /\ legal
                   /\ step' = [step EXCEPT ![q] = FirstStep(t)]
                   /\ task' = [task EXCEPT ![q] = t]
                   /\ UNCHANGED copy
                \/ /\ ~legal
                   /\ Refuse(q)
  BY DEF Arrive
<1>2. PICK body \in IF op = "remove" THEN {Removal}
                     ELSE IF op = "create" THEN CreateBodies(o) ELSE PatchBodies(o) :
          LET t == [op |-> op, offer |-> o, body |-> body]
              legal == /\ LegalBody(body)
                       /\ op = "create" => RulesHold(o, Checked(o, body.fields))
          IN /\ IF op = "create" THEN Fresh(o) ELSE item[o] # Absent
             /\ \/ /\ legal
                   /\ step' = [step EXCEPT ![q] = FirstStep(t)]
                   /\ task' = [task EXCEPT ![q] = t]
                   /\ UNCHANGED copy
                \/ /\ ~legal
                   /\ Refuse(q)
  BY <1>1
<1>3. step[q] = "idle" /\ UNCHANGED <<item, raced>>
  BY DEF Arrive
<1>4. CASE Refuse(q)
  BY <1>3, <1>4, RefuseInv
<1>5. CASE ~Refuse(q)
  <2>. DEFINE t == [op |-> op, offer |-> o, body |-> body]
  <2>1. /\ LegalBody(body)
        /\ op = "create" => RulesHold(o, Checked(o, body.fields))
        /\ IF op = "create" THEN Fresh(o) ELSE item[o] # Absent
        /\ step' = [step EXCEPT ![q] = FirstStep(t)]
        /\ task' = [task EXCEPT ![q] = t]
        /\ UNCHANGED copy
    BY <1>2, <1>5
  <2>2. /\ IsBody(o, body) /\ NoTask # t
        /\ op = "create" => body.name \in Names
        /\ op = "remove" => body = Removal
    BY TaskIsBody
  <2>3. /\ FirstStep(t) \in Busy
        /\ op = "create" => FirstStep(t) # "reading"
        /\ op = "remove" => FirstStep(t) = "writing"
        /\ op = "update" /\ o \in Venues => FirstStep(t) = "reading"
        /\ op = "update" /\ o \notin Venues /\ OneBoundSent(body) => FirstStep(t) # "writing"
    <3>1. t.op = op /\ t.offer = o /\ t.body = body
      OBVIOUS
    <3>2. FirstStep(t) =
            IF op = "remove" THEN "writing"
            ELSE IF op = "update" /\ o \in Venues THEN "reading"
            ELSE IF body.name # Unsent THEN "naming"
            ELSE IF OneBoundSent(body) THEN "reading"
            ELSE "writing"
      BY <3>1 DEF FirstStep
    <3>3. op = "create" => body.name # Unsent
      BY <2>2, BodiesAssumption
    <3>. HIDE DEF t
    <3>. QED
      BY <3>2, <3>3 DEF Busy
  <2>4. /\ step'[q] = FirstStep(t) /\ task'[q] = t /\ copy' = copy /\ copy[q] = NoCopy
        /\ \A p \in Requests \ {q} : step'[p] = step[p] /\ task'[p] = task[p]
        /\ DOMAIN task' = Requests
        /\ step' \in [Requests -> Busy \cup {"idle", "refused", "answered"}]
    BY <1>3, <2>1, <2>3 DEF Inv, TypeOK, Served, Busy
  <2>5. TypeOK'
    BY <1>3, <2>1, <2>2, <2>4 DEF Inv, TypeOK, Busy, IsBody
  <2>6. ASSUME NEW p \in Requests PROVE Served(p)' /\ Informed(p)'
    <3>1. CASE p = q
      <4>1. op = "create" => item[o] = Absent
        BY <2>1 DEF Fresh
      <4>2. t.op = op /\ t.offer = o /\ t.body = body
        OBVIOUS
      <4>3. Served(q)'
        BY <1>3, <2>1, <2>2, <2>3, <2>4, <4>1, <4>2 DEF Served
      <4>4. Informed(q)'
        BY <1>3, <2>1, <2>2, <2>3, <2>4, <4>2, OffersAssumption DEF Informed
      <4>. QED
        BY <3>1, <4>3, <4>4
    <3>2. CASE p # q
      BY <1>3, <2>4, <3>2, OthersStay
    <3>. QED
      BY <3>1, <3>2
  <2>7. Claims'
    <3>. SUFFICES ASSUME NEW p \in Requests, NEW r \in Requests, p # r,
                         step'[p] \in Busy, step'[r] \in Busy, task'[p].op = "create"
                  PROVE  task'[p].offer # task'[r].offer
      BY DEF Claims
    <3>1. CASE p # q /\ r # q
      BY <2>4, <3>1 DEF Inv, Claims
    <3>2. CASE p = q
      <4>1. r # q /\ Fresh(o)
        BY <2>1, <2>4, <3>2
      <4>2. task[r] # NoTask
        BY <2>4, <4>1 DEF Inv, Served
      <4>. QED
        BY <2>4, <3>2, <4>1, <4>2 DEF Fresh
    <3>3. CASE r = q
      <4>1. task[p] # NoTask /\ item[task[p].offer] = Absent /\ task[p].op = "create"
        BY <2>4, <3>3 DEF Inv, Served
      <4>. QED
        BY <2>1, <2>4, <3>3, <4>1 DEF Fresh
    <3>. QED
      BY <3>1, <3>2, <3>3
  <2>. QED
    BY <2>4, <2>5, <2>6, <2>7 DEF Inv
<1>. QED
  BY <1>4, <1>5

\* The check of a name.
LEMMA CheckNameInv == ASSUME Inv, NEW q \in Requests, CheckName(q) PROVE Inv'
<1>1. CASE Refuse(q)
  BY <1>1, RefuseInv DEF CheckName
<1>2. CASE ~Refuse(q)
  <2>1. /\ step[q] = "naming" /\ Goto(q, AfterNaming(task[q])) /\ copy' = copy
        /\ UNCHANGED <<item, raced>>
    BY <1>2 DEF CheckName
  <2>2. step'[q] = AfterNaming(task[q]) /\ task' = task
    BY <2>1 DEF Inv, TypeOK, Goto
  <2>3. Served(q) /\ Informed(q) /\ step[q] \in Busy
    BY <2>1 DEF Inv, Busy
  <2>4. /\ task[q].op \in {"create", "update", "remove"} /\ task[q].offer \in Offers
        /\ task[q].offer \in Rooms => task[q].offer \notin Venues
    BY <2>3, OffersAssumption DEF Inv, TypeOK
  <2>5. Served(q)'
    BY <2>1, <2>2, <2>3 DEF Served, AfterNaming, Busy
  <2>6. Informed(q)'
    BY <2>1, <2>2, <2>3, <2>4 DEF Informed, AfterNaming, Busy
  <2>7. AfterNaming(task[q]) \in Busy /\ DOMAIN copy' = Requests
    BY <2>1 DEF Inv, AfterNaming, Busy
  <2>8. copy[q] = NoCopy \/ copy[q] \in Document(task[q].offer)
    BY <2>3 DEF Informed
  <2>. QED
    BY <2>1, <2>3, <2>5, <2>6, <2>7, <2>8, GoInv
<1>. QED
  BY <1>1, <1>2

\* The check of the rules.
LEMMA CheckRulesInv == ASSUME Inv, NEW q \in Requests, CheckRules(q) PROVE Inv'
<1>1. CASE Refuse(q)
  BY <1>1, RefuseInv DEF CheckRules
<1>2. CASE ~Refuse(q)
  <2>. DEFINE o == task[q].offer
  <2>1. /\ step[q] = "reading" /\ Goto(q, AfterReading(task[q]))
        /\ copy' = [copy EXCEPT ![q] = item[o]]
        /\ RulesHold(o, Merge(item[o].fields, task[q].body.fields))
        /\ UNCHANGED <<item, raced>>
    BY <1>2 DEF CheckRules
  <2>2. Served(q) /\ Informed(q) /\ step[q] \in Busy
    BY <2>1 DEF Inv, Busy
  <2>3. /\ o \in Offers /\ task[q].op \in {"create", "update", "remove"}
        /\ item[o] \in Document(o) \cup {Absent}
        /\ o \in Rooms => o \notin Venues
    BY <2>2, OffersAssumption DEF Inv, TypeOK
  <2>4. task[q].op = "update" /\ item[o] \in Document(o)
    BY <2>1, <2>2, <2>3 DEF Served, Busy
  <2>5. item[o] # NoCopy
    BY <2>3, <2>4, NothingAssumption
  <2>6. /\ step'[q] = AfterReading(task[q]) /\ task' = task /\ copy'[q] = item[o]
        /\ \A p \in Requests \ {q} : copy'[p] = copy[p]
        /\ DOMAIN copy' = Requests
    BY <2>1 DEF Inv, TypeOK, Goto
  <2>7. AfterReading(task[q]) \in Busy
    BY DEF AfterReading, Busy
  <2>8. Served(q)'
    BY <2>1, <2>2, <2>4, <2>6, <2>7 DEF Served, AfterReading
  <2>9. Informed(q)'
    BY <2>1, <2>3, <2>4, <2>5, <2>6 DEF Informed, AfterReading
  <2>. QED
    BY <2>1, <2>2, <2>4, <2>6, <2>7, <2>8, <2>9, GoInv
<1>. QED
  BY <1>1, <1>2

\* A write that is not refused stores one document.
LEMMA WriteStores ==
  ASSUME Inv, NEW q \in Requests, Write(q), ~(Refuse(q) /\ UNCHANGED <<item, raced>>)
  PROVE  /\ step[q] = "writing" /\ task[q].offer \in Offers
         /\ Admits(task[q].offer, Stored(q).name)
         /\ Stored(q) \in Document(task[q].offer)
         /\ item'[task[q].offer] = Stored(q)
         /\ \A o \in Offers \ {task[q].offer} : item'[o] = item[o]
         /\ DOMAIN item' = Offers
         /\ raced' = IF copy[q] # NoCopy /\ copy[q].fields # item[task[q].offer].fields
                     THEN raced \cup {task[q].offer} ELSE raced
         /\ step'[q] = "answered" /\ copy'[q] = NoCopy
         /\ \A p \in Requests \ {q} :
              step'[p] = step[p] /\ task'[p] = task[p] /\ copy'[p] = copy[p]
         /\ DOMAIN task' = Requests /\ DOMAIN copy' = Requests
         /\ step' \in [Requests -> Busy \cup {"idle", "refused", "answered"}]
<1>. DEFINE o == task[q].offer
<1>1. /\ Admits(o, Stored(q).name)
      /\ item' = [item EXCEPT ![o] = Stored(q)]
      /\ raced' = IF copy[q] # NoCopy /\ copy[q].fields # item[o].fields THEN raced \cup {o} ELSE raced
      /\ step' = [step EXCEPT ![q] = "answered"]
      /\ task' = [task EXCEPT ![q] = NoTask]
      /\ copy' = [copy EXCEPT ![q] = NoCopy]
  BY DEF Write
<1>2. step[q] = "writing" /\ step[q] \in Busy
  BY DEF Write, Busy
<1>3. o \in Offers /\ DOMAIN item = Offers
  BY <1>2 DEF Inv, TypeOK
<1>4. Stored(q) \in Document(o)
  BY <1>2, StoredIsDocument
<1>. QED
  BY <1>1, <1>2, <1>3, <1>4 DEF Inv, TypeOK

\* A write, or its refusal by the unique index.
LEMMA WriteInv == ASSUME Inv, NEW q \in Requests, Write(q) PROVE Inv'
<1>. DEFINE o == task[q].offer
<1>1. step[q] = "writing" /\ step[q] \in Busy
  BY DEF Write, Busy
<1>2. CASE Refuse(q) /\ UNCHANGED <<item, raced>>
  BY <1>2, RefuseInv
<1>3. CASE ~(Refuse(q) /\ UNCHANGED <<item, raced>>)
  <2>2. o \in Offers /\ DOMAIN item = Offers /\ Stored(q) \in Document(o)
    BY <1>1, StoredIsDocument DEF Inv, TypeOK
  <2>3. /\ item'[o] = Stored(q) /\ DOMAIN item' = Offers
        /\ \A p \in Offers \ {o} : item'[p] = item[p]
        /\ step'[q] = "answered" /\ copy'[q] = NoCopy
        /\ \A p \in Requests \ {q} :
             step'[p] = step[p] /\ task'[p] = task[p] /\ copy'[p] = copy[p]
        /\ DOMAIN task' = Requests /\ DOMAIN copy' = Requests
        /\ step' \in [Requests -> Busy \cup {"idle", "refused", "answered"}]
    BY <1>3, WriteStores
  <2>1. raced' \subseteq Offers
    BY <1>3, <2>2, WriteStores DEF Inv, TypeOK
  <2>4. TypeOK'
    BY <2>1, <2>2, <2>3 DEF Inv, TypeOK, Busy, IsBody
  <2>5. ASSUME NEW p \in Requests PROVE Served(p)' /\ Informed(p)'
    <3>1. CASE p = q
      BY <2>3, <3>1 DEF Served, Informed, Busy
    <3>2. CASE p # q /\ step[p] \in Busy
      <4>1. task[p].offer \in Offers
        BY <3>2 DEF Inv, TypeOK
      <4>2. CASE task[p].offer # o
        BY <2>3, <3>2, <4>1, <4>2, OthersStay
      <4>3. CASE task[p].offer = o
        <5>1. task[p].op # "create" /\ task[q].op # "create"
          BY <1>1, <3>2, <4>3 DEF Inv, Claims
        <5>2. item[o] # Absent /\ item'[o] # Absent
          BY <1>1, <2>2, <2>3, <5>1, NothingAssumption DEF Inv, Served
        <5>. QED
          BY <2>3, <3>2, <4>3, <5>2, OthersStay
      <4>. QED
        BY <4>2, <4>3
    <3>3. CASE p # q /\ step[p] \notin Busy
      BY <2>3, <3>3, OthersStay
    <3>. QED
      BY <3>1, <3>2, <3>3
  <2>6. Claims'
    BY <2>3 DEF Inv, Claims, Busy
  <2>. QED
    BY <2>3, <2>4, <2>5, <2>6 DEF Inv
<1>. QED
  BY <1>2, <1>3

\* Every step keeps the invariant.
LEMMA NextInv == Inv /\ [Next]_vars => Inv'
<1>. SUFFICES ASSUME Inv, [Next]_vars PROVE Inv'
  OBVIOUS
<1>1. ASSUME NEW q \in Requests, Arrive(q) PROVE Inv'
  BY <1>1, ArriveInv
<1>2. ASSUME NEW q \in Requests, CheckName(q) PROVE Inv'
  BY <1>2, CheckNameInv
<1>3. ASSUME NEW q \in Requests, CheckRules(q) PROVE Inv'
  BY <1>3, CheckRulesInv
<1>4. ASSUME NEW q \in Requests, Write(q) PROVE Inv'
  BY <1>4, WriteInv
<1>5. ASSUME NEW q \in Requests, Fail(q) PROVE Inv'
  BY <1>5, RefuseInv DEF Fail
<1>6. CASE UNCHANGED vars
  BY <1>6 DEF vars, Inv, TypeOK, Served, Informed, Claims
<1>. QED
  BY <1>1, <1>2, <1>3, <1>4, <1>5, <1>6 DEF Next

\* Only a write changes the collections.
LEMMA OnlyWrites ==
  ASSUME [Next]_vars, item' # item \/ raced' # raced
  PROVE  \E q \in Requests : Write(q)
BY DEF Next, vars, Arrive, CheckName, CheckRules, Fail

-----------------------------------------------------------------------------
(* Names.                                                                  *)

\* The unique index admits no second document of a name.
LEMMA NamesStay == Inv /\ UniqueNames /\ [Next]_vars => UniqueNames'
<1>. SUFFICES ASSUME Inv, UniqueNames, [Next]_vars PROVE UniqueNames'
  OBVIOUS
<1>1. CASE UNCHANGED item
  BY <1>1 DEF UniqueNames, Stocked, Taken
<1>2. CASE item' # item
  <2>1. PICK q \in Requests : Write(q)
    BY <1>2, OnlyWrites
  <2>. DEFINE o == task[q].offer
  <2>2. /\ o \in Offers /\ ~Taken(o, Stored(q).name) /\ item'[o] = Stored(q)
        /\ \A p \in Offers \ {o} : item'[p] = item[p]
    BY <1>2, <2>1, WriteStores DEF Admits
  <2>. HIDE DEF o
  <2>. SUFFICES ASSUME NEW p \in Offers, NEW r \in (IF p \in Venues THEN Venues ELSE Rooms) \ {p},
                       item'[p] # Absent, item'[r] # Absent, item'[r].name = item'[p].name
                PROVE  FALSE
    BY DEF UniqueNames, Stocked, Taken
  <2>3. r \in Offers
    BY DEF Offers
  <2>4. CASE p = o
    BY <2>2, <2>3, <2>4 DEF Taken
  <2>5. CASE r = o
    <3>1. p \in (IF o \in Venues THEN Venues ELSE Rooms) \ {o}
      BY <2>5, OffersAssumption DEF Offers
    <3>. QED
      BY <2>2, <2>5, <3>1 DEF Taken
  <2>6. CASE p # o /\ r # o
    BY <2>2, <2>3, <2>6 DEF UniqueNames, Stocked, Taken
  <2>. QED
    BY <2>4, <2>5, <2>6
<1>. QED
  BY <1>1, <1>2

-----------------------------------------------------------------------------
(* Rules.                                                                  *)

\* What create stores passes the check create made.
LEMMA CreateChecked ==
  ASSUME NEW o \in Offers, NEW body, IsBody(o, body)
  PROVE  Checked(o, Merge(DefaultsOf(o), body.fields)) = Checked(o, body.fields)
<1>1. DefaultsOf(o) = [f \in FieldsOf(o) |-> Default[f]]
  BY DEF DefaultsOf
<1>2. Merge(DefaultsOf(o), body.fields)
        = [f \in FieldsOf(o) |-> IF f \in DOMAIN body.fields THEN body.fields[f] ELSE Default[f]]
  BY <1>1 DEF Merge
<1>. QED
  BY <1>2 DEF Checked, IsBody

\* A room's rules say nothing of a body with neither bound, and LegalBody has checked one
\* with both; a null bound is read the same by create and by update.
LEMMA RoomsNeedNoCopy ==
  ASSUME NEW o \in Rooms, NEW body, IsBody(o, body), LegalBody(body), ~OneBoundSent(body),
         NEW stored \in [FieldsOf(o) -> Value],
         RulesHold(o, stored) \/ RulesHold(o, Checked(o, stored))
  PROVE  RulesHold(o, Merge(stored, body.fields))
<1>. DEFINE sent == Bounds \cap DOMAIN body.fields
            merged == Merge(stored, body.fields)
<1>1. o \notin Venues /\ FieldsOf(o) = SaleFields
  BY OffersAssumption DEF FieldsOf
<1>2. sent = {} \/ sent = Bounds
  <2>1. \A x : sent # {x}
    BY FS_Singleton DEF OneBoundSent
  <2>. QED
    BY <2>1 DEF Bounds
<1>3. \A f \in Bounds : merged[f] = IF f \in sent THEN body.fields[f] ELSE stored[f]
  BY <1>1 DEF Merge, Bounds, SaleFields
<1>4. isValidDiscountWindow(stored.discountStartsAt, stored.discountEndsAt)
  <2>1. \A f \in Bounds : Checked(o, stored)[f] = stored[f]
    BY <1>1 DEF Checked, Bounds, SaleFields, Default
  <2>. QED
    BY <1>1, <2>1 DEF RulesHold, Bounds
<1>5. CASE sent = {}
  BY <1>1, <1>3, <1>4, <1>5 DEF RulesHold, Bounds
<1>6. CASE sent = Bounds
  <2>1. isValidDiscountWindow(body.fields.discountStartsAt, body.fields.discountEndsAt)
    BY <1>6 DEF LegalBody, Bounds
  <2>. QED
    BY <1>1, <1>3, <1>6, <2>1 DEF RulesHold, Bounds
<1>. QED
  BY <1>2, <1>5, <1>6

\* A removal moves no field a rule speaks of.
LEMMA RemovalMovesNothing ==
  ASSUME NEW o \in Offers, NEW stored \in [FieldsOf(o) -> Value]
  PROVE  Merge(stored, Removal.fields) = stored
BY DEF Merge, Removal

\* The rules hold for what a request writes, as long as what it read is still there.
LEMMA RulesHoldForStored ==
  ASSUME Inv, RulesHoldUnlessRaced, NEW q \in Requests, step[q] = "writing",
         copy[q] # NoCopy \/ task[q].offer \notin raced \/ task[q].op = "create",
         copy[q] = NoCopy \/ copy[q].fields = item[task[q].offer].fields
  PROVE  LET o == task[q].offer IN
         RulesHold(o, Stored(q).fields) \/ RulesHold(o, Checked(o, Stored(q).fields))
<1>. DEFINE o == task[q].offer
            body == task[q].body
<1>1. /\ step[q] \in Busy /\ Served(q) /\ Informed(q)
      /\ o \in Offers /\ IsBody(o, body) /\ task[q].op \in {"create", "update", "remove"}
  BY DEF Inv, TypeOK, Busy
<1>2. CASE task[q].op = "create"
  <2>1. Stored(q).fields = Merge(DefaultsOf(o), body.fields)
    BY <1>2 DEF Stored
  <2>2. RulesHold(o, Checked(o, body.fields))
    BY <1>1, <1>2 DEF Served
  <2>. QED
    BY <1>1, <2>1, <2>2, CreateChecked
<1>3. CASE task[q].op # "create"
  <2>1. Stored(q).fields = Merge(item[o].fields, body.fields)
    BY <1>3 DEF Stored, Patched
  <2>2. /\ item[o] # Absent /\ item[o] \in Document(o)
        /\ item[o].fields \in [FieldsOf(o) -> Value]
    BY <1>1, <1>3 DEF Served, Inv, TypeOK, Document
  <2>3. CASE copy[q] # NoCopy
    BY <1>1, <2>1, <2>3 DEF Informed
  <2>4. CASE copy[q] = NoCopy
    <3>1. RulesHold(o, item[o].fields) \/ RulesHold(o, Checked(o, item[o].fields))
      BY <1>1, <1>3, <2>2, <2>4 DEF RulesHoldUnlessRaced, Stocked
    <3>2. CASE task[q].op = "remove"
      <4>1. Stored(q).fields = item[o].fields
        BY <1>1, <2>1, <2>2, <3>2, RemovalMovesNothing DEF Served
      <4>. QED
        BY <3>1, <4>1
    <3>3. CASE task[q].op = "update"
      <4>1. o \in Rooms /\ ~OneBoundSent(body)
        BY <1>1, <2>4, <3>3 DEF Informed, Offers
      <4>2. LegalBody(body)
        BY <1>1 DEF Served
      <4>. QED
        BY <1>1, <2>1, <2>2, <3>1, <4>1, <4>2, RoomsNeedNoCopy
    <3>. QED
      BY <1>1, <1>3, <3>2, <3>3
  <2>. QED
    BY <2>3, <2>4
<1>. QED
  BY <1>2, <1>3

\* The rules hold after every step, unless it is a write that was overtaken.
LEMMA RulesStay == Inv /\ RulesHoldUnlessRaced /\ [Next]_vars => RulesHoldUnlessRaced'
<1>. SUFFICES ASSUME Inv, RulesHoldUnlessRaced, [Next]_vars PROVE RulesHoldUnlessRaced'
  OBVIOUS
<1>1. CASE UNCHANGED <<item, raced>>
  BY <1>1 DEF RulesHoldUnlessRaced, Stocked
<1>2. CASE ~UNCHANGED <<item, raced>>
  <2>1. PICK q \in Requests : Write(q)
    BY <1>2, OnlyWrites
  <2>. DEFINE o == task[q].offer
  <2>2. /\ step[q] = "writing" /\ o \in Offers /\ item'[o] = Stored(q)
        /\ \A p \in Offers \ {o} : item'[p] = item[p]
        /\ raced' = IF copy[q] # NoCopy /\ copy[q].fields # item[o].fields
                    THEN raced \cup {o} ELSE raced
    BY <1>2, <2>1, WriteStores
  <2>3. ASSUME NEW p \in Stocked' \ raced', p # o
        PROVE  RulesHold(p, item'[p].fields) \/ RulesHold(p, Checked(p, item'[p].fields))
    BY <2>2, <2>3 DEF RulesHoldUnlessRaced, Stocked
  <2>4. ASSUME o \notin raced'
        PROVE  RulesHold(o, item'[o].fields) \/ RulesHold(o, Checked(o, item'[o].fields))
    <3>1. o \notin raced /\ (copy[q] = NoCopy \/ copy[q].fields = item[o].fields)
      BY <2>2, <2>4
    <3>. QED
      BY <2>2, <3>1, RulesHoldForStored
  <2>. QED
    BY <2>3, <2>4 DEF RulesHoldUnlessRaced, Stocked
<1>. QED
  BY <1>1, <1>2

-----------------------------------------------------------------------------
(* The theorems.                                                           *)

\* All of it together holds in every reachable state.
LEMMA Invariance == Spec => [](Inv /\ UniqueNames /\ RulesHoldUnlessRaced)
<1>1. ASSUME Init PROVE Inv /\ UniqueNames /\ RulesHoldUnlessRaced
  <2>1. PICK name \in [Existing -> Names] :
          /\ \A o, p \in Existing : o # p => name[o] # name[p]
          /\ item = [o \in Offers |->
                       IF o \in Existing
                       THEN [name |-> name[o], isActive |-> TRUE, fields |-> DefaultsOf(o)]
                       ELSE Absent]
    BY <1>1 DEF Init
  <2>2. \A o \in Stocked : o \in Existing /\ item[o].name = name[o] /\ item[o].fields = DefaultsOf(o)
    BY <2>1 DEF Stocked
  <2>3. UniqueNames
    BY <2>1, <2>2, OffersAssumption DEF UniqueNames, Taken, Stocked, Offers
  <2>4. ASSUME NEW o \in Offers PROVE RulesHold(o, DefaultsOf(o))
    <3>1. \A f \in FieldsOf(o) : DefaultsOf(o)[f] = Default[f]
      BY DEF DefaultsOf
    <3>2. DefaultsOf(o).discountStartsAt = Null /\ DefaultsOf(o).discountEndsAt = Null
      BY <3>1 DEF FieldsOf, SaleFields, Default
    <3>3. ASSUME o \in Venues PROVE HireRules(DefaultsOf(o))
      <4>1. /\ DefaultsOf(o).openingHour = 8 /\ DefaultsOf(o).closingHour = 22
            /\ DefaultsOf(o).minHours = 1 /\ DefaultsOf(o).maxHours = 12
        BY <3>1, <3>3 DEF FieldsOf, HireFields, Default
      <4>. QED
        BY <4>1, NullAssumption DEF HireRules, Number
    <3>. QED
      BY <3>2, <3>3 DEF RulesHold, isValidDiscountWindow
  <2>. QED
    BY <1>1, <2>2, <2>3, <2>4, InitInv DEF RulesHoldUnlessRaced, Stocked
<1>2. Inv /\ UniqueNames /\ RulesHoldUnlessRaced /\ [Next]_vars
        => (Inv /\ UniqueNames /\ RulesHoldUnlessRaced)'
  BY NextInv, NamesStay, RulesStay
<1>. QED
  BY <1>1, <1>2, PTL DEF Spec

\* Every reachable state of the catalogue and the requests that edit it is typed.
THEOREM TypeCorrect == Spec => []TypeOK
<1>1. Inv => TypeOK
  BY DEF Inv
<1>. QED
  BY <1>1, Invariance, PTL

\* No two rooms and no two venues ever have one name, however many requests have found
\* it free together, given the unique index.
THEOREM NamesUnique == Spec => []UniqueNames
BY Invariance, PTL

\* The rules that relate fields hold for what is stored, whatever is sent and in whichever
\* order names and rules are checked, unless an update was overtaken after its check.
THEOREM RulesHeld == Spec => []RulesHoldUnlessRaced
BY Invariance, PTL

\* A write leaves alone what its body does not name.
THEOREM NothingLost == Spec => NoLostUpdate
<1>. DEFINE Kept == \A o \in Stocked :
       item'[o] # item[o] =>
         \E q \in Requests :
           /\ step[q] = "writing" /\ task[q].offer = o
           /\ task[q].body.name = Unsent => item'[o].name = item[o].name
           /\ task[q].body.isActive = Unsent => item'[o].isActive = item[o].isActive
           /\ \A f \in FieldsOf(o) \ DOMAIN task[q].body.fields :
                item'[o].fields[f] = item[o].fields[f]
<1>1. ASSUME Inv, [Next]_vars PROVE [Kept]_vars
  <2>. SUFFICES ASSUME NEW o \in Stocked, item'[o] # item[o]
                PROVE  \E q \in Requests :
                         /\ step[q] = "writing" /\ task[q].offer = o
                         /\ task[q].body.name = Unsent => item'[o].name = item[o].name
                         /\ task[q].body.isActive = Unsent => item'[o].isActive = item[o].isActive
                         /\ \A f \in FieldsOf(o) \ DOMAIN task[q].body.fields :
                              item'[o].fields[f] = item[o].fields[f]
    OBVIOUS
  <2>1. PICK q \in Requests : Write(q)
    BY <1>1, OnlyWrites
  <2>2. step[q] = "writing" /\ task[q].offer = o /\ item'[o] = Stored(q)
    BY <1>1, <2>1, WriteStores DEF Stocked
  <2>3. task[q].op # "create"
    BY <1>1, <2>2 DEF Inv, Served, Busy, Stocked
  <2>4. item'[o] = Patched(item[o], task[q].body)
    BY <2>2, <2>3 DEF Stored
  <2>5. item[o].fields \in [FieldsOf(o) -> Value]
    BY <1>1 DEF Inv, TypeOK, Stocked, Document
  <2>6. \A f \in FieldsOf(o) \ DOMAIN task[q].body.fields :
          item'[o].fields[f] = item[o].fields[f]
    BY <2>4, <2>5 DEF Patched, Merge
  <2>. QED
    BY <2>2, <2>4, <2>6 DEF Patched, Put
<1>. QED
  BY <1>1, Invariance, PTL DEF Spec, NoLostUpdate

-----------------------------------------------------------------------------
(* Prices.  The provers have no induction over data; a least               *)
(* counterexample stands for it: the set of the n for which a loop is      *)
(* right after n turns is shown to be all of 0..bound.                     *)

\* A set of numbers that is not empty has a least one.
LEMMA LeastNatural ==
  ASSUME NEW S \in SUBSET Nat, S # {}
  PROVE  \E least \in S : \A n \in S : least <= n
<1>. DEFINE R == OpToRel(<, Nat)
<1>1. R = {ss \in Nat \X Nat : ss[1] < ss[2]}
  BY DEF OpToRel
<1>2. IsWellFoundedOn(R, Nat)
  BY NatLessThanWellFounded
<1>. HIDE DEF R
<1>3. PICK x \in S : \A y \in S : ~(<<y, x>> \in R)
  BY <1>2, WFMin
<1>4. \A y \in S : ~(y < x)
  BY <1>1, <1>3
<1>. QED
  BY <1>4

\* Induction up to a bound, over the set of the numbers a fact holds for.
LEMMA Induction ==
  ASSUME NEW bound \in Nat, NEW S \in SUBSET (0..bound), 0 \in S,
         \A n \in S : n < bound => n + 1 \in S
  PROVE  S = 0..bound
<1>. SUFFICES ASSUME S # 0..bound PROVE FALSE
  OBVIOUS
<1>. DEFINE Rest == (0..bound) \ S
<1>1. PICK least \in Rest : \A n \in Rest : least <= n
  <2>1. \E n \in 0..bound : n \notin S
    OBVIOUS
  <2>2. Rest \in SUBSET Nat /\ Rest # {}
    BY <2>1
  <2>. HIDE DEF Rest
  <2>. QED
    BY <2>2, LeastNatural
<1>2. least - 1 \in 0..bound /\ least - 1 \notin Rest
  BY <1>1
<1>. QED
  BY <1>2

\* A discount never raises a price, leaves something to pay up to 100 percent, and shows
\* as soon as it comes to more than half a cent.
LEMMA DiscountBounds ==
  ASSUME NEW cents \in Nat, NEW percent \in Nat
  PROVE  /\ applyDiscount(cents, percent) \in Int
         /\ applyDiscount(cents, percent) <= cents
         /\ percent <= 100 => applyDiscount(cents, percent) >= 0
         /\ applyDiscount(cents, percent) < cents <=> cents * percent > 50
<1>. DEFINE off == cents * percent
<1>1. off \in Nat
  OBVIOUS
<1>2. cents * (100 - percent) = 100 * cents - off
  OBVIOUS
<1>3. percent <= 100 => off <= 100 * cents
  <2>1. percent <= 100 => cents * (100 - percent) >= 0
    OBVIOUS
  <2>. QED
    BY <1>1, <1>2, <2>1
<1>4. applyDiscount(cents, percent) = (100 * cents - off + 50) \div 100
  BY <1>2 DEF applyDiscount
<1>. HIDE DEF off
<1>5. /\ (100 * cents - off + 50) \div 100 \in Int
      /\ (100 * cents - off + 50) \div 100 <= cents
      /\ off <= 100 * cents => (100 * cents - off + 50) \div 100 >= 0
      /\ (100 * cents - off + 50) \div 100 < cents <=> off > 50
  BY <1>1
<1>. QED
  BY <1>3, <1>4, <1>5 DEF off

\* One night more is one night more in the sale exactly if the sale is on that night.
LEMMA OneNightMore ==
  ASSUME NEW sale, NEW checkIn \in Nat, NEW n \in Nat,
         sale.discountStartsAt \in Value, sale.discountEndsAt \in Value
  PROVE  /\ NightsInSale(sale, checkIn, n) \in 0..n
         /\ NightsInSale(sale, checkIn, n + 1)
              = NightsInSale(sale, checkIn, n)
                  + IF isDiscountActiveOn(sale, checkIn + n) THEN 1 ELSE 0
<1>. DEFINE start == sale.discountStartsAt
            end == sale.discountEndsAt
<1>1. Null \notin Nat
  BY NullAssumption
<1>2. CASE ~HasPercent(sale)
  BY <1>2 DEF NightsInSale, isDiscountActiveOn
<1>3. CASE HasPercent(sale)
  <2>1. CASE start = Null /\ end = Null
    BY <1>1, <1>3, <2>1 DEF NightsInSale, isDiscountActiveOn
  <2>2. CASE start \in Nat /\ end = Null
    BY <1>1, <1>3, <2>2 DEF NightsInSale, isDiscountActiveOn
  <2>3. CASE start = Null /\ end \in Nat
    BY <1>1, <1>3, <2>3 DEF NightsInSale, isDiscountActiveOn
  <2>4. CASE start \in Nat /\ end \in Nat
    BY <1>1, <1>3, <2>4 DEF NightsInSale, isDiscountActiveOn
  <2>. QED
    BY <2>1, <2>2, <2>3, <2>4 DEF Value
<1>. QED
  BY <1>2, <1>3

\* What n nights come to, k of them in a sale.
Sum(cents, reduced, n, k) == (n - k) * cents + k * reduced

LEMMA SumStep ==
  ASSUME NEW cents \in Int, NEW reduced \in Int, NEW n \in Nat, NEW k \in 0..n
  PROVE  /\ Sum(cents, reduced, n, k) \in Int
         /\ Sum(cents, reduced, n + 1, k) = Sum(cents, reduced, n, k) + cents
         /\ Sum(cents, reduced, n + 1, k + 1) = Sum(cents, reduced, n, k) + reduced
<1>1. ((n + 1) - k) * cents = (n - k) * cents + cents
  OBVIOUS
<1>2. (k + 1) * reduced = k * reduced + reduced
  OBVIOUS
<1>3. (n + 1) - (k + 1) = n - k
  OBVIOUS
<1>4. (n - k) * cents \in Int /\ k * reduced \in Int
  OBVIOUS
<1>. QED
  BY <1>1, <1>2, <1>3, <1>4 DEF Sum

\* The price of a night in a sale; without a percentage there is none.
Reduced(cents, sale) ==
  IF HasPercent(sale) THEN applyDiscount(cents, sale.discountPercent) ELSE cents

\* What the loop of priceNights has summed up after each night.
Priced(cents, sale, checkIn, nights) ==
  [n \in 0..nights |->
     Sum(cents, Reduced(cents, sale), n, NightsInSale(sale, checkIn, n))]

\* One turn of the loop.
Turn(cents, sale, checkIn, nights, total) ==
  [n \in 0..nights |->
     IF n = 0 THEN 0 ELSE total[n - 1] + priceOn(cents, sale, checkIn + (n - 1))]

\* The loop of priceNights comes to the closed form.
LEMMA PriceOfStay ==
  ASSUME NEW sale, NEW cents \in Nat, NEW checkIn \in Nat, NEW nights \in Nat,
         sale.discountPercent \in Value,
         sale.discountStartsAt \in Value, sale.discountEndsAt \in Value
  PROVE  priceNights(cents, sale, checkIn, nights)
           = Sum(cents, Reduced(cents, sale), nights, NightsInSale(sale, checkIn, nights))
<1>. DEFINE reduced == Reduced(cents, sale)
            k(n) == NightsInSale(sale, checkIn, n)
            closed == Priced(cents, sale, checkIn, nights)
            total == CHOOSE t : t = Turn(cents, sale, checkIn, nights, t)
<1>1. reduced \in Int
  <2>1. HasPercent(sale) => sale.discountPercent \in Nat
    BY DEF HasPercent, Value
  <2>. QED
    BY <2>1, DiscountBounds DEF Reduced
<1>2. \A day : priceOn(cents, sale, day)
                 = IF isDiscountActiveOn(sale, day) THEN reduced ELSE cents
  BY DEF priceOn, isDiscountActiveOn, Reduced
<1>3. k(0) = 0 /\ \A n \in 0..nights : k(n) \in 0..n
  <2>1. ASSUME NEW n \in Nat PROVE k(n) \in 0..n
    BY OneNightMore
  <2>. QED
    BY <2>1
<1>4. ASSUME NEW n \in 0..nights, n # 0
      PROVE  closed[n] = closed[n - 1] + priceOn(cents, sale, checkIn + (n - 1))
  <2>. DEFINE m == n - 1
  <2>1. m \in Nat /\ n = m + 1 /\ m \in 0..nights
    BY <1>4
  <2>2. /\ k(m) \in 0..m
        /\ k(m + 1) = k(m) + IF isDiscountActiveOn(sale, checkIn + m) THEN 1 ELSE 0
    BY <2>1, OneNightMore
  <2>3. closed[m] = Sum(cents, reduced, m, k(m)) /\ closed[n] = Sum(cents, reduced, m + 1, k(m + 1))
    BY <2>1 DEF Priced
  <2>4. CASE isDiscountActiveOn(sale, checkIn + m)
    <3>1. k(m + 1) = k(m) + 1
      BY <2>2, <2>4
    <3>2. Sum(cents, reduced, m + 1, k(m) + 1) = Sum(cents, reduced, m, k(m)) + reduced
      BY <1>1, <2>1, <2>2, SumStep
    <3>. QED
      BY <1>2, <2>3, <2>4, <3>1, <3>2
  <2>5. CASE ~isDiscountActiveOn(sale, checkIn + m)
    <3>1. k(m + 1) = k(m)
      BY <2>2, <2>5
    <3>2. Sum(cents, reduced, m + 1, k(m)) = Sum(cents, reduced, m, k(m)) + cents
      BY <1>1, <2>1, <2>2, SumStep
    <3>. QED
      BY <1>2, <2>3, <2>5, <3>1, <3>2
  <2>. QED
    BY <2>4, <2>5
<1>5. closed[0] = 0
  BY <1>1, <1>3 DEF Priced, Sum
<1>6. closed = Turn(cents, sale, checkIn, nights, closed)
  <2>1. \A n \in 0..nights :
          closed[n] = IF n = 0 THEN 0
                      ELSE closed[n - 1] + priceOn(cents, sale, checkIn + (n - 1))
    BY <1>4, <1>5
  <2>2. closed = [n \in 0..nights |-> closed[n]]
    BY DEF Priced
  <2>. HIDE DEF closed
  <2>. QED
    BY <2>1, <2>2 DEF Turn
<1>7. total = Turn(cents, sale, checkIn, nights, total)
  BY <1>6
<1>8. priceNights(cents, sale, checkIn, nights) = total[nights]
  BY DEF priceNights, Turn
<1>. HIDE DEF total, closed
<1>9. total[0] = 0 /\ \A n \in 0..nights :
        n # 0 => total[n] = total[n - 1] + priceOn(cents, sale, checkIn + (n - 1))
  BY <1>7 DEF Turn
<1>. DEFINE Agree == {n \in 0..nights : total[n] = closed[n]}
<1>10. Agree = 0..nights
  <2>1. 0 \in Agree
    BY <1>5, <1>9
  <2>2. ASSUME NEW n \in Agree, n < nights PROVE n + 1 \in Agree
    <3>1. n + 1 \in 0..nights /\ n + 1 # 0 /\ (n + 1) - 1 = n
      BY <2>2
    <3>. QED
      BY <1>4, <1>9, <2>2, <3>1
  <2>3. Agree \in SUBSET (0..nights)
    OBVIOUS
  <2>. HIDE DEF Agree
  <2>. QED
    BY <2>1, <2>2, <2>3, Induction
<1>11. total[nights] = closed[nights]
  BY <1>10
<1>. QED
  BY <1>8, <1>11 DEF closed, Priced
-----------------------------------------------------------------------------
(* The sales that are stored.                                              *)

\* What is stored, and what is being written, names days that occur.
BoundsOccur ==
  /\ \A o \in Stocked : OnDays(item[o].fields)
  /\ \A q \in Requests : step[q] \in Busy => OnDays(task[q].body.fields)

\* What a body makes of stored fields names days that occur, if both do.
LEMMA MergeOnDays ==
  ASSUME NEW o \in Offers, NEW stored \in [FieldsOf(o) -> Value], NEW sent,
         OnDays(stored), OnDays(sent)
  PROVE  OnDays(Merge(stored, sent))
BY DEF OnDays, Merge

\* Steps keep to the days that occur.
LEMMA BoundsStay == Inv /\ BoundsOccur /\ [Next]_vars => BoundsOccur'
<1>. SUFFICES ASSUME Inv, BoundsOccur, [Next]_vars PROVE BoundsOccur'
  OBVIOUS
<1>1. \A o \in Offers : OnDays(DefaultsOf(o)) /\ OnDays(Removal.fields)
  BY DEF OnDays, DefaultsOf, Default, Removal, Bounds
<1>2. ASSUME NEW q \in Requests, Refuse(q), UNCHANGED item
      PROVE  BoundsOccur'
  BY <1>2 DEF Refuse, BoundsOccur, Stocked, Inv, TypeOK, Busy
<1>3. ASSUME NEW q \in Requests, NEW next \in Busy, Goto(q, next), step[q] \in Busy, UNCHANGED item
      PROVE  BoundsOccur'
  BY <1>3 DEF Goto, BoundsOccur, Stocked, Inv, TypeOK
<1>4. ASSUME NEW q \in Requests, Arrive(q) PROVE BoundsOccur'
  <2>1. CASE Refuse(q)
    BY <1>2, <1>4, <2>1 DEF Arrive
  <2>2. CASE ~Refuse(q)
    <3>1. PICK o \in Offers, op \in {"create", "update", "remove"} :
            \E body \in IF op = "remove" THEN {Removal}
                         ELSE IF op = "create" THEN CreateBodies(o) ELSE PatchBodies(o) :
              task' = [task EXCEPT ![q] = [op |-> op, offer |-> o, body |-> body]]
      BY <1>4, <2>2 DEF Arrive
    <3>2. PICK body \in IF op = "remove" THEN {Removal}
                         ELSE IF op = "create" THEN CreateBodies(o) ELSE PatchBodies(o) :
              task' = [task EXCEPT ![q] = [op |-> op, offer |-> o, body |-> body]]
      BY <3>1
    <3>3. OnDays(body.fields)
      BY <1>1, PricesAssumption
    <3>4. task'[q].body = body /\ \A p \in Requests \ {q} : task'[p] = task[p]
      BY <3>2 DEF Inv
    <3>5. \A p \in Requests \ {q} : step'[p] = step[p]
      BY <1>4, <2>2 DEF Arrive, Inv, TypeOK
    <3>6. UNCHANGED item
      BY <1>4 DEF Arrive
    <3>. QED
      BY <3>3, <3>4, <3>5, <3>6 DEF BoundsOccur, Stocked
  <2>. QED
    BY <2>1, <2>2
<1>5. ASSUME NEW q \in Requests, CheckName(q) PROVE BoundsOccur'
  <2>1. AfterNaming(task[q]) \in Busy /\ step[q] \in Busy
    BY <1>5 DEF CheckName, AfterNaming, Busy
  <2>. QED
    BY <1>2, <1>3, <1>5, <2>1 DEF CheckName
<1>6. ASSUME NEW q \in Requests, CheckRules(q) PROVE BoundsOccur'
  <2>1. AfterReading(task[q]) \in Busy /\ step[q] \in Busy
    BY <1>6 DEF CheckRules, AfterReading, Busy
  <2>. QED
    BY <1>2, <1>3, <1>6, <2>1 DEF CheckRules
<1>7. ASSUME NEW q \in Requests, Write(q) PROVE BoundsOccur'
  <2>1. CASE Refuse(q) /\ UNCHANGED <<item, raced>>
    BY <1>2, <2>1
  <2>2. CASE ~(Refuse(q) /\ UNCHANGED <<item, raced>>)
    <3>. DEFINE o == task[q].offer
                body == task[q].body
    <3>1. /\ step[q] = "writing" /\ o \in Offers /\ item'[o] = Stored(q)
          /\ \A p \in Offers \ {o} : item'[p] = item[p]
          /\ step'[q] = "answered"
          /\ \A p \in Requests \ {q} : step'[p] = step[p] /\ task'[p] = task[p]
      BY <1>7, <2>2, WriteStores
    <3>2. step[q] \in Busy /\ IsBody(o, body) /\ OnDays(body.fields) /\ Served(q)
      BY <3>1 DEF BoundsOccur, Busy, Inv, TypeOK
    <3>3. CASE task[q].op = "create"
      <4>1. OnDays(Merge(DefaultsOf(o), body.fields))
        BY <1>1, <3>1, <3>2, DefaultsAreValues, MergeOnDays
      <4>. QED
        BY <3>1, <3>3, <4>1 DEF BoundsOccur, Stocked, Stored, Busy
    <3>4. CASE task[q].op # "create"
      <4>1. /\ o \in Stocked /\ OnDays(item[o].fields)
            /\ item[o].fields \in [FieldsOf(o) -> Value]
        BY <3>1, <3>2, <3>4 DEF Served, Stocked, BoundsOccur, Inv, TypeOK, Document
      <4>2. OnDays(Merge(item[o].fields, body.fields))
        BY <3>1, <3>2, <4>1, MergeOnDays
      <4>. QED
        BY <3>1, <3>4, <4>2 DEF BoundsOccur, Stocked, Stored, Patched, Busy
    <3>. QED
      BY <3>3, <3>4
  <2>. QED
    BY <2>1, <2>2
<1>8. ASSUME NEW q \in Requests, Fail(q) PROVE BoundsOccur'
  BY <1>2, <1>8 DEF Fail
<1>9. CASE UNCHANGED vars
  BY <1>9 DEF vars, BoundsOccur, Stocked
<1>. QED
  BY <1>4, <1>5, <1>6, <1>7, <1>8, <1>9 DEF Next

\* The sale of a document has the values of its fields.
LEMMA SaleTyped ==
  ASSUME TypeOK, NEW o \in Stocked
  PROVE  /\ Sale(o).discountPercent \in Value
         /\ Sale(o).discountStartsAt \in Value
         /\ Sale(o).discountEndsAt \in Value
BY DEF TypeOK, Stocked, Sale, Document, FieldsOf, SaleFields

\* A sale whose bounds are in order has a day that occurs.
LEMMA SaleHasDay ==
  ASSUME NEW sale, HasPercent(sale),
         isValidDiscountWindow(sale.discountStartsAt, sale.discountEndsAt),
         sale.discountStartsAt \in Days \cup {Null}, sale.discountEndsAt \in Days \cup {Null}
  PROVE  \E day \in Days : isDiscountActiveOn(sale, day)
<1>1. Days \subseteq Nat /\ Days # {} /\ Null \notin Nat
  BY PricesAssumption, NullAssumption
<1>2. /\ sale.discountStartsAt # Null => sale.discountStartsAt \in Nat
      /\ sale.discountEndsAt # Null => sale.discountEndsAt \in Nat
  BY <1>1
<1>3. CASE sale.discountStartsAt # Null
  <2>1. isDiscountActiveOn(sale, sale.discountStartsAt)
    BY <1>1, <1>2, <1>3 DEF isDiscountActiveOn, isValidDiscountWindow
  <2>. QED
    BY <1>3, <2>1
<1>4. CASE sale.discountStartsAt = Null /\ sale.discountEndsAt # Null
  <2>1. isDiscountActiveOn(sale, sale.discountEndsAt)
    BY <1>1, <1>2, <1>4 DEF isDiscountActiveOn
  <2>. QED
    BY <1>4, <2>1
<1>5. CASE sale.discountStartsAt = Null /\ sale.discountEndsAt = Null
  BY <1>1, <1>5 DEF isDiscountActiveOn
<1>. QED
  BY <1>3, <1>4, <1>5

\* In every state the bounds that are stored are days that occur.
LEMMA BoundsInvariance == Spec => []BoundsOccur
<1>1. Init => BoundsOccur
  BY DEF Init, BoundsOccur, Stocked, OnDays, DefaultsOf, Default, Bounds, Busy
<1>2. Inv /\ BoundsOccur /\ [Next]_vars => BoundsOccur'
  BY BoundsStay
<1>. QED
  BY <1>1, <1>2, Invariance, PTL DEF Spec

\* A sale that was checked and not raced has a day on which guests pay less, at every
\* price of which the discount is more than half a cent.
THEOREM SalesHaveTheirDay == Spec => []EverySaleHasItsDay
<1>1. ASSUME Inv, RulesHoldUnlessRaced, BoundsOccur PROVE EverySaleHasItsDay
  <2>. SUFFICES ASSUME NEW o \in Stocked \ raced, NEW cents \in Prices,
                       HasPercent(Sale(o)), cents * Sale(o).discountPercent > 50
                PROVE  \E day \in Days : priceOn(cents, Sale(o), day) < cents
    BY DEF EverySaleHasItsDay
  <2>. DEFINE sale == Sale(o)
              fields == item[o].fields
  <2>1. TypeOK /\ sale.discountPercent \in Nat
    BY <1>1, SaleTyped DEF Inv, HasPercent, Value
  <2>2. fields \in [FieldsOf(o) -> Value] /\ SaleFields \subseteq FieldsOf(o)
    BY <2>1 DEF TypeOK, Stocked, Document, FieldsOf
  <2>3. \A f \in Bounds : f \in FieldsOf(o) /\ fields[f] \in Days \cup {Null}
    BY <1>1, <2>2 DEF BoundsOccur, OnDays, Bounds, SaleFields
  <2>4. isValidDiscountWindow(fields.discountStartsAt, fields.discountEndsAt)
    <3>1. \A f \in Bounds : Checked(o, fields)[f] = fields[f]
      BY <2>2, <2>3 DEF Checked, Bounds, Default
    <3>2. RulesHold(o, fields) \/ RulesHold(o, Checked(o, fields))
      BY <1>1 DEF RulesHoldUnlessRaced
    <3>. QED
      BY <3>1, <3>2 DEF RulesHold, Bounds
  <2>5. PICK day \in Days : isDiscountActiveOn(sale, day)
    BY <2>1, <2>3, <2>4, SaleHasDay DEF Sale, Bounds
  <2>6. applyDiscount(cents, sale.discountPercent) < cents
    BY <2>1, DiscountBounds, PricesAssumption
  <2>. QED
    BY <2>5, <2>6 DEF priceOn
<1>. QED
  BY <1>1, Invariance, BoundsInvariance, PTL

\* The loop of priceNights charges the nights inside a sale at the price of the sale and
\* the others in full, for stays and sales of every length.
THEOREM StaysPricedByNight == Spec => []StayPricedByNight
<1>1. ASSUME TypeOK PROVE StayPricedByNight
  <2>. SUFFICES ASSUME NEW o \in Stocked, NEW cents \in Prices, NEW checkIn \in Days,
                       NEW nights \in 1..MaxNights
                PROVE  LET sale == Sale(o)
                           k == NightsInSale(sale, checkIn, nights)
                       IN priceNights(cents, sale, checkIn, nights)
                            = (nights - k) * cents
                                + IF k = 0 THEN 0 ELSE k * applyDiscount(cents, sale.discountPercent)
    BY DEF StayPricedByNight
  <2>. DEFINE sale == Sale(o)
              k == NightsInSale(sale, checkIn, nights)
  <2>1. cents \in Nat /\ checkIn \in Nat /\ nights \in Nat
    BY PricesAssumption
  <2>2. priceNights(cents, sale, checkIn, nights) = Sum(cents, Reduced(cents, sale), nights, k)
    BY <1>1, <2>1, SaleTyped, PriceOfStay
  <2>3. CASE HasPercent(sale)
    <3>1. applyDiscount(cents, sale.discountPercent) \in Int
      BY <1>1, <2>1, <2>3, SaleTyped, DiscountBounds DEF HasPercent, Value
    <3>. QED
      BY <2>2, <2>3, <3>1 DEF Sum, Reduced
  <2>4. CASE ~HasPercent(sale)
    <3>1. k = 0
      BY <2>4 DEF NightsInSale
    <3>. QED
      BY <2>1, <2>2, <2>4, <3>1 DEF Sum, Reduced
  <2>. QED
    BY <2>3, <2>4
<1>. QED
  BY <1>1, TypeCorrect, PTL

\* A sale never makes a stay dearer: whatever is stored, a stay costs at most its nights
\* at the full price.
THEOREM StaysNeverDearer ==
  Spec => [](\A o \in Stocked, cents \in Prices, checkIn \in Days, nights \in 1..MaxNights :
               priceNights(cents, Sale(o), checkIn, nights) <= nights * cents)
<1>1. TypeOK =>
        \A o \in Stocked, cents \in Prices, checkIn \in Days, nights \in 1..MaxNights :
          priceNights(cents, Sale(o), checkIn, nights) <= nights * cents
  <2>. SUFFICES ASSUME TypeOK, NEW o \in Stocked, NEW cents \in Prices, NEW checkIn \in Days,
                       NEW nights \in 1..MaxNights
                PROVE  priceNights(cents, Sale(o), checkIn, nights) <= nights * cents
    OBVIOUS
  <2>. DEFINE sale == Sale(o)
              k == NightsInSale(sale, checkIn, nights)
              reduced == Reduced(cents, sale)
  <2>1. cents \in Nat /\ checkIn \in Nat /\ nights \in Nat
    BY PricesAssumption
  <2>2. priceNights(cents, sale, checkIn, nights) = Sum(cents, reduced, nights, k)
    BY <2>1, SaleTyped, PriceOfStay
  <2>3. reduced \in Int /\ reduced <= cents
    BY <2>1, SaleTyped, DiscountBounds DEF Reduced, HasPercent, Value
  <2>4. k \in 0..nights
    BY <2>1, SaleTyped, OneNightMore
  <2>. HIDE DEF sale, k, reduced
  <2>5. k * reduced <= k * cents
    BY <2>1, <2>3, <2>4
  <2>6. (nights - k) * cents + k * cents = nights * cents
    BY <2>1, <2>4
  <2>7. /\ k * reduced \in Int /\ k * cents \in Int
        /\ nights * cents \in Int /\ (nights - k) * cents \in Int
    BY <2>1, <2>3, <2>4
  <2>8. (nights - k) * cents + k * reduced <= nights * cents
    BY <2>5, <2>6, <2>7
  <2>. QED
    BY <2>2, <2>8 DEF Sum, sale, k
<1>. QED
  BY <1>1, TypeCorrect, PTL
=============================================================================
