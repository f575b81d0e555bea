--------------------------- MODULE SiteContentProofs ---------------------------
(***************************************************************************)
(* What is proved about SiteContent: types, photos and the location.       *)
(***************************************************************************)
EXTENDS SiteContent, TLAPS

\* A write belongs to a batch that was accepted, and so does a file.
WritesAccepted ==
  \A n \in Names :
    n \in writing \/ disk[n] # "absent" =>
      /\ batch[n[1]] # "idle"
      /\ \A i \in DOMAIN files[n[1]] : IsImage(files[n[1]][i])

\* While a batch is being written each of its files is whole or on its way; a batch
\* that is idle or about to be written has none.
WritesUnderWay ==
  \A b \in Batches :
    /\ batch[b] = "idle" => files[b] = <<>>
    /\ batch[b] \in {"making", "writing"} => \A i \in DOMAIN files[b] : IsImage(files[b][i])
    /\ batch[b] = "writing" => \A n \in NamesOf(b) : n \in writing \/ disk[n] = "whole"

PhotoInv == UploadsTypeOK /\ WritesAccepted /\ WritesUnderWay /\ UrlsNameWholeFiles

\* The location there is comes from a request that has been answered.
PlaceInv ==
  /\ LocationTypeOK /\ OneLocation /\ WholeOfOnePut
  /\ Set # {} => putting[lastPut] = "answered"

-----------------------------------------------------------------------------
(* Photos.                                                                 *)

\* The files of a batch have names of their own.
LEMMA NamesAreNames ==
  ASSUME UploadsTypeOK, NEW b \in Batches
  PROVE  NamesOf(b) \subseteq Names
<1>1. files[b] \in Sendable
  BY DEF UploadsTypeOK
<1>2. PICK n \in 0..MaxFiles : files[b] \in [1..n -> Content]
  BY <1>1 DEF Sendable
<1>. QED
  BY <1>2, MaxFilesAssumption DEF NamesOf, Names

\* The initial states satisfy the invariant of uploads.
LEMMA PhotosStart == UploadsInit => PhotoInv
<1>. SUFFICES ASSUME UploadsInit PROVE PhotoInv
  OBVIOUS
<1>1. <<>> \in Sendable
  <2>1. <<>> \in [1..0 -> Content]
    OBVIOUS
  <2>. QED
    BY <2>1, MaxFilesAssumption DEF Sendable
<1>2. UploadsTypeOK
  BY <1>1 DEF UploadsInit, UploadsTypeOK
<1>3. Answered = {}
  BY DEF UploadsInit, Answered
<1>. QED
  BY <1>2, <1>3 DEF UploadsInit, PhotoInv, WritesAccepted, WritesUnderWay, UrlsNameWholeFiles

\* Every step of uploads keeps it.
LEMMA PhotoStep == PhotoInv /\ [UploadsNext]_uploadVars => PhotoInv'
<1>. SUFFICES ASSUME PhotoInv, [UploadsNext]_uploadVars PROVE PhotoInv'
  OBVIOUS
<1>. USE DEF PhotoInv
<1>1. CASE UNCHANGED uploadVars
  BY <1>1 DEF uploadVars, UploadsTypeOK, WritesAccepted, WritesUnderWay, UrlsNameWholeFiles,
              NamesOf, Answered
<1>2. ASSUME NEW b \in Batches, Upload(b) PROVE PhotoInv'
  <2>1. PICK contents \in Sendable :
          /\ files' = [files EXCEPT ![b] = contents]
          /\ batch' = [batch EXCEPT ![b] = IF Accepts(contents) THEN "making" ELSE "refused"]
    BY <1>2 DEF Upload
  <2>2. UNCHANGED <<disk, writing, images>> /\ batch[b] = "idle"
    BY <1>2 DEF Upload
  <2>3. UploadsTypeOK'
    BY <2>1, <2>2 DEF UploadsTypeOK
  <2>4. WritesAccepted'
    BY <2>1, <2>2 DEF WritesAccepted, UploadsTypeOK, Names
  <2>5. WritesUnderWay'
    BY <2>1, <2>2 DEF WritesUnderWay, UploadsTypeOK, Accepts, NamesOf
  <2>6. Answered' = Answered
    BY <2>1, <2>2 DEF Answered, NamesOf, UploadsTypeOK
  <2>. QED
    BY <2>2, <2>3, <2>4, <2>5, <2>6 DEF UrlsNameWholeFiles
<1>3. ASSUME NEW b \in Batches, MakeDirectory(b) PROVE PhotoInv'
  <2>1. UNCHANGED <<files, disk, images>> /\ batch[b] = "making"
    BY <1>3 DEF MakeDirectory
  <2>2. /\ batch' = [batch EXCEPT ![b] = batch'[b]] /\ batch'[b] \in {"writing", "refused"}
        /\ writing \subseteq writing' /\ writing' \subseteq writing \cup NamesOf(b)
        /\ batch'[b] = "writing" => NamesOf(b) \subseteq writing'
    BY <1>3 DEF MakeDirectory, UploadsTypeOK
  <2>3. UploadsTypeOK'
    BY <2>1, <2>2, NamesAreNames DEF UploadsTypeOK
  <2>4. WritesAccepted'
    <3>1. \A n \in NamesOf(b) : n[1] = b
      BY DEF NamesOf
    <3>. QED
      BY <2>1, <2>2, <3>1 DEF WritesAccepted, WritesUnderWay, UploadsTypeOK, Names
  <2>5. WritesUnderWay'
    BY <2>1, <2>2 DEF WritesUnderWay, UploadsTypeOK, NamesOf
  <2>6. Answered' = Answered
    BY <2>1, <2>2 DEF Answered, NamesOf, UploadsTypeOK
  <2>. QED
    BY <2>1, <2>3, <2>4, <2>5, <2>6 DEF UrlsNameWholeFiles
<1>4. ASSUME NEW b \in Batches, AnswerUrls(b) PROVE PhotoInv'
  <2>1. UNCHANGED <<files, disk, writing, images>> /\ batch[b] = "writing"
        /\ batch' = [batch EXCEPT ![b] = "answered"] /\ NamesOf(b) \cap writing = {}
    BY <1>4 DEF AnswerUrls, Settled
  <2>2. UploadsTypeOK'
    BY <2>1 DEF UploadsTypeOK
  <2>3. WritesAccepted'
    BY <2>1 DEF WritesAccepted, UploadsTypeOK, Names
  <2>4. WritesUnderWay'
    BY <2>1 DEF WritesUnderWay, UploadsTypeOK, NamesOf
  <2>5. \A n \in NamesOf(b) : disk[n] = "whole"
    BY <2>1 DEF WritesUnderWay
  <2>6. Answered' \subseteq Answered \cup NamesOf(b)
    BY <2>1 DEF Answered, NamesOf, UploadsTypeOK
  <2>. QED
    BY <2>1, <2>2, <2>3, <2>4, <2>5, <2>6 DEF UrlsNameWholeFiles
<1>5. ASSUME NEW n \in Names, Write(n) PROVE PhotoInv'
  <2>1. UNCHANGED <<batch, files, images>> /\ n \in writing /\ disk[n] # "whole"
    BY <1>5 DEF Write
  <2>2. /\ disk' = [disk EXCEPT ![n] = disk'[n]] /\ disk'[n] \in {"part", "whole"}
        /\ writing' \subseteq writing
        /\ writing \subseteq writing' \cup {n}
        /\ n \in writing' \/ disk'[n] = "whole"
    BY <1>5 DEF Write, UploadsTypeOK
  <2>3. UploadsTypeOK'
    BY <2>1, <2>2 DEF UploadsTypeOK
  <2>4. WritesAccepted'
    BY <2>1, <2>2 DEF WritesAccepted, UploadsTypeOK
  <2>5. \A m \in Names : disk[m] = "whole" => disk'[m] = "whole"
    BY <2>1, <2>2 DEF UploadsTypeOK
  <2>6. WritesUnderWay'
    BY <2>1, <2>2, <2>5, NamesAreNames DEF WritesUnderWay, UploadsTypeOK, NamesOf
  <2>7. Answered' = Answered /\ Answered \subseteq Names
    BY <2>1, NamesAreNames DEF Answered, NamesOf
  <2>. QED
    BY <2>1, <2>3, <2>4, <2>5, <2>6, <2>7 DEF UrlsNameWholeFiles, UploadsTypeOK
<1>6. ASSUME NEW n \in Names, FailWrite(n) PROVE PhotoInv'
  <2>1. UNCHANGED <<files, disk, images>> /\ n \in writing /\ writing' = writing \ {n}
        /\ batch' = [batch EXCEPT ![n[1]] = "refused"] /\ n[1] \in Batches
    BY <1>6 DEF FailWrite, Names
  <2>2. UploadsTypeOK'
    BY <2>1 DEF UploadsTypeOK
  <2>3. WritesAccepted'
    BY <2>1 DEF WritesAccepted, UploadsTypeOK, Names
  <2>4. WritesUnderWay'
    <3>1. \A b \in Batches : b # n[1] => n \notin NamesOf(b)
      BY DEF NamesOf
    <3>. QED
      BY <2>1, <3>1 DEF WritesUnderWay, UploadsTypeOK, NamesOf
  <2>5. Answered' \subseteq Answered
    BY <2>1 DEF Answered, NamesOf, UploadsTypeOK
  <2>. QED
    BY <2>1, <2>2, <2>3, <2>4, <2>5 DEF UrlsNameWholeFiles
<1>7. ASSUME NEW l \in Listings, SetImages(l) PROVE PhotoInv'
  <2>1. PICK urls \in SUBSET Answered : images' = [images EXCEPT ![l] = urls]
    BY <1>7 DEF SetImages
  <2>2. UNCHANGED <<batch, files, disk, writing>>
    BY <1>7 DEF SetImages
  <2>3. Answered \subseteq Names
    BY NamesAreNames DEF Answered
  <2>. QED
    BY <2>1, <2>2, <2>3 DEF UploadsTypeOK, WritesAccepted, WritesUnderWay, UrlsNameWholeFiles,
                          NamesOf, Answered
<1>8. CASE Crash
  <2>1. UNCHANGED <<files, disk, images>> /\ writing' = {}
        /\ batch' = [b \in Batches |->
                       IF batch[b] \in {"making", "writing"} THEN "refused" ELSE batch[b]]
    BY <1>8 DEF Crash
  <2>2. UploadsTypeOK'
    BY <2>1 DEF UploadsTypeOK
  <2>3. WritesAccepted'
    BY <2>1 DEF WritesAccepted, UploadsTypeOK, Names
  <2>4. WritesUnderWay'
    BY <2>1 DEF WritesUnderWay, UploadsTypeOK, NamesOf
  <2>5. Answered' = Answered
    <3>1. \A b \in Batches : batch'[b] = "answered" <=> batch[b] = "answered"
      BY <2>1 DEF UploadsTypeOK
    <3>2. \A b \in Batches : NamesOf(b)' = NamesOf(b)
      BY <2>1 DEF NamesOf
    <3>. QED
      BY <3>1, <3>2 DEF Answered
  <2>. QED
    BY <2>1, <2>2, <2>3, <2>4, <2>5 DEF UrlsNameWholeFiles
<1>. QED
  BY <1>1, <1>2, <1>3, <1>4, <1>5, <1>6, <1>7, <1>8 DEF UploadsNext

-----------------------------------------------------------------------------
(* The location.                                                           *)

\* A body with its defaults is a whole location.
LEMMA NormalisedIsPlace ==
  ASSUME NEW body, NEW stored
  PROVE  Normalised(body, stored) \in Place
BY BodiesAssumption DEF Normalised, Place

\* The initial states satisfy the invariant of the location.
LEMMA PlaceStarts == LocationInit => PlaceInv
BY DEF LocationInit, PlaceInv, LocationTypeOK, OneLocation, WholeOfOnePut, Set

\* Every step of a PUT keeps it.
LEMMA PlaceStep == PlaceInv /\ [LocationNext]_locationVars => PlaceInv'
<1>. SUFFICES ASSUME PlaceInv, [LocationNext]_locationVars PROVE PlaceInv'
  OBVIOUS
<1>. USE DEF PlaceInv
<1>1. CASE UNCHANGED locationVars
  BY <1>1 DEF locationVars, LocationTypeOK, OneLocation, WholeOfOnePut, Set
<1>2. ASSUME NEW p \in Puts, PutLocation(p) \/ FailPut(p) PROVE PlaceInv'
  <2>1. /\ UNCHANGED <<locations, lastPut>>
        /\ sent' = [sent EXCEPT ![p] = sent'[p]] /\ sent'[p] \in Bodies
        /\ putting[p] # "idle" => UNCHANGED sent
        /\ putting' = [putting EXCEPT ![p] = putting'[p]]
        /\ putting[p] \in {"idle", "matching", "inserting"}
        /\ putting'[p] \in {"matching", "refused"}
    BY <1>2 DEF PutLocation, FailPut, LocationTypeOK
  <2>2. LocationTypeOK'
    BY <2>1 DEF LocationTypeOK
  <2>3. Set' = Set
    BY <2>1 DEF Set
  <2>4. Set # {} => lastPut # p /\ sent'[lastPut] = sent[lastPut]
                    /\ putting'[lastPut] = putting[lastPut]
    <3>. SUFFICES ASSUME Set # {}
                  PROVE  lastPut # p /\ sent'[lastPut] = sent[lastPut]
                         /\ putting'[lastPut] = putting[lastPut]
      OBVIOUS
    <3>1. lastPut \in Puts /\ putting[lastPut] = "answered"
      BY DEF WholeOfOnePut
    <3>. QED
      BY <2>1, <3>1 DEF LocationTypeOK
  <2>5. WholeOfOnePut'
    BY <2>1, <2>3, <2>4 DEF WholeOfOnePut
  <2>. QED
    BY <2>1, <2>2, <2>3, <2>4, <2>5 DEF OneLocation
<1>3. ASSUME NEW p \in Puts,
             UNCHANGED <<sent, locations, lastPut>>,
             putting[p] \in {"matching", "inserting"},
             NEW next \in {"matching", "inserting", "refused"},
             putting' = [putting EXCEPT ![p] = next]
      PROVE  PlaceInv'
  <2>1. LocationTypeOK'
    BY <1>3 DEF LocationTypeOK
  <2>2. Set' = Set /\ (Set # {} => putting'[lastPut] = "answered")
    BY <1>3 DEF Set, LocationTypeOK
  <2>. QED
    BY <1>3, <2>1, <2>2 DEF OneLocation, WholeOfOnePut
<1>4. ASSUME NEW p \in Puts, NEW found \in Puts, NEW stored,
             putting[p] # "idle",
             Set \subseteq {found},
             locations' = [locations EXCEPT ![found] = Normalised(sent[p], stored)],
             lastPut' = p,
             putting' = [putting EXCEPT ![p] = "answered"],
             UNCHANGED sent
      PROVE  PlaceInv'
  <2>1. LocationTypeOK'
    BY <1>4, NormalisedIsPlace DEF LocationTypeOK
  <2>2. Set' \subseteq {found}
    BY <1>4 DEF Set, LocationTypeOK
  <2>3. locations'[found] = [f \in Fields |-> IF sent'[lastPut'][f] \in Values
                                             THEN sent'[lastPut'][f] ELSE Default]
    BY <1>4 DEF Normalised, LocationTypeOK
  <2>4. WholeOfOnePut'
    BY <1>4, <2>2, <2>3 DEF WholeOfOnePut
  <2>5. putting'[lastPut'] = "answered"
    BY <1>4 DEF LocationTypeOK
  <2>. QED
    BY <2>1, <2>2, <2>4, <2>5 DEF OneLocation
<1>5. ASSUME NEW p \in Puts, Match(p) PROVE PlaceInv'
  <2>1. CASE \E found \in Set :
               locations' = [locations EXCEPT ![found] = Normalised(sent[p], @)]
    <3>1. PICK found \in Set :
            locations' = [locations EXCEPT ![found] = Normalised(sent[p], locations[found])]
      BY <2>1
    <3>2. found \in Puts /\ Set \subseteq {found}
      BY DEF Set, OneLocation
    <3>3. CASE lastPut' = p /\ putting' = [putting EXCEPT ![p] = "answered"]
      BY <1>4, <1>5, <3>1, <3>2, <3>3 DEF Match
    <3>. QED
      BY <1>5, <3>1, <3>3, <1>3 DEF Match
  <2>2. CASE Set = {} /\ putting' = [putting EXCEPT ![p] = "inserting"]
             /\ UNCHANGED <<locations, lastPut>>
    BY <1>3, <1>5, <2>2 DEF Match
  <2>. QED
    BY <1>5, <2>1, <2>2 DEF Match
<1>6. ASSUME NEW p \in Puts, InsertLocation(p) PROVE PlaceInv'
  <2>1. CASE KeyIsFree
    BY <1>4, <1>6, <2>1 DEF InsertLocation, KeyIsFree
  <2>2. CASE ~KeyIsFree
    BY <1>3, <1>6, <2>2 DEF InsertLocation
  <2>. QED
    BY <2>1, <2>2
<1>. QED
  BY <1>1, <1>2, <1>5, <1>6 DEF LocationNext

-----------------------------------------------------------------------------
(* Both together.                                                          *)

\* Both hold in every reachable state.
LEMMA SiteInvariant == SiteSpec => [](PhotoInv /\ PlaceInv)
<1>1. SiteInit => PhotoInv /\ PlaceInv
  BY PhotosStart, PlaceStarts DEF SiteInit
<1>2. PhotoInv /\ PlaceInv /\ [SiteNext]_siteVars => (PhotoInv /\ PlaceInv)'
  BY PhotoStep, PlaceStep DEF SiteNext, siteVars
<1>. QED
  BY <1>1, <1>2, PTL DEF SiteSpec

\* The types of photos, files and the location.
THEOREM SiteTyped == SiteSpec => []SiteTypeOK
<1>1. PhotoInv /\ PlaceInv => SiteTypeOK
  BY DEF PhotoInv, PlaceInv, SiteTypeOK
<1>. QED
  BY <1>1, SiteInvariant, PTL

\* No URL is answered, or shown to guests, of a file that is not whole.
THEOREM PhotosAreWhole == SiteSpec => []UrlsNameWholeFiles
<1>1. PhotoInv => UrlsNameWholeFiles
  BY DEF PhotoInv
<1>. QED
  BY <1>1, SiteInvariant, PTL

\* A batch with one bad file leaves nothing on the disk.
THEOREM BadBatchLeavesNothing == SiteSpec => []BadBatchSavesNothing
<1>1. PhotoInv => BadBatchSavesNothing
  <2>. SUFFICES ASSUME PhotoInv, NEW b \in Batches, NEW i \in DOMAIN files[b],
                       ~IsImage(files[b][i]), NEW n \in NamesOf(b)
                PROVE  disk[n] = "absent" /\ n \notin writing
    BY DEF BadBatchSavesNothing
  <2>1. n \in Names /\ n[1] = b
    BY NamesAreNames DEF PhotoInv, NamesOf
  <2>. QED
    BY <2>1 DEF PhotoInv, WritesAccepted
<1>. QED
  BY <1>1, SiteInvariant, PTL

\* The collection never holds two locations.
THEOREM LocationIsUnique == SiteSpec => []OneLocation
<1>1. PlaceInv => OneLocation
  BY DEF PlaceInv
<1>. QED
  BY <1>1, SiteInvariant, PTL

\* The location is always the whole of the request that wrote last.
THEOREM LocationIsWhole == SiteSpec => []WholeOfOnePut
<1>1. PlaceInv => WholeOfOnePut
  BY DEF PlaceInv
<1>. QED
  BY <1>1, SiteInvariant, PTL
=============================================================================
