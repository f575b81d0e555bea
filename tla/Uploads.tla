-------------------------------- MODULE Uploads --------------------------------
(***************************************************************************)
(* Photos staff upload: UploadsService (src/uploads/uploads.service.ts).   *)
(* A batch is checked as a whole, the directory is made, and then all      *)
(* files are written at the same time.  The first write that fails answers *)
(* the request with an error, and the other writes of its batch go on.     *)
(*                                                                         *)
(* A file has a random name of its own: it goes by its batch and its place *)
(* in it.  The URL that is answered is that name; staff then send it back  *)
(* in the images of a room or a venue, which is what guests load.          *)
(***************************************************************************)
EXTENDS Naturals

CONSTANTS
  Batches,     \* requests to POST /uploads/images
  MaxFiles,    \* of one request
  Listings     \* rooms and venues, of which only the images matter here

ASSUME MaxFilesAssumption == MaxFiles \in Nat

Names == Batches \X (1..MaxFiles)

\* What the first bytes of a file say it is.
Content == {"image", "other"}
Sendable == UNION {[1..n -> Content] : n \in 0..MaxFiles}

VARIABLES
  batch,     \* where each request is
  files,     \* what was sent
  disk,      \* the names that are there, and what of the file
  writing,   \* the names whose writeFile is under way
  images     \* the URLs that each listing shows

uploadVars == <<batch, files, disk, writing, images>>

UploadsTypeOK ==
  /\ batch \in [Batches -> {"idle", "making", "writing", "refused", "answered"}]
  /\ files \in [Batches -> Sendable]
  /\ disk \in [Names -> {"absent", "part", "whole"}]
  /\ writing \subseteq Names
  /\ images \in [Listings -> SUBSET Names]

UploadsInit ==
  /\ batch = [b \in Batches |-> "idle"]
  /\ files = [b \in Batches |-> <<>>]
  /\ disk = [n \in Names |-> "absent"]
  /\ writing = {}
  /\ images = [l \in Listings |-> {}]

NamesOf(b) == {<<b, i>> : i \in DOMAIN files[b]}

\* What the service has answered as URLs.
Answered == UNION {NamesOf(b) : b \in {c \in Batches : batch[c] = "answered"}}

-----------------------------------------------------------------------------
(* Saving a batch.                                                         *)

\* detectImageType: the first bytes decide, not what the client says.
IsImage(content) == content = "image"

\* A slip in Accepts: the type is looked at when the file is written.
AcceptsAny(contents) == contents # <<>>

\* There is a file, and every one of them is an image.
Accepts(contents) ==
  /\ contents # <<>>
  /\ \A i \in DOMAIN contents : IsImage(contents[i])

Upload(b) ==
  /\ batch[b] = "idle"
  /\ \E contents \in Sendable :
       /\ files' = [files EXCEPT ![b] = contents]
       /\ batch' = [batch EXCEPT ![b] = IF Accepts(contents) THEN "making" ELSE "refused"]
  /\ UNCHANGED <<disk, writing, images>>

\* mkdir, and then every writeFile at once; or mkdir fails.
MakeDirectory(b) ==
  /\ batch[b] = "making"
  /\ \/ /\ batch' = [batch EXCEPT ![b] = "writing"]
        /\ writing' = writing \cup NamesOf(b)
     \/ /\ batch' = [batch EXCEPT ![b] = "refused"]
        /\ UNCHANGED writing
  /\ UNCHANGED <<files, disk, images>>

\* A slip in Settled: the first file that is written resolves the promise.
SettledByAny(b) == \E n \in NamesOf(b) : disk[n] = "whole"

\* Promise.all: every write has ended well.
Settled(b) == NamesOf(b) \cap writing = {}

\* The file is there before its bytes are.
Write(n) ==
  /\ n \in writing
  /\ \/ /\ disk[n] = "absent"
        /\ disk' = [disk EXCEPT ![n] = "part"]
        /\ UNCHANGED writing
     \/ /\ disk[n] = "part"
        /\ disk' = [disk EXCEPT ![n] = "whole"]
        /\ writing' = writing \ {n}
  /\ UNCHANGED <<batch, files, images>>

\* What was written stays; the other files of the batch go on.
FailWrite(n) ==
  /\ n \in writing
  /\ writing' = writing \ {n}
  /\ batch' = [batch EXCEPT ![n[1]] = "refused"]
  /\ UNCHANGED <<files, disk, images>>

AnswerUrls(b) ==
  /\ batch[b] = "writing"
  /\ Settled(b)
  /\ batch' = [batch EXCEPT ![b] = "answered"]
  /\ UNCHANGED <<files, disk, writing, images>>

\* The process dies: no request is answered and no write goes on.
Crash ==
  /\ \E b \in Batches : batch[b] \in {"making", "writing"} \/ NamesOf(b) \cap writing # {}
  /\ batch' = [b \in Batches |->
                 IF batch[b] \in {"making", "writing"} THEN "refused" ELSE batch[b]]
  /\ writing' = {}
  /\ UNCHANGED <<files, disk, images>>

-----------------------------------------------------------------------------
(* Showing the photos.                                                     *)

\* PATCH of a room or a venue: the images are those that are sent, of URLs staff have
\* been answered.  Images from elsewhere are left out.
SetImages(l) ==
  /\ \E urls \in SUBSET Answered : images' = [images EXCEPT ![l] = urls]
  /\ UNCHANGED <<batch, files, disk, writing>>

UploadsNext ==
  \/ \E b \in Batches : Upload(b) \/ MakeDirectory(b) \/ AnswerUrls(b)
  \/ \E n \in Names : Write(n) \/ FailWrite(n)
  \/ \E l \in Listings : SetImages(l)
  \/ Crash

-----------------------------------------------------------------------------
(* What uploads have to guarantee.                                         *)

\* Every URL that was answered is that of a whole file, and so is every image guests
\* are shown: also when other writes fail and after the process died.
UrlsNameWholeFiles ==
  /\ \A n \in Answered : disk[n] = "whole"
  /\ \A l \in Listings : \A n \in images[l] : disk[n] = "whole"

\* A batch with a bad file leaves nothing behind ("Every file is checked before any is
\* written, so a batch with one bad file saves nothing").
BadBatchSavesNothing ==
  \A b \in Batches :
    (\E i \in DOMAIN files[b] : ~IsImage(files[b][i])) =>
      \A n \in NamesOf(b) : disk[n] = "absent" /\ n \notin writing
=============================================================================
