----------------------------- MODULE PdfLibrary -----------------------------
(***************************************************************************)
(* The list of the user's PDFs as the browser knows it (use-pdfs.ts), the   *)
(* page that uploads, and the server behind both: what it shows of a PDF    *)
(* changes as PdfLifecycle says, which is what the processing pipeline is   *)
(* proved to implement (module PdfPipelineProofs).                          *)
(*                                                                          *)
(* The list is one entry of the query cache: at most one read of it is in   *)
(* flight, a read may be repeated once, and an invalidation cancels the     *)
(* read in flight, unless nothing was ever read, when it joins it.  A list  *)
(* is a function from PDFs to statuses, "none" for a PDF that is not in it. *)
(*                                                                          *)
(* A definition named Action_Word is Action with a plausible mistake; no    *)
(* specification uses it, it shows that a property notices the mistake.     *)
(***************************************************************************)
EXTENDS Pages, PdfLifecycle

CONSTANTS
  Owned,      \* PDFs that are there, and READY, from the start
  NoList,
  MaxLosses   \* bound: reads of the list, and uploads, that are lost

ASSUME OwnedAssumption == Owned \subseteq Pdfs
ASSUME NoListAssumption == NoList \notin [Pdfs -> Shown]
ASSUME LossesAssumption == MaxLosses \in Nat

VARIABLES
  list,         \* data of the query, NoList before the first
  invalidated,  \* isInvalidated of the query
  fetch,        \* the read in flight: whether there is one, what it got, whether it is the second try
  upload,       \* of every PDF: the upload's request
  dropzone,     \* uploadState of the dropzone
  watched,      \* uploads that were started since the page was mounted
  promised,     \* history: uploads that were answered while a list was shown
  losses        \* history: lost reads and uploads

cache   == <<list, invalidated, fetch>>
uploads == <<upload, dropzone, watched, promised>>
library == <<lvars, cache, uploads, losses>>

Lists         == [Pdfs -> Shown]
UploadStates  == {"idle", "uploading", "processing", "failed"}
UploadCalls   == {"none", "sent", "stored", "ok", "failed"}

NoFetch == [on |-> FALSE, got |-> NoList, again |-> FALSE]
Fresh   == [on |-> TRUE, got |-> NoList, again |-> FALSE]

LibraryInit ==
  /\ shown = [p \in Pdfs |-> IF p \in Owned THEN "ready" ELSE "none"]
  /\ text = [p \in Pdfs |-> IF p \in Owned THEN "full" ELSE "hidden"]
  /\ final = Owned
  /\ void = {}
  /\ list = NoList /\ invalidated = FALSE
  /\ fetch = IF at \in ListPages THEN Fresh ELSE NoFetch
  /\ upload = [p \in Pdfs |-> "none"]
  /\ dropzone = "idle"
  /\ watched = {} /\ promised = {}
  /\ losses = 0

Pending(statuses) == \E p \in Pdfs : statuses[p] \in {"uploaded", "processing"}
Listed(p) == list # NoList /\ list[p] # "none"
readyPdfs == {p \in Pdfs : list # NoList /\ list[p] = "ready"}

(* A job on a PDF goes on: an attempt begins or ends.  The jobs of new PDFs *)
(* are not closed here, so that a status may always change once more.       *)
Process(p) ==
  /\ Attempt(p) \/ Publish(p) \/ GiveUp(p)
  /\ UNCHANGED <<cache, uploads, losses>>

-----------------------------------------------------------------------------
(* Variant: a PDF that waits for its first attempt is not polled for. *)
refetchInterval_ProcessingOnly ==
  at \in ListPages /\ list # NoList /\ \E p \in Pdfs : list[p] = "processing"

(* Every five seconds while a PDF of the list is not settled.               *)
refetchInterval == at \in ListPages /\ list # NoList /\ Pending(list)

Poll ==
  /\ refetchInterval /\ ~fetch.on
  /\ fetch' = Fresh
  /\ UNCHANGED <<lvars, list, invalidated, uploads, losses>>

findAll ==
  /\ fetch.on /\ fetch.got = NoList
  /\ fetch' = [fetch EXCEPT !.got = shown]
  /\ UNCHANGED <<lvars, list, invalidated, uploads, losses>>

ListArrives ==
  /\ fetch.on /\ fetch.got # NoList
  /\ list' = fetch.got
  /\ invalidated' = FALSE
  /\ fetch' = NoFetch
  /\ UNCHANGED <<lvars, uploads, losses>>

(* retry: 1, while a page observes the list.                                *)
ListLost ==
  /\ fetch.on /\ losses < MaxLosses
  /\ losses' = losses + 1
  /\ fetch' = IF at \in ListPages /\ ~fetch.again THEN [Fresh EXCEPT !.again = TRUE] ELSE NoFetch
  /\ UNCHANGED <<lvars, list, invalidated, uploads>>

(* A page that observes the list is mounted; a list older than a minute, or *)
(* an invalidated one, is read again.                                       *)
MountList(page) ==
  /\ \E stale \in BOOLEAN :
       fetch' = IF page \in ListPages /\ ~fetch.on /\ (stale \/ invalidated \/ list = NoList)
                THEN Fresh ELSE fetch
  /\ dropzone' = "idle"
  /\ watched' = {}
  /\ UNCHANGED <<lvars, list, invalidated, upload, promised, losses>>

-----------------------------------------------------------------------------
(* startUpload, from the file input or from a drop, which is also taken     *)
(* while another upload runs.                                               *)
startUpload(p) ==
  /\ at = "pdfs" /\ upload[p] = "none" /\ shown[p] = "none"
  /\ upload' = [upload EXCEPT ![p] = "sent"]
  /\ dropzone' = "uploading"
  /\ watched' = watched \cup {p}
  /\ UNCHANGED <<lvars, cache, promised, losses>>

StoreUpload(p) ==
  /\ upload[p] = "sent"
  /\ Register(p)
  /\ upload' = [upload EXCEPT ![p] = "stored"]
  /\ UNCHANGED <<cache, dropzone, watched, promised, losses>>

invalidateQueries ==
  /\ invalidated' = TRUE
  /\ fetch' = IF at \in ListPages /\ (~fetch.on \/ list # NoList) THEN Fresh ELSE fetch

Dropzone(p, state) == dropzone' = IF p \in watched THEN state ELSE dropzone

UploadAnswered(p) ==
  /\ upload[p] = "stored"
  /\ upload' = [upload EXCEPT ![p] = "ok"]
  /\ invalidateQueries
  /\ Dropzone(p, "processing")
  /\ promised' = IF at \in ListPages /\ list # NoList THEN promised \cup {p} ELSE promised
  /\ UNCHANGED <<lvars, list, watched, losses>>

(* The upload was refused or lost, or only its answer was: the record may   *)
(* be there when the page says that the upload failed.                      *)
UploadFails(p) ==
  /\ upload[p] \in {"sent", "stored"} /\ losses < MaxLosses
  /\ upload' = [upload EXCEPT ![p] = "failed"]
  /\ Dropzone(p, "failed")
  /\ losses' = losses + 1
  /\ UNCHANGED <<lvars, cache, watched, promised>>

ListStep == Poll \/ findAll \/ ListArrives

LibraryNext ==
  \/ Poll \/ findAll \/ ListArrives \/ ListLost
  \/ \E p \in Pdfs :
       \/ Process(p) \/ startUpload(p) \/ StoreUpload(p) \/ UploadAnswered(p) \/ UploadFails(p)

-----------------------------------------------------------------------------
LibraryTypeOK ==
  /\ shown \in Lists /\ text \in [Pdfs -> Texts] /\ final \subseteq Pdfs /\ void = {}
  /\ list \in Lists \cup {NoList}
  /\ invalidated \in BOOLEAN
  /\ fetch \in [on : BOOLEAN, got : Lists \cup {NoList}, again : BOOLEAN]
  /\ upload \in [Pdfs -> UploadCalls]
  /\ dropzone \in UploadStates
  /\ watched \subseteq Pdfs /\ promised \subseteq Pdfs
  /\ losses \in 0..MaxLosses

(* What is listed, or was read to be listed, is on the server.              *)
ListIsPast ==
  \A p \in Pdfs : Listed(p) \/ (fetch.got # NoList /\ fetch.got[p] # "none") => shown[p] # "none"

(* An upload that was answered while a list was shown is in the list, or the *)
(* list is marked to be read again, and no read under way is older than it.  *)
AnsweredIsNotMissed ==
  \A p \in promised :
    /\ Listed(p) \/ invalidated
    /\ fetch.got = NoList \/ fetch.got[p] # "none"

(* What an upload has stored is on the server, and only a read has a result. *)
StoredIsShown ==
  /\ \A p \in Pdfs : upload[p] \in {"stored", "ok"} => shown[p] # "none"
  /\ \A p \in promised : upload[p] = "ok"
  /\ fetch.got # NoList => fetch.on
=============================================================================
