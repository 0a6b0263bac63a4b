----------------------------- MODULE Downloads -----------------------------
(***************************************************************************)
(* The download center (downloads/page.tsx): two cards for every stored     *)
(* test, its paper and its answer key, and one for every PDF that was READY *)
(* when the cards were read, for long questions about it.  Every click has  *)
(* the server make and store a new file, whose address is opened; the       *)
(* cards are disabled until then.  A file whose answer is lost stays in the *)
(* store, and the page says nothing of a failure.                           *)
(*                                                                          *)
(* The read of the cards is left out: it may be as old as the query cache   *)
(* keeps it, so that a card may be of any PDF that may have been READY.     *)
(***************************************************************************)
EXTENDS PdfLibrary

CONSTANTS
  Tests,       \* the user's tests
  NoCard,
  MaxFiles     \* bound: files made while the page is mounted

ASSUME FilesAssumption == MaxFiles \in Nat

VARIABLES
  download,  \* the pending download: its card, and the number of its file once stored
  files,     \* of every file that was stored, the card it was made for
  opened     \* history: the cards and files of the answers that were opened

center == <<download, files, opened>>

NoDownload == [card |-> NoCard, file |-> 0]

Cards(pdfs) == (Tests \X {"mock-test", "answer-key"}) \cup (pdfs \X {"long-question"})

allDownloads == Cards({p \in Pdfs : shown[p] \notin {"none", "uploaded"}})

DownloadsInit == download = NoDownload /\ files = <<>> /\ opened = {}

(* A pending download still opens its file when the page is left, and the   *)
(* files stay stored, but no page shows them and the model forgets them.    *)
DownloadsReset == download' = NoDownload /\ files' = <<>> /\ opened' = {}

isDownloading == download # NoDownload

onDownload(card) ==
  /\ at = "downloads" /\ ~isDownloading
  /\ card \in allDownloads
  /\ download' = [card |-> card, file |-> 0]
  /\ UNCHANGED <<files, opened>>

(* Every upload has a name that no other file has.                          *)
uploadFile ==
  /\ Len(files) < MaxFiles
  /\ files' = Append(files, download.card)
  /\ download' = [download EXCEPT !.file = Len(files) + 1]
  /\ UNCHANGED opened

Asks(kinds) == isDownloading /\ download.file = 0 /\ download.card[2] \in kinds

downloadTestPdf == Asks({"mock-test", "answer-key"}) /\ uploadFile

(* If there are chunks, the AI answers, and with a list of questions.       *)
generateLongQuestionPdf == Asks({"long-question"}) /\ uploadFile

DownloadAnswered ==
  /\ isDownloading /\ download.file # 0
  /\ opened' = opened \cup {<<download.card, download.file>>}
  /\ download' = NoDownload
  /\ UNCHANGED files

(* No chunks, a reply that is no list, no storage; or only the answer is    *)
(* lost, after the file was stored.                                         *)
DownloadFails ==
  /\ isDownloading
  /\ download' = NoDownload
  /\ UNCHANGED <<files, opened>>

DownloadsNext ==
  \/ \E card \in allDownloads : onDownload(card)
  \/ downloadTestPdf \/ generateLongQuestionPdf \/ DownloadAnswered \/ DownloadFails

-----------------------------------------------------------------------------
DownloadsTypeOK ==
  /\ download \in [card : Cards(Pdfs), file : 0..MaxFiles] \cup {NoDownload}
  /\ files \in Seq(Cards(Pdfs)) /\ Len(files) <= MaxFiles
  /\ opened \subseteq Cards(Pdfs) \X (1..MaxFiles)

(* What is opened is a file of its own, made for the card that was clicked: *)
(* no two answers are of one file, and the pending one is of none of them.  *)
OpensWhatWasAsked ==
  /\ \A o \in opened : o[2] \in DOMAIN files /\ files[o[2]] = o[1]
  /\ download.file # 0 =>
       /\ download.file = Len(files) /\ files[download.file] = download.card
       /\ \A o \in opened : o[2] < download.file
=============================================================================
