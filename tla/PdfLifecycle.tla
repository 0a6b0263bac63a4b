---------------------------- MODULE PdfLifecycle ----------------------------
(***************************************************************************)
(* What the PDF pipeline promises to a reader of the `pdfs` and             *)
(* `pdf_chunks` collections who trusts the chunks of a PDF only while its   *)
(* status says READY: the text of a PDF appears and disappears as a whole,  *)
(* together with the status, and after the job is settled neither changes.  *)
(* Queue, worker, attempts, retries and crashes are not visible.  A PDF     *)
(* that was processed by two handlers at once is void: it has no promise.   *)
(***************************************************************************)
CONSTANT Pdfs

VARIABLES
  shown,   \* the status a reader sees
  text,    \* what a reader who respects the status finds
  final,   \* PDFs the queue is through with
  void     \* PDFs without a promise

lvars == <<shown, text, final, void>>

Shown == {"none", "uploaded", "processing", "ready", "failed"}
Texts == {"hidden", "full", "partial"}

LInit ==
  /\ shown = [p \in Pdfs |-> "none"]
  /\ text  = [p \in Pdfs |-> "hidden"]
  /\ final = {}
  /\ void  = {}

Show(p, s, t) ==
  /\ p \notin final
  /\ shown' = [shown EXCEPT ![p] = s]
  /\ text'  = [text EXCEPT ![p] = t]
  /\ UNCHANGED <<final, void>>

Register(p) == shown[p] = "none" /\ Show(p, "uploaded", "hidden")

Attempt(p)  == shown[p] # "none" /\ Show(p, "processing", "hidden")

Publish(p)  == shown[p] = "processing" /\ Show(p, "ready", "full")

GiveUp(p)   == shown[p] # "none" /\ Show(p, "failed", "hidden")

Close(p) ==
  /\ p \notin final
  /\ final' = final \cup {p}
  /\ UNCHANGED <<shown, text, void>>

Void(p) ==
  /\ p \notin void
  /\ void' = void \cup {p}
  /\ UNCHANGED <<shown, text, final>>

(* A void PDF may do anything, and nothing else does. *)
Stray(p) ==
  /\ p \in void
  /\ shown' \in [Pdfs -> Shown]
  /\ text' \in [Pdfs -> Texts]
  /\ \A q \in Pdfs \ {p} : shown'[q] = shown[q] /\ text'[q] = text[q]
  /\ UNCHANGED <<final, void>>

LNext == \E p \in Pdfs :
  Register(p) \/ Attempt(p) \/ Publish(p) \/ GiveUp(p) \/ Close(p) \/ Void(p) \/ Stray(p)

LSpec == LInit /\ [][LNext]_lvars
=============================================================================
