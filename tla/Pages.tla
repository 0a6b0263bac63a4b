------------------------------- MODULE Pages -------------------------------
(***************************************************************************)
(* The pages of the dashboard that share the session's query cache.  One of *)
(* them is mounted at a time; what a page keeps in its own state is lost    *)
(* when the user leaves it, what it has asked the server for is not.        *)
(***************************************************************************)
EXTENDS Integers, Sequences, FiniteSets

VARIABLE at   \* the page that is mounted

Page == {"pdfs", "ask", "evaluation", "downloads"}

(* The pages that observe the list of PDFs (usePdfs).                       *)
ListPages == {"pdfs", "ask"}
=============================================================================
