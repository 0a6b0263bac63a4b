----------------------------- MODULE TextChunks -----------------------------
(***************************************************************************)
(* The chunking of a PDF's text (PdfProcessingWorker.chunkText): the loop   *)
(* that cuts the text into chunks of at most MaxLength characters, at a     *)
(* space or newline where one is near, and numbers them for                 *)
(* PdfChunkRepository.findByPdfId, which sorts by page and index.           *)
(*                                                                          *)
(* Of a character the loop tells apart whether it is a boundary ("break":   *)
(* space or newline), other white space that trim removes ("blank"), or     *)
(* anything else ("letter").  A chunk is the positions its trimmed content  *)
(* comes from; position p is index p - 1 of the code.                       *)
(*                                                                          *)
(* A definition named Action_Word is Action with a plausible mistake; no    *)
(* specification uses it, it shows that a property notices the mistake.     *)
(***************************************************************************)
EXTENDS Integers, Sequences

CONSTANTS
  Texts,      \* the texts that may have to be chunked
  MaxLength   \* CHUNK_SIZE

Classes == {"letter", "break", "blank"}

ASSUME ChunkAssumption ==
  /\ Texts \subseteq Seq(Classes)
  /\ MaxLength \in Nat \ {0}

VARIABLES
  text,        \* the text of the PDF
  cursor,      \* currentIndex: characters that are done
  pageNumber,  \* fallbackPageNumber
  chunks       \* the chunks so far

vars == <<text, cursor, pageNumber, chunks>>

Init ==
  /\ text \in Texts
  /\ cursor = 0
  /\ pageNumber = 1
  /\ chunks = <<>>

(* The letters of text.slice(from, to). *)
Letters(from, to) == {p \in (from + 1)..to : p <= Len(text) /\ text[p] = "letter"}

Greatest(S) == {p \in S : \A q \in S : q <= p}

-----------------------------------------------------------------------------
(* Variant: a boundary past the end of the chunk is found, too. *)
ChunkEnds_OneFurther(from) ==
  LET full  == from + MaxLength
      clean == {p \in (from + 1)..(full + 2) :
                  /\ p <= Len(text) /\ text[p] = "break"
                  /\ 5 * (p - 1 - from) > 4 * MaxLength}
  IN  IF full < Len(text) /\ clean # {} THEN Greatest(clean) ELSE {full}

(* Variant: only the last tenth of the chunk is searched. *)
ChunkEnds_LastTenth(from) ==
  LET full  == from + MaxLength
      clean == {p \in (from + 1)..(full + 1) :
                  text[p] = "break" /\ 10 * (p - 1 - from) > 9 * MaxLength}
  IN  IF full < Len(text) /\ clean # {} THEN Greatest(clean) ELSE {full}

(* Variant: any boundary will do, even one before the chunk. *)
ChunkEnds_AnyBoundary(from) ==
  LET full  == from + MaxLength
      clean == {p \in 1..(full + 1) : text[p] = "break"}
  IN  IF full < Len(text) /\ clean # {} THEN Greatest(clean \cup {from}) ELSE {full}

(* Where the chunk that begins after `from` ends: behind the last boundary  *)
(* up to the character that follows a full chunk, when it is in the last    *)
(* fifth.  The set has one element.                                         *)
ChunkEnds(from) ==
  LET full  == from + MaxLength
      clean == {p \in (from + 1)..(full + 1) :
                  text[p] = "break" /\ 5 * (p - 1 - from) > 4 * MaxLength}
  IN  IF full < Len(text) /\ clean # {} THEN Greatest(clean) ELSE {full}

(* Variant: the index is counted within the page, and the page turned one   *)
(* chunk early.                                                             *)
Push_WithinPage(first, last) ==
  /\ chunks' = Append(chunks, [first |-> first, last |-> last, pageNumber |-> pageNumber,
                               chunkIndex |-> Len(chunks) % 3])
  /\ pageNumber' = IF Len(chunks) % 3 = 0 THEN pageNumber + 1 ELSE pageNumber

(* chunks.push, and a new page after every third chunk. *)
Push(first, last) ==
  /\ chunks' = Append(chunks, [first |-> first, last |-> last, pageNumber |-> pageNumber,
                               chunkIndex |-> Len(chunks)])
  /\ pageNumber' = IF (Len(chunks) + 1) % 3 = 0 THEN pageNumber + 1 ELSE pageNumber

(* Variant: the boundary is skipped whether there is one or not. *)
NextChunk_SkipsOne ==
  /\ cursor < Len(text)
  /\ \E end \in ChunkEnds(cursor) :
       /\ \/ \E first, last \in Letters(cursor, end) :
               /\ \A p \in Letters(cursor, end) : first <= p /\ p <= last
               /\ Push(first, last)
          \/ Letters(cursor, end) = {} /\ UNCHANGED <<pageNumber, chunks>>
       /\ cursor' = end + 1
  /\ UNCHANGED text

(* One round of the loop; a chunk of nothing but white space is dropped. *)
NextChunk ==
  /\ cursor < Len(text)
  /\ \E end \in ChunkEnds(cursor) :
       /\ \/ \E first, last \in Letters(cursor, end) :
               /\ \A p \in Letters(cursor, end) : first <= p /\ p <= last
               /\ Push(first, last)
          \/ Letters(cursor, end) = {} /\ UNCHANGED <<pageNumber, chunks>>
       /\ cursor' = end
  /\ UNCHANGED text

Spec == Init /\ [][NextChunk]_vars

(* The loop is synchronous: it goes on until it ends. *)
FairSpec == Spec /\ WF_vars(NextChunk)

-----------------------------------------------------------------------------
TypeOK ==
  /\ text \in Seq(Classes)
  /\ cursor \in Nat
  /\ pageNumber \in Nat
  /\ chunks \in Seq([first : Nat, last : Nat, pageNumber : Nat, chunkIndex : Nat])

Holds(chunk, p) == chunk.first <= p /\ p <= chunk.last

(* No letter of the text is lost or doubled: each one the loop has passed   *)
(* is in exactly one chunk.                                                 *)
EveryLetterOnce ==
  \A p \in Letters(0, cursor) :
    \E i \in DOMAIN chunks : \A j \in DOMAIN chunks : Holds(chunks[j], p) <=> j = i

(* A chunk's content is no longer than CHUNK_SIZE, although the loop takes  *)
(* the character after a full chunk along when it is a boundary.            *)
ContentFits ==
  \A i \in DOMAIN chunks : chunks[i].last - chunks[i].first < MaxLength

(* Sorted by page and index, as findByPdfId does, the chunks are in the     *)
(* order of the text, and no two of them have the same place.               *)
ReadingOrder ==
  \A i, j \in DOMAIN chunks : i < j =>
    /\ chunks[i].last < chunks[j].first
    /\ \/ chunks[i].pageNumber < chunks[j].pageNumber
       \/ /\ chunks[i].pageNumber = chunks[j].pageNumber
          /\ chunks[i].chunkIndex < chunks[j].chunkIndex

(* A word is cut in two only when there is no boundary in the last fifth of *)
(* a full chunk.                                                            *)
CutsOnlyLongWords ==
  \A i \in DOMAIN chunks :
    {chunks[i].last, chunks[i].last + 1} \subseteq Letters(0, Len(text)) =>
      \A p \in 1..chunks[i].last :
        5 * (chunks[i].last - p + 1) < MaxLength => text[p] # "break"

(* The loop ends for every text. *)
Terminates == <>(cursor >= Len(text))

(* The inductive invariant: chunks lie behind the cursor and are numbered   *)
(* through, and pages only go up.                                           *)
ChunksBehind ==
  /\ pageNumber >= 1
  /\ \A i \in DOMAIN chunks :
       /\ 1 <= chunks[i].first /\ chunks[i].first <= chunks[i].last
       /\ chunks[i].last <= cursor
       /\ chunks[i].chunkIndex = i - 1
       /\ chunks[i].pageNumber <= pageNumber

IInv ==
  /\ TypeOK
  /\ ChunksBehind
  /\ EveryLetterOnce
  /\ ContentFits
  /\ ReadingOrder
  /\ CutsOnlyLongWords

-----------------------------------------------------------------------------
(* pdf-chunk.schema.ts:35, "0-based position of this chunk within its page". *)
IndexWithinPage ==
  \A i \in DOMAIN chunks :
    \A n \in 1..i :
      (\A j \in n..i : chunks[j].pageNumber = chunks[i].pageNumber)
        /\ (n > 1 => chunks[n - 1].pageNumber # chunks[i].pageNumber)
      => chunks[i].chunkIndex = i - n
=============================================================================
