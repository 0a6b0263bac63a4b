-------------------------- MODULE TextChunksProofs --------------------------
(***************************************************************************)
(* Proofs about TextChunks, for any text and any size of a chunk.           *)
(***************************************************************************)
EXTENDS TextChunks, TLAPS

(* What holds of a chunk that is cut just where it is full. *)
NoBreakNear(end) ==
  end < Len(text) =>
    \A p \in 1..end : 5 * (end - p + 1) < MaxLength => text[p] # "break"

(* A chunk ends behind its beginning.  It is just full, and then has no      *)
(* boundary in its last fifth unless the text ends with it, or it ends at a *)
(* boundary no further than the character after a full chunk.               *)
LEMMA EndFacts ==
  ASSUME NEW from \in Nat, NEW end \in ChunkEnds(from), text \in Seq(Classes)
  PROVE  /\ end \in Nat /\ end > from
         /\ \/ end = from + MaxLength /\ NoBreakNear(end)
            \/ end <= from + MaxLength + 1 /\ text[end] = "break"
<1> DEFINE full  == from + MaxLength
           clean == {p \in (from + 1)..(full + 1) :
                       text[p] = "break" /\ 5 * (p - 1 - from) > 4 * MaxLength}
<1>1. MaxLength \in Nat /\ MaxLength > 0 /\ Len(text) \in Nat
  BY ChunkAssumption
<1>2. CASE full < Len(text) /\ clean # {}
  <2>1. end \in clean
    BY <1>2 DEF ChunkEnds, Greatest
  <2>2. QED BY <1>1, <1>2, <2>1
<1>3. CASE ~(full < Len(text) /\ clean # {})
  <2>1. end = full
    BY <1>3 DEF ChunkEnds
  <2>2. ASSUME full < Len(text), NEW p \in 1..full, 5 * (full - p + 1) < MaxLength
        PROVE  text[p] # "break"
    <3>1. p \in (from + 1)..(full + 1) /\ 5 * (p - 1 - from) > 4 * MaxLength
      BY <1>1, <2>2
    <3>2. QED BY <1>3, <2>2, <3>1
  <2>3. QED BY <1>1, <2>1, <2>2 DEF NoBreakNear
<1>4. QED BY <1>2, <1>3

(* The letters up to the end of a chunk are those before it and its own. *)
LEMMA LettersSplit ==
  ASSUME NEW from \in Nat, NEW to \in Nat, from <= to
  PROVE  /\ Letters(0, to) = Letters(0, from) \cup Letters(from, to)
         /\ \A p \in Letters(0, from) : p \in Nat /\ 1 <= p /\ p <= from
         /\ \A p \in Letters(from, to) : p \in Nat /\ from < p /\ p <= to /\ text[p] = "letter"
  BY DEF Letters

LEMMA InitInv == Init => IInv
<1> SUFFICES ASSUME Init PROVE IInv
  OBVIOUS
<1>1. TypeOK
  BY ChunkAssumption DEF Init, TypeOK
<1>2. ChunksBehind /\ ContentFits /\ ReadingOrder /\ CutsOnlyLongWords
  BY DEF Init, ChunksBehind, ContentFits, ReadingOrder, CutsOnlyLongWords
<1>3. EveryLetterOnce
  BY DEF Init, EveryLetterOnce, Letters
<1>4. QED BY <1>1, <1>2, <1>3 DEF IInv

(* An element of a sequence is of the sequence's set. *)
LEMMA ElementOf ==
  ASSUME NEW S, NEW s \in Seq(S), NEW i \in DOMAIN s
  PROVE  i \in Nat /\ s[i] \in S
  OBVIOUS

(* What the chunks are made of. *)
LEMMA ChunkFacts ==
  ASSUME IInv, NEW i \in DOMAIN chunks
  PROVE  /\ i \in Nat /\ chunks[i].first \in Nat /\ chunks[i].last \in Nat
         /\ chunks[i].pageNumber \in Nat /\ chunks[i].chunkIndex \in Nat
         /\ 1 <= chunks[i].first /\ chunks[i].first <= chunks[i].last
         /\ chunks[i].last <= cursor /\ chunks[i].chunkIndex = i - 1
         /\ chunks[i].pageNumber <= pageNumber
<1>1. chunks \in Seq([first : Nat, last : Nat, pageNumber : Nat, chunkIndex : Nat])
  BY DEF IInv, TypeOK
<1>2. i \in Nat /\ chunks[i] \in [first : Nat, last : Nat, pageNumber : Nat, chunkIndex : Nat]
  BY <1>1, ElementOf
<1>3. QED BY <1>2 DEF IInv, ChunksBehind

(* What a round does to chunks, page and cursor. *)
LEMMA RoundFacts ==
  ASSUME IInv, NextChunk
  PROVE  \E end \in Nat :
           /\ end > cursor /\ cursor' = end /\ text' = text
           /\ \/ end = cursor + MaxLength /\ NoBreakNear(end)
              \/ end <= cursor + MaxLength + 1 /\ text[end] = "break"
           /\ \/ /\ Letters(cursor, end) = {} /\ chunks' = chunks /\ pageNumber' = pageNumber
              \/ \E first, last \in Letters(cursor, end) :
                   /\ \A p \in Letters(cursor, end) : first <= p /\ p <= last
                   /\ Push(first, last)
<1>1. PICK end \in ChunkEnds(cursor) :
        /\ \/ \E first, last \in Letters(cursor, end) :
                /\ \A p \in Letters(cursor, end) : first <= p /\ p <= last
                /\ Push(first, last)
           \/ Letters(cursor, end) = {} /\ UNCHANGED <<pageNumber, chunks>>
        /\ cursor' = end
  BY DEF NextChunk
<1>2. cursor \in Nat /\ text \in Seq(Classes) /\ text' = text
  BY DEF IInv, TypeOK, NextChunk
<1>3. /\ end \in Nat /\ end > cursor
      /\ \/ end = cursor + MaxLength /\ NoBreakNear(end)
         \/ end <= cursor + MaxLength + 1 /\ text[end] = "break"
  BY <1>2, EndFacts
<1>4. QED BY <1>1, <1>2, <1>3

(* A round that pushes a chunk keeps the invariant. *)
LEMMA PushInv ==
  ASSUME IInv, NEW end \in Nat, end > cursor, cursor' = end, text' = text,
         \/ end = cursor + MaxLength /\ NoBreakNear(end)
         \/ end <= cursor + MaxLength + 1 /\ text[end] = "break",
         NEW first \in Letters(cursor, end), NEW last \in Letters(cursor, end),
         \A p \in Letters(cursor, end) : first <= p /\ p <= last,
         Push(first, last)
  PROVE  IInv'
<1> DEFINE n     == Len(chunks)
           chunk == [first |-> first, last |-> last, pageNumber |-> pageNumber, chunkIndex |-> n]
<1>1. /\ cursor \in Nat /\ pageNumber \in Nat /\ n \in Nat /\ MaxLength \in Nat
      /\ first \in Nat /\ last \in Nat /\ cursor < first /\ first <= last /\ last <= end
      /\ text[last] = "letter"
  BY LettersSplit, ChunkAssumption DEF IInv, TypeOK
<1>2. /\ chunks \in Seq([first : Nat, last : Nat, pageNumber : Nat, chunkIndex : Nat])
      /\ chunk \in [first : Nat, last : Nat, pageNumber : Nat, chunkIndex : Nat]
      /\ chunks' = Append(chunks, chunk)
  BY <1>1 DEF IInv, TypeOK, Push
<1>3. /\ DOMAIN chunks = 1..n /\ DOMAIN chunks' = 1..(n + 1)
      /\ \A i \in 1..n : chunks'[i] = chunks[i]
      /\ chunks'[n + 1] = chunk
  BY <1>1, <1>2
<1>4. pageNumber' \in Nat /\ pageNumber' >= pageNumber
  BY <1>1 DEF Push
<1>5. TypeOK'
  BY <1>2, <1>4 DEF IInv, TypeOK
<1>6. ChunksBehind'
  <2>1. ASSUME NEW i \in 1..n
        PROVE  /\ 1 <= chunks'[i].first /\ chunks'[i].first <= chunks'[i].last
               /\ chunks'[i].last <= end /\ chunks'[i].chunkIndex = i - 1
               /\ chunks'[i].pageNumber <= pageNumber'
    <3>1. chunks'[i] = chunks[i] /\ i \in DOMAIN chunks
      BY <1>3
    <3>2. QED BY <1>1, <1>4, <3>1, ChunkFacts
  <2>2. /\ 1 <= chunk.first /\ chunk.first <= chunk.last /\ chunk.last <= end
        /\ chunk.chunkIndex = (n + 1) - 1 /\ chunk.pageNumber <= pageNumber'
    BY <1>1, <1>4
  <2>3. \A i \in 1..(n + 1) : i \in 1..n \/ i = n + 1
    BY <1>1
  <2>4. pageNumber' >= 1
    BY <1>1, <1>4 DEF IInv, ChunksBehind
  <2>5. QED BY <1>3, <2>1, <2>2, <2>3, <2>4 DEF ChunksBehind
<1>7. ContentFits'
  <2>1. last - first < MaxLength
    BY <1>1
  <2>2. QED BY <1>3, <2>1 DEF IInv, ContentFits
<1>8. ReadingOrder'
  <2>1. \A i \in DOMAIN chunks :
          /\ chunks[i].last \in Nat /\ chunks[i].last <= cursor
          /\ chunks[i].pageNumber \in Nat /\ chunks[i].pageNumber <= pageNumber
          /\ chunks[i].chunkIndex = i - 1
    BY ChunkFacts
  <2>2. ASSUME NEW i \in 1..n
        PROVE  /\ chunks[i].last < first
               /\ \/ chunks[i].pageNumber < pageNumber
                  \/ chunks[i].pageNumber = pageNumber /\ chunks[i].chunkIndex < n
    BY <1>1, <1>3, <2>1
  <2>3. ASSUME NEW i \in 1..(n + 1), NEW j \in 1..(n + 1), i < j
        PROVE  /\ chunks'[i].last < chunks'[j].first
               /\ \/ chunks'[i].pageNumber < chunks'[j].pageNumber
                  \/ /\ chunks'[i].pageNumber = chunks'[j].pageNumber
                     /\ chunks'[i].chunkIndex < chunks'[j].chunkIndex
    <3>1. CASE j = n + 1
      BY <1>1, <1>3, <2>2, <2>3, <3>1
    <3>2. CASE j # n + 1
      <4>1. i \in 1..n /\ j \in 1..n
        BY <1>1, <2>3, <3>2
      <4>2. QED BY <1>3, <2>3, <4>1 DEF IInv, ReadingOrder
    <3>3. QED BY <3>1, <3>2
  <2>4. QED BY <1>3, <2>3 DEF ReadingOrder
<1>9. EveryLetterOnce'
  <2>1. \A p \in Letters(0, cursor) : p \in Nat /\ p <= cursor
    BY <1>1, LettersSplit
  <2>2. \A j \in 1..(n + 1) : j \in 1..n \/ j = n + 1
    BY <1>1
  <2>3. 1..n \subseteq 1..(n + 1) /\ n + 1 \in 1..(n + 1) /\ n + 1 \notin 1..n
    BY <1>1
  <2>4. ASSUME NEW p \in Letters(0, cursor)
        PROVE  \E i \in 1..(n + 1) : \A j \in 1..(n + 1) : Holds(chunks'[j], p) <=> j = i
    <3>1. PICK i \in 1..n : \A j \in 1..n : Holds(chunks[j], p) <=> j = i
      BY <1>3 DEF IInv, EveryLetterOnce
    <3>2. ~Holds(chunks'[n + 1], p)
      BY <1>1, <1>3, <2>1 DEF Holds
    <3>3. \A j \in 1..(n + 1) : Holds(chunks'[j], p) <=> j = i
      BY <1>3, <2>2, <2>3, <3>1, <3>2
    <3>4. QED BY <2>3, <3>3
  <2>5. ASSUME NEW p \in Letters(cursor, end)
        PROVE  \E i \in 1..(n + 1) : \A j \in 1..(n + 1) : Holds(chunks'[j], p) <=> j = i
    <3>1. Holds(chunks'[n + 1], p)
      BY <1>3 DEF Holds
    <3>2. p \in Nat /\ cursor < p
      BY <1>1, LettersSplit
    <3>3. \A j \in 1..n : ~Holds(chunks[j], p)
      BY <1>1, <1>3, <3>2, ChunkFacts DEF Holds
    <3>4. \A j \in 1..(n + 1) : Holds(chunks'[j], p) <=> j = n + 1
      BY <1>3, <2>2, <2>3, <3>1, <3>3
    <3>5. QED BY <2>3, <3>4
  <2>6. Letters(0, cursor)' = Letters(0, cursor) \cup Letters(cursor, end)
    <3>1. Letters(0, cursor)' = Letters(0, end)
      BY DEF Letters
    <3>2. QED BY <1>1, <3>1, LettersSplit
  <2>7. ASSUME NEW p \in Letters(0, cursor)'
        PROVE  \E i \in 1..(n + 1) : \A j \in 1..(n + 1) : Holds(chunks'[j], p) <=> j = i
    <3>1. p \in Letters(0, cursor) \/ p \in Letters(cursor, end)
      BY <2>6
    <3>2. QED BY <2>4, <2>5, <3>1, Zenon
  <2>8. QED BY <1>3, <2>7 DEF EveryLetterOnce, Holds
<1>10. CutsOnlyLongWords'
  <2>1. ASSUME last + 1 \in Letters(0, Len(text))
        PROVE  \A p \in 1..last : 5 * (last - p + 1) < MaxLength => text[p] # "break"
    <3>1. last + 1 <= Len(text) /\ text[last + 1] = "letter"
      BY <2>1 DEF Letters
    <3>2. last + 1 \notin Letters(cursor, end)
      BY <1>1
    <3>3. ~(last + 1 <= end)
      BY <1>1, <3>1, <3>2 DEF Letters
    <3>4. last = end
      BY <1>1, <3>3
    <3>5. NoBreakNear(end)
      BY <1>1, <3>4
    <3>6. Len(text) \in Nat
      BY DEF IInv, TypeOK
    <3>7. QED BY <1>1, <3>1, <3>4, <3>5, <3>6 DEF NoBreakNear
  <2>2. \A i \in 1..(n + 1) : i \in 1..n \/ i = n + 1
    BY <1>1
  <2>3. Letters(0, Len(text))' = Letters(0, Len(text))
    BY DEF Letters
  <2>4. QED BY <1>3, <2>1, <2>2, <2>3 DEF IInv, CutsOnlyLongWords
<1>11. QED BY <1>5, <1>6, <1>7, <1>8, <1>9, <1>10 DEF IInv

(* A round over nothing but white space keeps the invariant. *)
LEMMA DropInv ==
  ASSUME IInv, NEW end \in Nat, end > cursor, cursor' = end, text' = text,
         Letters(cursor, end) = {}, chunks' = chunks, pageNumber' = pageNumber
  PROVE  IInv'
<1>1. TypeOK' /\ ContentFits' /\ ReadingOrder' /\ CutsOnlyLongWords'
  BY DEF IInv, TypeOK, ContentFits, ReadingOrder, CutsOnlyLongWords, Letters
<1>2. ChunksBehind'
  <2>1. cursor \in Nat
    BY DEF IInv, TypeOK
  <2>2. \A i \in DOMAIN chunks : chunks[i].last <= end
    BY <2>1, ChunkFacts
  <2>3. QED BY <2>2 DEF IInv, ChunksBehind
<1>3. EveryLetterOnce'
  <2>1. Letters(0, cursor)' = Letters(0, end)
    BY DEF Letters
  <2>2. Letters(0, end) = Letters(0, cursor)
    <3>1. cursor \in Nat /\ cursor <= end
      BY DEF IInv, TypeOK
    <3>2. Letters(0, end) = Letters(0, cursor) \cup Letters(cursor, end)
      BY <3>1, LettersSplit
    <3>3. QED BY <3>2
  <2>3. QED BY <2>1, <2>2 DEF IInv, EveryLetterOnce
<1>4. QED BY <1>1, <1>2, <1>3 DEF IInv

LEMMA NextInv == IInv /\ [NextChunk]_vars => IInv'
<1> SUFFICES ASSUME IInv, [NextChunk]_vars PROVE IInv'
  OBVIOUS
<1>1. CASE NextChunk
  BY <1>1, RoundFacts, PushInv, DropInv
<1>2. CASE UNCHANGED vars
  BY <1>2 DEF vars, IInv, TypeOK, ChunksBehind, EveryLetterOnce, Letters, ContentFits,
     ReadingOrder, CutsOnlyLongWords
<1>3. QED BY <1>1, <1>2

-----------------------------------------------------------------------------
(* Chunking any text in chunks of any size keeps the inductive invariant. *)
THEOREM Safety == Spec => []IInv
<1>1. QED BY InitInv, NextInv, PTL DEF Spec

(* No letter of any text is lost or doubled. *)
THEOREM NoLetterIsLost == Spec => []EveryLetterOnce
<1>1. QED BY Safety, PTL DEF IInv

(* No chunk is longer than CHUNK_SIZE. *)
THEOREM ChunksFit == Spec => []ContentFits
<1>1. QED BY Safety, PTL DEF IInv

(* Only words longer than a fifth of a chunk are cut. *)
THEOREM ShortWordsAreWhole == Spec => []CutsOnlyLongWords
<1>1. QED BY Safety, PTL DEF IInv

(* The chunks are read back in the order of the text. *)
THEOREM ReadBackInOrder == Spec => []ReadingOrder
<1>1. QED BY Safety, PTL DEF IInv
-----------------------------------------------------------------------------
(* The loop gets on: each round passes more than four fifths of a chunk, up *)
(* to the character that follows a full one.                                *)
RoundPassesText ==
  /\ cursor < Len(text)
  /\ 5 * (cursor' - cursor) >= 4 * MaxLength + 1
  /\ cursor' - cursor <= MaxLength + 1

(* A text gives no more chunks than that leaves room for. *)
FewChunks ==
  /\ 4 * MaxLength * Len(chunks) <= 5 * cursor
  /\ cursor <= Len(text) + MaxLength

(* Where a chunk ends is that far on. *)
LEMMA RoundPasses ==
  ASSUME IInv, NextChunk PROVE RoundPassesText
<1>1. PICK end \in ChunkEnds(cursor) : cursor' = end
  BY DEF NextChunk
<1>2. cursor \in Nat /\ cursor < Len(text) /\ MaxLength \in Nat /\ MaxLength > 0
  BY ChunkAssumption DEF IInv, TypeOK, NextChunk
<1> DEFINE full  == cursor + MaxLength
           clean == {p \in (cursor + 1)..(full + 1) :
                       text[p] = "break" /\ 5 * (p - 1 - cursor) > 4 * MaxLength}
<1>3. CASE full < Len(text) /\ clean # {}
  <2>1. end \in clean
    BY <1>1, <1>3 DEF ChunkEnds, Greatest
  <2>2. QED BY <1>1, <1>2, <2>1 DEF RoundPassesText
<1>4. CASE ~(full < Len(text) /\ clean # {})
  <2>1. end = full
    BY <1>1, <1>4 DEF ChunkEnds
  <2>2. QED BY <1>1, <1>2, <2>1 DEF RoundPassesText
<1>5. QED BY <1>3, <1>4

(* Before the first round there is no chunk. *)
LEMMA FewAtFirst == Init => FewChunks
<1> SUFFICES ASSUME Init PROVE FewChunks
  OBVIOUS
<1>1. cursor = 0 /\ chunks = <<>> /\ Len(text) \in Nat /\ MaxLength \in Nat
  BY ChunkAssumption DEF Init
<1>2. QED BY <1>1 DEF FewChunks

(* A chunk more is four fifths of a chunk further on. *)
LEMMA FewStay == IInv /\ FewChunks /\ [NextChunk]_vars => FewChunks'
<1> SUFFICES ASSUME IInv, FewChunks, [NextChunk]_vars PROVE FewChunks'
  OBVIOUS
<1>1. CASE NextChunk
  <2>1. RoundPassesText
    BY <1>1, RoundPasses
  <2>2. text' = text /\ cursor \in Nat /\ Len(text) \in Nat /\ MaxLength \in Nat
    BY <1>1, ChunkAssumption DEF NextChunk, IInv, TypeOK
  <2>3. cursor' \in Nat
    BY <1>1, NextInv DEF IInv, TypeOK
  <2>4. PICK k \in Nat : k = Len(chunks)
    BY DEF IInv, TypeOK
  <2>5. PICK m \in Nat : m = 4 * MaxLength
    BY <2>2
  <2>6. PICK k2 \in {k, k + 1} : k2 = Len(chunks')
    <3>1. chunks' = chunks \/ \E c : chunks' = Append(chunks, c)
      BY <1>1 DEF NextChunk, Push
    <3>2. chunks \in Seq([first : Nat, last : Nat, pageNumber : Nat, chunkIndex : Nat])
      BY DEF IInv, TypeOK
    <3>3. \A c : Len(Append(chunks, c)) = Len(chunks) + 1
      BY <3>2
    <3>4. QED BY <2>4, <3>1, <3>3
  <2>7. PICK a \in Nat : a = m * k
    OBVIOUS
  <2>8. m * k2 <= a + m
    BY <2>6, <2>7
  <2>9. a <= 5 * cursor
    BY <2>4, <2>5, <2>7 DEF FewChunks
  <2>10. PICK c \in Nat, d \in Nat, l \in Nat : c = cursor /\ d = cursor' /\ l = Len(text)
    BY <2>2, <2>3
  <2>11. c < l /\ 5 * (d - c) >= m + 1 /\ d - c <= MaxLength + 1 /\ a <= 5 * c
    BY <2>1, <2>5, <2>9, <2>10 DEF RoundPassesText
  <2>12. a + m <= 5 * d /\ d <= l + MaxLength
    BY <2>2, <2>11
  <2>13. PICK b \in Int : b = m * k2
    BY <2>6
  <2>14. b <= 5 * d
    BY <2>8, <2>12, <2>13
  <2>15. QED BY <2>2, <2>5, <2>6, <2>10, <2>12, <2>13, <2>14 DEF FewChunks
<1>2. CASE UNCHANGED vars
  BY <1>2 DEF vars, FewChunks
<1>3. QED BY <1>1, <1>2

(* Every round passes some text, so that the loop ends: what is checked as  *)
(* a liveness property rests on this and on the loop being scheduled.       *)
THEOREM LoopGetsOn == Spec => [][RoundPassesText]_vars
<1>1. IInv /\ [NextChunk]_vars => [RoundPassesText]_vars
  BY RoundPasses
<1>2. QED BY <1>1, Safety, PTL DEF Spec

(* The number of chunks is bounded by the length of the text. *)
THEOREM ChunksAreFew == Spec => []FewChunks
<1>1. QED BY Safety, FewAtFirst, FewStay, PTL DEF Spec
=============================================================================
