-------------------------- MODULE StudyPagesProofs --------------------------
(***************************************************************************)
(* Proofs about StudyPages: for any PDFs, tests, questions, sheets, losses  *)
(* and lengths of answers.  Each page has its own lemmas; a step of one     *)
(* page leaves the state of the others alone.                               *)
(***************************************************************************)
EXTENDS StudyPages, SequenceTheorems, TLAPS

LibraryInv == LibraryTypeOK /\ ListIsPast /\ AnsweredIsNotMissed /\ StoredIsShown

LEMMA LibraryInitInv == ASSUME LibraryInit PROVE LibraryInv
<1>1. NoFetch \in [on : BOOLEAN, got : Lists \cup {NoList}, again : BOOLEAN]
      /\ Fresh \in [on : BOOLEAN, got : Lists \cup {NoList}, again : BOOLEAN]
      /\ NoFetch.got = NoList /\ Fresh.got = NoList
  BY DEF NoFetch, Fresh
<1>2. LibraryTypeOK
  <2>1. shown \in Lists /\ text \in [Pdfs -> Texts] /\ final \subseteq Pdfs
    BY OwnedAssumption DEF LibraryInit, Lists, Shown, Texts
  <2>2. upload \in [Pdfs -> UploadCalls] /\ dropzone \in UploadStates /\ losses \in 0..MaxLosses
    BY LossesAssumption DEF LibraryInit, UploadCalls, UploadStates
  <2>3. /\ fetch \in [on : BOOLEAN, got : Lists \cup {NoList}, again : BOOLEAN]
        /\ list = NoList /\ invalidated = FALSE /\ void = {} /\ watched = {} /\ promised = {}
    BY <1>1 DEF LibraryInit
  <2>4. QED BY <2>1, <2>2, <2>3 DEF LibraryTypeOK
<1>3. QED
  BY <1>1, <1>2 DEF LibraryInit, LibraryInv, ListIsPast, AnsweredIsNotMissed, StoredIsShown, Listed

(* What a job shows of a PDF that is on the server keeps it there. *)
LEMMA ShowKeeps ==
  ASSUME LibraryTypeOK, NEW p \in Pdfs, Register(p) \/ Attempt(p) \/ Publish(p) \/ GiveUp(p)
  PROVE  /\ shown' \in Lists /\ text' \in [Pdfs -> Texts] /\ UNCHANGED <<final, void>>
         /\ shown'[p] # "none"
         /\ \A q \in Pdfs : shown[q] # "none" => shown'[q] # "none"
  BY DEF LibraryTypeOK, Lists, Shown, Texts, Register, Attempt, Publish, GiveUp, Show

(* A read begins, and nothing else changes. *)
LEMMA FreshInv ==
  ASSUME LibraryInv, fetch' \in {Fresh, NoFetch, [Fresh EXCEPT !.again = TRUE], fetch},
         UNCHANGED <<shown, text, final, void, list, invalidated, upload, promised>>,
         dropzone' \in UploadStates, watched' \subseteq Pdfs, losses' \in 0..MaxLosses
  PROVE  LibraryInv'
<1>1. /\ fetch' \in [on : BOOLEAN, got : Lists \cup {NoList}, again : BOOLEAN]
      /\ fetch'.got = NoList \/ fetch' = fetch
  <2>1. fetch \in [on : BOOLEAN, got : Lists \cup {NoList}, again : BOOLEAN]
    BY DEF LibraryInv, LibraryTypeOK
  <2>2. \A again \in BOOLEAN :
          [Fresh EXCEPT !.again = again] \in [on : BOOLEAN, got : Lists \cup {NoList}, again : BOOLEAN]
          /\ [Fresh EXCEPT !.again = again].got = NoList
    BY DEF Fresh
  <2>3. /\ NoFetch \in [on : BOOLEAN, got : Lists \cup {NoList}, again : BOOLEAN]
        /\ Fresh \in [on : BOOLEAN, got : Lists \cup {NoList}, again : BOOLEAN]
        /\ NoFetch.got = NoList /\ Fresh.got = NoList
    BY DEF NoFetch, Fresh
  <2>4. TRUE \in BOOLEAN
    OBVIOUS
  <2>5. QED
    <3>1. CASE fetch' = NoFetch
      BY <2>3, <3>1
    <3>2. CASE fetch' = Fresh
      BY <2>3, <3>2
    <3>3. CASE fetch' = [Fresh EXCEPT !.again = TRUE]
      BY <2>2, <2>4, <3>3
    <3>4. CASE fetch' = fetch
      BY <2>1, <3>4
    <3>5. QED BY <3>1, <3>2, <3>3, <3>4
<1>2. LibraryTypeOK'
  BY <1>1 DEF LibraryInv, LibraryTypeOK
<1>3. QED
  BY <1>1, <1>2 DEF LibraryInv, ListIsPast, AnsweredIsNotMissed, StoredIsShown, Listed

(* A page is mounted. *)
LEMMA MountInv ==
  ASSUME LibraryInv, NEW page, MountList(page)
  PROVE  LibraryInv'
<1>1. "idle" \in UploadStates /\ losses \in 0..MaxLosses
  BY DEF UploadStates, LibraryInv, LibraryTypeOK
<1>2. QED
  BY <1>1, FreshInv DEF MountList, lvars

LEMMA LibraryNextInv ==
  ASSUME LibraryInv, LibraryNext, UNCHANGED at
  PROVE  LibraryInv'
<1>0. /\ losses \in 0..MaxLosses /\ dropzone \in UploadStates /\ watched \subseteq Pdfs
      /\ upload \in [Pdfs -> UploadCalls] /\ promised \subseteq Pdfs
      /\ {"idle", "uploading", "processing", "failed"} = UploadStates
  BY DEF LibraryInv, LibraryTypeOK, UploadStates
<1>1. CASE Poll
  BY <1>0, <1>1, FreshInv DEF Poll, lvars, uploads
<1>2. CASE findAll
  <2>1. /\ fetch.on /\ fetch.got = NoList /\ fetch' = [fetch EXCEPT !.got = shown]
        /\ UNCHANGED <<shown, text, final, void, list, invalidated, upload, dropzone, watched, promised, losses>>
    BY <1>2 DEF findAll, lvars, uploads
  <2>2. fetch'.on /\ fetch'.got = shown /\ fetch' \in [on : BOOLEAN, got : Lists \cup {NoList}, again : BOOLEAN]
    BY <2>1 DEF LibraryInv, LibraryTypeOK
  <2>3. LibraryTypeOK'
    BY <2>1, <2>2 DEF LibraryInv, LibraryTypeOK
  <2>4. \A p \in promised : shown[p] # "none"
    BY <1>0 DEF LibraryInv, StoredIsShown
  <2>5. QED
    BY <2>1, <2>2, <2>3, <2>4 DEF LibraryInv, ListIsPast, AnsweredIsNotMissed, StoredIsShown, Listed
<1>3. CASE ListArrives
  <2>1. /\ fetch.on /\ fetch.got # NoList /\ list' = fetch.got
        /\ fetch' = NoFetch /\ invalidated' = FALSE
        /\ UNCHANGED <<shown, text, final, void, upload, dropzone, watched, promised, losses>>
    BY <1>3 DEF ListArrives, lvars, uploads
  <2>2. NoFetch.got = NoList /\ NoFetch \in [on : BOOLEAN, got : Lists \cup {NoList}, again : BOOLEAN]
    BY DEF NoFetch
  <2>3. LibraryTypeOK'
    BY <2>1, <2>2 DEF LibraryInv, LibraryTypeOK
  <2>4. QED
    BY <2>1, <2>2, <2>3 DEF LibraryInv, ListIsPast, AnsweredIsNotMissed, StoredIsShown, Listed
<1>4. CASE ListLost
  <2>1. losses' \in 0..MaxLosses
    BY <1>0, <1>4, LossesAssumption DEF ListLost
  <2>2. QED
    BY <1>0, <1>4, <2>1, FreshInv DEF ListLost, lvars, uploads
<1>5. ASSUME NEW p \in Pdfs, Process(p) PROVE LibraryInv'
  <2>1. /\ shown' \in Lists /\ text' \in [Pdfs -> Texts] /\ UNCHANGED <<final, void>>
        /\ \A q \in Pdfs : shown[q] # "none" => shown'[q] # "none"
    BY <1>5, ShowKeeps DEF Process, LibraryInv
  <2>2. UNCHANGED <<list, invalidated, fetch, upload, dropzone, watched, promised, losses>>
    BY <1>5 DEF Process, cache, uploads
  <2>3. LibraryTypeOK'
    BY <2>1, <2>2 DEF LibraryInv, LibraryTypeOK
  <2>4. QED
    BY <2>1, <2>2, <2>3 DEF LibraryInv, ListIsPast, AnsweredIsNotMissed, StoredIsShown, Listed
<1>6. ASSUME NEW p \in Pdfs, startUpload(p) PROVE LibraryInv'
  <2>1. /\ upload[p] = "none" /\ upload' = [upload EXCEPT ![p] = "sent"]
        /\ dropzone' = "uploading" /\ watched' = watched \cup {p}
        /\ UNCHANGED <<shown, text, final, void, list, invalidated, fetch, promised, losses>>
    BY <1>6 DEF startUpload, lvars, cache
  <2>2. LibraryTypeOK'
    BY <1>0, <2>1 DEF LibraryInv, LibraryTypeOK, UploadCalls
  <2>3. QED
    BY <1>0, <2>1, <2>2 DEF LibraryInv, ListIsPast, AnsweredIsNotMissed, StoredIsShown, Listed
<1>7. ASSUME NEW p \in Pdfs, StoreUpload(p) PROVE LibraryInv'
  <2>1. /\ upload[p] = "sent" /\ upload' = [upload EXCEPT ![p] = "stored"]
        /\ UNCHANGED <<list, invalidated, fetch, dropzone, watched, promised, losses>>
    BY <1>7 DEF StoreUpload, cache
  <2>2. /\ shown' \in Lists /\ text' \in [Pdfs -> Texts] /\ UNCHANGED <<final, void>>
        /\ shown'[p] # "none"
        /\ \A q \in Pdfs : shown[q] # "none" => shown'[q] # "none"
    BY <1>7, ShowKeeps DEF StoreUpload, LibraryInv
  <2>3. LibraryTypeOK'
    BY <1>0, <2>1, <2>2 DEF LibraryInv, LibraryTypeOK, UploadCalls
  <2>4. QED
    BY <1>0, <2>1, <2>2, <2>3 DEF LibraryInv, ListIsPast, AnsweredIsNotMissed, StoredIsShown, Listed
<1>8. ASSUME NEW p \in Pdfs, UploadAnswered(p) PROVE LibraryInv'
  <2>1. /\ upload[p] = "stored" /\ upload' = [upload EXCEPT ![p] = "ok"]
        /\ invalidated' = TRUE
        /\ fetch' = IF at \in ListPages /\ (~fetch.on \/ list # NoList) THEN Fresh ELSE fetch
        /\ promised' = IF at \in ListPages /\ list # NoList THEN promised \cup {p} ELSE promised
        /\ UNCHANGED <<shown, text, final, void, list, watched, losses>>
        /\ dropzone' \in UploadStates
    BY <1>0, <1>8 DEF UploadAnswered, invalidateQueries, Dropzone, lvars
  <2>2. Fresh.on /\ Fresh.got = NoList /\ Fresh \in [on : BOOLEAN, got : Lists \cup {NoList}, again : BOOLEAN]
    BY DEF Fresh
  <2>3. fetch'.got = NoList \/ (fetch' = fetch /\ promised' = promised)
    BY <2>1, <2>2
  <2>4. LibraryTypeOK'
    BY <1>0, <2>1, <2>2 DEF LibraryInv, LibraryTypeOK, UploadCalls
  <2>5. ListIsPast' /\ AnsweredIsNotMissed'
    BY <2>1, <2>3 DEF LibraryInv, ListIsPast, AnsweredIsNotMissed, Listed
  <2>6. StoredIsShown'
    BY <1>0, <2>1, <2>2 DEF LibraryInv, StoredIsShown
  <2>7. QED BY <2>4, <2>5, <2>6 DEF LibraryInv
<1>9. ASSUME NEW p \in Pdfs, UploadFails(p) PROVE LibraryInv'
  <2>1. /\ upload[p] \in {"sent", "stored"} /\ upload' = [upload EXCEPT ![p] = "failed"]
        /\ UNCHANGED <<shown, text, final, void, list, invalidated, fetch, watched, promised>>
        /\ dropzone' \in UploadStates
    BY <1>0, <1>9 DEF UploadFails, Dropzone, lvars, cache
  <2>2. losses' \in 0..MaxLosses
    BY <1>0, <1>9, LossesAssumption DEF UploadFails
  <2>3. LibraryTypeOK'
    BY <1>0, <2>1, <2>2 DEF LibraryInv, LibraryTypeOK, UploadCalls
  <2>4. QED
    BY <1>0, <2>1, <2>3 DEF LibraryInv, ListIsPast, AnsweredIsNotMissed, StoredIsShown, Listed
<1>10. QED
  BY <1>1, <1>2, <1>3, <1>4, <1>5, <1>6, <1>7, <1>8, <1>9 DEF LibraryNext

-----------------------------------------------------------------------------
AskInv == AskTypeOK /\ SelectedOnce /\ OwnAnswer

LEMMA AskInitInv == ASSUME AskInit PROVE AskInv
  BY QuestionsAssumption DEF AskInit, AskInv, AskTypeOK, SelectedOnce, OwnAnswer

LEMMA AskResetInv == ASSUME AskReset PROVE AskInv'
  BY QuestionsAssumption DEF AskReset, AskInv, AskTypeOK, SelectedOnce, OwnAnswer

(* Taking a PDF out of the selection leaves the others, once each. *)
LEMMA WithoutKeeps ==
  ASSUME AskInv, NEW p \in Pdfs, IsSelected(p)
  PROVE  /\ Without(p) \in Seq(Pdfs)
         /\ \A i, j \in DOMAIN Without(p) : Without(p)[i] = Without(p)[j] => i = j
<1> DEFINE place == CHOOSE k \in DOMAIN selected : selected[k] = p
           front == SubSeq(selected, 1, place - 1)
           back == SubSeq(selected, place + 1, Len(selected))
<1>1. place \in 1..Len(selected) /\ selected \in Seq(Pdfs)
  BY DEF IsSelected, AskInv, AskTypeOK
<1>2. /\ front \in Seq(Pdfs) /\ Len(front) = place - 1
      /\ \A i \in 1..(place - 1) : front[i] = selected[i]
  <2> HIDE DEF place
  <2>1. \A i \in 1..(place - 1) : selected[i] \in Pdfs
    BY <1>1
  <2>. QED BY <1>1, <2>1, SubSeqProperties
<1>3. /\ back \in Seq(Pdfs) /\ Len(back) = Len(selected) - place
      /\ \A i \in 1..(Len(selected) - place) : back[i] = selected[place + i]
  <2> HIDE DEF place
  <2>1. \A i \in (place + 1)..Len(selected) : selected[i] \in Pdfs
    BY <1>1
  <2>2. /\ back \in Seq(Pdfs) /\ Len(back) = Len(selected) - place
        /\ \A i \in 1..(Len(selected) - (place + 1) + 1) : back[i] = selected[(place + 1) + i - 1]
    BY <1>1, <2>1, SubSeqProperties
  <2> HIDE DEF back
  <2>. QED BY <1>1, <2>2
<1>4. Without(p) = front \o back
  BY DEF Without
<1>5. /\ Without(p) \in Seq(Pdfs) /\ Len(Without(p)) = Len(selected) - 1
      /\ \A i \in 1..(Len(selected) - 1) :
           Without(p)[i] = IF i < place THEN selected[i] ELSE selected[i + 1]
  <2> HIDE DEF place, front, back
  <2>1. /\ Without(p) \in Seq(Pdfs) /\ Len(Without(p)) = Len(front) + Len(back)
        /\ \A i \in 1..(Len(front) + Len(back)) :
             Without(p)[i] = IF i <= Len(front) THEN front[i] ELSE back[i - Len(front)]
    <3>1. /\ front \o back \in Seq(Pdfs) /\ Len(front \o back) = Len(front) + Len(back)
          /\ \A i \in 1..(Len(front) + Len(back)) :
               (front \o back)[i] = IF i <= Len(front) THEN front[i] ELSE back[i - Len(front)]
      <4>1. front \in Seq(Pdfs) /\ back \in Seq(Pdfs)
        BY <1>2, <1>3
      <4>. QED BY <4>1, ConcatProperties
    <3>2. QED BY <1>4, <3>1, Zenon
  <2>2. Len(front) + Len(back) = Len(selected) - 1
    BY <1>1, <1>2, <1>3
  <2>3. ASSUME NEW i \in 1..(Len(selected) - 1)
        PROVE  Without(p)[i] = IF i < place THEN selected[i] ELSE selected[i + 1]
    <3>1. CASE i < place
      BY <1>1, <1>2, <2>1, <2>2, <3>1
    <3>2. CASE ~(i < place)
      <4>1. i - (place - 1) \in 1..(Len(selected) - place) /\ place + (i - (place - 1)) = i + 1
        BY <1>1, <3>2
      <4>2. Without(p)[i] = back[i - (place - 1)]
        <5>1. i \in 1..(Len(front) + Len(back)) /\ Len(front) = place - 1 /\ ~(i <= Len(front))
          BY <1>1, <1>2, <2>2, <3>2
        <5>2. QED BY <2>1, <5>1
      <4>3. QED BY <1>3, <3>2, <4>1, <4>2
    <3>3. QED BY <3>1, <3>2
  <2>4. QED BY <2>1, <2>2, <2>3
<1>6. \A i, j \in 1..Len(selected) : selected[i] = selected[j] => i = j
  BY <1>1 DEF AskInv, SelectedOnce
<1>7. QED
  <2> HIDE DEF place
  <2>1. ASSUME NEW i \in 1..(Len(selected) - 1), NEW j \in 1..(Len(selected) - 1),
               Without(p)[i] = Without(p)[j]
        PROVE  i = j
    <3>1. PICK k \in 1..Len(selected) : k = (IF i < place THEN i ELSE i + 1) /\ Without(p)[i] = selected[k]
      BY <1>1, <1>5
    <3>2. PICK l \in 1..Len(selected) : l = (IF j < place THEN j ELSE j + 1) /\ Without(p)[j] = selected[l]
      BY <1>1, <1>5
    <3>3. k = l
      BY <1>6, <2>1, <3>1, <3>2
    <3>4. QED BY <1>1, <3>1, <3>2, <3>3
  <2>2. DOMAIN Without(p) = 1..(Len(selected) - 1)
    BY <1>1, <1>5
  <2>3. QED BY <1>5, <2>1, <2>2

LEMMA AskNextInv ==
  ASSUME AskInv, AskNext
  PROVE  AskInv'
<1>0. /\ selected \in Seq(Pdfs) /\ bubbles \in Seq(Bubble) /\ Len(bubbles) <= MaxQuestions
      /\ call \in AskCall \cup {NoCall} /\ MaxQuestions \in Nat /\ AnswerLength \in Nat
  BY QuestionsAssumption DEF AskInv, AskTypeOK
<1>1. ASSUME UNCHANGED <<bubbles, call>>, selected' \in Seq(Pdfs), SelectedOnce' PROVE AskInv'
  BY <1>1 DEF AskInv, AskTypeOK, OwnAnswer
<1>2. ASSUME NEW p \in Pdfs, togglePdf(p) PROVE AskInv'
  <2>1. CASE IsSelected(p)
    BY <1>1, <1>2, <2>1, WithoutKeeps DEF togglePdf, SelectedOnce
  <2>2. CASE ~IsSelected(p)
    <3>1. selected' = Append(selected, p)
      BY <1>2, <2>2 DEF togglePdf
    <3>2. SelectedOnce'
      BY <1>0, <2>2, <3>1 DEF AskInv, SelectedOnce, IsSelected
    <3>3. QED BY <1>0, <1>1, <1>2, <3>1, <3>2 DEF togglePdf
  <2>3. QED BY <2>1, <2>2
<1>3. ASSUME NEW p \in Pdfs, removePdf(p) PROVE AskInv'
  BY <1>1, <1>3, WithoutKeeps DEF removePdf, selectedPdfs, SelectedOnce
<1>4. CASE submitQuestion
  <2> DEFINE b == [pdf |-> Head(selected), answer |-> NoAnswer, typed |-> 0, sorry |-> FALSE]
             n == Len(bubbles) + 1
  <2>1. /\ call = NoCall /\ selected # <<>> /\ Len(bubbles) < MaxQuestions
        /\ bubbles' = Append(bubbles, b) /\ selected' = selected
        /\ call' = [bubble |-> n, pdf |-> Head(selected), reply |-> "none"]
    BY <1>4 DEF submitQuestion, canAsk
  <2>2. Head(selected) \in Pdfs
    BY <1>0, <2>1
  <2>3. b \in Bubble /\ b.answer = NoAnswer /\ ~b.sorry /\ b.pdf = Head(selected)
    BY <1>0, <2>2 DEF Bubble
  <2>4. call' \in AskCall /\ call' # NoCall /\ call'.bubble = n /\ call'.pdf = Head(selected)
    <3>1. call' \in AskCall
      BY <1>0, <2>1, <2>2 DEF AskCall
    <3>2. call' \in [bubble : Nat, pdf : Pdfs, reply : {"none", "answer", "error"}]
      BY <1>0, <2>1, <2>2
    <3>3. call' # NoCall
      BY <3>2, NoCallAssumption
    <3>4. QED BY <2>1, <3>1, <3>3
  <2> HIDE DEF b
  <2>5. /\ bubbles' \in Seq(Bubble) /\ Len(bubbles') = n /\ bubbles'[n] = b
        /\ \A i \in 1..Len(bubbles) : bubbles'[i] = bubbles[i]
    BY <1>0, <2>1, <2>3
  <2>6. AskTypeOK'
    BY <1>0, <2>1, <2>4, <2>5 DEF AskTypeOK
  <2>7. SelectedOnce'
    BY <2>1 DEF AskInv, SelectedOnce
  <2>8. OwnAnswer'
    BY <1>0, <2>1, <2>3, <2>4, <2>5 DEF AskInv, OwnAnswer
  <2>9. QED BY <2>6, <2>7, <2>8 DEF AskInv
<1>5. CASE answerFromPdf
  <2>1. PICK reply \in {"answer", "error"} : call' = [call EXCEPT !.reply = reply]
    BY <1>5 DEF answerFromPdf
  <2>2. /\ call # NoCall /\ UNCHANGED <<selected, bubbles>>
        /\ call' \in AskCall /\ call'.bubble = call.bubble /\ call'.pdf = call.pdf
    BY <1>0, <1>5, <2>1 DEF answerFromPdf, AskCall
  <2>3. call' # NoCall
    <3>1. call' \in [bubble : Nat, pdf : Pdfs, reply : {"none", "answer", "error"}]
      BY <1>0, <2>2 DEF AskCall
    <3>2. QED BY <3>1, NoCallAssumption
  <2>4. AskTypeOK' /\ SelectedOnce'
    BY <1>0, <2>2 DEF AskInv, AskTypeOK, SelectedOnce
  <2>5. OwnAnswer'
    BY <2>2, <2>3 DEF AskInv, OwnAnswer
  <2>6. QED BY <2>4, <2>5 DEF AskInv
<1>6. ASSUME call # NoCall, call' = NoCall, selected' = selected,
             NEW b \in Bubble, b.pdf = call.pdf,
             bubbles' = [bubbles EXCEPT ![call.bubble] = b],
             \/ b.answer = [question |-> call.bubble, pdf |-> call.pdf] /\ ~b.sorry
             \/ b.answer = NoAnswer /\ b.sorry
      PROVE  AskInv'
  <2>1. /\ call.bubble = Len(bubbles) /\ call.bubble \in 1..Len(bubbles)
        /\ call.pdf = bubbles[call.bubble].pdf
    BY <1>0, <1>6 DEF AskInv, OwnAnswer, AskCall
  <2>2. /\ bubbles' \in Seq(Bubble) /\ Len(bubbles') = Len(bubbles)
        /\ bubbles'[Len(bubbles)] = b
        /\ \A i \in 1..(Len(bubbles) - 1) : bubbles'[i] = bubbles[i]
    BY <1>0, <1>6, <2>1
  <2>3. b.answer = NoAnswer => b.sorry
    <3>1. [question |-> call.bubble, pdf |-> call.pdf] \in [question : Nat, pdf : Pdfs]
      BY <1>0, <1>6 DEF AskCall
    <3>2. QED BY <1>6, <3>1, NoAnswerAssumption
  <2>4. AskTypeOK' /\ SelectedOnce'
    BY <1>0, <1>6, <2>2 DEF AskInv, AskTypeOK, SelectedOnce
  <2>5. OwnAnswer'
    BY <1>0, <1>6, <2>1, <2>2, <2>3 DEF AskInv, OwnAnswer
  <2>6. QED BY <2>4, <2>5 DEF AskInv
<1>7. ASSUME call # NoCall
      PROVE  /\ bubbles[call.bubble] \in Bubble /\ bubbles[call.bubble].answer = NoAnswer
             /\ ~bubbles[call.bubble].sorry /\ bubbles[call.bubble].pdf = call.pdf
             /\ call.bubble \in 1..MaxQuestions /\ call.pdf \in Pdfs
  BY <1>0, <1>7 DEF AskInv, OwnAnswer, AskCall
<1>8. CASE AnswerArrives
  <2> DEFINE a == [question |-> call.bubble, pdf |-> call.pdf]
             b == [bubbles[call.bubble] EXCEPT !.answer = a]
  <2>1. call # NoCall /\ call' = NoCall /\ selected' = selected
        /\ bubbles' = [bubbles EXCEPT ![call.bubble] = b]
    BY <1>8 DEF AnswerArrives
  <2>2. b \in Bubble /\ b.pdf = call.pdf /\ b.answer = a /\ ~b.sorry
    BY <1>7, <2>1 DEF Bubble
  <2>3. QED BY <1>6, <2>1, <2>2
<1>9. CASE ErrorArrives
  <2> DEFINE b == [bubbles[call.bubble] EXCEPT !.sorry = TRUE]
  <2>1. call # NoCall /\ call' = NoCall /\ selected' = selected
        /\ bubbles' = [bubbles EXCEPT ![call.bubble] = b]
    BY <1>9 DEF ErrorArrives
  <2>2. b \in Bubble /\ b.pdf = call.pdf /\ b.answer = NoAnswer /\ b.sorry
    BY <1>7, <2>1 DEF Bubble
  <2>3. QED BY <1>6, <2>1, <2>2
<1>10. ASSUME NEW i \in DOMAIN bubbles, typeAssistantResponse(i) PROVE AskInv'
  <2> DEFINE b == [bubbles[i] EXCEPT !.typed = @ + 1]
  <2>1. /\ bubbles[i].typed < AnswerLength /\ UNCHANGED <<selected, call>>
        /\ bubbles' = [bubbles EXCEPT ![i] = b]
    BY <1>10 DEF typeAssistantResponse, Typing
  <2>2. b \in Bubble /\ b.pdf = bubbles[i].pdf /\ b.answer = bubbles[i].answer /\ b.sorry = bubbles[i].sorry
    <3>1. bubbles[i] \in Bubble
      BY <1>0
    <3>2. bubbles[i].typed + 1 \in 0..AnswerLength
      BY <1>0, <2>1, <3>1 DEF Bubble
    <3>3. QED BY <3>1, <3>2 DEF Bubble
  <2>3. /\ bubbles' \in Seq(Bubble) /\ Len(bubbles') = Len(bubbles) /\ bubbles'[i] = b
        /\ \A k \in 1..Len(bubbles) : k # i => bubbles'[k] = bubbles[k]
    <3> HIDE DEF b
    <3>. QED BY <1>0, <2>1, <2>2
  <2>4. AskTypeOK' /\ SelectedOnce'
    BY <1>0, <2>1, <2>3 DEF AskInv, AskTypeOK, SelectedOnce
  <2>5. \A k \in 1..Len(bubbles) : /\ bubbles'[k].pdf = bubbles[k].pdf
                                   /\ bubbles'[k].answer = bubbles[k].answer
                                   /\ bubbles'[k].sorry = bubbles[k].sorry
    BY <2>2, <2>3
  <2>6. OwnAnswer'
    <3>1. call # NoCall => call.bubble \in 1..Len(bubbles)
      BY <1>0 DEF AskInv, OwnAnswer, AskCall
    <3>2. QED
      BY <1>0, <2>1, <2>3, <2>5, <3>1 DEF AskInv, OwnAnswer
  <2>7. QED BY <2>4, <2>6 DEF AskInv
<1>11. QED
  BY <1>2, <1>3, <1>4, <1>5, <1>8, <1>9, <1>10 DEF AskNext

-----------------------------------------------------------------------------
DownloadsInv == DownloadsTypeOK /\ OpensWhatWasAsked

LEMMA DownloadsInitInv == ASSUME DownloadsInit PROVE DownloadsInv
  BY FilesAssumption DEF DownloadsInit, DownloadsInv, DownloadsTypeOK, OpensWhatWasAsked, NoDownload

LEMMA DownloadsResetInv == ASSUME DownloadsReset PROVE DownloadsInv'
  BY FilesAssumption DEF DownloadsReset, DownloadsInv, DownloadsTypeOK, OpensWhatWasAsked, NoDownload

LEMMA DownloadsNextInv ==
  ASSUME DownloadsInv, DownloadsNext
  PROVE  DownloadsInv'
<1>0. /\ download \in [card : Cards(Pdfs), file : 0..MaxFiles] \cup {NoDownload}
      /\ files \in Seq(Cards(Pdfs)) /\ Len(files) <= MaxFiles
      /\ opened \subseteq Cards(Pdfs) \X (1..MaxFiles) /\ MaxFiles \in Nat
      /\ NoDownload.file = 0
  BY FilesAssumption DEF DownloadsInv, DownloadsTypeOK, NoDownload
<1>1. ASSUME download'.file = 0, UNCHANGED <<files, opened>>,
             download' \in [card : Cards(Pdfs), file : 0..MaxFiles] \cup {NoDownload}
      PROVE  DownloadsInv'
  BY <1>1 DEF DownloadsInv, DownloadsTypeOK, OpensWhatWasAsked
<1>2. ASSUME NEW card \in allDownloads, onDownload(card) PROVE DownloadsInv'
  <2>1. card \in Cards(Pdfs)
    BY DEF allDownloads, Cards
  <2>2. download' \in [card : Cards(Pdfs), file : 0..MaxFiles] /\ download'.file = 0
    BY <1>0, <1>2, <2>1 DEF onDownload
  <2>3. QED BY <1>1, <1>2, <2>2 DEF onDownload
<1>3. CASE DownloadFails
  BY <1>0, <1>1, <1>3 DEF DownloadFails
<1>4. ASSUME isDownloading, download.file = 0, uploadFile PROVE DownloadsInv'
  <2>1. download \in [card : Cards(Pdfs), file : 0..MaxFiles] /\ download.card \in Cards(Pdfs)
    BY <1>0, <1>4 DEF isDownloading
  <2>2. /\ Len(files) < MaxFiles /\ files' = Append(files, download.card)
        /\ download' = [download EXCEPT !.file = Len(files) + 1] /\ opened' = opened
    BY <1>4 DEF uploadFile
  <2>3. /\ files' \in Seq(Cards(Pdfs)) /\ Len(files') = Len(files) + 1
        /\ files'[Len(files) + 1] = download.card
        /\ \A i \in 1..Len(files) : files'[i] = files[i]
    BY <1>0, <2>1, <2>2
  <2>4. /\ download' \in [card : Cards(Pdfs), file : 0..MaxFiles]
        /\ download'.file = Len(files) + 1 /\ download'.card = download.card
    BY <1>0, <2>1, <2>2
  <2>5. DownloadsTypeOK'
    BY <1>0, <2>2, <2>3, <2>4 DEF DownloadsTypeOK
  <2>6. \A o \in opened : o[2] \in 1..Len(files) /\ files[o[2]] = o[1]
    BY <1>0 DEF DownloadsInv, OpensWhatWasAsked
  <2>7. OpensWhatWasAsked'
    BY <1>0, <2>2, <2>3, <2>4, <2>6 DEF OpensWhatWasAsked
  <2>8. QED BY <2>5, <2>7 DEF DownloadsInv
<1>5. CASE downloadTestPdf \/ generateLongQuestionPdf
  BY <1>4, <1>5 DEF downloadTestPdf, generateLongQuestionPdf, Asks
<1>6. CASE DownloadAnswered
  <2>1. /\ download.file # 0 /\ download' = NoDownload /\ files' = files
        /\ opened' = opened \cup {<<download.card, download.file>>}
        /\ download \in [card : Cards(Pdfs), file : 0..MaxFiles]
    BY <1>0, <1>6 DEF DownloadAnswered, isDownloading
  <2>2. download.file \in DOMAIN files /\ files[download.file] = download.card
    BY <1>0, <2>1 DEF DownloadsInv, OpensWhatWasAsked
  <2>3. DownloadsTypeOK'
    BY <1>0, <2>1 DEF DownloadsTypeOK
  <2>4. OpensWhatWasAsked'
    BY <1>0, <2>1, <2>2 DEF DownloadsInv, OpensWhatWasAsked
  <2>5. QED BY <2>3, <2>4 DEF DownloadsInv
<1>7. QED
  BY <1>2, <1>3, <1>5, <1>6 DEF DownloadsNext

-----------------------------------------------------------------------------
EvaluationInv == EvaluationTypeOK /\ ResultIsOfSheet

LEMMA EvaluationInitInv == ASSUME EvaluationInit PROVE EvaluationInv
  BY SheetsAssumption DEF EvaluationInit, EvaluationInv, EvaluationTypeOK, ResultIsOfSheet,
       NotAsked, Unread, Requests, EvalStates

LEMMA EvaluationResetInv == ASSUME EvaluationReset PROVE EvaluationInv'
  BY SheetsAssumption DEF EvaluationReset, EvaluationInv, EvaluationTypeOK, ResultIsOfSheet,
       NotAsked, Unread, Requests, EvalStates

LEMMA EvaluationNextInv ==
  ASSUME EvaluationInv, EvaluationNext
  PROVE  EvaluationInv'
<1>0. /\ graded \in Seq(0..MaxVersions) /\ Len(graded) <= MaxSheets /\ Len(graded) \in Nat
      /\ request \in Requests /\ evalState \in EvalStates /\ active \in 0..Len(graded)
      /\ asking \in [on : BOOLEAN, got : Unread..MaxVersions] /\ result \in 0..MaxVersions
      /\ MaxSheets \in Nat /\ MaxVersions \in Nat
  BY SheetsAssumption DEF EvaluationInv, EvaluationTypeOK
<1>1. CASE handleSubmit
  <2>1. /\ active = 0 /\ result = 0 /\ ~asking.on /\ Len(graded) < MaxSheets
        /\ evalState' = "uploading" /\ request' = "sent"
        /\ UNCHANGED <<graded, active, asking, result>>
    BY <1>1 DEF handleSubmit, MayStart, EvaluationInv, ResultIsOfSheet
  <2>2. EvaluationTypeOK'
    BY <1>0, <2>1 DEF EvaluationTypeOK, Requests, EvalStates
  <2>3. ResultIsOfSheet'
    BY <2>1 DEF ResultIsOfSheet
  <2>4. QED BY <2>2, <2>3 DEF EvaluationInv
<1>2. CASE StoreSheet
  <2>1. /\ request = "sent" /\ request' = "stored" /\ graded' = Append(graded, 0)
        /\ UNCHANGED <<evalState, active, asking, result>>
    BY <1>2 DEF StoreSheet
  <2>2. active = 0 /\ Len(graded) < MaxSheets
    BY <2>1 DEF EvaluationInv, ResultIsOfSheet
  <2>3. graded' \in Seq(0..MaxVersions) /\ Len(graded') = Len(graded) + 1 /\ graded' # <<>>
    BY <1>0, <2>1
  <2>4. EvaluationTypeOK'
    BY <1>0, <2>1, <2>2, <2>3 DEF EvaluationTypeOK, Requests
  <2>5. ResultIsOfSheet'
    BY <2>1, <2>2, <2>3 DEF EvaluationInv, ResultIsOfSheet
  <2>6. QED BY <2>4, <2>5 DEF EvaluationInv
<1>3. CASE SheetAccepted
  <2>1. /\ request = "stored" /\ request' = "none" /\ evalState' = "evaluating"
        /\ active' = Len(graded) /\ asking' = Asked
        /\ UNCHANGED <<graded, result>>
    BY <1>3 DEF SheetAccepted
  <2>2. result = 0 /\ graded # <<>>
    BY <2>1 DEF EvaluationInv, ResultIsOfSheet
  <2>3. Len(graded) \in 1..Len(graded) /\ graded[Len(graded)] \in 0..MaxVersions
    BY <1>0, <2>2
  <2>4. Asked \in [on : BOOLEAN, got : Unread..MaxVersions] /\ Asked.got = -1
    BY <1>0 DEF Asked, Unread
  <2>5. EvaluationTypeOK'
    BY <1>0, <2>1, <2>3, <2>4 DEF EvaluationTypeOK, Requests, EvalStates
  <2>6. ResultIsOfSheet'
    BY <1>0, <2>1, <2>2, <2>3, <2>4 DEF ResultIsOfSheet
  <2>7. QED BY <2>5, <2>6 DEF EvaluationInv
<1>4. CASE SheetFails
  <2>1. /\ request \in {"sent", "stored"} /\ request' = "none" /\ evalState' = "failed"
        /\ UNCHANGED <<graded, active, asking, result>>
    BY <1>4 DEF SheetFails
  <2>2. active = 0
    BY <2>1 DEF EvaluationInv, ResultIsOfSheet
  <2>3. EvaluationTypeOK'
    BY <1>0, <2>1 DEF EvaluationTypeOK, Requests, EvalStates
  <2>4. ResultIsOfSheet'
    BY <2>1, <2>2 DEF EvaluationInv, ResultIsOfSheet
  <2>5. QED BY <2>3, <2>4 DEF EvaluationInv
<1>5. ASSUME NEW n \in DOMAIN graded, Grade(n) PROVE EvaluationInv'
  <2>1. /\ graded[n] < MaxVersions /\ graded' = [graded EXCEPT ![n] = @ + 1]
        /\ UNCHANGED <<request, evalState, active, asking, result>>
    BY <1>5 DEF Grade
  <2>2. /\ graded' \in Seq(0..MaxVersions) /\ Len(graded') = Len(graded)
        /\ \A i \in 1..Len(graded) : graded'[i] >= graded[i]
    BY <1>0, <2>1
  <2>3. EvaluationTypeOK'
    BY <1>0, <2>1, <2>2 DEF EvaluationTypeOK
  <2>4. active # 0 => /\ graded[active] \in 0..MaxVersions /\ graded'[active] \in 0..MaxVersions
                      /\ graded'[active] >= graded[active]
    BY <1>0, <2>2
  <2>5. active # 0 => result <= graded'[active] /\ asking.got <= graded'[active]
    BY <1>0, <2>4 DEF EvaluationInv, ResultIsOfSheet, Unread
  <2>6. ResultIsOfSheet'
    BY <1>0, <2>1, <2>2, <2>5 DEF EvaluationInv, ResultIsOfSheet
  <2>7. QED BY <2>3, <2>6 DEF EvaluationInv
<1>6. CASE AskResult
  <2>1. /\ active # 0 /\ asking' = Asked
        /\ UNCHANGED <<graded, request, evalState, active, result>>
    BY <1>6 DEF AskResult
  <2>2. Asked \in [on : BOOLEAN, got : Unread..MaxVersions] /\ Asked.got = -1
    BY <1>0 DEF Asked, Unread
  <2>3. graded[active] \in 0..MaxVersions
    BY <1>0, <2>1
  <2>4. EvaluationTypeOK'
    BY <1>0, <2>1, <2>2 DEF EvaluationTypeOK
  <2>5. ResultIsOfSheet'
    BY <2>1, <2>2, <2>3 DEF EvaluationInv, ResultIsOfSheet
  <2>6. QED BY <2>4, <2>5 DEF EvaluationInv
<1>7. CASE getResult
  <2>1. /\ asking.on /\ asking' = [asking EXCEPT !.got = graded[active]]
        /\ UNCHANGED <<graded, request, evalState, active, result>>
    BY <1>7 DEF getResult
  <2>2. active # 0
    BY <2>1 DEF EvaluationInv, ResultIsOfSheet
  <2>3. graded[active] \in 0..MaxVersions
    BY <1>0, <2>2
  <2>4. asking' \in [on : BOOLEAN, got : Unread..MaxVersions] /\ asking'.got = graded[active]
    BY <1>0, <2>1, <2>3 DEF Unread
  <2>5. EvaluationTypeOK'
    BY <1>0, <2>1, <2>4 DEF EvaluationTypeOK
  <2>6. ResultIsOfSheet'
    BY <2>1, <2>2, <2>3, <2>4 DEF EvaluationInv, ResultIsOfSheet
  <2>7. QED BY <2>5, <2>6 DEF EvaluationInv
<1>8. CASE ResultArrives
  <2>1. /\ asking.on /\ asking.got # Unread /\ asking' = NotAsked
        /\ result' = IF asking.got = 0 THEN result ELSE asking.got
        /\ UNCHANGED <<graded, request, evalState, active>>
    BY <1>8 DEF ResultArrives
  <2>2. active # 0
    BY <2>1 DEF EvaluationInv, ResultIsOfSheet
  <2>3. NotAsked \in [on : BOOLEAN, got : Unread..MaxVersions] /\ NotAsked.got = 0 /\ ~NotAsked.on
    BY <1>0 DEF NotAsked, Unread
  <2>4. graded[active] \in 0..MaxVersions /\ result' \in 0..MaxVersions
    BY <1>0, <2>1, <2>2 DEF Unread
  <2>5. EvaluationTypeOK'
    BY <1>0, <2>1, <2>3, <2>4 DEF EvaluationTypeOK
  <2>6. ResultIsOfSheet'
    BY <2>1, <2>2, <2>3, <2>4 DEF EvaluationInv, ResultIsOfSheet
  <2>7. QED BY <2>5, <2>6 DEF EvaluationInv
<1>9. QED
  BY <1>1, <1>2, <1>3, <1>4, <1>5, <1>6, <1>7, <1>8 DEF EvaluationNext

-----------------------------------------------------------------------------
(* The pages' own steps, and the moves between them. *)
LEMMA OnlyMountedKept ==
  ASSUME IInv, Library \/ Ask \/ Download \/ Evaluate
  PROVE  OnlyMounted'
<1>1. CASE Library
  <2>1. at' = at /\ UNCHANGED <<bubbles, call, download, evalState>>
    BY <1>1 DEF Library, chat, center, sheets
  <2>2. at # "pdfs" => dropzone' = dropzone /\ watched' = watched
    BY <1>1 DEF Library, LibraryNext, Poll, findAll, ListArrives, ListLost, Process, startUpload,
         StoreUpload, UploadAnswered, UploadFails, Dropzone, uploads, IInv, OnlyMounted
  <2>3. QED BY <2>1, <2>2 DEF IInv, OnlyMounted
<1>2. CASE Ask
  <2>1. at' = at /\ UNCHANGED <<dropzone, watched, download, evalState>>
    BY <1>2 DEF Ask, library, uploads, center, sheets
  <2>2. at # "ask" => bubbles' = bubbles /\ call' = call
    BY <1>2 DEF Ask, AskNext, togglePdf, removePdf, submitQuestion, canAsk, answerFromPdf,
         AnswerArrives, ErrorArrives, IInv, OnlyMounted
  <2>3. QED BY <2>1, <2>2 DEF IInv, OnlyMounted
<1>3. CASE Download
  <2>1. at' = at /\ UNCHANGED <<dropzone, watched, bubbles, call, evalState>>
    BY <1>3 DEF Download, library, uploads, chat, sheets
  <2>2. at # "downloads" => download' = download
    BY <1>3 DEF Download, DownloadsNext, onDownload, downloadTestPdf, generateLongQuestionPdf, Asks,
         DownloadAnswered, DownloadFails, isDownloading, IInv, OnlyMounted
  <2>3. QED BY <2>1, <2>2 DEF IInv, OnlyMounted
<1>4. CASE Evaluate
  <2>1. at' = at /\ UNCHANGED <<dropzone, watched, bubbles, call, download>>
    BY <1>4 DEF Evaluate, library, uploads, chat, center
  <2>2. at # "evaluation" => evalState' = evalState
    <3>1. at # "evaluation" => evalState = "idle" /\ request \in Requests
      BY DEF IInv, OnlyMounted, TypeOK, EvaluationTypeOK
    <3>2. at # "evaluation" => request = "none"
      BY <3>1 DEF IInv, ResultIsOfSheet
    <3>3. QED
      BY <1>4, <3>2 DEF Evaluate, EvaluationNext, handleSubmit, MayStart, StoreSheet, SheetAccepted,
           SheetFails, Grade, AskResult, getResult, ResultArrives
  <2>3. QED BY <2>1, <2>2 DEF IInv, OnlyMounted
<1>5. QED BY <1>1, <1>2, <1>3, <1>4

(* The inductive invariant is that of every page, and that what a page      *)
(* holds is gone when it is left.                                           *)
LEMMA Parts ==
  IInv <=> at \in Page /\ OnlyMounted /\ LibraryInv /\ AskInv /\ DownloadsInv /\ EvaluationInv
  BY DEF IInv, TypeOK, LibraryInv, AskInv, DownloadsInv, EvaluationInv

LEMMA LibraryUnchanged == ASSUME LibraryInv, UNCHANGED library PROVE LibraryInv'
  BY DEF LibraryInv, library, lvars, cache, uploads, LibraryTypeOK, ListIsPast, AnsweredIsNotMissed,
       StoredIsShown, Listed

LEMMA AskUnchanged == ASSUME AskInv, UNCHANGED chat PROVE AskInv'
  BY DEF AskInv, chat, AskTypeOK, SelectedOnce, OwnAnswer

LEMMA DownloadsUnchanged == ASSUME DownloadsInv, UNCHANGED center PROVE DownloadsInv'
  BY DEF DownloadsInv, center, DownloadsTypeOK, OpensWhatWasAsked

LEMMA EvaluationUnchanged == ASSUME EvaluationInv, UNCHANGED sheets PROVE EvaluationInv'
  BY DEF EvaluationInv, sheets, EvaluationTypeOK, ResultIsOfSheet

LEMMA StudyInitInv == ASSUME Init PROVE IInv
<1>1. LibraryInv /\ AskInv /\ DownloadsInv /\ EvaluationInv
  BY LibraryInitInv, AskInitInv, DownloadsInitInv, EvaluationInitInv DEF Init
<1>2. at \in Page /\ OnlyMounted
  BY DEF Init, Page, OnlyMounted, LibraryInit, AskInit, DownloadsInit, EvaluationInit
<1>3. QED BY <1>1, <1>2, Parts

LEMMA StudyNextInv ==
  ASSUME IInv, [Next]_vars
  PROVE  IInv'
<1>0. at \in Page /\ OnlyMounted /\ LibraryInv /\ AskInv /\ DownloadsInv /\ EvaluationInv
  BY Parts
<1>8. at' \in Page /\ OnlyMounted' /\ LibraryInv' /\ AskInv' /\ DownloadsInv' /\ EvaluationInv' => IInv'
  BY DEF IInv, TypeOK, LibraryInv, AskInv, DownloadsInv, EvaluationInv
<1>1. CASE Library
  <2>1. at' \in Page /\ OnlyMounted'
    BY <1>0, <1>1, OnlyMountedKept DEF Library
  <2>2. LibraryInv'
    BY <1>0, <1>1, LibraryNextInv DEF Library
  <2>3. AskInv' /\ DownloadsInv' /\ EvaluationInv'
    BY <1>0, <1>1, AskUnchanged, DownloadsUnchanged, EvaluationUnchanged DEF Library
  <2>4. QED BY <1>8, <2>1, <2>2, <2>3
<1>2. CASE Ask
  <2>1. at' \in Page /\ OnlyMounted'
    BY <1>0, <1>2, OnlyMountedKept DEF Ask
  <2>2. AskInv'
    BY <1>0, <1>2, AskNextInv DEF Ask
  <2>3. LibraryInv' /\ DownloadsInv' /\ EvaluationInv'
    BY <1>0, <1>2, LibraryUnchanged, DownloadsUnchanged, EvaluationUnchanged DEF Ask
  <2>4. QED BY <1>8, <2>1, <2>2, <2>3
<1>3. CASE Download
  <2>1. at' \in Page /\ OnlyMounted'
    BY <1>0, <1>3, OnlyMountedKept DEF Download
  <2>2. DownloadsInv'
    BY <1>0, <1>3, DownloadsNextInv DEF Download
  <2>3. LibraryInv' /\ AskInv' /\ EvaluationInv'
    BY <1>0, <1>3, LibraryUnchanged, AskUnchanged, EvaluationUnchanged DEF Download
  <2>4. QED BY <1>8, <2>1, <2>2, <2>3
<1>4. CASE Evaluate
  <2>1. at' \in Page /\ OnlyMounted'
    BY <1>0, <1>4, OnlyMountedKept DEF Evaluate
  <2>2. EvaluationInv'
    BY <1>0, <1>4, EvaluationNextInv DEF Evaluate
  <2>3. LibraryInv' /\ AskInv' /\ DownloadsInv'
    BY <1>0, <1>4, LibraryUnchanged, AskUnchanged, DownloadsUnchanged DEF Evaluate
  <2>4. QED BY <1>8, <2>1, <2>2, <2>3
<1>5. ASSUME NEW page \in Page, Navigate(page) PROVE IInv'
  <2>1. LibraryInv' /\ AskInv' /\ DownloadsInv' /\ EvaluationInv'
    BY <1>0, <1>5, MountInv, AskResetInv, DownloadsResetInv, EvaluationResetInv DEF Navigate
  <2>2. at' \in Page /\ OnlyMounted'
    BY <1>5 DEF Navigate, OnlyMounted, MountList, AskReset, DownloadsReset, EvaluationReset
  <2>3. QED BY <1>8, <2>1, <2>2
<1>6. CASE UNCHANGED vars
  <2>1. LibraryInv' /\ AskInv' /\ DownloadsInv' /\ EvaluationInv'
    BY <1>0, <1>6, LibraryUnchanged, AskUnchanged, DownloadsUnchanged, EvaluationUnchanged DEF vars
  <2>2. at' \in Page /\ OnlyMounted'
    BY <1>0, <1>6 DEF vars, library, uploads, chat, center, sheets, OnlyMounted
  <2>3. QED BY <1>8, <2>1, <2>2
<1>7. QED
  BY <1>1, <1>2, <1>3, <1>4, <1>5, <1>6 DEF Next

(* Whatever the user does and whatever is lost, no upload that was answered  *)
(* is missed, every answer is in the bubble of its question, every download  *)
(* opens its own file, and a result is of the sheet that was handed in.      *)
THEOREM StudySafety == Spec => []IInv
<1>1. Init => IInv
  BY StudyInitInv
<1>2. IInv /\ [Next]_vars => IInv'
  BY StudyNextInv
<1>3. QED BY <1>1, <1>2, PTL DEF Spec
=============================================================================
