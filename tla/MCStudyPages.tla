---------------------------- MODULE MCStudyPages ----------------------------
(* A PDF that is there and one that is uploaded; and the layout of answers of *)
(* up to five lines.                                                         *)
EXTENDS StudyPages, SequencesExt

Layout == INSTANCE AnswerText

Numbered(kinds) == [i \in DOMAIN kinds |-> [kind |-> kinds[i], word |-> i]]

(* renderAiContent shows every line but the blank ones, once and in order,   *)
(* each in a block of its kind; neighbouring lines share a block exactly     *)
(* when they are of one kind that is not a heading, and no others do.        *)
ASSUME \A kinds \in UNION {[1..n -> Layout!LineKinds] : n \in 0..5} :
  LET blocks == Layout!renderAiContent(Numbered(kinds))
      Together(i) == \E b \in DOMAIN blocks : {i, i + 1} \subseteq Range(blocks[b].words)
      Visible(i) == kinds[i] # "blank"
  IN /\ FlattenSeq([b \in DOMAIN blocks |-> blocks[b].words])
          = SelectSeq([i \in DOMAIN kinds |-> i], Visible)
     /\ \A b \in DOMAIN blocks :
          LET words == blocks[b].words IN
          /\ words # <<>>
          /\ \A j \in DOMAIN words : kinds[words[j]] = blocks[b].kind /\ words[j] = words[1] + j - 1
     /\ \A i \in 1..(Len(kinds) - 1) :
          Together(i) <=> kinds[i] = kinds[i + 1] /\ kinds[i] \in {"ul", "ol", "text"}
=============================================================================
