--------------------------- MODULE MCPracticePage ---------------------------
(* A PDF, tests of one or two questions, and replies whose items are good,   *)
(* have a blank option too many, or are refused; and the parsing, context   *)
(* and scoring operators, and the printed sheets, on small inputs.              *)
EXTENDS PracticePage, ExamSheets

Good    == [worded |-> TRUE, options |-> <<"A", "B", "C", "D">>, correctAnswer |-> 0]
WithGap == [worded |-> TRUE, options |-> <<"A", Blank, "B", "C", "D">>, correctAnswer |-> 3]
Short   == [worded |-> TRUE, options |-> <<"A", "B", "C", Blank>>, correctAnswer |-> 1]
NoKey   == [worded |-> TRUE, options |-> <<"A", "B", "C", "D">>, correctAnswer |-> 4]
NullKey == [worded |-> TRUE, options |-> <<"A", "B", "C", "D">>, correctAnswer |-> Empty]
Unasked == [worded |-> FALSE, options |-> <<"A", "B", "C", "D">>, correctAnswer |-> 2]

MCReplies == {<<NullKey, WithGap>>, <<Short, Good, NoKey>>, Garbled}

Items == {Good, WithGap, Short, NoKey, NullKey, Unasked}

(* normalizeQuestions keeps the good items, in their order; one whose key is *)
(* null is among them, and names the first option.                          *)
ASSUME normalizeQuestions(<<NullKey>>) = normalizeQuestions(<<Good>>)
ASSUME \A items \in UNION {[1..n -> Items] : n \in 0..3} :
  LET kept == normalizeQuestions(items)
      good == {i \in DOMAIN items : items[i] \in {Good, WithGap, NullKey}}
  IN /\ Len(kept) = Cardinality(good)
     /\ \A i \in good : kept[Cardinality({k \in good : k <= i})] = Question(items[i])

(* The context takes all that fits; what is joined between the parts comes  *)
(* on top of the budget, two characters for every part but the first.       *)
ASSUME \A chunks \in UNION {[1..n -> 0..4] : n \in 0..4} : \A maxChars \in 0..7 :
  LET total == Taken([i \in 1..Len(chunks) |-> chunks[i]], 100)[Len(chunks)]
      taken == Taken(chunks, maxChars)[Len(chunks)]
  IN /\ taken = IF total <= maxChars THEN total ELSE maxChars
     /\ ContextLength(chunks, maxChars) <= maxChars + 2 * (IF chunks = <<>> THEN 0 ELSE Len(chunks) - 1)

(* A list that names each question at most once scores at most 100 percent; *)
(* one that names a question twice may score more, which no attempt may.    *)
ASSUME \A correct \in 0..20, total \in 1..20 : correct <= total => Tenths(correct, total) \in 0..1000
ASSUME LET q == Question(Good)
           a == [questionIndex |-> 0, selectedOption |-> 0]
       IN submit(<<q>>, <<a, a>>).score = 2000

(* The answer key of a test prints one line of the paper's options for      *)
(* every question, and choosing that option is what submit counts as right. *)
ASSUME \A items \in UNION {[1..n -> Items] : n \in 0..2} :
  LET questions == normalizeQuestions(items)
      paper == generateMcqTestPdf(questions)
      key == generateMcqAnswerKeyPdf(questions)
  IN \A i \in DOMAIN questions : \E k \in DOMAIN paper[i] :
       /\ \A j \in DOMAIN paper[i] : paper[i][j] = key[i] <=> j = k
       /\ \A j \in DOMAIN paper[i] :
            IsCorrect(questions, [questionIndex |-> i - 1, selectedOption |-> j - 1]) <=> j = k
=============================================================================
