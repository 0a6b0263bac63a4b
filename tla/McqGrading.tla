----------------------------- MODULE McqGrading -----------------------------
(***************************************************************************)
(* What is computed of a multiple-choice test: the text an AI call may use  *)
(* (buildBoundedContext), the questions that are taken from its reply       *)
(* (tryParseQuestions, normalizeQuestions), and the score of a submission   *)
(* (McqService.submit).                                                     *)
(*                                                                          *)
(* A reply is an array of items, or Garbled when no array can be read from  *)
(* it.  Of an item the model keeps whether question and explanation are     *)
(* there, its options, and its correctAnswer: a number (or the numeral of    *)
(* one), Empty, Yes, or anything else, which is no number at all.           *)
(***************************************************************************)
EXTENDS Integers, Sequences, FiniteSets

CONSTANTS
  Garbled,   \* a reply that does not parse
  Blank,     \* an option that is empty once trimmed
  Empty,     \* a correctAnswer that is null, an empty text or list, or false
  Yes,       \* a correctAnswer that is true
  Skip       \* selectedOption -1

OptionCount == 4

(* A question that is skipped is not answered with an option. *)
ASSUME KeyAssumption == Empty # Yes /\ {Empty, Yes} \cap 0..(OptionCount - 1) = {}

ASSUME SkipAssumption == Skip \notin 0..(OptionCount - 1)

(* An array: its elements are numbered without a gap. *)
IsList(s) == Len(s) \in Nat /\ s = [i \in 1..Len(s) |-> s[i]]

(* What a loop over s collects that takes the elements at some places only. *)
Collected(s, places) ==
  LET after[i \in 0..Len(s)] ==
        IF i = 0 THEN <<>>
        ELSE IF i \in places THEN Append(after[i - 1], s[i]) ELSE after[i - 1]
  IN after[Len(s)]

NonBlank(options) == Collected(options, {i \in DOMAIN options : options[i] # Blank})

(* What JavaScript's Number makes of a correctAnswer: a key that is missing  *)
(* in some ways becomes 0, the first option.                                *)
Number(key) == CASE key = Empty -> 0 [] key = Yes -> 1 [] OTHER -> key

Keeps(item) ==
  /\ item.worded
  /\ Len(NonBlank(item.options)) = OptionCount
  /\ Number(item.correctAnswer) \in 0..(OptionCount - 1)

(* The key is not shifted when blank options before it were dropped. *)
Question(item) ==
  [options |-> NonBlank(item.options), correctAnswer |-> Number(item.correctAnswer)]

normalizeQuestions(items) ==
  LET kept == Collected(items, {i \in DOMAIN items : Keeps(items[i])})
  IN [i \in 1..Len(kept) |-> Question(kept[i])]

tryParseQuestions(reply) == IF reply = Garbled THEN <<>> ELSE normalizeQuestions(reply)

-----------------------------------------------------------------------------
(* chunks are given by their lengths after normalizeChunkText.  taken[i]    *)
(* characters come from the first i chunks; what is joined between two      *)
(* parts is not counted.                                                    *)
Take(left, length) == IF length <= left THEN length ELSE left

Taken(chunks, maxChars) ==
  LET taken[i \in 0..Len(chunks)] ==
        IF i = 0 THEN 0 ELSE taken[i - 1] + Take(maxChars - taken[i - 1], chunks[i])
  IN taken

ContextLength(chunks, maxChars) ==
  LET taken == Taken(chunks, maxChars)
      parts == {i \in 1..Len(chunks) : chunks[i] > 0 /\ taken[i - 1] < maxChars}
  IN taken[Len(chunks)] + 2 * (Cardinality(parts) - (IF parts = {} THEN 0 ELSE 1))

-----------------------------------------------------------------------------
(* submit walks the list it is sent, whose entries name their question;     *)
(* entries for no question are passed over.                                 *)
Judged(questions, answers) ==
  Collected(answers, {i \in DOMAIN answers : answers[i].questionIndex + 1 \in 1..Len(questions)})

IsCorrect(questions, a) == a.selectedOption = questions[a.questionIndex + 1].correctAnswer

(* Math.round(x * 10) / 10 of a percentage, in tenths of a percent.         *)
Tenths(correct, total) == (2000 * correct + total) \div (2 * total)

(* Variant: a skipped question counts as a wrong one. *)
Wrong_Skipped(judged, right) == DOMAIN judged \ right

Wrong(judged, right) == {i \in DOMAIN judged \ right : judged[i].selectedOption # Skip}

submit(questions, answers) ==
  LET judged == Judged(questions, answers)
      right  == {i \in DOMAIN judged : IsCorrect(questions, judged[i])}
  IN [correct   |-> Cardinality(right),
      incorrect |-> Cardinality(Wrong(judged, right)),
      score     |-> Tenths(Cardinality(right), Len(questions)),
      results   |-> [i \in DOMAIN judged |-> judged[i].questionIndex]]
=============================================================================
