----------------------------- MODULE ExamSheets -----------------------------
(***************************************************************************)
(* The two sheets that are printed of a multiple-choice test                *)
(* (pdf-generator.service.ts): the paper, which letters the options, and    *)
(* the answer key.  Titles, explanations, fonts and spacing are left out.   *)
(***************************************************************************)
EXTENDS McqGrading

letters == <<"A", "B", "C", "D">>

(* How the option with index k, from 0, is printed: its letter and text.    *)
Printed(question, k) == <<letters[k + 1], question.options[k + 1]>>

generateMcqTestPdf(questions) ==
  [i \in DOMAIN questions |-> [k \in DOMAIN questions[i].options |-> Printed(questions[i], k - 1)]]

generateMcqAnswerKeyPdf(questions) ==
  [i \in DOMAIN questions |-> Printed(questions[i], questions[i].correctAnswer)]
=============================================================================
