---------------------------- MODULE MCTextChunks ----------------------------
(* TextChunks for TLC.  A chunk of 11 characters is the shortest whose last  *)
(* fifth has room for a boundary before its last character; a text of 34     *)
(* fills more than three of them, so that the page turns.  The texts are     *)
(* letters with one run of either white space, of any length and anywhere,  *)
(* and one more boundary.                                                    *)
EXTENDS TextChunks

TextLength == 34

Text(run, class, single) ==
  [p \in 1..TextLength |-> IF p = single THEN "break" ELSE IF p \in run THEN class ELSE "letter"]

RunsOfWhiteSpace ==
  {Text(a..b, class, single) :
     a \in 1..TextLength, b \in 1..TextLength, class \in {"break", "blank"}, single \in 1..TextLength}
=============================================================================
