----------------------------- MODULE AnswerText -----------------------------
(***************************************************************************)
(* How an answer is laid out (renderAiContent of ChatMessageList.tsx): its  *)
(* lines become headings, paragraphs and lists.  A line has a kind and a    *)
(* word; what makes a line a heading or a bullet, and the highlighting of   *)
(* terms, is left out.                                                      *)
(***************************************************************************)
EXTENDS Integers, Sequences

LineKinds == {"blank", "heading", "ul", "ol", "text"}

(* blocks are committed, items are those of the list that is open, listed   *)
(* its type, and words are those of the paragraph that is open.             *)
Nothing == [blocks |-> <<>>, listed |-> "ul", items |-> <<>>, words |-> <<>>]

Block(kind, words) == [kind |-> kind, words |-> words]

commitParagraph(r) ==
  IF r.words = <<>> THEN r
  ELSE [r EXCEPT !.blocks = Append(@, Block("text", r.words)), !.words = <<>>]

commitList(r) ==
  IF r.items = <<>> THEN r
  ELSE [r EXCEPT !.blocks = Append(@, Block(r.listed, r.items)), !.items = <<>>]

Heading(r, line) == [r EXCEPT !.blocks = Append(@, Block("heading", <<line.word>>))]

Item(r, line) ==
  LET s == IF r.listed = line.kind THEN r ELSE commitList(r)
  IN [s EXCEPT !.listed = line.kind, !.items = Append(@, line.word)]

Line(r, line) ==
  CASE line.kind = "blank"         -> commitList(commitParagraph(r))
    [] line.kind = "heading"       -> Heading(commitList(commitParagraph(r)), line)
    [] line.kind \in {"ul", "ol"}  -> Item(commitParagraph(r), line)
    [] line.kind = "text"          -> [commitList(r) EXCEPT !.words = Append(@, line.word)]

renderAiContent(lines) ==
  LET after[i \in 0..Len(lines)] == IF i = 0 THEN Nothing ELSE Line(after[i - 1], lines[i])
  IN commitList(commitParagraph(after[Len(lines)])).blocks
=============================================================================
