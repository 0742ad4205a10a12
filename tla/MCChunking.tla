----------------------------- MODULE MCChunking -----------------------------
(* An instance of Chunking: headings and paragraphs around the limits. *)
EXTENDS Chunking, TLC

\* Signals of a line of text.
Plain == [form |-> "plain", depth |-> 1, label |-> FALSE, canonical |-> FALSE, caps |-> FALSE,
          fits |-> FALSE, title |-> "text", role |-> "body"]

Text(sentences) == Plain @@ [sentences |-> sentences]

\* A heading; its own words count when it is not taken for one.
HeadingLine(title, role) ==
    [Plain EXCEPT !.fits = TRUE, !.title = title, !.role = role] @@ [sentences |-> <<<<270>>>>]

MCLines ==
    { [HeadingLine("Results", "body") EXCEPT !.canonical = TRUE],
      [HeadingLine("Setup", "body") EXCEPT !.form = "numbered", !.depth = 2, !.label = TRUE],
      [HeadingLine("References", "references") EXCEPT !.canonical = TRUE],
      \* A numbered sentence, which is text.
      [HeadingLine("We then", "body") EXCEPT !.form = "numbered", !.sentences = <<<<675, 145>>>>],
      Text(<<<<270>>>>),                                   \* 3 tokens
      Text(<<<<1350, 1450>>>>),                            \* 28
      Text(<<<<1150, 850>>, <<950, 450>>, <<900>>>>),      \* 43, in sentences of 20, 14 and 9
      Text(<<<<2000, 1500, 4000>>>>) }                     \* 75, one sentence, an endless word

=============================================================================
