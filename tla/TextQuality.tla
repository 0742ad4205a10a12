---------------------------- MODULE TextQuality ----------------------------
(***************************************************************************)
(* The score of extracted text (ingestion/extraction/quality.py). A page   *)
(* of text is what the score measures of it: how many characters that are  *)
(* no space, how many of them are letters and how many stand for a failed  *)
(* decoding, how many words, and how much space there is, page breaks      *)
(* included. Ratios are in thousandths, rounded down.                      *)
(***************************************************************************)
EXTENDS Integers, Sequences, SequencesExt

CONSTANT Threshold  \* EXTRACTION_QUALITY_THRESHOLD, in ten thousandths

Page(chars, letters, bad, words, spaces) ==
    [chars |-> chars, letters |-> letters, bad |-> bad, words |-> words, spaces |-> spaces]

BlankPage == Page(0, 0, 0, 0, 0)

Measures == [chars : Nat, letters : Nat, bad : Nat, words : Nat, spaces : Nat]

\* The measures of a whole text.
Whole(pages) ==
    FoldLeft(LAMBDA t, p : Page(t.chars + p.chars, t.letters + p.letters,
                                t.bad + p.bad, t.words + p.words, t.spaces + p.spaces),
             BlankPage, pages)

IsBlank(pages) == Whole(pages).chars = 0

\* Where value lies between low and high.
Scaled(value, low, high) ==
    IF value <= low THEN 0
    ELSE IF value >= high THEN 1000
    ELSE ((value - low) * 1000) \div (high - low)

Density(t, count) == Scaled(t.chars, 100 * count, 800 * count)
Letters(t) == Scaled(100 * t.letters, 55 * t.chars, 70 * t.chars)
WordShape(t) == IF 25 * t.words <= 10 * t.chars /\ t.chars <= 12 * t.words THEN 1000 ELSE 0
Decoded(t) == 100 * t.bad <= t.chars + t.spaces

\* The score, in ten thousandths, of a text of count pages: legibility
\* multiplies what density and the shape of the words add up to.
Score(pages, count) ==
    LET t == Whole(pages)
        structure == 6 * Density(t, count) + 4 * WordShape(t)
        legible == (Letters(t) * structure) \div 1000
    IN IF t.chars = 0 THEN 0 ELSE IF Decoded(t) THEN legible ELSE legible \div 4

\* should_attempt_ocr: no text or next to none, or text that is poor and not
\* dense. What is dense and poor is garbled, and a reading would not help.
ShouldAttemptOcr(pages, count) ==
    LET chars == Whole(pages).chars
    IN \/ chars < 100 * count
       \/ Score(pages, count) < Threshold /\ chars < 800 * count

=============================================================================
