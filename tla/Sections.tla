------------------------------ MODULE Sections ------------------------------
(***************************************************************************)
(* Heading detection and the filter on sections                           *)
(* (ingestion/chunking/sections.py, chunker.py). A line is the signals that*)
(* detect_heading combines, and the text it holds when it is no heading:   *)
(*                                                                         *)
(*   form       "plain", "numbered" (3.1), "roman" (IV.) or "lettered"     *)
(*              (Appendix A)                                               *)
(*   depth      how deep the number is: 1 for "3", 2 for "3.1"             *)
(*   label      the title is no prose, and starts with a capital           *)
(*   canonical  the line is a name papers reuse ("Methods", "References")  *)
(*   caps       two to eight words in capitals                             *)
(*   fits       MIN_HEADING_CHARS..MAX_HEADING_CHARS characters            *)
(*   title, role  what _present and _classify make of the title            *)
(*   sentences  the text: a sequence of sentences, each the costs of its   *)
(*              words in hundredths of a token                             *)
(*                                                                         *)
(* A paragraph of several lines is one line with all their sentences.      *)
(***************************************************************************)
EXTENDS Integers, Sequences

CONSTANTS
    None,               \* no heading; no parent
    IncludeReferences,  \* CHUNKING_INCLUDE_REFERENCES
    IncludeAppendix     \* CHUNKING_INCLUDE_APPENDIX

\* The rules in their order. An appendix letter outranks the number, a number
\* the name, a name the shape; a numbered sentence is still tried as a name and
\* as a shape.
Level(line) ==
    IF ~line.fits THEN 0
    ELSE IF line.form = "lettered" THEN 1
    ELSE IF line.form = "numbered" /\ line.label THEN line.depth
    ELSE IF (line.form = "roman" /\ line.label) \/ line.canonical \/ line.caps THEN 1
    ELSE 0

IsHeading(line) == Level(line) > 0

Heading(line) ==
    [text  |-> line.title,
     level |-> Level(line),
     kind  |-> IF line.form = "lettered" THEN "appendix" ELSE line.role]

\* A level-1 heading resets the enclosing section, a deeper one takes the
\* heading before it when that is of level 1, and else inherits.
Enclosing(heading, current, parent) ==
    IF heading.level = 1 THEN None
    ELSE IF current # None /\ current.level = 1 THEN current.text
    ELSE parent

\* A region of the paper. Text before any heading is a section without one.
Section(current, parent, body) ==
    [heading |-> IF current = None THEN None ELSE current.text,
     kind    |-> IF current = None THEN "title" ELSE current.kind,
     level   |-> IF current = None THEN 1 ELSE current.level,
     parent  |-> parent,
     body    |-> body]

\* flush: a heading without text still makes a section.
Flushed(sections, current, parent, body) ==
    IF body = <<>> /\ current = None THEN sections
    ELSE Append(sections, Section(current, parent, body))

\* The name that a section's chunks carry: section and subsection.
Name(s) == IF s.level > 1 THEN <<s.parent, s.heading>> ELSE <<s.heading, None>>

\* _keep.
Keep(s) ==
    CASE s.kind = "references" -> IncludeReferences
      [] s.kind = "appendix" -> IncludeAppendix
      [] OTHER -> s.kind # "acknowledgements"

=============================================================================
