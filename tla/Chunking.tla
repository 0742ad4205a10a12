------------------------------ MODULE Chunking ------------------------------
(***************************************************************************)
(* Splitting a paper's text into passages                                 *)
(* (StructureAwareChunker.chunk, ingestion/chunking/chunker.py): lines are *)
(* gathered into sections, the units of a section are packed into chunks   *)
(* with overlap, and undersized chunks are merged or dropped. A step is    *)
(* one iteration of a loop of the code.                                    *)
(***************************************************************************)
EXTENDS Sections, Lists

CONSTANTS
    Lines,      \* what a line of the text may be
    MaxLines,   \* bound: lines of one paper
    MaxTokens,  \* CHUNKING_MAX_TOKENS
    MinTokens,  \* CHUNKING_MIN_TOKENS
    Overlap,    \* CHUNKING_OVERLAP_TOKENS
    MaxChunks   \* CHUNKING_MAX_CHUNKS_PER_PAPER

\* What the settings accept: min_tokens may exceed max_tokens.
ChunkingSettings ==
    /\ MaxTokens \in 32..8192 /\ MinTokens \in Nat \ {0} /\ Overlap \in Nat
    /\ IncludeReferences \in BOOLEAN /\ IncludeAppendix \in BOOLEAN
    /\ MaxChunks \in Nat \ {0}

ASSUME ChunkingAssumption ==
    /\ ChunkingSettings
    /\ \A line \in Lines : line.sentences \in Seq(Seq(Nat))

VARIABLES
    phase,     \* "reading", "packing", "judging" or "done"
    length,    \* lines read
    current,   \* current_heading
    parent,    \* current_parent
    body,      \* the paragraphs read since it: [line, sentences]
    sections,  \* the sections
    todo,      \* numbers of the kept sections that are not packed yet
    units,     \* units of the section being packed that are not packed yet
    pending,   \* units of the chunk being packed
    chunks,    \* what the sections were packed into
    rest,      \* chunks that _consolidate has not looked at
    merged     \* what it made of the others

reading == <<length, current, parent, body, sections>>
packing == <<todo, units, pending, chunks>>
judging == <<rest, merged>>
vars == <<phase, reading, packing, judging>>

Init ==
    /\ phase = "reading"
    /\ length = 0 /\ current = None /\ parent = None /\ body = <<>> /\ sections = <<>>
    /\ todo = <<>> /\ units = <<>> /\ pending = <<>> /\ chunks = <<>>
    /\ rest = <<>> /\ merged = <<>>

-----------------------------------------------------------------------------
(* Tokens. *)

\* The estimate, rounded half to even, of a text that costs so many hundredths.
\* Only a blank text counts nothing, and no text that is counted here is blank.
Tokens(cost) ==
    LET q == cost \div 100
        r == cost % 100
        n == IF r > 50 \/ (r = 50 /\ q % 2 = 1) THEN q + 1 ELSE q
    IN IF n = 0 THEN 1 ELSE n

Cost(us) == Sum([i \in DOMAIN us |-> us[i].cost])

\* The count of a text joined from units: joining adds nothing.
Count(us) == Tokens(Cost(us))

\* The counts of units, one by one.
Counts(us) == [i \in DOMAIN us |-> Tokens(us[i].cost)]

NOISE_FLOOR_TOKENS == 12
ABSOLUTE_MIN_TOKENS == 4

-----------------------------------------------------------------------------
(* Units: pieces of a paragraph that each fit in a chunk. *)

\* _split_oversized_sentence: as many words as fit, at least one.
Pieces(words) ==
    LET Put(pieces, w) ==
            IF pieces = <<>> \/ Tokens(Sum(Last(pieces)) + w) > MaxTokens
            THEN Append(pieces, <<w>>)
            ELSE [pieces EXCEPT ![Len(pieces)] = Append(@, w)]
    IN FoldLeft(Put, <<>>, words)

\* _units_for, as the words of each unit.
Texts(paragraph) ==
    LET whole == FlattenSeq(paragraph.sentences)
        Cut(sentence) ==
            IF Tokens(Sum(sentence)) <= MaxTokens THEN <<sentence>> ELSE Pieces(sentence)
    IN IF Tokens(Sum(whole)) <= MaxTokens THEN <<whole>>
       ELSE FlattenSeq([i \in DOMAIN paragraph.sentences |-> Cut(paragraph.sentences[i])])

Unit(paragraph, i) ==
    LET words == Texts(paragraph)[i]
    IN [line |-> paragraph.line, part |-> i, cost |-> Sum(words), words |-> Len(words)]

\* The units of a section, in order.
Units(s) ==
    FlattenSeq([i \in DOMAIN s.body |->
        [j \in DOMAIN Texts(s.body[i]) |-> Unit(s.body[i], j)]])

-----------------------------------------------------------------------------
(* split_into_sections. *)

ReadText(line) ==
    /\ phase = "reading" /\ length < MaxLines
    /\ ~IsHeading(line)
    /\ length' = length + 1
    /\ body' = Append(body, [line |-> length, sentences |-> line.sentences])
    /\ UNCHANGED <<phase, current, parent, sections, packing, judging>>

ReadHeading(line) ==
    /\ phase = "reading" /\ length < MaxLines
    /\ IsHeading(line)
    /\ length' = length + 1
    /\ sections' = Flushed(sections, current, parent, body)
    /\ body' = <<>>
    /\ parent' = Enclosing(Heading(line), current, parent)
    /\ current' = Heading(line)
    /\ UNCHANGED <<phase, packing, judging>>

\* The last flush, and the sections that belong in the index.
EndOfText ==
    /\ phase = "reading"
    /\ sections' = Flushed(sections, current, parent, body)
    /\ todo' = Only([i \in DOMAIN sections' |-> i], {i \in DOMAIN sections' : Keep(sections'[i])})
    /\ phase' = "packing"
    /\ UNCHANGED <<length, current, parent, body, units, pending, chunks, judging>>

-----------------------------------------------------------------------------
(* _pack_section. *)

EffectiveOverlap == IF Overlap < MaxTokens \div 2 THEN Overlap ELSE MaxTokens \div 2

\* The last n units.
Last_(us, n) == SubSeq(us, Len(us) - n + 1, Len(us))

\* _overlap_units: how many of the last units the overlap has room for, at
\* least one when there is an overlap at all.
Carried(us) ==
    LET fits == {n \in 1..Len(us) : n = 1 \/ Sum(Counts(Last_(us, n))) <= EffectiveOverlap}
    IN IF EffectiveOverlap = 0 THEN 0
       ELSE CHOOSE n \in fits : \A m \in fits : m <= n

\* Planted: a full overlap is carried whatever the unit needs.
CarriedInFull(us, unit) == Last_(us, Carried(us))

\* Planted: the clamp gives up the end of the overlap.
ClampedAtTheEnd(us, unit) ==
    LET all == Last_(us, Carried(us))
        fits == {n \in 0..Len(all) : n = 0 \/ Count(SubSeq(all, 1, n) \o <<unit>>) <= MaxTokens}
    IN SubSeq(all, 1, CHOOSE n \in fits : \A m \in fits : m <= n)

\* The overlap that leaves room for the unit: its first units are given up.
Seed(us, unit) ==
    LET fits == {n \in 0..Carried(us) :
                    n = 0 \/ Count(Last_(us, n) \o <<unit>>) <= MaxTokens}
    IN Last_(us, CHOOSE n \in fits : \A m \in fits : m <= n)

\* The chunk of the section being packed that holds the units us.
Chunk(us) ==
    [units |-> us, name |-> Name(sections[Head(todo)]), secs |-> {Head(todo)}]

StartSection ==
    /\ phase = "packing" /\ todo # <<>>
    /\ units = <<>> /\ pending = <<>>
    /\ units' = Units(sections[Head(todo)])
    /\ todo' = IF units' = <<>> THEN Tail(todo) ELSE todo
    /\ UNCHANGED <<phase, reading, pending, chunks, judging>>

Overflows == pending # <<>> /\ Count(Append(pending, Head(units))) > MaxTokens

AddUnit ==
    /\ phase = "packing" /\ units # <<>>
    /\ ~Overflows
    /\ pending' = Append(pending, Head(units))
    /\ units' = Tail(units)
    /\ UNCHANGED <<phase, reading, todo, chunks, judging>>

\* emit, and the next chunk is seeded.
EmitAndCarry ==
    /\ phase = "packing" /\ units # <<>>
    /\ Overflows
    /\ chunks' = Append(chunks, Chunk(pending))
    /\ pending' = Append(Seed(pending, Head(units)), Head(units))
    /\ units' = Tail(units)
    /\ UNCHANGED <<phase, reading, todo, judging>>

\* The last emit of a section, and the cap on a paper's chunks.
EmitLast ==
    /\ phase = "packing" /\ units = <<>> /\ pending # <<>>
    /\ LET all == Append(chunks, Chunk(pending))
           capped == Len(all) >= MaxChunks
       IN /\ chunks' = IF capped THEN SubSeq(all, 1, MaxChunks) ELSE all
          /\ todo' = IF capped THEN <<>> ELSE Tail(todo)
    /\ pending' = <<>>
    /\ UNCHANGED <<phase, reading, units, judging>>

EndOfPacking ==
    /\ phase = "packing" /\ todo = <<>>
    /\ phase' = "judging"
    /\ rest' = chunks
    /\ UNCHANGED <<reading, packing, merged>>

-----------------------------------------------------------------------------
(* _consolidate. *)

\* How many chunks carry that section and subsection.
Alone(c) == \A i, j \in DOMAIN chunks : chunks[i].name = c.name /\ chunks[j].name = c.name => i = j

Union(a, b) == [units |-> a.units \o b.units, name |-> a.name, secs |-> a.secs \cup b.secs]

\* Planted: the combined size is not looked at.
MergesSameName(c) == merged # <<>> /\ Last(merged).name = c.name

\* An undersized chunk goes into the one before it when they carry one name and
\* fit together.
Merges(c) ==
    /\ merged # <<>>
    /\ Last(merged).name = c.name
    /\ Count(Union(Last(merged), c).units) <= MaxTokens

\* Planted: min_tokens is a licence to delete.
KeepsNoSmallOne(c) == FALSE

\* What becomes of an undersized chunk that cannot be merged.
KeepsSmall(c) ==
    /\ Count(c.units) >= ABSOLUTE_MIN_TOKENS
    /\ Alone(c) \/ Count(c.units) >= NOISE_FLOOR_TOKENS

Judge ==
    /\ phase = "judging" /\ rest # <<>>
    /\ LET c == Head(rest)
           small == Count(c.units) < MinTokens
       IN merged' = IF small /\ Merges(c) THEN Append(Front(merged), Union(Last(merged), c))
                    ELSE IF small /\ ~KeepsSmall(c) THEN merged
                    ELSE Append(merged, c)
    /\ rest' = Tail(rest)
    /\ UNCHANGED <<phase, reading, packing>>

\* The first of the largest chunks.
Largest ==
    chunks[CHOOSE i \in DOMAIN chunks :
              /\ \A j \in DOMAIN chunks : Count(chunks[j].units) <= Count(chunks[i].units)
              /\ \A j \in 1..(i - 1) : Count(chunks[j].units) < Count(chunks[i].units)]

\* A paper whose chunks are all noise keeps the largest.
Return ==
    /\ phase = "judging" /\ rest = <<>>
    /\ merged' = IF merged = <<>> /\ chunks # <<>> THEN <<Largest>> ELSE merged
    /\ phase' = "done"
    /\ UNCHANGED <<reading, packing, rest>>

Next ==
    \/ \E line \in Lines : ReadText(line) \/ ReadHeading(line)
    \/ EndOfText
    \/ StartSection \/ AddUnit \/ EmitAndCarry \/ EmitLast \/ EndOfPacking
    \/ Judge \/ Return

Spec == Init /\ [][Next]_vars

-----------------------------------------------------------------------------
(* Properties. *)

Fits(us) == Count(us) <= MaxTokens

\* "Exceed its input limit and the tail of a chunk is silently dropped"
\* (tokens.py): overlap, packing and merging together never make a chunk that
\* is over the limit, except one that is a single word.
ChunksFit ==
    \A c \in Range(chunks) \cup Range(merged) :
        Fits(c.units) \/ (Len(c.units) = 1 /\ c.units[1].words = 1)

Before(u, v) == u.line < v.line \/ (u.line = v.line /\ u.part < v.part)

\* "Overlap carries the tail of each chunk into the next": what two successive
\* chunks of a section share is the end of the one and the start of the other,
\* it is no more than the overlap or a single unit, and the next chunk goes on
\* where the former ended, with at least one new unit.
OverlapIsTail ==
    \A i \in 1..(Len(chunks) - 1) :
        LET a == chunks[i].units
            b == chunks[i + 1].units
        IN chunks[i].secs = chunks[i + 1].secs =>
              \E n \in 0..(Len(b) - 1) :
                 /\ n <= Len(a) /\ Last_(a, n) = SubSeq(b, 1, n)
                 /\ n > 1 => Sum(Counts(SubSeq(b, 1, n))) <= EffectiveOverlap
                 /\ n < Len(a) /\ \A k \in (n + 1)..Len(b) : Before(Last(a), b[k])

\* "An undersized chunk is first merged into the previous chunk from the same
\* section [...] Merging across a section boundary is refused" (_consolidate).
\* Packing has already filled every chunk that could take more: a merge never
\* joins two chunks of one section, only chunks of sections that share a name.
MergesCrossSections ==
    [][phase = "judging" /\ rest # <<>> /\ Len(merged') <= Len(merged) /\ merged' # merged
        => Last(merged).secs \cap Head(rest).secs = {}]_vars

In(u, cs) == \E c \in Range(cs) : u \in Range(c.units)

\* "Content vanishing silently is a far worse failure than a slightly small
\* chunk": a unit of a kept section is in the result, unless the cap on chunks
\* was reached, or its chunk was below the noise floor and not the only one of
\* its name, or had fewer than four tokens.
LostToCapOrNoise ==
    phase = "done" =>
        \A s \in DOMAIN sections : Keep(sections[s]) =>
            \A u \in Range(Units(sections[s])) :
               \/ In(u, merged)
               \/ Len(chunks) = MaxChunks
               \/ \E c \in Range(chunks) :
                     /\ In(u, <<c>>)
                     /\ Count(c.units) < NOISE_FLOOR_TOKENS
                     /\ ~Alone(c) \/ Count(c.units) < ABSOLUTE_MIN_TOKENS

=============================================================================
