------------------------------- MODULE Fusion -------------------------------
(***************************************************************************)
(* Fusing and shaping the results of two searches (retrieval/fusion.py and *)
(* HybridRetriever.retrieve). A result list is a sequence of chunks, best  *)
(* first, and the scores the search gave them. Fused scores are compared as*)
(* exact fractions over a common denominator.                              *)
(***************************************************************************)
EXTENDS Lists

CONSTANTS
    Chunks,       \* chunk ids
    Paper,        \* Paper[c]: the arXiv id of the paper of c
    Words,        \* Words[c]: the set of words of its text
    RrfK,         \* RETRIEVAL_RRF_K
    Weights,      \* RETRIEVAL_KEYWORD_WEIGHT and _VECTOR_WEIGHT, in hundredths
    Deduplicate,  \* RETRIEVAL_DEDUPLICATE
    Similarity,   \* RETRIEVAL_DUPLICATE_SIMILARITY_THRESHOLD, in hundredths
    MaxPerPaper,  \* RETRIEVAL_MAX_CHUNKS_PER_PAPER
    Pool          \* RETRIEVAL_CANDIDATE_POOL_SIZE

\* The positions that come before i by descending value, those of equal value
\* in the order they came.
Ahead(ids, value, i) ==
    {j \in DOMAIN ids : value[j] > value[i] \/ (value[j] = value[i] /\ j < i)}

Sorted(ids, value) ==
    [r \in DOMAIN ids |->
        ids[CHOOSE i \in DOMAIN ids : Cardinality(Ahead(ids, value, i)) = r - 1]]

RankIn(list, c) == CHOOSE r \in DOMAIN list.ids : list.ids[r] = c

Has(list, c) == \E r \in DOMAIN list.ids : list.ids[r] = c

\* _group_by_chunk_id: the chunks of both lists, keyword results first.
Grouped(kw, vec) == kw.ids \o Only(vec.ids, Range(vec.ids) \ Range(kw.ids))

\* A denominator that every fraction below divides.
Unit == FoldLeft(LAMBDA product, r : product * (RrfK + r), 1, [r \in 1..Pool |-> r])

\* reciprocal_rank_fusion: the rank in the list counts, not the score.
RrfScore(lists, c) ==
    LET Part(l) == IF Has(l, c) THEN Unit \div (RrfK + RankIn(l, c)) ELSE 0
    IN Part(lists[1]) + Part(lists[2])

\* _min_max_normalise, of the chunk at rank r of a list, in hundredths.
Normalised(list, r) ==
    LET low == list.scores[Len(list.ids)]
        high == list.scores[1]
    IN IF high = low THEN 100 ELSE (100 * (list.scores[r] - low)) \div (high - low)

\* weighted_score_fusion: a list that has not got c adds nothing.
WeightedScore(lists, c) ==
    LET Part(i) == IF Has(lists[i], c)
                   THEN Weights[i] * Normalised(lists[i], RankIn(lists[i], c)) ELSE 0
    IN Part(1) + Part(2)

Fused(method, lists) ==
    LET all == Grouped(lists[1], lists[2])
        Score(c) == IF method = "rrf" THEN RrfScore(lists, c) ELSE WeightedScore(lists, c)
    IN Sorted(all, [i \in DOMAIN all |-> Score(all[i])])

\* The share of common words reaches the threshold.
Similar(c, d) ==
    100 * Cardinality(Words[c] \cap Words[d]) >= Similarity * Cardinality(Words[c] \cup Words[d])

\* deduplicate_chunks: a chunk without words, or like one that is kept, goes.
Distinct(ids) ==
    FoldLeft(LAMBDA kept, c :
                IF Words[c] = {} \/ \E i \in DOMAIN kept : Similar(c, kept[i]) THEN kept
                ELSE Append(kept, c),
             <<>>, ids)

\* How many chunks of a paper are among ids.
OfPaper(ids, p) == Cardinality({i \in DOMAIN ids : Paper[ids[i]] = p})

\* limit_per_paper.
Capped(ids) ==
    FoldLeft(LAMBDA kept, c :
                IF OfPaper(kept, Paper[c]) >= MaxPerPaper THEN kept ELSE Append(kept, c),
             <<>>, ids)

\* The first n, or all.
Cut(ids, n) == SubSeq(ids, 1, IF n < Len(ids) THEN n ELSE Len(ids))

\* Planted: the cap is spent before near-duplicates are removed.
CappedFirst(ids) == IF Deduplicate THEN Distinct(Capped(ids)) ELSE Capped(ids)

\* Near-duplicates go first, so that the cap is spent on distinct passages.
Shaped(ids) == Capped(IF Deduplicate THEN Distinct(ids) ELSE ids)

=============================================================================
