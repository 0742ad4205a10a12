----------------------------- MODULE Evaluation -----------------------------
(***************************************************************************)
(* Scoring what retrieval returned for a labelled question                 *)
(* (evaluation/metrics.py, experiment.py, scripts/evaluate_retrieval.py).  *)
(* Labels name papers, so the chunks become a ranking of papers first. A   *)
(* score is in ten thousandths, rounded down.                              *)
(***************************************************************************)
EXTENDS Retrieval

CONSTANTS
    KValues,  \* K_VALUES: the depths at which a ranking is scored
    Deepest,  \* the last of them
    Gain      \* Gain[r]: 1 / log2(r + 1), in a unit that tells the ranks apart

ASSUME EvaluationAssumption ==
    /\ Deepest \in Nat /\ KValues \subseteq 1..Deepest
    /\ Gain \in [1..Deepest -> Nat \ {0}]
    /\ \A i, j \in 1..Deepest : i < j => Gain[j] < Gain[i]

\* Planted: every chunk brings its paper.
RankingOfChunks(chunks) == [i \in DOMAIN chunks |-> Paper[chunks[i]]]

\* chunks_to_paper_ranking: a paper has the place of its best chunk.
PaperRanking(chunks) ==
    FoldLeft(LAMBDA seen, c : IF Paper[c] \in Range(seen) THEN seen ELSE Append(seen, Paper[c]),
             <<>>, chunks)

\* An example has at least one relevant paper.
RelevantSets == {relevant \in SUBSET Range(Paper) : relevant # {}}

\* The places among the first k that hold a relevant paper.
HitsAt(papers, relevant, k) == {i \in DOMAIN papers : i <= k /\ papers[i] \in relevant}

Precision(papers, relevant, k) == (10000 * Cardinality(HitsAt(papers, relevant, k))) \div k

Recall(papers, relevant, k) ==
    (10000 * Cardinality(HitsAt(papers, relevant, k))) \div Cardinality(relevant)

HitRate(papers, relevant, k) == IF HitsAt(papers, relevant, k) = {} THEN 0 ELSE 10000

ReciprocalRank(papers, relevant) ==
    LET hits == HitsAt(papers, relevant, Len(papers))
    IN IF hits = {} THEN 0 ELSE 10000 \div (CHOOSE i \in hits : \A j \in hits : i <= j)

\* The gain of relevant papers at these places.
DCG(places) == FoldLeft(LAMBDA sum, i : IF i \in places THEN sum + Gain[i] ELSE sum,
                        0, [i \in 1..Deepest |-> i])

\* The best that k places allow.
Ideal(relevant, k) ==
    DCG(1..(IF Cardinality(relevant) < k THEN Cardinality(relevant) ELSE k))

NDCG(papers, relevant, k) ==
    (10000 * DCG(HitsAt(papers, relevant, k))) \div Ideal(relevant, k)

\* evaluate_query.
Scores(papers, relevant) ==
    [mrr |-> ReciprocalRank(papers, relevant),
     at  |-> [k \in KValues |->
                [precision |-> Precision(papers, relevant, k),
                 recall    |-> Recall(papers, relevant, k),
                 ndcg      |-> NDCG(papers, relevant, k),
                 hit       |-> HitRate(papers, relevant, k)]]]

\* QueryResult.found_any: what the report does not list as a complete miss.
FoundAny(papers, relevant) == Range(papers) \cap relevant # {}

-----------------------------------------------------------------------------
(* Properties. *)

\* Metrics are compared "across queries" (ndcg_at_k), so they must mean the same
\* for each of them: every score is a fraction of what its query allows; looking
\* deeper loses no relevant paper; nDCG is full exactly when no relevant paper is
\* missing above the first place that another one could not fill; a question that
\* is no complete miss has a reciprocal rank; and a paper ranks above another
\* exactly when its best chunk does.
ScoresMeanWhatTheySay ==
    phase = "done" =>
        LET papers == PaperRanking(ranked)
        IN /\ \A p, q \in Range(papers) :
                 Earlier(papers, p, q) <=>
                     \E c \in Range(ranked) :
                        /\ Paper[c] = p
                        /\ \A d \in Range(ranked) : Paper[d] = q => Earlier(ranked, c, d)
           /\ \A relevant \in RelevantSets :
                 LET score == Scores(papers, relevant)
                 IN /\ FoundAny(papers, relevant) <=> score.mrr > 0
                    /\ \A k \in KValues :
                          /\ \A value \in Range(score.at[k]) : value \in 0..10000
                          /\ score.at[k].ndcg = 10000 <=>
                                \A i \in 1..k : i <= Cardinality(relevant) =>
                                    i \in DOMAIN papers /\ papers[i] \in relevant
                          /\ \A j \in KValues : j <= k =>
                                /\ score.at[j].recall <= score.at[k].recall
                                /\ score.at[j].hit <= score.at[k].hit

=============================================================================
