----------------------------- MODULE Retrieval -----------------------------
(***************************************************************************)
(* From a question to the evidence of an answer: the hybrid search         *)
(* (retrieval/hybrid.py, keyword.py, vector.py), re-ranking under a timeout*)
(* (reranking.py) and the assembly of the context with its citations       *)
(* (context.py).                                                           *)
(*                                                                         *)
(* The two searches run side by side and each may see another state of the *)
(* index, so they return any two lists. A paper's versions are different   *)
(* sources, but one paper to the cap. A caller that passes a limit passes  *)
(* it to the search and to re-ranking (scripts/evaluate_retrieval.py).     *)
(***************************************************************************)
EXTENDS Fusion

CONSTANTS
    Version,    \* Version[c]: the version of the paper that c belongs to
    Cost,       \* Cost[c]: tokens of the passage made of c
    TopK,       \* RETRIEVAL_TOP_K
    RerankTop,  \* RERANKER_TOP_K
    Budget,     \* RETRIEVAL_CONTEXT_TOKEN_BUDGET
    Limits,     \* bound: what a caller may ask for; 0 for nothing in particular
    None        \* no result yet

Searches == {1, 2}  \* keyword and vector

\* What the settings accept.
RetrievalSettings ==
    /\ Pool \in 1..500 /\ TopK \in 1..100 /\ RrfK \in Nat \ {0}
    /\ \A s \in Searches : Weights[s] \in 0..100
    /\ MaxPerPaper \in Nat \ {0} /\ Deduplicate \in BOOLEAN /\ Similarity \in 0..100
    /\ Budget \in Nat

RerankerSettings == RerankTop \in Nat \ {0}

ASSUME RetrievalAssumption ==
    /\ RetrievalSettings /\ RerankerSettings
    /\ IsFiniteSet(Chunks) /\ DOMAIN Paper = Chunks
    /\ Cost \in [Chunks -> Nat] /\ Limits \subseteq 0..Pool

VARIABLES
    mode,      \* RETRIEVAL_MODE: "keyword", "vector" or "hybrid"
    method,    \* RETRIEVAL_FUSION_METHOD
    limit,     \* the limit the caller passed
    phase,     \* "searching", "reranking", "building", "done" or "failed"
    embedded,  \* the query's vector is there
    found,     \* found[s]: the list of search s, or None
    shaped,    \* the result of the retriever
    ranked,    \* the result of re-ranking
    taken,     \* how many of them the context builder has looked at
    sources,   \* label i denotes sources[i]: the papers by first appearance
    passages,  \* the context: [label, chunk]
    citations  \* the citations: [source, chunks]

request == <<mode, method, limit>>
retrieved == <<embedded, found, shaped>>
context == <<taken, sources, passages, citations>>
vars == <<request, phase, retrieved, ranked, context>>

\* build_retriever: a retriever is the searches it runs.
Wanted == [keyword |-> {1}, vector |-> {2}, hybrid |-> Searches][mode]

Init ==
    /\ mode \in {"keyword", "vector", "hybrid"}
    /\ method \in {"rrf", "weighted"} /\ limit \in Limits
    /\ phase = "searching" /\ embedded = FALSE
    /\ found = [s \in Searches |-> None]
    /\ shaped = <<>> /\ ranked = <<>>
    /\ taken = 0 /\ sources = <<>> /\ passages = <<>> /\ citations = <<>>

\* An absent limit and a limit of 0 are the default.
Size(n, default) == IF n = 0 THEN default ELSE n

-----------------------------------------------------------------------------
(* The searches. *)

\* embed_query, in a thread.
Embed ==
    /\ phase = "searching" /\ 2 \in Wanted /\ ~embedded
    /\ embedded' = TRUE
    /\ UNCHANGED <<request, phase, found, shaped, ranked, context>>

\* The lists that a search may return. Scores fall evenly, or are all equal.
ResultLists(flat) ==
    {[ids |-> s, scores |-> [i \in DOMAIN s |-> IF flat THEN 1 ELSE Pool + 1 - i]] :
        s \in {t \in UNION {[1..n -> Chunks] : n \in 0..Pool} : IsInjective(t)}}

EvenLists == ResultLists(FALSE)
FlatLists == ResultLists(TRUE)

\* How many hits a search asks for: alone, as many as the caller wants.
Hits == IF mode = "hybrid" THEN Pool ELSE Size(limit, Pool)

Search(s, list) ==
    /\ phase = "searching" /\ s \in Wanted /\ found[s] = None
    /\ Len(list.ids) <= Hits
    /\ s = 2 => embedded
    /\ found' = [found EXCEPT ![s] = list]
    /\ UNCHANGED <<request, phase, embedded, shaped, ranked, context>>

\* OpenSearchError, or the embedding model fails: gather raises the first
\* error, and the other search is not waited for.
SearchFails(s) ==
    /\ phase = "searching" /\ s \in Wanted /\ found[s] = None
    /\ phase' = "failed"
    /\ UNCHANGED <<request, retrieved, ranked, context>>

\* The result from the candidates, best first.
Result(candidates) == Cut(Shaped(candidates), Size(limit, TopK))

\* The hits of a single search are its result: nothing is removed from them.
Alone(s) ==
    /\ phase = "searching" /\ Wanted = {s} /\ found[s] # None
    /\ shaped' = found[s].ids
    /\ found' = [found EXCEPT ![s] = None]
    /\ phase' = "reranking"
    /\ UNCHANGED <<request, embedded, ranked, context>>

\* Both lists are there.
Fuse ==
    /\ phase = "searching" /\ \A s \in Searches : found[s] # None
    /\ shaped' = Result(Fused(method, found))
    /\ found' = [s \in Searches |-> None]
    /\ phase' = "reranking"
    /\ UNCHANGED <<request, embedded, ranked, context>>

-----------------------------------------------------------------------------
(* RerankingService.rerank. *)

\* ids are handed to the context builder.
Build(ids) == ranked' = ids /\ shaped' = <<>> /\ phase' = "building"

\* How many chunks re-ranking returns.
Top == Size(limit, RerankTop)

\* Planted: the scores are paired with as many chunks as there are scores.
PairsWhatItCan(scores) == Build(Cut(Sorted(Cut(shaped, Len(scores)), scores), Top))

\* What becomes of the scores. With a wrong number of them, which score belongs
\* to which chunk is unknown and the order stays.
Scored(scores) ==
    Build(Cut(IF Len(scores) = Len(shaped) THEN Sorted(shaped, scores) ELSE shaped,
              Top))

\* The most chunks that re-ranking is given, and as many different scores.
MostScores == IF Pool > TopK THEN Pool ELSE TopK

Rerank(scores) ==
    /\ phase = "reranking" /\ shaped # <<>>
    /\ Scored(scores)
    /\ UNCHANGED <<request, embedded, found, context>>

\* Re-ranking is disabled, there is nothing to rank, no model, an inference
\* error, or the timeout: the order of the search stays.
RerankSkipped ==
    /\ phase = "reranking"
    /\ Build(Cut(shaped, Top))
    /\ UNCHANGED <<request, embedded, found, context>>

-----------------------------------------------------------------------------
(* ContextBuilder.build. *)

Source(c) == <<Paper[c], Version[c]>>

Used == Sum([i \in DOMAIN passages |-> Cost[passages[i].chunk]])

\* The label of c: that of its source, or the next one.
Labels(c) == IF \E i \in DOMAIN sources : sources[i] = Source(c) THEN sources
             ELSE Append(sources, Source(c))

\* The next chunk gets its label, and a place if the budget has room for it. A
\* chunk without room does not end the loop.
Place ==
    /\ phase = "building" /\ taken < Len(ranked)
    /\ LET c == ranked[taken + 1]
           label == CHOOSE i \in DOMAIN Labels(c) : Labels(c)[i] = Source(c)
       IN /\ sources' = Labels(c)
          /\ passages' = IF Used + Cost[c] > Budget THEN passages
                         ELSE Append(passages, [label |-> label, chunk |-> c])
    /\ taken' = taken + 1
    /\ UNCHANGED <<request, phase, retrieved, ranked, citations>>

\* The labels that have a passage, in their order.
UsedLabels ==
    Only([i \in DOMAIN sources |-> i], {p.label : p \in Range(passages)})

\* text.replace of one label, everywhere in the context.
Replaced(text, old, new) ==
    [i \in DOMAIN text |-> IF text[i].label = old THEN [text[i] EXCEPT !.label = new] ELSE text[i]]

\* Planted: the last label is replaced first.
RelabelledBackwards(text) ==
    LET n == Len(UsedLabels)
    IN FoldLeft(LAMBDA t, i : Replaced(t, UsedLabels[n + 1 - i], n + 1 - i),
                text, [i \in 1..n |-> i])

\* The remaining labels become 1..n, one replacement after the other.
Relabelled(text) ==
    FoldLeft(LAMBDA t, i : Replaced(t, UsedLabels[i], i), text, [i \in DOMAIN UsedLabels |-> i])

\* The chunks cited under a label.
CitedBy(label) ==
    LET mine == Only(passages, {p \in Range(passages) : p.label = label})
    IN [i \in DOMAIN mine |-> mine[i].chunk]

\* Sources without a passage are not cited, and the others have no gaps.
Relabel ==
    /\ phase = "building" /\ taken = Len(ranked)
    /\ citations' = [i \in DOMAIN UsedLabels |->
                        [source |-> sources[UsedLabels[i]], chunks |-> CitedBy(UsedLabels[i])]]
    /\ passages' = Relabelled(passages)
    /\ phase' = "done"
    /\ UNCHANGED <<request, retrieved, ranked, taken, sources>>

Next ==
    \/ Embed
    \/ \E s \in Searches :
          \/ \E list \in EvenLists : Search(s, list)
          \* Only weighted fusion looks at the scores.
          \/ mode = "hybrid" /\ method = "weighted" /\ \E list \in FlatLists : Search(s, list)
          \/ SearchFails(s) \/ Alone(s)
    \/ Fuse
    \/ \E n \in 0..MostScores : \E scores \in [1..n -> 1..MostScores] : Rerank(scores)
    \/ RerankSkipped
    \/ Place \/ Relabel

Spec == Init /\ [][Next]_vars

-----------------------------------------------------------------------------
(* Properties. *)

\* a is at least as good as b to search s.
NoWorse(s, a, b) ==
    ~Has(found[s], b) \/ (Has(found[s], a) /\ RankIn(found[s], a) <= RankIn(found[s], b))

Earlier(ids, a, b) == \E i, j \in DOMAIN ids : i < j /\ ids[i] = a /\ ids[j] = b

\* A chunk that neither search ranks behind b is not passed over for b, by
\* fusing, deduplicating, capping and cutting together: it comes before b in the
\* result, or its paper has all its places, or a better chunk says the same. That
\* one may itself have fallen to the cap, and then what both say is lost.
RankedFairly ==
    [][mode = "hybrid" /\ phase = "searching" /\ phase' = "reranking" =>
        LET candidates == Fused(method, found)
            PaperIsFull(c) == OfPaper(shaped', Paper[c]) = MaxPerPaper
        IN \A a \in Range(candidates), b \in Range(shaped') :
              a # b /\ (\A s \in Searches : NoWorse(s, a, b)) =>
                \/ Earlier(shaped', a, b)
                \/ Words[a] = {}
                \/ PaperIsFull(a)
                \/ \E c \in Range(candidates) :
                      /\ Earlier(candidates, c, a) /\ Similar(a, c)
                      /\ c \in Range(shaped') \/ PaperIsFull(c)]_vars

\* "Never raises for a re-ranking problem [...] an unordered-but-present answer
\* beats no answer" (RerankingService.rerank): a query fails only in its searches,
\* and re-ranking hands over as many distinct chunks of the search as it may. For a
\* caller that gives both one limit these are all of them, in another order.
RerankLosesNothing ==
    [][phase = "reranking" =>
        /\ phase' # "failed"
        /\ phase' = "building" =>
              /\ IsInjective(ranked') /\ Range(ranked') \subseteq Range(shaped)
              /\ Len(ranked') = Top \/ Range(ranked') = Range(shaped)
              /\ limit # 0 => Range(ranked') = Range(shaped)]_vars

\* "Citation validation compares what the model actually cited against this": in
\* the finished context each label names the paper its passage is from, and cites
\* that passage, no label lacks a passage, the budget is kept, and no chunk was
\* left out that the rest of the budget has room for.
ContextIsFaithful ==
    phase = "done" =>
        /\ \A p \in Range(passages) :
              /\ p.label \in DOMAIN citations
              /\ citations[p.label].source = Source(p.chunk)
              /\ p.chunk \in Range(citations[p.label].chunks)
        /\ \A i \in DOMAIN citations : \E p \in Range(passages) : p.label = i
        /\ Used <= Budget
        /\ \A c \in Range(ranked) :
              Used + Cost[c] <= Budget => \E p \in Range(passages) : p.chunk = c

=============================================================================
