---------------------------- MODULE MCRetrieval ----------------------------
(* An instance of Retrieval: three chunks of paper A, of which a3 is from      *)
(* another version, and b1, which says what a3 says.                           *)
EXTENDS Evaluation

MCChunks == {"a1", "a2", "a3", "b1", "c1"}
MCPaper == [c \in MCChunks |-> CASE c = "b1" -> "B" [] c = "c1" -> "C" [] OTHER -> "A"]
MCVersion == [c \in MCChunks |-> IF c = "a3" THEN 2 ELSE 1]
MCWords == [c \in MCChunks |->
    CASE c = "a1" -> {1, 2, 3} [] c = "a2" -> {3, 4} [] c = "c1" -> {5, 6} [] OTHER -> {1, 7}]
MCCost == [c \in MCChunks |->
    CASE c = "a1" -> 9 [] c = "a2" -> 3 [] c = "c1" -> 4 [] OTHER -> 2]
MCWeights == <<50, 50>>
MCGain == <<10000, 6309, 5000, 4307>>

=============================================================================
