------------------------------- MODULE Lists -------------------------------
(***************************************************************************)
(* What several components do with lists, as folds that proofs can look    *)
(* into: the comprehension [x for x in s if x in members], and sum(s).     *)
(***************************************************************************)
EXTENDS Integers, SequencesExt

Only(s, members) ==
    FoldLeft(LAMBDA kept, x : IF x \in members THEN Append(kept, x) ELSE kept, <<>>, s)

Sum(costs) == FoldLeft(LAMBDA total, c : total + c, 0, costs)

=============================================================================
