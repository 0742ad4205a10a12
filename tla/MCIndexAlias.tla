---------------------------- MODULE MCIndexAlias ----------------------------
(* Instances of IndexAlias: two processes that boot, and an operator. *)
EXTENDS IndexAlias, TLC

\* Processes of a kind, and names, are interchangeable.
Symmetry == Permutations(Booters) \cup Permutations(Operators) \cup Permutations(Names)

=============================================================================
