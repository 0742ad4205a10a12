------------------------- MODULE MCIncrementalSync -------------------------
(* Instances of IncrementalSync. The listings hold entries that share a    *)
(* minute: a page, a run or a checkpoint may end between them.             *)
EXTENDS IncrementalSync

MinutesOfFour == <<1, 2, 2, 3>>

=============================================================================
