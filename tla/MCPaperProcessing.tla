------------------------- MODULE MCPaperProcessing -------------------------
(* Instances of PaperProcessing: one run, two runs, and INDEXED's promise. *)
EXTENDS PaperProcessing

=============================================================================
