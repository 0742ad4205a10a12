-------------------------- MODULE MCPaperVersions --------------------------
(* Instances of PaperVersions: the versions of paper "a", beside a paper   *)
(* "b" that names the same authors in another order.                       *)
EXTENDS PaperVersions

Paper(id, version) == [id |-> id, version |-> version]

TwoPapers == {Paper("a", 1), Paper("a", 2), Paper("a", 3), Paper("b", 1)}

\* "Xu" and "XU." are one author; "--" has no letters.
Names == [p \in TwoPapers |->
            CASE p = Paper("b", 1) -> <<"Yi", "XU.">>
              [] p = Paper("a", 2) -> <<"Xu", "--", "XU.">>
              [] OTHER -> <<"Xu", "Yi">>]
Normalized == [Xu |-> "xu", Yi |-> "yi"] @@ ("XU." :> "xu") @@ ("--" :> "")

=============================================================================
