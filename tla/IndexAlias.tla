----------------------------- MODULE IndexAlias -----------------------------
(***************************************************************************)
(* Index lifecycle (search/index_manager.py): ensure_ready, create_index,  *)
(* switch_alias and delete_index by processes that share one OpenSearch    *)
(* alias. Each operation is several requests; a step is one request, and   *)
(* whatever another process does in between is seen by the next one only.  *)
(*                                                                         *)
(* OpenSearch is external. An update_aliases request is atomic; its        *)
(* "remove" of an alias that is gone does nothing (must_exist is not sent),*)
(* and it fails as a whole when an index it names does not exist. Deleting *)
(* an index takes its aliases along.                                       *)
(***************************************************************************)

CONSTANTS
    Booters,    \* processes that call ensure_ready and then write
    Operators,  \* processes that re-index, switch back and clean up
    Names,      \* the index names that are ever built
    None        \* resolve_alias returned None; no index

Processes == Booters \cup Operators

ASSUME AliasAssumption == Booters \cap Operators = {} /\ None \notin Names

VARIABLES
    indices,  \* the physical indices
    alias,    \* the indices the alias points at
    used,     \* names that were taken: the random suffix never returns one again
    at,       \* at[p]: the next request of p
    target,   \* target[p]: the index that p switches to or deletes
    seen      \* seen[p]: what p's last resolve_alias returned

cluster == <<indices, alias, used>>
vars == <<cluster, at, target, seen>>

Init ==
    /\ indices = {} /\ alias = {} /\ used = {}
    /\ at = [p \in Processes |-> "idle"]
    /\ target = [p \in Processes |-> None]
    /\ seen = [p \in Processes |-> None]

-----------------------------------------------------------------------------
\* An alias over several indices is an error in resolve_alias.
Resolvable == \A m, n \in alias : m = n

\* What resolve_alias returns: the name, or None when the alias is unset.
Resolved == IF alias = {} THEN None ELSE CHOOSE n \in Names : n \in alias

\* The alias as a process that resolved it to n believes it to be.
Pointed(n) == IF n = None THEN {} ELSE {n}

Goto(p, step) == at' = [at EXCEPT ![p] = step]

\* The answer to a request that was applied arrives, or the caller sees an
\* error and its operation ends.
Answered(p, step) == Goto(p, step) \/ Goto(p, "idle")

\* Planted: an alias over several indices resolves to the first of them.
ResolveFirst(p, step) ==
    /\ seen' = [seen EXCEPT ![p] = Resolved]
    /\ Goto(p, step)

\* resolve_alias, called where step follows.
Resolve(p, step) ==
    \/ /\ Resolvable
       /\ seen' = [seen EXCEPT ![p] = Resolved]
       /\ Goto(p, step)
    \/ ~Resolvable /\ Goto(p, "idle") /\ UNCHANGED seen

-----------------------------------------------------------------------------
(* The calls. *)

\* ensure_ready, at the start of an ingestion run.
Boot(p) ==
    /\ p \in Booters /\ at[p] = "idle"
    /\ Goto(p, "boot")
    /\ UNCHANGED <<cluster, target, seen>>

\* A re-index: create_index, then switch_alias to the new index.
Rebuild(p) ==
    /\ p \in Operators /\ at[p] = "idle"
    /\ Goto(p, "create")
    /\ UNCHANGED <<cluster, target, seen>>

\* switch_alias to an index that exists, for instance back to the former one.
SwitchBack(p, n) ==
    /\ p \in Operators /\ at[p] = "idle"
    /\ n \in indices
    /\ target' = [target EXCEPT ![p] = n]
    /\ Goto(p, "switch")
    /\ UNCHANGED <<cluster, seen>>

\* delete_index.
CleanUp(p, n) ==
    /\ p \in Operators /\ at[p] = "idle"
    /\ n \in indices
    /\ target' = [target EXCEPT ![p] = n]
    /\ Goto(p, "check")
    /\ UNCHANGED <<cluster, seen>>

-----------------------------------------------------------------------------
(* The requests. *)

\* Planted: the index is taken to exist from an earlier boot.
SwitchesAtOnce(p) == IF seen[p] = None THEN "switch" ELSE "idle"

\* ensure_ready creates an index only when the alias resolves to nothing.
AfterFound(p) == IF seen[p] = None THEN "create" ELSE "idle"

ResolveToBoot(p) ==
    /\ at[p] = "boot"
    /\ Resolve(p, "found")
    /\ UNCHANGED <<cluster, target>>

\* The branch after it; the run that called ensure_ready goes on.
Branch(p) ==
    /\ at[p] = "found"
    /\ Goto(p, AfterFound(p))
    /\ UNCHANGED <<cluster, target, seen>>

\* create_index. The name is new.
CreateIndex(p) ==
    /\ at[p] = "create"
    /\ \E n \in Names \ used :
          /\ indices' = indices \cup {n}
          /\ used' = used \cup {n}
          /\ target' = [target EXCEPT ![p] = n]
    /\ Answered(p, "switch")
    /\ UNCHANGED <<alias, seen>>

ResolveToSwitch(p) ==
    /\ at[p] = "switch"
    /\ Resolve(p, "update")
    /\ UNCHANGED <<cluster, target>>

\* Planted: the actions list only adds.
AddedOnly(p) == alias \cup {target[p]}

\* The actions list: remove the index that was resolved, add the target.
Moved(p) == (alias \ {seen[p]}) \cup {target[p]}

\* update_aliases, the second half of switch_alias.
UpdateAliases(p) ==
    /\ at[p] = "update"
    /\ Pointed(seen[p]) \cup {target[p]} \subseteq indices
    /\ alias' = Moved(p)
    /\ Goto(p, "idle")
    /\ UNCHANGED <<indices, used, target, seen>>

\* Planted: delete_index does not look at the alias.
RefusesNothing(p) == FALSE

\* delete_index refuses the index it resolved the alias to.
Refuses(p) == seen[p] = target[p]

ResolveToDelete(p) ==
    /\ at[p] = "check"
    /\ Resolve(p, "decide")
    /\ UNCHANGED <<cluster, target>>

Decide(p) ==
    /\ at[p] = "decide"
    /\ Goto(p, IF Refuses(p) THEN "idle" ELSE "delete")
    /\ UNCHANGED <<cluster, target, seen>>

\* An index that is absent already is no error.
DeleteIndex(p) ==
    /\ at[p] = "delete"
    /\ indices' = indices \ {target[p]}
    /\ alias' = alias \ {target[p]}
    /\ Goto(p, "idle")
    /\ UNCHANGED <<used, target, seen>>

\* A request that OpenSearch refuses or never gets: the operation raises
\* OpenSearchError, or the process has died. update_aliases refuses a list
\* that names an index that is gone.
Fail(p) ==
    /\ at[p] # "idle"
    /\ Goto(p, "idle")
    /\ UNCHANGED <<cluster, target, seen>>

Next ==
    \E p \in Processes :
        \/ Boot(p) \/ Rebuild(p)
        \/ \E n \in Names : SwitchBack(p, n) \/ CleanUp(p, n)
        \/ ResolveToBoot(p) \/ Branch(p) \/ CreateIndex(p)
        \/ ResolveToSwitch(p) \/ UpdateAliases(p)
        \/ ResolveToDelete(p) \/ Decide(p) \/ DeleteIndex(p)
        \/ Fail(p)

Spec == Init /\ [][Next]_vars

-----------------------------------------------------------------------------
(* Properties. *)

Steps == {"idle", "boot", "found", "create", "switch", "update",
          "check", "decide", "delete"}

\* The alias only points at indices that exist, and a process that is about to
\* switch or to delete has an index to do it with.
TypeOK ==
    /\ alias \subseteq indices /\ indices \subseteq used /\ used \subseteq Names
    /\ at \in [Processes -> Steps]
    /\ target \in [Processes -> Names \cup {None}]
    /\ seen \in [Processes -> Names \cup {None}]
    /\ \A p \in Processes :
          at[p] \in {"switch", "update", "check", "decide", "delete"} => target[p] \in used

\* p acts on a resolved alias that has changed since.
Stale(p) == alias # Pointed(seen[p])

Split == \E m, n \in alias : m # n

\* "Add and remove travel in one actions list, so the alias never points at
\* nothing and never points at two indices at once" (switch_alias): that holds
\* for every switch whose resolved alias is still the current one. Only a switch
\* that another process overtook can leave the alias on two indices.
SplitNeedsStaleSwitch ==
    [][~Split /\ Split' => \E p \in Processes : at[p] = "update" /\ Stale(p)]_vars

\* delete_index "refuses to delete the index the alias currently points at":
\* the alias is only ever emptied by a deletion whose check was overtaken by a
\* switch.
GapNeedsStaleCheck ==
    [][alias # {} /\ alias' = {} => \E p \in Processes : at[p] = "delete" /\ Stale(p)]_vars

\* Every operation resolves the alias first and refuses one over two indices: a
\* split that no request in flight undoes stays, whatever is called.
InFlight(p) == at[p] \in {"update", "decide", "delete"}
SplitStays ==
    [][Split /\ (\A p \in Processes : ~InFlight(p))
        => alias' = alias /\ \A p \in Processes : ~InFlight(p)']_vars

=============================================================================
