-------------------------- MODULE IndexAliasProofs --------------------------
(* Theorems of IndexAlias, for every number of processes and of names. *)
EXTENDS IndexAlias, TLAPS

USE DEF Processes

-----------------------------------------------------------------------------
\* A step of p only sets p's entries, to what Resolve and Goto allow.
LEMMA GotoTyped ==
    ASSUME NEW p \in Processes, NEW step \in Steps, Goto(p, step),
           at \in [Processes -> Steps]
    PROVE  /\ at' \in [Processes -> Steps]
           /\ at'[p] = step
           /\ \A q \in Processes \ {p} : at'[q] = at[q]
BY DEF Goto

LEMMA ResolvedTyped ==
    ASSUME TypeOK PROVE Resolved \in Names \cup {None}
<1>1. CASE alias = {} BY <1>1 DEF Resolved
<1>2. CASE alias # {}
  <2>1. PICK n \in Names : n \in alias BY <1>2 DEF TypeOK
  <2>2. (CHOOSE m \in Names : m \in alias) \in Names BY <2>1
  <2> QED BY <1>2, <2>2 DEF Resolved
<1> QED BY <1>1, <1>2

LEMMA ResolveTyped ==
    ASSUME TypeOK, NEW p \in Processes, NEW step \in Steps, Resolve(p, step)
    PROVE  /\ at' \in [Processes -> Steps]
           /\ seen' \in [Processes -> Names \cup {None}]
           /\ at'[p] \in {step, "idle"}
           /\ \A q \in Processes \ {p} : at'[q] = at[q]
<1>1. Goto(p, step) \/ Goto(p, "idle") BY DEF Resolve
<1>2. at \in [Processes -> Steps] /\ "idle" \in Steps BY DEF TypeOK, Steps
<1>3. seen \in [Processes -> Names \cup {None}] BY DEF TypeOK
<1>4. Resolved \in Names \cup {None} BY ResolvedTyped
<1>5. seen' = seen \/ seen' = [seen EXCEPT ![p] = Resolved] BY DEF Resolve
<1>6. seen' \in [Processes -> Names \cup {None}] BY <1>3, <1>4, <1>5
<1> QED BY <1>1, <1>2, <1>6, GotoTyped

\* A step that keeps the cluster and the targets, and moves p to a step that
\* needs a target only if p has one.
LEMMA StillTyped ==
    ASSUME TypeOK, NEW p \in Processes,
           at' \in [Processes -> Steps],
           seen' \in [Processes -> Names \cup {None}],
           target' \in [Processes -> Names \cup {None}],
           \A q \in Processes \ {p} : at'[q] = at[q] /\ target'[q] = target[q],
           used \subseteq used', used' \subseteq Names,
           alias' \subseteq indices', indices' \subseteq used',
           at'[p] \in {"switch", "update", "check", "decide", "delete"} => target'[p] \in used'
    PROVE  TypeOK'
BY DEF TypeOK

\* The alias points at existing indices only, and whoever is about to switch or
\* to delete knows an index that was created.
THEOREM AliasTyped == Spec => []TypeOK
<1>1. Init => TypeOK BY DEF Init, TypeOK, Steps
<1>2. ASSUME TypeOK, [Next]_vars PROVE TypeOK'
  <2>0. /\ at \in [Processes -> Steps] /\ seen \in [Processes -> Names \cup {None}]
        /\ target \in [Processes -> Names \cup {None}]
        /\ alias \subseteq indices /\ indices \subseteq used /\ used \subseteq Names
    BY <1>2 DEF TypeOK
  <2>00. \A q \in Processes : at[q] \in {"switch", "update", "check", "decide", "delete"}
                                => target[q] \in used
    BY <1>2 DEF TypeOK
  <2>u. CASE UNCHANGED vars BY <1>2, <2>u DEF TypeOK, vars, cluster
  <2>n. ASSUME NEW p \in Processes,
               \/ Boot(p) \/ Rebuild(p)
               \/ \E n \in Names : SwitchBack(p, n) \/ CleanUp(p, n)
               \/ ResolveToBoot(p) \/ Branch(p) \/ CreateIndex(p)
               \/ ResolveToSwitch(p) \/ UpdateAliases(p)
               \/ ResolveToDelete(p) \/ Decide(p) \/ DeleteIndex(p)
               \/ Fail(p)
        PROVE  TypeOK'
    <3>1. CASE Boot(p) \/ Rebuild(p) \/ Branch(p) \/ Decide(p) \/ Fail(p)
      <4>1. PICK step \in Steps : /\ Goto(p, step)
                                  /\ step \in {"switch", "delete"} => target[p] \in used
                                  /\ step \notin {"update", "check", "decide"}
        BY <3>1, <2>00 DEF Boot, Rebuild, Branch, AfterFound, Decide, Fail, Steps
      <4>2. UNCHANGED <<cluster, target, seen>>
        BY <3>1 DEF Boot, Rebuild, Branch, Decide, Fail
      <4> QED BY <1>2, <2>0, <4>1, <4>2, GotoTyped, StillTyped DEF cluster
    <3>2. ASSUME NEW n \in Names, SwitchBack(p, n) \/ CleanUp(p, n) PROVE TypeOK'
      <4>1. PICK step \in Steps : Goto(p, step)
        BY <3>2 DEF SwitchBack, CleanUp, Steps
      <4>2. n \in used /\ target' = [target EXCEPT ![p] = n] /\ UNCHANGED <<cluster, seen>>
        BY <3>2, <2>0 DEF SwitchBack, CleanUp
      <4>3. target' \in [Processes -> Names \cup {None}] /\ target'[p] = n
            /\ \A q \in Processes \ {p} : target'[q] = target[q]
        BY <4>2, <2>0
      <4> QED BY <1>2, <2>0, <4>1, <4>2, <4>3, GotoTyped, StillTyped DEF cluster
    <3>3. CASE ResolveToBoot(p) \/ ResolveToSwitch(p) \/ ResolveToDelete(p)
      <4>1. PICK step \in {"found", "update", "decide"} :
               /\ Resolve(p, step)
               /\ step \in {"update", "decide"} => target[p] \in used
        BY <3>3, <2>00 DEF ResolveToBoot, ResolveToSwitch, ResolveToDelete
      <4>2. UNCHANGED <<cluster, target>>
        BY <3>3 DEF ResolveToBoot, ResolveToSwitch, ResolveToDelete
      <4>3. step \in Steps BY DEF Steps
      <4> QED BY <1>2, <2>0, <4>1, <4>2, <4>3, ResolveTyped, StillTyped DEF cluster
    <3>4. CASE CreateIndex(p)
      <4>1. PICK n \in Names \ used : /\ indices' = indices \cup {n} /\ used' = used \cup {n}
                                      /\ target' = [target EXCEPT ![p] = n]
        BY <3>4 DEF CreateIndex
      <4>2. Goto(p, "switch") \/ Goto(p, "idle") BY <3>4 DEF CreateIndex, Answered
      <4>3. alias' = alias /\ seen' = seen BY <3>4 DEF CreateIndex
      <4>4. target' \in [Processes -> Names \cup {None}] /\ target'[p] = n
            /\ \A q \in Processes \ {p} : target'[q] = target[q]
        BY <4>1, <2>0
      <4>5. "switch" \in Steps /\ "idle" \in Steps BY DEF Steps
      <4> QED BY <1>2, <2>0, <4>1, <4>2, <4>3, <4>4, <4>5, GotoTyped, StillTyped
    <3>5. CASE UpdateAliases(p)
      <4>1. /\ target[p] \in indices /\ alias' = (alias \ {seen[p]}) \cup {target[p]}
            /\ Goto(p, "idle") /\ UNCHANGED <<indices, used, target, seen>>
        BY <3>5 DEF UpdateAliases, Moved
      <4>2. "idle" \in Steps BY DEF Steps
      <4> QED BY <1>2, <2>0, <4>1, <4>2, GotoTyped, StillTyped
    <3>6. CASE DeleteIndex(p)
      <4>1. "idle" \in Steps BY DEF Steps
      <4>2. /\ indices' = indices \ {target[p]} /\ alias' = alias \ {target[p]}
            /\ Goto(p, "idle") /\ UNCHANGED <<used, target, seen>>
        BY <3>6 DEF DeleteIndex
      <4> QED BY <1>2, <2>0, <4>1, <4>2, GotoTyped, StillTyped
    <3> QED BY <2>n, <3>1, <3>2, <3>3, <3>4, <3>5, <3>6
  <2> QED BY <1>2, <2>u, <2>n DEF Next
<1> QED BY <1>1, <1>2, PTL DEF Spec

-----------------------------------------------------------------------------
\* Only two requests touch the alias: update_aliases moves it, and delete takes
\* the deleted index away.
LEMMA AliasMoves ==
    ASSUME [Next]_vars
    PROVE  \/ alias' = alias
           \/ \E p \in Processes : at[p] = "update" /\ UpdateAliases(p)
           \/ \E p \in Processes : at[p] = "delete" /\ DeleteIndex(p)
BY DEF Next, vars, cluster, Boot, Rebuild, SwitchBack, CleanUp, ResolveToBoot, Branch,
       CreateIndex, ResolveToSwitch, UpdateAliases, ResolveToDelete, Decide, DeleteIndex, Fail

\* A switch that was not overtaken leaves the alias on its target alone.
THEOREM SplitComesFromStaleSwitch == Spec => SplitNeedsStaleSwitch
<1>1. ASSUME [Next]_vars, ~Split, Split'
      PROVE  \E p \in Processes : at[p] = "update" /\ Stale(p)
  <2>1. CASE alias' = alias BY <1>1, <2>1 DEF Split
  <2>2. ASSUME NEW p \in Processes, at[p] = "update", UpdateAliases(p), ~Stale(p)
        PROVE  FALSE
    <3>1. alias = Pointed(seen[p]) BY <2>2 DEF Stale
    <3>2. alias \ {seen[p]} = {} BY <3>1 DEF Pointed
    <3>3. alias' = {target[p]} BY <2>2, <3>2 DEF UpdateAliases, Moved
    <3> QED BY <1>1, <3>3 DEF Split
  <2>3. CASE \E p \in Processes : at[p] = "delete" /\ DeleteIndex(p)
    BY <1>1, <2>3 DEF DeleteIndex, Split
  <2> QED BY <1>1, <2>1, <2>2, <2>3, AliasMoves
<1> QED BY <1>1, PTL DEF Spec, SplitNeedsStaleSwitch

\* A process that is about to delete has resolved the alias to something else
\* than its target: the check of delete_index, at the time it was made.
Checked == \A p \in Processes : at[p] = "delete" => seen[p] # target[p]

LEMMA ChecksHold == Spec => [](TypeOK /\ Checked)
<1>1. Init => Checked BY DEF Init, Checked
<1>2. ASSUME TypeOK, Checked, [Next]_vars PROVE Checked'
  <2>0. /\ at \in [Processes -> Steps] /\ seen \in [Processes -> Names \cup {None}]
        /\ target \in [Processes -> Names \cup {None}]
    BY <1>2 DEF TypeOK
  <2>1. CASE UNCHANGED vars BY <1>2, <2>1 DEF Checked, vars
  <2>2. ASSUME NEW p \in Processes,
               \/ Boot(p) \/ Rebuild(p)
               \/ \E n \in Names : SwitchBack(p, n) \/ CleanUp(p, n)
               \/ ResolveToBoot(p) \/ Branch(p) \/ CreateIndex(p)
               \/ ResolveToSwitch(p) \/ UpdateAliases(p)
               \/ ResolveToDelete(p) \/ DeleteIndex(p) \/ Fail(p)
        PROVE  Checked'
    <3>1. at'[p] # "delete"
      BY <2>0, <2>2 DEF Boot, Rebuild, SwitchBack, CleanUp, ResolveToBoot, Branch, AfterFound,
         CreateIndex, Answered, ResolveToSwitch, UpdateAliases, ResolveToDelete, Resolve,
         DeleteIndex, Fail, Goto
    <3>2. \A q \in Processes \ {p} : at'[q] = at[q] /\ seen'[q] = seen[q] /\ target'[q] = target[q]
      BY <2>0, <2>2 DEF Boot, Rebuild, SwitchBack, CleanUp, ResolveToBoot, Branch,
         CreateIndex, Answered, ResolveToSwitch, UpdateAliases, ResolveToDelete, Resolve,
         DeleteIndex, Fail, Goto
    <3> QED BY <1>2, <3>1, <3>2 DEF Checked
  <2>3. ASSUME NEW p \in Processes, Decide(p) PROVE Checked'
    BY <1>2, <2>0, <2>3 DEF Decide, Refuses, Goto, Checked
  <2> QED BY <1>2, <2>1, <2>2, <2>3 DEF Next
<1> QED BY <1>1, <1>2, AliasTyped, PTL DEF Spec

\* A deletion empties the alias only if the alias moved after its check.
THEOREM GapComesFromStaleCheck == Spec => GapNeedsStaleCheck
<1>1. ASSUME TypeOK, Checked, [Next]_vars, alias # {}, alias' = {}
      PROVE  \E p \in Processes : at[p] = "delete" /\ Stale(p)
  <2>1. ASSUME NEW p \in Processes, UpdateAliases(p) PROVE FALSE
    BY <1>1, <2>1 DEF UpdateAliases, Moved
  <2>2. ASSUME NEW p \in Processes, at[p] = "delete", DeleteIndex(p) PROVE Stale(p)
    <3>1. alias = {target[p]} BY <1>1, <2>2 DEF DeleteIndex
    <3>2. seen[p] # target[p] BY <1>1, <2>2 DEF Checked
    <3> QED BY <3>1, <3>2 DEF Stale, Pointed
  <2> QED BY <1>1, <2>1, <2>2, AliasMoves
<1> QED BY <1>1, ChecksHold, PTL DEF Spec, GapNeedsStaleCheck

\* Once the alias is split and nothing is in flight, no operation gets past its
\* resolve_alias: the split stays, whatever is called.
THEOREM SplitNeverHeals == Spec => SplitStays
<1>1. ASSUME TypeOK, [Next]_vars, Split, \A p \in Processes : ~InFlight(p)
      PROVE  alias' = alias /\ \A p \in Processes : ~InFlight(p)'
  <2>0. ~Resolvable /\ at \in [Processes -> Steps] BY <1>1 DEF Split, Resolvable, TypeOK
  <2>1. CASE UNCHANGED vars BY <1>1, <2>1 DEF vars, cluster, InFlight
  <2>2. ASSUME NEW p \in Processes,
               \/ Boot(p) \/ Rebuild(p)
               \/ \E n \in Names : SwitchBack(p, n) \/ CleanUp(p, n)
               \/ ResolveToBoot(p) \/ Branch(p) \/ CreateIndex(p)
               \/ ResolveToSwitch(p) \/ ResolveToDelete(p) \/ Fail(p)
        PROVE  alias' = alias /\ \A q \in Processes : ~InFlight(q)'
    <3>1. alias' = alias
      BY <2>2 DEF Boot, Rebuild, SwitchBack, CleanUp, ResolveToBoot, Branch, CreateIndex,
         ResolveToSwitch, ResolveToDelete, Fail, cluster
    <3>2. PICK step \in Steps \ {"update", "decide", "delete"} : Goto(p, step)
      BY <2>0, <2>2 DEF Boot, Rebuild, SwitchBack, CleanUp, ResolveToBoot, Branch, AfterFound,
         CreateIndex, Answered, ResolveToSwitch, ResolveToDelete, Resolve, Fail, Steps
    <3> QED BY <1>1, <2>0, <3>1, <3>2 DEF Goto, InFlight
  <2>3. ASSUME NEW p \in Processes, UpdateAliases(p) \/ Decide(p) \/ DeleteIndex(p)
        PROVE  FALSE
    BY <1>1, <2>3 DEF UpdateAliases, Decide, DeleteIndex, InFlight
  <2> QED BY <1>1, <2>1, <2>2, <2>3 DEF Next
<1> QED BY <1>1, AliasTyped, PTL DEF Spec, SplitStays

=============================================================================
