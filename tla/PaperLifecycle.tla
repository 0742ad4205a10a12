--------------------------- MODULE PaperLifecycle ---------------------------
(***************************************************************************)
(* What one ingestion run at a time promises about the fate of a paper,    *)
(* whatever crashes or fails on the way: no lock, session, chunk or search *)
(* index is visible here. A paper is registered once; the failures counted *)
(* against it go up one at a time; the failure that spends the budget is   *)
(* the one that makes it FAILED and writes a dead letter; only a pending   *)
(* paper with budget left becomes INDEXED; nothing leaves FAILED.          *)
(***************************************************************************)
EXTENDS Naturals

CONSTANTS Papers, MaxAttempts

VARIABLES
    stage,      \* stage[p]: "absent" before the paper row exists
    attempts,   \* attempts[p]: failures counted against p
    letters     \* letters[p]: dead letters that name the row of p

vars == <<stage, attempts, letters>>

Init ==
    /\ stage = [p \in Papers |-> "absent"]
    /\ attempts = [p \in Papers |-> 0]
    /\ letters = [p \in Papers |-> 0]

Register(p) ==
    /\ stage[p] = "absent"
    /\ stage' = [stage EXCEPT ![p] = "pending"]
    /\ UNCHANGED <<attempts, letters>>

Index(p) ==
    /\ stage[p] = "pending"
    /\ attempts[p] < MaxAttempts
    /\ stage' = [stage EXCEPT ![p] = "indexed"]
    /\ UNCHANGED <<attempts, letters>>

\* A failure with budget left.
Fail(p) ==
    /\ stage[p] # "absent"
    /\ attempts[p] + 1 < MaxAttempts
    /\ attempts' = [attempts EXCEPT ![p] = @ + 1]
    /\ UNCHANGED <<stage, letters>>

\* A failure that spends the budget, or one counted after it was spent.
GiveUp(p) ==
    /\ stage[p] # "absent"
    /\ attempts[p] + 1 >= MaxAttempts
    /\ attempts' = [attempts EXCEPT ![p] = @ + 1]
    /\ stage' = [stage EXCEPT ![p] = "failed"]
    /\ letters' = [letters EXCEPT ![p] = @ + 1]

Next == \E p \in Papers : Register(p) \/ Index(p) \/ Fail(p) \/ GiveUp(p)

Spec == Init /\ [][Next]_vars

=============================================================================
