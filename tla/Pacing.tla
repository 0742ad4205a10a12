------------------------------- MODULE Pacing -------------------------------
(***************************************************************************)
(* What the rate limiter of the arXiv client promises to the service: a    *)
(* request is sent only when the last one is at least Interval ago. Who    *)
(* sends it, and who waits or gives up, is not visible.                    *)
(***************************************************************************)
EXTENDS Naturals

CONSTANT Interval

VARIABLE quiet   \* ticks since the last request, counted up to Interval

Init == quiet = Interval

Send == quiet >= Interval /\ quiet' = 0

Pass == quiet < Interval /\ quiet' = quiet + 1

Next == Send \/ Pass

Spec == Init /\ [][Next]_quiet

=============================================================================
