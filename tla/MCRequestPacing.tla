-------------------------- MODULE MCRequestPacing --------------------------
(* Instances of RequestPacing: callers that share a limiter, and a download. *)
EXTENDS RequestPacing

=============================================================================
