------------------------ MODULE MCIncidentLifecycle ------------------------
(* TLC instance of IncidentLifecycle: the request handlers are interchangeable. *)
EXTENDS IncidentLifecycle, TLC

RequestSymmetry == Permutations(Requests)

=============================================================================
