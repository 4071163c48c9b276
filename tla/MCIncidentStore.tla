--------------------------- MODULE MCIncidentStore ---------------------------
(* TLC instance of IncidentStore. *)
EXTENDS IncidentStore, TLC

WriterSymmetry == Permutations(Writers)

=============================================================================
