------------------------------ MODULE MCRestart ------------------------------
(* TLC instance of Restart: three interchangeable incidents. *)
EXTENDS Restart, TLC

IncidentSymmetry == Permutations(Incidents)

=============================================================================
