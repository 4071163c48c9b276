------------------------------- MODULE MCDedup -------------------------------
(* TLC instance of Dedup: three errors of one fingerprint, the least that can *)
(* create an incident and race on its hit count. *)
EXTENDS Dedup

CONSTANTS t1, t2, t3, fpA

MCTriggers == {t1, t2, t3}
MCFp == [t \in MCTriggers |-> fpA]

=============================================================================
