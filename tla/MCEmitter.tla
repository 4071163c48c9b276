------------------------------ MODULE MCEmitter ------------------------------
(* TLC instance of Emitter: two threads that emit two events each, a queue that *)
(* can be full, one call of shutdown() and the exit. *)
EXTENDS Emitter

CONSTANTS p1, p2

MCProducers == {p1, p2}
MCWorkers == 1 .. 4

=============================================================================
