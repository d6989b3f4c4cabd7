--------------------------- MODULE MCMPMCTaskQueue ---------------------------
(* Small instances of MPMCTaskQueue for TLC.                               *)
EXTENDS MPMCTaskQueue, TLC

(* Producers, consumers and tasks are interchangeable: no definition names *)
(* one of them.                                                            *)
Symmetry == Permutations(Producers) \cup Permutations(Consumers)
              \cup Permutations(Tasks)
=============================================================================
