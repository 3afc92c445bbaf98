--------------------------- MODULE MCContainerDao --------------------------
(* ContainerDao for TLC: processes and ids are interchangeable.            *)
EXTENDS ContainerDao, TLC

Symmetric == Permutations(Procs) \cup Permutations(Ids) \cup Permutations(Pids)
=============================================================================
