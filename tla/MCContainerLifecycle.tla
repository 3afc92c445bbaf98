------------------------ MODULE MCContainerLifecycle -----------------------
(* ContainerLifecycle for TLC: commands and pids are interchangeable.      *)
EXTENDS ContainerLifecycle, TLC

Symmetric == Permutations(Cmds) \cup Permutations(Pids)
=============================================================================
