--------------------------- MODULE MCDeployments ---------------------------
(* Two requests at a time on three rows and two Semaphore tasks.         *)
EXTENDS Deployments, TLC

Symmetry == Permutations(Dep) \cup Permutations(Job) \cup Permutations(Handler)
                \cup Permutations(Artifact)
=============================================================================
