----------------------------- MODULE MCHotfixes -----------------------------
(* Three requests at a time about one hotfix; requests about different    *)
(* hotfixes share nothing but the pool of task ids.                         *)
EXTENDS Hotfixes, TLC

Symmetry == Permutations(Hf) \cup Permutations(Job) \cup Permutations(Handler)
=============================================================================
