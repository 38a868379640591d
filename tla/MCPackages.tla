----------------------------- MODULE MCPackages -----------------------------
(* Two builds of one version and one of another, in a repository without a  *)
(* distribution and in those of two distributions.                          *)
EXTENDS Packages, TLC

CONSTANTS b1, b2, b3, p1, bookworm, trixie

MCPackage == [b \in Build |-> p1]
MCVersion == [b \in Build |-> IF b = b3 THEN 2 ELSE 1]
MCRepo == {[dist |-> None, channel |-> "dev"], [dist |-> bookworm, channel |-> "staging"],
           [dist |-> bookworm, channel |-> "prod"], [dist |-> trixie, channel |-> "prod"]}

Symmetry == Permutations({b1, b2}) \cup Permutations(Handler)
=============================================================================
