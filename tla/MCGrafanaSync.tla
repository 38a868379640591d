--------------------------- MODULE MCGrafanaSync ----------------------------
(* One user, two sites, two roles that differ in Grafana.                   *)
EXTENDS GrafanaSync, TLC

Symmetry == Permutations(SiteScope) \cup Permutations(Handler)
=============================================================================
