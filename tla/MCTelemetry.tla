---------------------------- MODULE MCTelemetry -----------------------------
(* Two devices, two sites, a zone of one of them; two requests at a time.  *)
EXTENDS Operations, TLC

CONSTANT s1

MCZoneSite == [z \in Zone |-> s1]

Symmetry == Permutations(Device) \cup Permutations(Handler)
=============================================================================
