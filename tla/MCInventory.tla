---------------------------- MODULE MCInventory -----------------------------
(* Two sites, one zone, profile, device and unit, and overrides of one      *)
(* component; three requests, two of them at a time.  Overrides and their   *)
(* readers change no row.  So the run has two parts: the rows, from any      *)
(* content, with nobody reading a manifest; and the manifest, from where    *)
(* everything exists, with the device in a site and a zone and at most one  *)
(* live override, while two requests that are no heartbeats go on.          *)
EXTENDS Overrides, TLC

CONSTANTS a0, c1

VARIABLE part

MCStack == {<<>>, [c \in {c1} |-> a0]}

MCInit ==
    /\ part \in {"rows", "manifest"}
    /\ override \in {{}} \cup {{o} : o \in {r \in Override : part = "manifest" /\ ~r.lapsed}}
    /\ begun = IF part = "rows" THEN 0 ELSE 1
    /\ OInit
    /\ part = "manifest" => /\ \A i \in Id : Exists(i)
                            /\ \A d \in Device : /\ row[d].site # None /\ row[d].zone # None
                                                   /\ count[d] = [u \in Unit |-> None]

MCNext ==
    /\ ONext
    /\ IF part = "rows" THEN UNCHANGED <<override, res>>
       ELSE \A h \in Handler : req'[h].op # "heartbeat"
    /\ UNCHANGED part

MCSpec == MCInit /\ [][MCNext]_<<part, ovars>>

Symmetry == Permutations(Site) \cup Permutations(Handler) \cup Permutations(Artifact)
=============================================================================
