-------------------------- MODULE MCPlatformUpdate --------------------------
(* Two programs that share nothing, so that each is explored with the other *)
(* at rest: the update of the platform with the API's and the exporter's    *)
(* memory, and a page of the UI.                                            *)
EXTENDS PlatformUpdate, SidebarTree, TLC

CONSTANTS s1, s2, z1, z2, d1, d2, d3

VARIABLE part

\* Device d2 stands in a zone of another site than its own.
MCZoneSite == z1 :> s1 @@ z2 :> s2
MCHome == d1 :> [site |-> s1, zone |-> z1] @@ d2 :> [site |-> s1, zone |-> z2]
              @@ d3 :> [site |-> s2, zone |-> z2]

MCMatching == {Site \cup Zone, {s1, z1, d1}}

MCInit ==
    /\ part \in {"update", "page"}
    /\ UpdateInit
    /\ TreeInit
    /\ part = "update" => expanded = {}

MCNext ==
    \/ part = "update" /\ UpdateNext /\ UNCHANGED <<part, treeVars>>
    \/ part = "page" /\ TreeNext /\ UNCHANGED <<part, updateVars>>

MCSpec == MCInit /\ [][MCNext]_<<part, updateVars, treeVars>>

Symmetry == Permutations(Login) \cup Permutations(Rendering)
=============================================================================
