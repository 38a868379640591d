-------------------------- MODULE RolloutLifecycle --------------------------
(***************************************************************************)
(* What the deployment routes promise their clients, without handlers,     *)
(* tasks or transactions: every deployment goes once from pending through  *)
(* deploying to success or failed, and a deployment is derived from        *)
(* another one (the next ring, or a rollback) only when that one is over.  *)
(***************************************************************************)

CONSTANTS Dep

VARIABLES
    stage,    \* where each deployment is in its life
    lineage   \* the derivations: <<new, "promoted" or "rollback_requested", old>>

lifecycle == <<stage, lineage>>

LInit == /\ stage = [d \in Dep |-> "absent"]
         /\ lineage = {}

Move(d, from, to) == /\ stage[d] \in from
                     /\ stage' = [stage EXCEPT ![d] = to]

Register(d) == Move(d, {"absent"}, "pending") /\ UNCHANGED lineage

\* Only a success is promoted; whatever is over can be rolled back.
Derive(n, how, o) ==
    /\ stage[o] \in IF how = "promoted" THEN {"success"} ELSE {"success", "failed"}
    /\ Move(n, {"absent"}, "pending")
    /\ lineage' = lineage \cup {<<n, how, o>>}

Fire(d) == Move(d, {"pending"}, "deploying") /\ UNCHANGED lineage

Conclude(d) ==
    /\ \E v \in {"success", "failed"} : Move(d, {"deploying"}, v)
    /\ UNCHANGED lineage

LNext == \E d \in Dep :
             \/ Register(d)
             \/ Fire(d)
             \/ Conclude(d)
             \/ \E o \in Dep, how \in {"promoted", "rollback_requested"} : Derive(d, how, o)

LSpec == LInit /\ [][LNext]_lifecycle
=============================================================================
