---------------------------- MODULE Deployments ----------------------------
(***************************************************************************)
(* The deployment life cycle of the Fleet API (api/app/routers/            *)
(* deployments.py): operators create, trigger, promote and roll back rows  *)
(* of the table `deployment`; Semaphore, an external service, runs the     *)
(* Ansible job of a triggered row; GET /deployments/{id} copies the job's  *)
(* verdict into the row.                                                   *)
(*                                                                         *)
(* Every request runs in one database transaction that get_db commits when *)
(* the route returns and rolls back when it raises.  A route awaits        *)
(* Semaphore between reading its row and committing, so a request is a     *)
(* handler with a program counter: what it read may be stale when it       *)
(* commits, and it may die (crash, time-out, lost answer) at every step.   *)
(***************************************************************************)

CONSTANTS
    Dep,          \* deployment ids, the primary keys uuid4() can return
    Job,          \* Semaphore task ids
    Handler,      \* request slots of the API: as many requests run at once
    Artifact,     \* what is deployed where: artifact_type, artifact_ref, target_scope
    CreateModes,  \* the rollout modes clients create deployments with
    Roles,        \* the roles of the clients
    None          \* SQL NULL

Modes == {"ring-0", "ring-1", "ring-2", "hotfix", "rollback"}

ASSUME NoneIsNoId == None \notin Dep \cup Job \cup Artifact \cup Modes
ASSUME CreateModesAreValid == CreateModes \subseteq Modes

VARIABLES
    \* The table `deployment`, one function per column.
    status, mode, artifact, job, ended,
    \* The committed rows of `audit_event`.
    audit,
    \* Semaphore: the deployment a task was fired for (its extra_vars), its
    \* state, and the requests that reached it only after their sender gave up.
    owner, jobState, stray,
    \* The handlers: where each is, and what it holds from before its await.
    pc, dep, hjob, verdict

table    == <<status, mode, artifact, job, ended>>
sema     == <<owner, jobState, stray>>
handlers == <<pc, dep, hjob, verdict>>
vars     == <<table, audit, sema, handlers>>

Statuses  == {"absent", "pending", "deploying", "success", "failed"}
Triggered == {"deploying", "success", "failed"}
\* "none": no such task yet; "other": a state the API's map does not list
\* (a task stopped in Semaphore's own interface, or an answer without status).
JobStates == {"none", "waiting", "running", "success", "error", "other"}
PCs       == {"idle", "posting", "accepted", "polling", "synced",
              "promoting", "rollingback"}

Event(a, d, f, j) == [action |-> a, dep |-> d, from |-> f, job |-> j]

Events == [action : {"created", "triggered", "promoted", "rollback_requested"},
           dep : Dep, from : Dep \cup {None}, job : Job \cup {None}]

-----------------------------------------------------------------------------
(* The pure parts of the routes.                                           *)

\* Faulty variants of StatusOf: whatever is neither waiting nor running counts
\* as a failure; "error" missing from the map.
UnknownIsFailure(s) == IF s = "success" THEN s
                       ELSE IF s \in {"waiting", "running"} THEN "deploying" ELSE "failed"
ErrorUnmapped(s) == IF s = "success" THEN s ELSE "deploying"

\* _SEMAPHORE_STATUS_MAP.get(s, deployment.status), for a row that is deploying.
StatusOf(s) == CASE s = "success" -> "success"
                 [] s = "error"   -> "failed"
                 [] OTHER         -> "deploying"

\* _RING_PROGRESSION
Promotable == {"ring-0", "ring-1"}
NextRing(m) == IF m = "ring-0" THEN "ring-1" ELSE "ring-2"

\* A CI bot handles ring-0 only; every other role that passes require_roles
\* handles every mode.
MayHandle(r, m) == r = "ci_bot" => m = "ring-0"

\* Faulty variants: no status check on trigger; promotion of failures too.
TriggerAnyRow(d)   == status[d] # "absent"
PromoteAnyOver(d)  == status[d] \in {"success", "failed"} /\ mode[d] \in Promotable

\* The checks that answer 409.  The trigger also lets "scheduled" through, a
\* status no code writes.
TriggerAllowed(d)  == status[d] = "pending"
PromoteAllowed(d)  == status[d] = "success" /\ mode[d] \in Promotable
RollbackAllowed(d) == status[d] \in {"success", "failed"}

-----------------------------------------------------------------------------
Init ==
    /\ status = [d \in Dep |-> "absent"]
    /\ mode = [d \in Dep |-> None]
    /\ artifact = [d \in Dep |-> None]
    /\ job = [d \in Dep |-> None]
    /\ ended = [d \in Dep |-> FALSE]
    /\ audit = {}
    /\ owner = [j \in Job |-> None]
    /\ jobState = [j \in Job |-> "none"]
    /\ stray = {}
    /\ pc = [h \in Handler |-> "idle"]
    /\ dep = [h \in Handler |-> None]
    /\ hjob = [h \in Handler |-> None]
    /\ verdict = [h \in Handler |-> None]

\* An idle handler takes a request about d and holds j while it waits.
Start(h, p, d, j) ==
    /\ pc[h] = "idle"
    /\ pc' = [pc EXCEPT ![h] = p]
    /\ dep' = [dep EXCEPT ![h] = d]
    /\ hjob' = [hjob EXCEPT ![h] = j]
    /\ UNCHANGED verdict

\* The request of h is over.
Finish(h) ==
    /\ pc' = [pc EXCEPT ![h] = "idle"]
    /\ dep' = [dep EXCEPT ![h] = None]
    /\ hjob' = [hjob EXCEPT ![h] = None]
    /\ verdict' = [verdict EXCEPT ![h] = None]

\* INSERT of a pending row with its audit event, in one transaction.
Insert(n, m, a, e) ==
    /\ status[n] = "absent"
    /\ status' = [status EXCEPT ![n] = "pending"]
    /\ mode' = [mode EXCEPT ![n] = m]
    /\ artifact' = [artifact EXCEPT ![n] = a]
    /\ audit' = audit \cup {e}
    /\ UNCHANGED <<job, ended>>

-----------------------------------------------------------------------------
(* POST /deployments.  It reads no deployment row and awaits nobody but    *)
(* the database, so its commit is one step; a rollback changes nothing.    *)

Create(n, m, a) ==
    /\ m \in CreateModes
    /\ \E r \in Roles : MayHandle(r, m)
    /\ Insert(n, m, a, Event("created", n, None, None))
    /\ UNCHANGED <<sema, handlers>>

-----------------------------------------------------------------------------
(* POST /deployments/{id}/trigger.                                         *)

\* The route reads the row, passes its checks and posts the task.
BeginTrigger(h, d) ==
    /\ TriggerAllowed(d)
    /\ \E r \in Roles : MayHandle(r, mode[d])
    /\ Start(h, "posting", d, None)
    /\ UNCHANGED <<table, audit, sema>>

\* Semaphore queues the task and its answer reaches the handler.
SemaphoreAccepts(h, j) ==
    /\ pc[h] = "posting"
    /\ owner[j] = None
    /\ owner' = [owner EXCEPT ![j] = dep[h]]
    /\ jobState' = [jobState EXCEPT ![j] = "waiting"]
    /\ pc' = [pc EXCEPT ![h] = "accepted"]
    /\ hjob' = [hjob EXCEPT ![h] = j]
    /\ UNCHANGED <<table, audit, stray, dep, verdict>>

\* Faulty variant: the row is committed without its audit event.
CommitTriggerUnaudited(h) ==
    /\ pc[h] = "accepted"
    /\ job' = [job EXCEPT ![dep[h]] = hjob[h]]
    /\ status' = [status EXCEPT ![dep[h]] = "deploying"]
    /\ Finish(h)
    /\ UNCHANGED <<mode, artifact, ended, audit, sema>>

\* The job id, the status and the audit event are committed together, over
\* whatever the row holds by now.
CommitTrigger(h) ==
    /\ pc[h] = "accepted"
    /\ job' = [job EXCEPT ![dep[h]] = hjob[h]]
    /\ status' = [status EXCEPT ![dep[h]] = "deploying"]
    /\ audit' = audit \cup {Event("triggered", dep[h], None, hjob[h])}
    /\ Finish(h)
    /\ UNCHANGED <<mode, artifact, ended, sema>>

-----------------------------------------------------------------------------
(* GET /deployments/{id}.  For a row that is not deploying the route       *)
(* changes nothing and is left out.                                        *)

BeginSync(h, d) ==
    /\ status[d] = "deploying"
    /\ job[d] # None
    /\ Start(h, "polling", d, job[d])
    /\ UNCHANGED <<table, audit, sema>>

\* Semaphore's answer: the state of the task, or "unknown" when the answer
\* carries none.  The route writes only a status that differs from the one it
\* read.
SyncAnswer(h, s) ==
    /\ pc[h] = "polling"
    /\ s \in {jobState[hjob[h]], "unknown"}
    /\ IF StatusOf(s) = "deploying"
       THEN Finish(h)
       ELSE /\ pc' = [pc EXCEPT ![h] = "synced"]
            /\ verdict' = [verdict EXCEPT ![h] = StatusOf(s)]
            /\ UNCHANGED <<dep, hjob>>
    /\ UNCHANGED <<table, audit, sema>>

CommitSync(h) ==
    /\ pc[h] = "synced"
    /\ status' = [status EXCEPT ![dep[h]] = verdict[h]]
    /\ ended' = [ended EXCEPT ![dep[h]] = TRUE]
    /\ Finish(h)
    /\ UNCHANGED <<mode, artifact, job, audit, sema>>

-----------------------------------------------------------------------------
(* POST /deployments/{id}/promote and /rollback: read one row, insert      *)
(* another.  The columns they copy never change, so they are read at the   *)
(* commit; the status they check is read at the beginning.                 *)

BeginPromote(h, d) ==
    /\ PromoteAllowed(d)
    /\ Start(h, "promoting", d, None)
    /\ UNCHANGED <<table, audit, sema>>

CommitPromote(h, n) ==
    /\ pc[h] = "promoting"
    /\ Insert(n, NextRing(mode[dep[h]]), artifact[dep[h]],
              Event("promoted", n, dep[h], None))
    /\ Finish(h)
    /\ UNCHANGED sema

BeginRollback(h, d) ==
    /\ RollbackAllowed(d)
    /\ Start(h, "rollingback", d, None)
    /\ UNCHANGED <<table, audit, sema>>

CommitRollback(h, n) ==
    /\ pc[h] = "rollingback"
    /\ Insert(n, "rollback", artifact[dep[h]],
              Event("rollback_requested", n, dep[h], None))
    /\ Finish(h)
    /\ UNCHANGED sema

-----------------------------------------------------------------------------
(* Failures.                                                               *)

\* Faulty variant: a failing trigger restores the status it read, by hand.
AbortRestoring(h) ==
    /\ pc[h] # "idle"
    /\ status' = IF pc[h] \in {"posting", "accepted"}
                 THEN [status EXCEPT ![dep[h]] = "pending"] ELSE status
    /\ Finish(h)
    /\ UNCHANGED <<mode, artifact, job, ended, audit, sema>>

\* A request dies before its commit: Semaphore refuses (502), cannot be
\* reached or answers too late (500), the commit fails, or the API process
\* stops.  get_db rolls back: nothing of it reaches the tables.  A task posted
\* but not yet accepted may be lost, or may still be on its way.
Abort(h) ==
    /\ pc[h] # "idle"
    /\ \/ stray' = stray
       \/ pc[h] = "posting" /\ stray' = stray \cup {dep[h]}
    /\ Finish(h)
    /\ UNCHANGED <<table, audit, owner, jobState>>

\* Semaphore queues a task whose sender no longer waits for the answer.
LateAccept(d, j) ==
    /\ d \in stray
    /\ owner[j] = None
    /\ owner' = [owner EXCEPT ![j] = d]
    /\ jobState' = [jobState EXCEPT ![j] = "waiting"]
    /\ stray' = stray \ {d}
    /\ UNCHANGED <<table, audit, handlers>>

-----------------------------------------------------------------------------
\* Semaphore runs its tasks.
JobStep(j) ==
    /\ \/ /\ jobState[j] = "waiting"
          /\ jobState' = [jobState EXCEPT ![j] = "running"]
       \/ /\ jobState[j] = "running"
          /\ \E s \in {"success", "error"} : jobState' = [jobState EXCEPT ![j] = s]
       \/ /\ jobState[j] \in {"waiting", "running"}
          /\ jobState' = [jobState EXCEPT ![j] = "other"]
    /\ UNCHANGED <<table, audit, owner, stray, handlers>>

-----------------------------------------------------------------------------
Request(h) ==
    \/ \E d \in Dep : \/ BeginTrigger(h, d)
                      \/ BeginSync(h, d)
                      \/ BeginPromote(h, d)
                      \/ BeginRollback(h, d)
                      \/ CommitPromote(h, d)
                      \/ CommitRollback(h, d)
    \/ \E j \in Job : SemaphoreAccepts(h, j)
    \/ \E s \in JobStates \cup {"unknown"} : SyncAnswer(h, s)
    \/ CommitTrigger(h)
    \/ CommitSync(h)
    \/ Abort(h)

Next ==
    \/ \E n \in Dep, m \in Modes, a \in Artifact : Create(n, m, a)
    \/ \E h \in Handler : Request(h)
    \/ \E d \in Dep, j \in Job : LateAccept(d, j)
    \/ \E j \in Job : JobStep(j)

Spec == Init /\ [][Next]_vars

\* Every request ends: the HTTP client gives up after 30 s (10 s for a poll).
\* Clients keep asking for every deployment that is deploying; of their
\* requests about it not all die, and not all answers are "unknown".
PollFairness ==
    /\ \A h \in Handler : WF_vars(Abort(h) \/ CommitTrigger(h) \/ CommitSync(h))
    /\ \A d \in Dep :
           /\ SF_vars(\E h \in Handler : BeginSync(h, d))
           /\ SF_vars(\E h \in Handler : dep[h] = d /\ SyncAnswer(h, jobState[hjob[h]]))
           /\ SF_vars(\E h \in Handler : dep[h] = d /\ CommitSync(h))

FairSpec == Spec /\ PollFairness

-----------------------------------------------------------------------------
(* Properties.                                                             *)

TypeOK ==
    /\ status \in [Dep -> Statuses]
    /\ mode \in [Dep -> Modes \cup {None}]
    /\ artifact \in [Dep -> Artifact \cup {None}]
    /\ job \in [Dep -> Job \cup {None}]
    /\ ended \in [Dep -> BOOLEAN]
    /\ audit \subseteq Events
    /\ owner \in [Job -> Dep \cup {None}]
    /\ jobState \in [Job -> JobStates]
    /\ stray \subseteq Dep
    /\ pc \in [Handler -> PCs]
    /\ dep \in [Handler -> Dep \cup {None}]
    /\ hjob \in [Handler -> Job \cup {None}]
    /\ verdict \in [Handler -> {"success", "failed", None}]

\* Some task fired for d ended in state s.
Ran(d, s) == \E j \in Job : owner[j] = d /\ jobState[j] = s

\* A row reports success or failure only when a task fired for that very
\* deployment ended so, however polls, triggers and lost answers interleave.
VerdictIsEarned ==
    \A d \in Dep : /\ status[d] = "success" => Ran(d, "success")
                   /\ status[d] = "failed"  => Ran(d, "error")

\* The job a row points to was fired for that row, and the trigger that wrote
\* it is in the audit log with the same job: row and log are one transaction.
TrackedJobIsAudited ==
    \A d \in Dep : job[d] # None =>
        /\ owner[job[d]] = d
        /\ Event("triggered", d, None, job[d]) \in audit

\* A promoted deployment carries on what really succeeded one ring below: the
\* row it was promoted from has a successful task, the same artifact and scope,
\* and the preceding ring, even if that row changed while the request ran.
PromotedFromSuccess ==
    \A e \in audit : e.action = "promoted" =>
        /\ Ran(e.from, "success")
        /\ artifact[e.dep] = artifact[e.from]
        /\ mode[e.from] \in Promotable
        /\ mode[e.dep] = NextRing(mode[e.from])

\* A failing or slow request never takes back what another committed: a row
\* that was triggered is never pending again and keeps a job.
NeverUntriggered ==
    [][\A d \in Dep : status[d] \in Triggered =>
           status'[d] \in Triggered /\ job'[d] # None]_table

-----------------------------------------------------------------------------
(* The inductive invariant behind these properties.                        *)

\* A row has a job from its first trigger on.
RowsOK == \A d \in Dep : status[d] \in Triggered <=> job[d] # None

\* A task exists as soon as it has an owner, and its owner is a row.
TasksOK == /\ \A j \in Job : /\ jobState[j] = "none" <=> owner[j] = None
                             /\ owner[j] # None => status[owner[j]] # "absent"
           /\ \A d \in stray : status[d] # "absent"

\* What a handler holds is still true of what cannot be undone: its row exists,
\* its task is its row's, the verdict it carries is the task's last state, and
\* what it promotes has succeeded.
HandlerOK(h) ==
    /\ pc[h] # "idle" => dep[h] \in Dep /\ status[dep[h]] # "absent"
    /\ pc[h] \in {"accepted", "polling", "synced"} =>
           hjob[h] \in Job /\ owner[hjob[h]] = dep[h]
    /\ pc[h] \in {"polling", "synced"} => status[dep[h]] \in Triggered
    /\ pc[h] = "synced" =>
           \/ verdict[h] = "success" /\ jobState[hjob[h]] = "success"
           \/ verdict[h] = "failed" /\ jobState[hjob[h]] = "error"
    /\ pc[h] = "promoting" => Ran(dep[h], "success") /\ mode[dep[h]] \in Promotable

HandlersOK == \A h \in Handler : HandlerOK(h)

\* The audit log speaks of rows that exist.
AuditOK == \A e \in audit :
               /\ status[e.dep] # "absent"
               /\ e.action = "promoted" => e.from \in Dep /\ status[e.from] # "absent"

IndInv == /\ TypeOK /\ RowsOK /\ TasksOK /\ HandlersOK /\ AuditOK
          /\ VerdictIsEarned /\ TrackedJobIsAudited /\ PromotedFromSuccess

-----------------------------------------------------------------------------
(* What holds when requests are served one after the other.                *)

OneAtATime == \A g, h \in Handler : g = h

\* With nobody else writing, a handler's row is as the handler read it.
SerialOK ==
    /\ \A h \in Handler :
           /\ pc[h] \in {"posting", "accepted"} => status[dep[h]] = "pending"
           /\ pc[h] \in {"polling", "synced"} =>
                  status[dep[h]] = "deploying" /\ job[dep[h]] = hjob[h]
           /\ pc[h] = "promoting" => status[dep[h]] = "success"
           /\ pc[h] = "rollingback" => status[dep[h]] \in {"success", "failed"}
    /\ \A d \in Dep : mode[d] = None <=> status[d] = "absent"

Lineage == {<<e.dep, e.action, e.from>> :
                e \in {x \in audit : x.action \in {"promoted", "rollback_requested"}}}

Lifecycle == INSTANCE RolloutLifecycle WITH stage <- status, lineage <- Lineage

\* Every deployment goes once from pending through deploying to its verdict,
\* and derives from a deployment that was over, whatever answers were lost.
ImplementsLifecycle == Lifecycle!LSpec

\* The row's verdict is that of the very task it points to, and ended_at is set
\* exactly when there is a verdict.
VerdictMatchesTrackedJob ==
    \A d \in Dep :
        /\ status[d] = "success" => jobState[job[d]] = "success"
        /\ status[d] = "failed"  => jobState[job[d]] = "error"
        /\ ended[d] <=> status[d] \in {"success", "failed"}

\* Polling converges: once the task of a deploying row has ended well or badly,
\* the row eventually says so.
VerdictArrives ==
    \A d \in Dep :
        /\ status[d] = "deploying" /\ job[d] # None /\ jobState[job[d]] = "success"
               ~> status[d] = "success"
        /\ status[d] = "deploying" /\ job[d] # None /\ jobState[job[d]] = "error"
               ~> status[d] = "failed"

-----------------------------------------------------------------------------
(* What the repository says and the code does not do.                      *)

\* "Cannot trigger a deployment with status 'deploying'": a deployment fires
\* one job.
OneJobPerDeployment ==
    \A i, j \in Job : owner[i] # None /\ owner[i] = owner[j] => i = j

=============================================================================
