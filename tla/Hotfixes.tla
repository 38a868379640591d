------------------------------ MODULE Hotfixes ------------------------------
(***************************************************************************)
(* The hotfix routes of the Fleet API (api/app/routers/hotfixes.py): an    *)
(* operator creates a hotfix under an id of his own, which fires a deploy  *)
(* task at once, and closes it by promoting it, by reverting it, which     *)
(* fires a rollback task, or by recording what was done over SSH.          *)
(*                                                                         *)
(* As in Deployments, a request is a handler: it reads its row, may await  *)
(* Semaphore, and commits or dies.  The UPDATE it commits only names the   *)
(* columns whose new value differs from the value it read.                 *)
(***************************************************************************)

CONSTANTS
    Hf,        \* hotfix ids, chosen by the clients
    Job,       \* Semaphore task ids
    Handler,   \* request slots of the API
    None       \* SQL NULL

VARIABLES
    \* The table `hotfix`, one function per column.
    status, reconciled, policy, job,
    \* The committed rows of `audit_event`.
    audit,
    \* Semaphore: what each task was fired for; requests that reach it late.
    task, stray,
    \* The handlers.
    req,
    \* History: the hotfixes that two closing requests held at once.
    overlapped

table == <<status, reconciled, policy, job>>
sema  == <<task, stray>>
vars  == <<table, audit, sema, req, overlapped>>

Policies == {"promote", "revert", "decide-later"}
Closed   == {"promoted", "reverted", "reconciled-ssh"}
Statuses == {"absent", "applied"} \cup Closed
Tasks    == [hf : Hf, kind : {"deploy", "rollback"}]
Closing  == {"promote", "revert", "ssh"}

ASSUME NoneIsNothing == None \notin Hf \cup Job \cup Tasks

Event(a, x) == [action |-> a, hf |-> x]
Events == [action : {"created"} \cup Closed, hf : Hf]

\* A request: its route, whether Semaphore has yet to answer, the task that was
\* accepted, and the status and policy it read (a creation: the ones it stores).
Idle == [op |-> "none", stage |-> "idle", hf |-> None, job |-> None,
         status |-> None, policy |-> None]

Requests == [op : {"create"} \cup Closing, stage : {"posting", "ready"}, hf : Hf,
             job : Job \cup {None}, status : Statuses, policy : Policies]

-----------------------------------------------------------------------------
Init ==
    /\ status = [x \in Hf |-> "absent"]
    /\ reconciled = [x \in Hf |-> FALSE]
    /\ policy = [x \in Hf |-> "decide-later"]
    /\ job = [x \in Hf |-> None]
    /\ audit = {}
    /\ task = [j \in Job |-> None]
    /\ stray = {}
    /\ req = [h \in Handler |-> Idle]
    /\ overlapped = {}

-----------------------------------------------------------------------------
Take(h, op, stage, x, s, p) ==
    /\ req[h] = Idle
    /\ req' = [req EXCEPT ![h] = [op |-> op, stage |-> stage, hf |-> x, job |-> None,
                                  status |-> s, policy |-> p]]

\* A closing request reads the row of x.
Read(h, op, stage, x) ==
    /\ status[x] # "absent"
    /\ Take(h, op, stage, x, status[x], policy[x])
    /\ overlapped' = IF \E g \in Handler : req[g].op \in Closing /\ req[g].hf = x
                     THEN overlapped \cup {x} ELSE overlapped
    /\ UNCHANGED <<table, audit, sema>>

\* Handler h, at the end of route op, commits event e.
Commit(h, op, e) ==
    /\ req[h].op = op
    /\ req[h].stage = "ready"
    /\ req' = [req EXCEPT ![h] = Idle]
    /\ audit' = audit \cup {e}
    /\ UNCHANGED <<sema, overlapped>>

\* The column after an UPDATE by a request that read `read` and sets `new`.
Updated(new, read, current) == IF new = read THEN current ELSE new

Close(x, how) ==
    /\ reconciled' = [reconciled EXCEPT ![x] = TRUE]
    /\ status' = [status EXCEPT ![x] = how]

-----------------------------------------------------------------------------
(* POST /hotfixes.  The task is fired before the row is flushed.           *)

BeginCreate(h, x, p) ==
    /\ Take(h, "create", "posting", x, "applied", p)
    /\ UNCHANGED <<table, audit, sema, overlapped>>

\* POST to Semaphore, by a creation or a reversion.
SemaphoreAccepts(h, j) ==
    /\ req[h].stage = "posting"
    /\ task[j] = None
    /\ task' = [task EXCEPT ![j] =
           [hf |-> req[h].hf,
            kind |-> IF req[h].op = "create" THEN "deploy" ELSE "rollback"]]
    /\ req' = [req EXCEPT ![h].stage = "ready", ![h].job = j]
    /\ UNCHANGED <<table, audit, stray, overlapped>>

\* Faulty variant: an INSERT that overwrites the row of that id.
CommitCreateOver(h) ==
    LET x == req[h].hf IN
    /\ Commit(h, "create", Event("created", x))
    /\ status' = [status EXCEPT ![x] = "applied"]
    /\ reconciled' = [reconciled EXCEPT ![x] = FALSE]
    /\ policy' = [policy EXCEPT ![x] = req[h].policy]
    /\ job' = [job EXCEPT ![x] = req[h].job]

\* The id is the primary key: where the row exists the INSERT fails (Abort).
CommitCreate(h) ==
    LET x == req[h].hf IN
    /\ Commit(h, "create", Event("created", x))
    /\ status[x] = "absent"
    /\ status' = [status EXCEPT ![x] = "applied"]
    /\ policy' = [policy EXCEPT ![x] = req[h].policy]
    /\ job' = [job EXCEPT ![x] = req[h].job]
    /\ UNCHANGED reconciled

-----------------------------------------------------------------------------
(* POST /hotfixes/{id}/promote, /revert and /reconcile-ssh.                *)

\* Faulty variant: the check that answers 409 is missing.
AnyRow(x) == status[x] # "absent"

MayClose(x) == ~reconciled[x]

BeginPromote(h, x) == MayClose(x) /\ Read(h, "promote", "ready", x)

CommitPromote(h) ==
    LET x == req[h].hf IN
    /\ Commit(h, "promote", Event("promoted", x))
    /\ Close(x, "promoted")
    /\ policy' = [policy EXCEPT ![x] = Updated("promote", req[h].policy, @)]
    /\ UNCHANGED job

BeginRevert(h, x) == MayClose(x) /\ Read(h, "revert", "posting", x)

\* Faulty variants: the rollback task's id replaces the deploy task's; the row
\* is closed before Semaphore answers.
CommitRevertTracking(h) ==
    LET x == req[h].hf IN
    /\ Commit(h, "revert", Event("reverted", x))
    /\ Close(x, "reverted")
    /\ policy' = [policy EXCEPT ![x] = Updated("revert", req[h].policy, @)]
    /\ job' = [job EXCEPT ![x] = req[h].job]

CommitRevertEarly(h) ==
    LET x == req[h].hf IN
    /\ req[h].op = "revert"
    /\ req' = [req EXCEPT ![h] = Idle]
    /\ audit' = audit \cup {Event("reverted", x)}
    /\ Close(x, "reverted")
    /\ policy' = [policy EXCEPT ![x] = Updated("revert", req[h].policy, @)]
    /\ UNCHANGED <<job, sema, overlapped>>

CommitRevert(h) ==
    LET x == req[h].hf IN
    /\ Commit(h, "revert", Event("reverted", x))
    /\ Close(x, "reverted")
    /\ policy' = [policy EXCEPT ![x] = Updated("revert", req[h].policy, @)]
    /\ UNCHANGED job

\* No check: what is closed can be reconciled over SSH again.
BeginSsh(h, x) == Read(h, "ssh", "ready", x)

\* Faulty variant: no audit event.
CommitSshUnlogged(h) ==
    LET x == req[h].hf IN
    /\ req[h].op = "ssh"
    /\ req' = [req EXCEPT ![h] = Idle]
    /\ Close(x, Updated("reconciled-ssh", req[h].status, status[x]))
    /\ UNCHANGED <<policy, job, audit, sema, overlapped>>

CommitSsh(h) ==
    LET x == req[h].hf IN
    /\ Commit(h, "ssh", Event("reconciled-ssh", x))
    /\ Close(x, Updated("reconciled-ssh", req[h].status, status[x]))
    /\ UNCHANGED <<policy, job>>

-----------------------------------------------------------------------------
(* Failures, as in Deployments.                                            *)

\* Refused or unanswered by Semaphore, a duplicate id, a stopped API: nothing
\* is stored; a posted task may be lost or still be on its way.
Abort(h) ==
    /\ req[h] # Idle
    /\ \/ stray' = stray
       \/ /\ req[h].stage = "posting"
          /\ stray' = stray \cup
                 {[hf |-> req[h].hf,
                   kind |-> IF req[h].op = "create" THEN "deploy" ELSE "rollback"]}
    /\ req' = [req EXCEPT ![h] = Idle]
    /\ UNCHANGED <<table, audit, task, overlapped>>

LateAccept(k, j) ==
    /\ k \in stray
    /\ task[j] = None
    /\ task' = [task EXCEPT ![j] = k]
    /\ stray' = stray \ {k}
    /\ UNCHANGED <<table, audit, req, overlapped>>

-----------------------------------------------------------------------------
Request(h) ==
    \/ \E x \in Hf : \/ \E p \in Policies : BeginCreate(h, x, p)
                     \/ BeginPromote(h, x)
                     \/ BeginRevert(h, x)
                     \/ BeginSsh(h, x)
    \/ \E j \in Job : SemaphoreAccepts(h, j)
    \/ CommitCreate(h)
    \/ CommitPromote(h)
    \/ CommitRevert(h)
    \/ CommitSsh(h)
    \/ Abort(h)

Next == \/ \E h \in Handler : Request(h)
        \/ \E k \in Tasks, j \in Job : LateAccept(k, j)

Spec == Init /\ [][Next]_vars

-----------------------------------------------------------------------------
(* Properties.                                                             *)

TypeOK ==
    /\ status \in [Hf -> Statuses]
    /\ reconciled \in [Hf -> BOOLEAN]
    /\ policy \in [Hf -> Policies]
    /\ job \in [Hf -> Job \cup {None}]
    /\ audit \subseteq Events
    /\ task \in [Job -> Tasks \cup {None}]
    /\ stray \subseteq Tasks
    /\ req \in [Handler -> Requests \cup {Idle}]
    /\ overlapped \subseteq Hf

\* A hotfix that is in the table is on its way to the devices, and logged: its
\* job is a deploy task fired for that very hotfix, even where a request with
\* the same id fired another task and failed.
FixIsTracked ==
    \A x \in Hf : status[x] # "absent" =>
        /\ Event("created", x) \in audit
        /\ job[x] \in {j \in Job : task[j] = [hf |-> x, kind |-> "deploy"]}

\* A hotfix is closed exactly when the log tells how, and the status it shows is
\* one the log tells, however late each of several closing requests commits.
ClosedIsLogged ==
    \A x \in Hf :
        /\ reconciled[x] <=> \E e \in audit : e.hf = x /\ e.action \in Closed
        /\ reconciled[x] <=> status[x] \in Closed
        /\ reconciled[x] => Event(status[x], x) \in audit

\* A hotfix is shown as reverted only when a rollback task was fired for it.
RevertedWasRolledBack ==
    \A x \in Hf : status[x] = "reverted" =>
        \E j \in Job : task[j] = [hf |-> x, kind |-> "rollback"]

\* A hotfix is promoted and reverted, or shows a policy that is not the way it
\* was closed, only when two closing requests held it at once.
SettledOnceUnlessOverlapping ==
    \A x \in Hf \ overlapped :
        /\ ~ {Event("promoted", x), Event("reverted", x)} \subseteq audit
        /\ status[x] = "promoted" => policy[x] = "promote"
        /\ status[x] = "reverted" => policy[x] = "revert"

\* A hotfix that is closed is never open again, and no request ever replaces the
\* task that applied it: not a second creation with its id, nor a reversion.
ClosedStaysClosed ==
    [][\A x \in Hf : /\ reconciled[x] => reconciled'[x] /\ status'[x] \in Closed
                     /\ job[x] # None => job'[x] = job[x]]_table

-----------------------------------------------------------------------------
(* The inductive invariant behind these properties.                        *)

RowsOK == \A x \in Hf : status[x] = "absent" <=> job[x] = None

\* A closing request holds a row that exists, was open when /promote or /revert
\* read it and is closed where it was read so; an accepted task is its request's.
RequestOK(h) ==
    /\ req[h].op \in Closing => status[req[h].hf] # "absent"
    /\ req[h].op \in {"promote", "revert"} => req[h].status = "applied"
    /\ req[h].op = "ssh" /\ req[h].status \in Closed => status[req[h].hf] \in Closed
    /\ req[h].stage = "ready" /\ req[h].op = "create" =>
           req[h].job \in {j \in Job : task[j] = [hf |-> req[h].hf, kind |-> "deploy"]}
    /\ req[h].stage = "ready" /\ req[h].op = "revert" =>
           req[h].job \in {j \in Job : task[j] = [hf |-> req[h].hf, kind |-> "rollback"]}

RequestsOK == \A h \in Handler : RequestOK(h)

\* Without an overlap one closing request holds a row, and the row is as it was
\* read.
OverlapsOK ==
    /\ \A g, h \in Handler :
           req[g].op \in Closing /\ req[h].op \in Closing /\ req[g].hf = req[h].hf
               /\ g # h => req[g].hf \in overlapped
    /\ \A h \in Handler :
           req[h].op \in Closing /\ req[h].hf \notin overlapped =>
               /\ status[req[h].hf] = req[h].status
               /\ policy[req[h].hf] = req[h].policy

IndInv == /\ TypeOK /\ RowsOK /\ RequestsOK /\ OverlapsOK
          /\ FixIsTracked /\ ClosedIsLogged /\ RevertedWasRolledBack
          /\ SettledOnceUnlessOverlapping

=============================================================================
