----------------------------- MODULE Operations -----------------------------
(***************************************************************************)
(* POST /operations/restart-service, /run-diagnostics and /collect-logs    *)
(* (api/app/routers/operations.py) on devices that are moved between sites *)
(* meanwhile.  A request checks where the device is, fires a task in       *)
(* Semaphore (api/app/services/semaphore.py) and commits an audit event,   *)
(* the only trace of the task: any of the last two may fail, or be carried *)
(* out without an answer.                                                  *)
(***************************************************************************)
EXTENDS Telemetry

CONSTANTS
    Operation,  \* restart a service, run diagnostics, collect logs
    Handler,    \* request slots of the API
    MaxCalls    \* bound: tasks that Semaphore is sent, and pushes, together

VARIABLES
    req,     \* the requests: [stage, op, device, scope, job]; history: whether
             \* the device was moved since the check
    posted,  \* how many tasks were sent
    late,    \* those whose sender has given up, before Semaphore has them,
    jobs,    \* and those it has: [id, op, device, scope, moved]; history: its row
    events,  \* the audit log: [op, device, job]
    untold   \* history: the tasks whose request died

ovars == <<req, posted, late, jobs, events, untold>>
vars == <<tvars, ovars>>

Idle == [stage |-> "idle", op |-> None, device |-> None, scope |-> None, job |-> 0, moved |-> FALSE]

Goto(h, r) == req' = [req EXCEPT ![h] = r]

-----------------------------------------------------------------------------
\* Faulty variant: the device's site is not looked at.
BeginAnywhere(h, op, d, u) == \E scope \in RequireSiteScope(u) :
    /\ req[h] = Idle
    /\ posted + pushes < MaxCalls
    /\ posted' = posted + 1
    /\ Goto(h, [Idle EXCEPT !.stage = "fire", !.op = op, !.device = d, !.scope = scope,
                            !.job = posted'])
    /\ UNCHANGED <<tvars, late, jobs, events, untold>>

\* The device's own site decides, or that of its zone; the task is then sent.
Begin(h, op, d, u) == \E scope \in MayNameDevice(u, d) :
    /\ req[h] = Idle
    /\ posted + pushes < MaxCalls
    /\ posted' = posted + 1
    /\ Goto(h, [Idle EXCEPT !.stage = "fire", !.op = op, !.device = d, !.scope = scope,
                            !.job = posted'])
    /\ UNCHANGED <<tvars, late, jobs, events, untold>>

Job(r) == [id |-> r.job, op |-> r.op, device |-> r.device, scope |-> r.scope,
           row |-> row[r.device], moved |-> r.moved]

\* Semaphore queues the task; its answer may be lost.
SemaphoreAccepts(h) ==
    /\ req[h].stage = "fire"
    /\ jobs' = jobs \cup {Job(req[h])}
    /\ \/ Goto(h, [req[h] EXCEPT !.stage = "commit"]) /\ UNCHANGED untold
       \/ Goto(h, Idle) /\ untold' = untold \cup {req[h].job}
    /\ UNCHANGED <<tvars, posted, late, events>>

\* Faulty variant: the event is recorded before the task is sent.
RefusesLogged(h) ==
    /\ req[h].stage = "fire"
    /\ Goto(h, Idle)
    /\ events' = events \cup {[op |-> req[h].op, device |-> req[h].device, job |-> req[h].job]}
    /\ UNCHANGED <<tvars, posted, late, jobs, untold>>

\* It refuses the task (502), or cannot be reached.
SemaphoreRefuses(h) ==
    /\ req[h].stage = "fire"
    /\ Goto(h, Idle)
    /\ UNCHANGED <<tvars, posted, late, jobs, events, untold>>

\* The request times out or the API stops while the task is on its way.
GiveUp(h) ==
    /\ req[h].stage = "fire"
    /\ late' = late \cup {req[h]}
    /\ untold' = untold \cup {req[h].job}
    /\ Goto(h, Idle)
    /\ UNCHANGED <<tvars, posted, jobs, events>>

LateAccept(r) ==
    /\ r \in late
    /\ late' = late \ {r}
    /\ jobs' = jobs \cup {Job(r)}
    /\ UNCHANGED <<tvars, req, posted, events, untold>>

Commit(h) ==
    /\ req[h].stage = "commit"
    /\ events' = events \cup {[op |-> req[h].op, device |-> req[h].device, job |-> req[h].job]}
    /\ Goto(h, Idle)
    /\ UNCHANGED <<tvars, posted, late, jobs, untold>>

\* The commit fails, or the API stops before it.
Abort(h) ==
    /\ req[h].stage = "commit"
    /\ untold' = untold \cup {req[h].job}
    /\ Goto(h, Idle)
    /\ UNCHANGED <<tvars, posted, late, jobs, events>>

-----------------------------------------------------------------------------
Init ==
    /\ TInit
    /\ req = [h \in Handler |-> Idle]
    /\ posted = 0
    /\ late = {} /\ jobs = {} /\ events = {} /\ untold = {}

\* Moves are noticed, as history, by what is under way.
Elsewhere ==
    /\ TNext
    /\ posted + pushes' <= MaxCalls
    /\ req' = [h \in Handler |-> IF req[h] = Idle THEN Idle
                                  ELSE [req[h] EXCEPT !.moved = @ \/ row'[req[h].device] # row[req[h].device]]]
    /\ late' = {[r EXCEPT !.moved = @ \/ row'[r.device] # row[r.device]] : r \in late}
    /\ UNCHANGED <<posted, jobs, events, untold>>

Next ==
    \/ Elsewhere
    \/ \E h \in Handler :
           \/ \E op \in Operation, d \in Device, u \in Callers : Begin(h, op, d, u)
           \/ SemaphoreAccepts(h) \/ SemaphoreRefuses(h) \/ GiveUp(h) \/ Commit(h) \/ Abort(h)
    \/ \E r \in late : LateAccept(r)

Spec == Init /\ [][Next]_vars

-----------------------------------------------------------------------------
(* Properties.                                                             *)

\* Every event names a task of its own that Semaphore has, for that operation on that
\* device, and every task without an event belongs to a request that is under way or
\* has died.
TasksAreLogged ==
    /\ \A e \in events : \E j \in jobs :
           j.id = e.job /\ j.op = e.op /\ j.device = e.device
    /\ \A e, f \in events : e.job = f.job => e = f
    /\ \A j \in jobs : \/ \E e \in events : e.job = j.id
                       \/ j.id \in untold
                       \/ \E h \in Handler : req[h].stage = "commit" /\ req[h].job = j.id

InSite(place, s) ==
    \/ place.site = s
    \/ place.site = None /\ place.zone # None /\ ZoneSite[place.zone] = s

\* A task for a caller confined to a site runs on a device of the site or, where the
\* device has none, of a zone of the site, unless the device was moved under way.
TasksStayInSite ==
    \A j \in jobs : j.scope # None /\ ~j.moved => InSite(j.row, j.scope)

-----------------------------------------------------------------------------
(* Why they hold: a task has a number of its own from its request to its    *)
(* event, and the row that was checked until it is moved.                   *)

Requests ==
    [stage : {"idle", "fire", "commit"}, op : Operation \cup {None},
     device : Device \cup {None}, scope : Site \cup {None}, job : Nat, moved : BOOLEAN]

TypeOK ==
    /\ row \in [Device -> Places]
    /\ posted \in Nat
    /\ req \in [Handler -> Requests]
    /\ late \subseteq Requests

\* What is under way is numbered, and is where it was checked to be.
Underway(r) ==
    /\ r.device \in Device
    /\ r.job <= posted
    /\ r.scope # None /\ ~r.moved => InSite(row[r.device], r.scope)

Busy(h) == req[h].stage # "idle"

NumbersOK ==
    /\ \A j \in jobs : j.id \in 0 .. posted
    /\ \A h \in Handler : Busy(h) =>
           /\ \A e \in events : e.job # req[h].job
           /\ \A g \in Handler : Busy(g) /\ g # h => req[g].job # req[h].job
           /\ \A r \in late : r.job # req[h].job
    /\ \A h \in Handler : req[h].stage = "fire" => \A j \in jobs : j.id # req[h].job
    /\ \A h \in Handler : req[h].stage = "commit" => \E j \in jobs :
           j.id = req[h].job /\ j.op = req[h].op /\ j.device = req[h].device
    /\ \A r \in late : r.job \in untold /\ \A j \in jobs : j.id # r.job
    /\ \A r, s \in late : r.job = s.job => r = s

UnderwayOK ==
    /\ \A h \in Handler : Busy(h) => Underway(req[h])
    /\ \A r \in late : Underway(r)

IndInv ==
    /\ TypeOK /\ UnderwayOK /\ NumbersOK
    /\ TasksAreLogged /\ TasksStayInSite

=============================================================================
