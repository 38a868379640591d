--------------------------- MODULE HotfixesProofs ---------------------------
(***************************************************************************)
(* Theorems about Hotfixes for every set of ids, tasks and handlers.  The  *)
(* invariant IndInv says what a closing request may rely on between its    *)
(* read and its commit: that the row exists and, as long as no other       *)
(* closing request overlaps, that it is as it was read.                    *)
(***************************************************************************)
EXTENDS Hotfixes, TLAPS

USE NoneIsNothing

-----------------------------------------------------------------------------
\* The empty tables satisfy the invariant.
LEMMA InitIndInv == Init => IndInv
  BY DEF Init, IndInv, TypeOK, RowsOK, RequestsOK, RequestOK, OverlapsOK, FixIsTracked,
         ClosedIsLogged, RevertedWasRolledBack, SettledOnceUnlessOverlapping, Statuses,
         Closed, Closing, Policies, Idle, Events, Event

\* A handler that is busy holds a request of a known route about some hotfix.
LEMMA BusyHandler ==
  ASSUME TypeOK, NEW h \in Handler, req[h] # Idle
  PROVE  /\ req[h] \in Requests
         /\ req[h].op \in {"create", "promote", "revert", "ssh"}
         /\ req[h].stage \in {"posting", "ready"}
         /\ req[h].hf \in Hf
         /\ req[h].job \in Job \cup {None}
         /\ req[h].status \in Statuses
         /\ req[h].policy \in Policies
  BY DEF TypeOK, Requests, Closing

\* No route and no stage is an idle handler's.
LEMMA IdleHandler == Idle.op = "none" /\ Idle.stage = "idle"
  BY DEF Idle

-----------------------------------------------------------------------------
\* Types are kept by every step.
LEMMA TypeStep == TypeOK /\ [Next]_vars => TypeOK'
  <1> SUFFICES ASSUME TypeOK, [Next]_vars PROVE TypeOK'
    OBVIOUS
  <1> USE DEF TypeOK, table, sema
  <1>1. ASSUME NEW h \in Handler, Request(h) PROVE TypeOK'
    <2>1. ASSUME NEW x \in Hf, NEW p \in Policies, BeginCreate(h, x, p) PROVE TypeOK'
      BY <2>1 DEF BeginCreate, Take, Requests, Statuses, Policies
    <2>2. ASSUME NEW x \in Hf, BeginPromote(h, x) \/ BeginRevert(h, x) \/ BeginSsh(h, x)
          PROVE  TypeOK'
      BY <2>2 DEF BeginPromote, BeginRevert, BeginSsh, Read, Take, Requests, Closing
    <2>3. ASSUME NEW j \in Job, SemaphoreAccepts(h, j) PROVE TypeOK'
      <3>1. req[h] # Idle
        BY <2>3, IdleHandler DEF SemaphoreAccepts
      <3>2. req[h] \in Requests /\ req[h].hf \in Hf
        BY <3>1, BusyHandler
      <3>3. [req[h] EXCEPT !.stage = "ready", !.job = j] \in Requests
        BY <3>2 DEF Requests
      <3>4. req' = [req EXCEPT ![h] = [req[h] EXCEPT !.stage = "ready", !.job = j]]
        BY <2>3 DEF SemaphoreAccepts
      <3>5. req' \in [Handler -> Requests \cup {Idle}]
        BY <3>3, <3>4
      <3>6. task' \in [Job -> Tasks \cup {None}]
        BY <2>3, <3>2 DEF SemaphoreAccepts, Tasks
      <3> QED
        BY <2>3, <3>5, <3>6 DEF SemaphoreAccepts
    <2>4. CASE CommitCreate(h)
      BY <2>4, BusyHandler, IdleHandler DEF CommitCreate, Commit, Statuses, Events, Event
    <2>5. CASE CommitPromote(h)
      BY <2>5, BusyHandler, IdleHandler
      DEF CommitPromote, Commit, Close, Updated, Statuses, Closed, Policies, Events, Event
    <2>6. CASE CommitRevert(h)
      BY <2>6, BusyHandler, IdleHandler
      DEF CommitRevert, Commit, Close, Updated, Statuses, Closed, Policies, Events, Event
    <2>7. CASE CommitSsh(h)
      BY <2>7, BusyHandler, IdleHandler
      DEF CommitSsh, Commit, Close, Updated, Statuses, Closed, Events, Event
    <2>8. CASE Abort(h)
      BY <2>8, BusyHandler DEF Abort, Tasks
    <2> HIDE DEF TypeOK
    <2> QED
      BY <1>1, <2>1, <2>2, <2>3, <2>4, <2>5, <2>6, <2>7, <2>8 DEF Request
  <1>2. ASSUME NEW k \in Tasks, NEW j \in Job, LateAccept(k, j) PROVE TypeOK'
    BY <1>2 DEF LateAccept
  <1>3. CASE UNCHANGED vars
    BY <1>3 DEF vars
  <1> HIDE DEF TypeOK
  <1> QED
    BY <1>1, <1>2, <1>3 DEF Next

-----------------------------------------------------------------------------
(* What every step leaves alone.                                           *)

\* A row stays, a closed one closed and tied to its task; tasks and events are
\* for ever; an overlap is remembered.
Stable ==
  /\ \A x \in Hf : status[x] # "absent" => status'[x] # "absent" /\ job'[x] = job[x]
  /\ \A x \in Hf : status[x] \in Closed => status'[x] \in Closed
  /\ \A x \in Hf : reconciled[x] => reconciled'[x]
  /\ \A j \in Job : task[j] # None => task'[j] = task[j]
  /\ audit \subseteq audit'
  /\ overlapped \subseteq overlapped'

\* A waiting request may rely on this whatever other requests do.
LEMMA StableStep == TypeOK /\ RequestsOK /\ [Next]_vars => Stable
  <1> SUFFICES ASSUME TypeOK, RequestsOK, [Next]_vars PROVE Stable
    OBVIOUS
  <1> USE DEF Stable, TypeOK, table, sema
  <1>1. ASSUME NEW h \in Handler, Request(h) PROVE Stable
    <2>1. ASSUME NEW x \in Hf, NEW p \in Policies, BeginCreate(h, x, p) PROVE Stable
      BY <2>1 DEF BeginCreate
    <2>2. ASSUME NEW x \in Hf, BeginPromote(h, x) \/ BeginRevert(h, x) \/ BeginSsh(h, x)
          PROVE  Stable
      BY <2>2 DEF BeginPromote, BeginRevert, BeginSsh, Read
    <2>3. ASSUME NEW j \in Job, SemaphoreAccepts(h, j) PROVE Stable
      BY <2>3 DEF SemaphoreAccepts
    <2>4. CASE CommitCreate(h)
      BY <2>4, BusyHandler, IdleHandler DEF CommitCreate, Commit, Closed
    <2>5. CASE CommitPromote(h) \/ CommitRevert(h)
      BY <2>5, BusyHandler, IdleHandler
      DEF CommitPromote, CommitRevert, Commit, Close, Closed
    <2>6. CASE CommitSsh(h)
      BY <2>6, BusyHandler, IdleHandler
      DEF CommitSsh, Commit, Close, Updated, Closed, Closing, RequestsOK, RequestOK
    <2>7. CASE Abort(h)
      BY <2>7 DEF Abort
    <2> HIDE DEF Stable
    <2> QED
      BY <1>1, <2>1, <2>2, <2>3, <2>4, <2>5, <2>6, <2>7 DEF Request
  <1>2. ASSUME NEW k \in Tasks, NEW j \in Job, LateAccept(k, j) PROVE Stable
    BY <1>2 DEF LateAccept
  <1>3. CASE UNCHANGED vars
    BY <1>3 DEF vars
  <1> HIDE DEF Stable
  <1> QED
    BY <1>1, <1>2, <1>3 DEF Next

-----------------------------------------------------------------------------
(* Who moves what.                                                         *)

\* A handler's request is only changed by a step of that handler, and a row only
\* by the commit of a request about it.
OnlyOwner ==
  /\ \A h \in Handler : req'[h] # req[h] => Request(h)
  /\ \A g, h \in Handler : g # h => req'[g] = req[g] \/ req'[h] = req[h]
  /\ \A x \in Hf :
        \/ status'[x] = status[x] /\ reconciled'[x] = reconciled[x] /\ policy'[x] = policy[x]
        \/ status[x] = "absent"
        \/ \E g \in Handler : /\ req[g].op \in Closing /\ req[g].hf = x
                              /\ req' = [req EXCEPT ![g] = Idle]

LEMMA OnlyOwnerStep == TypeOK /\ [Next]_vars => OnlyOwner
  <1> SUFFICES ASSUME TypeOK, [Next]_vars PROVE OnlyOwner
    OBVIOUS
  <1> USE DEF TypeOK, table, sema
  <1>1. ASSUME NEW h \in Handler, Request(h) PROVE OnlyOwner
    <2>1. \A g \in Handler : g # h => req'[g] = req[g]
      BY <1>1
      DEF Request, BeginCreate, BeginPromote, BeginRevert, BeginSsh, Read, Take,
          SemaphoreAccepts, CommitCreate, CommitPromote, CommitRevert, CommitSsh, Commit,
          Abort
    <2>2. CASE UNCHANGED table
      BY <1>1, <2>1, <2>2 DEF OnlyOwner
    <2>3. CASE CommitCreate(h)
      BY <1>1, <2>1, <2>3, BusyHandler, IdleHandler DEF CommitCreate, Commit, OnlyOwner
    <2>4. CASE CommitPromote(h)
      BY <1>1, <2>1, <2>4, BusyHandler, IdleHandler
      DEF CommitPromote, Commit, Close, Closing, OnlyOwner
    <2>5. CASE CommitRevert(h)
      BY <1>1, <2>1, <2>5, BusyHandler, IdleHandler
      DEF CommitRevert, Commit, Close, Closing, OnlyOwner
    <2>6. CASE CommitSsh(h)
      BY <1>1, <2>1, <2>6, BusyHandler, IdleHandler
      DEF CommitSsh, Commit, Close, Closing, OnlyOwner
    <2> QED
      BY <1>1, <2>2, <2>3, <2>4, <2>5, <2>6
      DEF Request, BeginCreate, BeginPromote, BeginRevert, BeginSsh, Read,
          SemaphoreAccepts, Abort
  <1>2. ASSUME NEW k \in Tasks, NEW j \in Job, LateAccept(k, j) PROVE OnlyOwner
    BY <1>2 DEF LateAccept, OnlyOwner
  <1>3. CASE UNCHANGED vars
    BY <1>3 DEF vars, OnlyOwner
  <1> QED
    BY <1>1, <1>2, <1>3 DEF Next

-----------------------------------------------------------------------------
(* The parts of the invariant.                                             *)

\* A row has a job exactly while it exists.
LEMMA RowsStep == IndInv /\ [Next]_vars => RowsOK'
  <1> SUFFICES ASSUME IndInv, [Next]_vars PROVE RowsOK'
    OBVIOUS
  <1>0. TypeOK /\ RowsOK /\ RequestsOK
    BY DEF IndInv
  <1> USE <1>0 DEF TypeOK, RowsOK, table, sema
  <1>1. ASSUME NEW h \in Handler, Request(h) PROVE RowsOK'
    <2>1. CASE CommitCreate(h)
      BY <2>1, BusyHandler, IdleHandler
      DEF CommitCreate, Commit, RequestsOK, RequestOK
    <2>2. CASE CommitPromote(h)
      BY <2>2, BusyHandler, IdleHandler
      DEF CommitPromote, Commit, Close, Closing, RequestsOK, RequestOK
    <2>3. CASE CommitRevert(h)
      BY <2>3, BusyHandler, IdleHandler
      DEF CommitRevert, Commit, Close, Closing, RequestsOK, RequestOK
    <2>4. CASE CommitSsh(h)
      BY <2>4, BusyHandler, IdleHandler
      DEF CommitSsh, Commit, Close, Updated, Closing, RequestsOK, RequestOK
    <2>5. CASE UNCHANGED table
      BY <2>5
    <2> QED
      BY <1>1, <2>1, <2>2, <2>3, <2>4, <2>5
      DEF Request, BeginCreate, BeginPromote, BeginRevert, BeginSsh, Read,
          SemaphoreAccepts, Abort
  <1>2. CASE UNCHANGED table
    BY <1>2
  <1> QED
    BY <1>1, <1>2 DEF Next, LateAccept, vars

\* What a request read and was told stays true until it commits.
LEMMA RequestsStep == IndInv /\ [Next]_vars => RequestsOK'
  <1> SUFFICES ASSUME IndInv, [Next]_vars, NEW h \in Handler PROVE RequestOK(h)'
    BY DEF RequestsOK
  <1>0. TypeOK /\ TypeOK' /\ RequestsOK /\ ClosedIsLogged /\ Stable /\ OnlyOwner
    BY TypeStep, StableStep, OnlyOwnerStep DEF IndInv
  <1>1. CASE req'[h] = req[h]
    <2>1. CASE req[h] = Idle
      BY <1>1, <2>1 DEF RequestOK, Idle, Closing
    <2>2. CASE req[h] # Idle
      <3>1. RequestOK(h) /\ req[h].hf \in Hf
        BY <1>0, <2>2, BusyHandler DEF RequestsOK
      <3>2. /\ status[req[h].hf] # "absent" => status'[req[h].hf] # "absent"
            /\ status[req[h].hf] \in Closed => status'[req[h].hf] \in Closed
        BY <1>0, <3>1 DEF Stable
      <3>3. ASSUME NEW k \in {"deploy", "rollback"},
                   req[h].job \in {j \in Job : task[j] = [hf |-> req[h].hf, kind |-> k]}
            PROVE  req[h].job \in {j \in Job : task'[j] = [hf |-> req[h].hf, kind |-> k]}
        <4>1. task[req[h].job] # None
          BY <3>1, <3>3 DEF Tasks
        <4> QED
          BY <1>0, <3>3, <4>1 DEF Stable
      <3> QED
        BY <1>1, <3>1, <3>2, <3>3 DEF RequestOK
    <2> QED
      BY <2>1, <2>2
  <1>2. ASSUME Request(h) PROVE RequestOK(h)'
    <2>1. ASSUME NEW x \in Hf, NEW p \in Policies, BeginCreate(h, x, p)
          PROVE  RequestOK(h)'
      BY <1>0, <2>1 DEF BeginCreate, Take, RequestOK, Closing, TypeOK
    <2>2. ASSUME NEW x \in Hf, BeginPromote(h, x) \/ BeginRevert(h, x) PROVE RequestOK(h)'
      BY <1>0, <2>2
      DEF BeginPromote, BeginRevert, Read, Take, MayClose, RequestOK, Closing, TypeOK,
          ClosedIsLogged, Statuses, table
    <2>3. ASSUME NEW x \in Hf, BeginSsh(h, x) PROVE RequestOK(h)'
      BY <1>0, <2>3 DEF BeginSsh, Read, Take, RequestOK, Closing, TypeOK, table
    <2>4. ASSUME NEW j \in Job, SemaphoreAccepts(h, j) PROVE RequestOK(h)'
      <3>1. req[h].op \in {"create", "promote", "revert", "ssh"} /\ RequestOK(h)
        BY <1>0, <2>4, BusyHandler, IdleHandler DEF SemaphoreAccepts, RequestsOK
      <3>2. /\ req'[h].op = req[h].op /\ req'[h].hf = req[h].hf
            /\ req'[h].status = req[h].status /\ req'[h].job = j
        BY <1>0, <2>4, BusyHandler, IdleHandler DEF SemaphoreAccepts, TypeOK, Requests
      <3>3. /\ task'[j] = [hf |-> req[h].hf,
                           kind |-> IF req[h].op = "create" THEN "deploy" ELSE "rollback"]
            /\ status' = status
        BY <1>0, <2>4 DEF SemaphoreAccepts, TypeOK, table
      <3> QED
        BY <3>1, <3>2, <3>3 DEF RequestOK, Closing
    <2>5. CASE req'[h] = Idle
      BY <2>5 DEF RequestOK, Idle, Closing
    <2> QED
      BY <1>0, <1>2, <2>1, <2>2, <2>3, <2>4, <2>5
      DEF Request, CommitCreate, CommitPromote, CommitRevert, CommitSsh, Commit, Abort,
          TypeOK
  <1> QED
    BY <1>0, <1>1, <1>2 DEF OnlyOwner

\* What a handler's step may leave in its place: nothing, the same request, or
\* one whose reading has been checked against the other handlers.
LEMMA TakenOver ==
  ASSUME TypeOK, NEW h \in Handler, Request(h), req'[h].op \in Closing
  PROVE  \/ /\ req'[h].op = req[h].op /\ req'[h].hf = req[h].hf
            /\ req'[h].status = req[h].status /\ req'[h].policy = req[h].policy
            /\ UNCHANGED table
         \/ /\ req'[h].hf \in Hf /\ UNCHANGED table
            /\ req'[h].status = status[req'[h].hf] /\ req'[h].policy = policy[req'[h].hf]
            /\ \A g \in Handler : req[g].op \in Closing /\ req[g].hf = req'[h].hf
                                      => req'[h].hf \in overlapped'
  <1>1. ASSUME NEW x \in Hf, NEW p \in Policies, BeginCreate(h, x, p) PROVE FALSE
    BY <1>1 DEF BeginCreate, Take, TypeOK, Closing
  <1>2. ASSUME NEW x \in Hf, BeginPromote(h, x) \/ BeginRevert(h, x) \/ BeginSsh(h, x)
        PROVE  /\ req'[h].hf \in Hf /\ UNCHANGED table
               /\ req'[h].status = status[req'[h].hf] /\ req'[h].policy = policy[req'[h].hf]
               /\ \A g \in Handler : req[g].op \in Closing /\ req[g].hf = req'[h].hf
                                         => req'[h].hf \in overlapped'
    <2>1. \E op, s : Read(h, op, s, x)
      BY <1>2 DEF BeginPromote, BeginRevert, BeginSsh
    <2>2. PICK op, s : Read(h, op, s, x)
      BY <2>1
    <2> QED
      BY <2>2 DEF Read, Take, TypeOK
  <1>3. ASSUME NEW j \in Job, SemaphoreAccepts(h, j)
        PROVE  /\ req'[h].op = req[h].op /\ req'[h].hf = req[h].hf
               /\ req'[h].status = req[h].status /\ req'[h].policy = req[h].policy
               /\ UNCHANGED table
    BY <1>3, BusyHandler, IdleHandler DEF SemaphoreAccepts, TypeOK, Requests
  <1>4. CASE req'[h] = Idle
    BY <1>4 DEF Idle, Closing
  <1> QED
    BY <1>1, <1>2, <1>3, <1>4
    DEF Request, CommitCreate, CommitPromote, CommitRevert, CommitSsh, Commit, Abort,
        TypeOK

\* Two closing requests never hold a row unnoticed, and an unshared row is as
\* its reader read it.
LEMMA OverlapsStep == IndInv /\ [Next]_vars => OverlapsOK'
  <1> SUFFICES ASSUME IndInv, [Next]_vars PROVE OverlapsOK'
    OBVIOUS
  <1>0. /\ TypeOK /\ TypeOK' /\ RequestsOK /\ RequestsOK' /\ OverlapsOK
        /\ Stable /\ OnlyOwner
    BY TypeStep, StableStep, OnlyOwnerStep, RequestsStep DEF IndInv
  <1>1. ASSUME NEW g \in Handler, NEW h \in Handler, g # h,
               req'[g].op \in Closing, req'[h].op \in Closing, req'[g].hf = req'[h].hf
        PROVE  req'[g].hf \in overlapped'
    <2>1. req'[g] = req[g] \/ req'[h] = req[h]
      BY <1>0, <1>1 DEF OnlyOwner
    <2>2. req'[g] = req[g] \/ Request(g)
      BY <1>0 DEF OnlyOwner
    <2>3. req'[h] = req[h] \/ Request(h)
      BY <1>0 DEF OnlyOwner
    <2>4. req[g].op \in Closing /\ req[h].op \in Closing /\ req[g].hf = req[h].hf
              => req[g].hf \in overlapped'
      BY <1>0, <1>1 DEF OverlapsOK, Stable
    <2>5. CASE req'[g] = req[g] /\ req'[h] = req[h]
      BY <1>1, <2>4, <2>5
    <2>6. CASE req'[g] = req[g] /\ Request(h)
      BY <1>0, <1>1, <2>4, <2>6, TakenOver
    <2>7. CASE req'[h] = req[h] /\ Request(g)
      BY <1>0, <1>1, <2>4, <2>7, TakenOver
    <2> QED
      BY <2>1, <2>2, <2>3, <2>5, <2>6, <2>7
  <1>2. ASSUME NEW h \in Handler, req'[h].op \in Closing, req'[h].hf \notin overlapped'
        PROVE  status'[req'[h].hf] = req'[h].status /\ policy'[req'[h].hf] = req'[h].policy
    <2>1. CASE req'[h] = req[h]
      <3> DEFINE x == req[h].hf
      <3>1. /\ x \in Hf /\ status[x] # "absent" /\ x \notin overlapped
            /\ status[x] = req[h].status /\ policy[x] = req[h].policy
        BY <1>0, <1>2, <2>1, BusyHandler, IdleHandler
        DEF RequestsOK, RequestOK, OverlapsOK, Stable, Closing
      <3>2. ASSUME NEW g \in Handler, req[g].op \in Closing, req[g].hf = x,
                   req' = [req EXCEPT ![g] = Idle]
            PROVE  FALSE
        BY <1>0, <1>2, <2>1, <3>1, <3>2, IdleHandler DEF OverlapsOK, TypeOK, Closing
      <3> QED
        BY <1>0, <2>1, <3>1, <3>2 DEF OnlyOwner
    <2>2. CASE Request(h)
      BY <1>0, <1>2, <2>2, TakenOver DEF OverlapsOK, Stable, table
    <2> QED
      BY <1>0, <2>1, <2>2 DEF OnlyOwner
  <1> QED
    BY <1>1, <1>2 DEF OverlapsOK

\* A tracked task was fired for its row, and stays so.
LEMMA TrackedStep == IndInv /\ [Next]_vars => FixIsTracked'
  <1> SUFFICES ASSUME IndInv, [Next]_vars, NEW x \in Hf, status'[x] # "absent"
               PROVE  /\ Event("created", x) \in audit'
                      /\ job'[x] \in {j \in Job : task'[j] = [hf |-> x, kind |-> "deploy"]}
    BY DEF FixIsTracked
  <1>0. TypeOK /\ RequestsOK /\ FixIsTracked /\ Stable /\ OnlyOwner
    BY StableStep, OnlyOwnerStep DEF IndInv
  <1>1. [hf |-> x, kind |-> "deploy"] # None
    BY DEF Tasks
  <1>2. CASE status[x] # "absent"
    BY <1>0, <1>1, <1>2 DEF FixIsTracked, Stable
  <1>3. ASSUME NEW h \in Handler, CommitCreate(h), req[h].hf = x
        PROVE  /\ Event("created", x) \in audit'
               /\ job'[x] \in {j \in Job : task'[j] = [hf |-> x, kind |-> "deploy"]}
    BY <1>0, <1>3 DEF CommitCreate, Commit, RequestsOK, RequestOK, TypeOK, sema
  <1>4. CASE status[x] = "absent"
    <2>1. PICK h \in Handler : CommitCreate(h) /\ req[h].hf = x
      <3>1. UNCHANGED status => FALSE
        BY <1>4
      <3>2. ASSUME NEW h \in Handler, CommitPromote(h) \/ CommitRevert(h) \/ CommitSsh(h)
            PROVE  FALSE
        <4>1. status[req[h].hf] # "absent" /\ req[h].hf # x
          BY <1>0, <1>4, <3>2
          DEF CommitPromote, CommitRevert, CommitSsh, Commit, RequestsOK, RequestOK, Closing
        <4>2. status'[x] = status[x]
          BY <1>0, <3>2, <4>1 DEF CommitPromote, CommitRevert, CommitSsh, Close, TypeOK
        <4> QED
          BY <1>4, <4>2
      <3>3. ASSUME NEW h \in Handler, CommitCreate(h) PROVE req[h].hf = x
        BY <1>0, <1>4, <3>3 DEF CommitCreate, TypeOK
      <3> QED
        BY <3>1, <3>2, <3>3
        DEF Next, Request, BeginCreate, BeginPromote, BeginRevert, BeginSsh, Read,
            SemaphoreAccepts, Abort, LateAccept, vars, table
    <2> QED
      BY <1>3, <2>1
  <1> QED
    BY <1>2, <1>4

\* Row and log are closed together.
LEMMA LoggedStep == IndInv /\ [Next]_vars => ClosedIsLogged'
  <1> SUFFICES ASSUME IndInv, [Next]_vars PROVE ClosedIsLogged'
    OBVIOUS
  <1>0. TypeOK /\ RequestsOK /\ ClosedIsLogged
    BY DEF IndInv
  <1> USE DEF Event
  <1>1. ASSUME NEW h \in Handler, CommitCreate(h) PROVE ClosedIsLogged'
    <2> DEFINE x == req[h].hf
    <2>1. /\ audit' = audit \cup {Event("created", x)} /\ reconciled' = reconciled
          /\ status[x] = "absent" /\ status' = [status EXCEPT ![x] = "applied"]
      BY <1>1 DEF CommitCreate, Commit
    <2>2. x \in Hf
      BY <1>0, <1>1, BusyHandler, IdleHandler DEF CommitCreate, Commit
    <2>3. status \in [Hf -> Statuses] /\ reconciled \in [Hf -> BOOLEAN]
      BY <1>0 DEF TypeOK
    <2>4. ASSUME NEW y \in Hf
          PROVE  (\E e \in audit' : e.hf = y /\ e.action \in Closed)
                     <=> (\E e \in audit : e.hf = y /\ e.action \in Closed)
      BY <2>1 DEF Closed
    <2>5. ASSUME NEW y \in Hf
          PROVE  /\ reconciled'[y] <=> status'[y] \in Closed
                 /\ reconciled'[y] => Event(status'[y], y) \in audit'
      BY <1>0, <2>1, <2>2, <2>3 DEF ClosedIsLogged, Closed
    <2> HIDE DEF x
    <2> QED
      BY <1>0, <2>1, <2>4, <2>5 DEF ClosedIsLogged
  <1>2. ASSUME NEW h \in Handler, NEW e \in Events, e.action \in Closed, e.hf = req[h].hf,
               req[h].hf \in Hf, audit' = audit \cup {e},
               reconciled' = [reconciled EXCEPT ![e.hf] = TRUE],
               status' = [status EXCEPT ![e.hf] = e.action]
        PROVE  ClosedIsLogged'
    BY <1>0, <1>2 DEF ClosedIsLogged, TypeOK, Closed, Events
  <1>3. ASSUME NEW h \in Handler, CommitPromote(h) PROVE ClosedIsLogged'
    <2>1. req[h].hf \in Hf
      BY <1>0, <1>3, BusyHandler, IdleHandler DEF CommitPromote, Commit
    <2>2. Event("promoted", req[h].hf) \in Events
      BY <2>1 DEF Events, Closed
    <2> QED
      BY <1>2, <1>3, <2>1, <2>2 DEF CommitPromote, Commit, Close, Closed
  <1>4. ASSUME NEW h \in Handler, CommitRevert(h) PROVE ClosedIsLogged'
    <2>1. req[h].hf \in Hf
      BY <1>0, <1>4, BusyHandler, IdleHandler DEF CommitRevert, Commit
    <2>2. Event("reverted", req[h].hf) \in Events
      BY <2>1 DEF Events, Closed
    <2> QED
      BY <1>2, <1>4, <2>1, <2>2 DEF CommitRevert, Commit, Close, Closed
  <1>5. ASSUME NEW h \in Handler, CommitSsh(h) PROVE ClosedIsLogged'
    <2> DEFINE x == req[h].hf
               now == Updated("reconciled-ssh", req[h].status, status[x])
    <2>1. /\ audit' = audit \cup {Event("reconciled-ssh", x)}
          /\ reconciled' = [reconciled EXCEPT ![x] = TRUE]
          /\ status' = [status EXCEPT ![x] = now]
      BY <1>5 DEF CommitSsh, Commit, Close
    <2>2. x \in Hf
      BY <1>0, <1>5, BusyHandler, IdleHandler DEF CommitSsh, Commit
    <2>3. status \in [Hf -> Statuses] /\ reconciled \in [Hf -> BOOLEAN]
      BY <1>0 DEF TypeOK
    <2>4. now = "reconciled-ssh" \/ (now = status[x] /\ status[x] \in Closed)
      BY <1>0, <1>5 DEF CommitSsh, Commit, Updated, RequestsOK, RequestOK, Closed
    <2> HIDE DEF x, now
    <2>5. ASSUME NEW y \in Hf, y # x
          PROVE  /\ reconciled'[y] = reconciled[y] /\ status'[y] = status[y]
                 /\ (\E e \in audit' : e.hf = y /\ e.action \in Closed)
                        <=> (\E e \in audit : e.hf = y /\ e.action \in Closed)
      BY <2>1, <2>3, <2>5
    <2>6. /\ reconciled'[x] /\ status'[x] = now /\ now \in Closed
          /\ Event(now, x) \in audit'
      BY <1>0, <2>1, <2>2, <2>3, <2>4 DEF ClosedIsLogged, Closed
    <2>7. \E e \in audit' : e.hf = x /\ e.action \in Closed
      <3>1. Event("reconciled-ssh", x) \in audit'
        BY <2>1
      <3>2. /\ Event("reconciled-ssh", x).hf = x
            /\ Event("reconciled-ssh", x).action \in Closed
        BY DEF Closed
      <3> QED
        BY <3>1, <3>2
    <2> QED
      BY <1>0, <2>1, <2>2, <2>5, <2>6, <2>7 DEF ClosedIsLogged
  <1>6. CASE UNCHANGED <<status, reconciled, audit>>
    BY <1>0, <1>6 DEF ClosedIsLogged
  <1> QED
    BY <1>1, <1>3, <1>4, <1>5, <1>6
    DEF Next, Request, BeginCreate, BeginPromote, BeginRevert, BeginSsh, Read,
        SemaphoreAccepts, Abort, LateAccept, vars, table

\* A row says reverted only once its rollback task has been fired.
LEMMA RevertedStep == IndInv /\ [Next]_vars => RevertedWasRolledBack'
  <1> SUFFICES ASSUME IndInv, [Next]_vars, NEW x \in Hf, status'[x] = "reverted"
               PROVE  \E j \in Job : task'[j] = [hf |-> x, kind |-> "rollback"]
    BY DEF RevertedWasRolledBack
  <1>0. TypeOK /\ RequestsOK /\ RevertedWasRolledBack /\ Stable
    BY StableStep DEF IndInv
  <1>1. SUFFICES \E j \in Job : task[j] = [hf |-> x, kind |-> "rollback"]
    <2>1. [hf |-> x, kind |-> "rollback"] # None
      BY DEF Tasks
    <2> QED
      BY <1>0, <1>1, <2>1 DEF Stable
  <1>2. CASE status[x] = "reverted"
    BY <1>0, <1>2 DEF RevertedWasRolledBack
  <1>3. ASSUME NEW h \in Handler, CommitRevert(h), status[x] # "reverted"
        PROVE  \E j \in Job : task[j] = [hf |-> x, kind |-> "rollback"]
    <2>1. req[h].hf = x
      BY <1>0, <1>3 DEF CommitRevert, Close, TypeOK
    <2> QED
      BY <1>0, <1>3, <2>1 DEF CommitRevert, Commit, RequestsOK, RequestOK
  <1>4. ASSUME NEW h \in Handler, CommitCreate(h) \/ CommitPromote(h) \/ CommitSsh(h)
        PROVE  status[x] = "reverted"
    BY <1>0, <1>4 DEF CommitCreate, CommitPromote, CommitSsh, Close, Updated, TypeOK
  <1> QED
    BY <1>2, <1>3, <1>4
    DEF Next, Request, BeginCreate, BeginPromote, BeginRevert, BeginSsh, Read,
        SemaphoreAccepts, Abort, LateAccept, vars, table

\* What two requests never held at once is settled one way, once.
LEMMA SettledStep == IndInv /\ [Next]_vars => SettledOnceUnlessOverlapping'
  <1> DEFINE Settled(x) == /\ ~ {Event("promoted", x), Event("reverted", x)} \subseteq audit
                           /\ status[x] = "promoted" => policy[x] = "promote"
                           /\ status[x] = "reverted" => policy[x] = "revert"
  <1> SUFFICES ASSUME IndInv, [Next]_vars, NEW x \in Hf, x \notin overlapped'
               PROVE  Settled(x)'
    BY DEF SettledOnceUnlessOverlapping
  <1>0. /\ TypeOK /\ RequestsOK /\ ClosedIsLogged /\ OverlapsOK /\ Stable
        /\ x \notin overlapped /\ Settled(x)
    BY StableStep DEF IndInv, Stable, SettledOnceUnlessOverlapping
  <1>1. ASSUME NEW h \in Handler, CommitCreate(h) PROVE Settled(x)'
    BY <1>0, <1>1 DEF CommitCreate, Commit, Event, TypeOK
  <1>2. ASSUME NEW h \in Handler, CommitPromote(h) \/ CommitRevert(h) PROVE Settled(x)'
    <2>0. req[h].hf \in Hf /\ req[h].op \in Closing /\ req[h].status = "applied"
      BY <1>0, <1>2, BusyHandler, IdleHandler
      DEF CommitPromote, CommitRevert, Commit, Closing, RequestsOK, RequestOK
    <2>1. CASE req[h].hf = x
      <3>1. status[x] = "applied" /\ policy[x] = req[h].policy
        BY <1>0, <2>0, <2>1 DEF OverlapsOK
      <3>2. Event("promoted", x) \notin audit /\ Event("reverted", x) \notin audit
        BY <1>0, <3>1 DEF ClosedIsLogged, Closed, Event
      <3> QED
        BY <1>0, <1>2, <2>1, <3>1, <3>2
        DEF CommitPromote, CommitRevert, Commit, Close, Updated, Event, TypeOK
    <2>2. CASE req[h].hf # x
      BY <1>0, <1>2, <2>0, <2>2
      DEF CommitPromote, CommitRevert, Commit, Close, Event, TypeOK
    <2> QED
      BY <2>1, <2>2
  <1>3. ASSUME NEW h \in Handler, CommitSsh(h) PROVE Settled(x)'
    BY <1>0, <1>3 DEF CommitSsh, Commit, Close, Updated, Event, TypeOK
  <1>4. CASE UNCHANGED <<table, audit>>
    BY <1>0, <1>4 DEF table
  <1> HIDE DEF Settled
  <1> QED
    BY <1>1, <1>2, <1>3, <1>4
    DEF Next, Request, BeginCreate, BeginPromote, BeginRevert, BeginSsh, Read,
        SemaphoreAccepts, Abort, LateAccept, vars

-----------------------------------------------------------------------------
\* The invariant holds for ever, for any number of ids, tasks and requests.
THEOREM IndInvInvariant == Spec => []IndInv
  <1>1. IndInv /\ [Next]_vars => IndInv'
    BY TypeStep, RowsStep, RequestsStep, OverlapsStep, TrackedStep, LoggedStep,
       RevertedStep, SettledStep
    DEF IndInv
  <1> QED
    BY InitIndInv, <1>1, PTL DEF Spec

\* Every reachable state is well typed.
THEOREM TypeCorrect == Spec => []TypeOK
  BY IndInvInvariant, PTL DEF IndInv

\* A hotfix in the table is logged, and its job is a deploy task of its own.
THEOREM FixIsTrackedAlways == Spec => []FixIsTracked
  BY IndInvInvariant, PTL DEF IndInv

\* Row and audit log agree on whether, and how, a hotfix was closed.
THEOREM ClosedIsLoggedAlways == Spec => []ClosedIsLogged
  BY IndInvInvariant, PTL DEF IndInv

\* No hotfix is shown as reverted without a rollback task.
THEOREM RevertedWasRolledBackAlways == Spec => []RevertedWasRolledBack
  BY IndInvInvariant, PTL DEF IndInv

\* Only overlapping requests settle a hotfix two ways.
THEOREM SettledOnceAlways == Spec => []SettledOnceUnlessOverlapping
  BY IndInvInvariant, PTL DEF IndInv

\* No step reopens a hotfix or replaces the task that applied it.
THEOREM ClosedStaysClosedAlways == Spec => ClosedStaysClosed
  <1>1. IndInv /\ [Next]_vars =>
          [\A x \in Hf : /\ reconciled[x] => reconciled'[x] /\ status'[x] \in Closed
                         /\ job[x] # None => job'[x] = job[x]]_table
    BY StableStep DEF Stable, IndInv, RowsOK, ClosedIsLogged
  <1> QED
    BY IndInvInvariant, <1>1, PTL DEF Spec, ClosedStaysClosed

=============================================================================
