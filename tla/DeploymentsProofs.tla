------------------------- MODULE DeploymentsProofs -------------------------
(***************************************************************************)
(* Theorems about Deployments for every set of rows, tasks and handlers.   *)
(* The inductive invariant IndInv says that what a request holds across    *)
(* its await stays true of everything that cannot be undone, although the  *)
(* row may have changed under it; the three safety properties are parts of *)
(* IndInv, and NeverUntriggered follows from it step by step.              *)
(***************************************************************************)
EXTENDS Deployments, TLAPS

USE NoneIsNoId, CreateModesAreValid

-----------------------------------------------------------------------------
\* The initial state, in which every table is empty, satisfies the invariant.
LEMMA InitIndInv == Init => IndInv
  BY DEF Init, IndInv, TypeOK, RowsOK, TasksOK, HandlersOK, HandlerOK, AuditOK,
         VerdictIsEarned, TrackedJobIsAudited, PromotedFromSuccess, Statuses,
         JobStates, PCs, Triggered, Events

\* The API reports success only for Semaphore's "success" and failure only for
\* its "error"; everything else leaves the row deploying.
LEMMA StatusOfCases ==
  ASSUME NEW s
  PROVE  \/ StatusOf(s) = "success" /\ s = "success"
         \/ StatusOf(s) = "failed" /\ s = "error"
         \/ StatusOf(s) = "deploying"
  BY DEF StatusOf

\* No step leaves the types, handlers holding what they should: a commit writes
\* the row its handler holds.
LEMMA TypeStep == TypeOK /\ HandlersOK /\ [Next]_vars => TypeOK'
  <1> SUFFICES ASSUME TypeOK, HandlersOK, [Next]_vars PROVE TypeOK'
    OBVIOUS
  <1> USE DEF TypeOK, Statuses, JobStates, PCs, Events, Event, table, sema, handlers
  <1>1. ASSUME NEW n \in Dep, NEW m \in Modes, NEW a \in Artifact, Create(n, m, a)
        PROVE  TypeOK'
    BY <1>1 DEF Create, Insert
  <1>2. ASSUME NEW h \in Handler, Request(h) PROVE TypeOK'
    <2>1. ASSUME NEW d \in Dep, BeginTrigger(h, d) PROVE TypeOK'
      BY <2>1 DEF BeginTrigger, Start
    <2>2. ASSUME NEW d \in Dep, BeginSync(h, d) PROVE TypeOK'
      BY <2>2 DEF BeginSync, Start
    <2>3. ASSUME NEW d \in Dep, BeginPromote(h, d) PROVE TypeOK'
      BY <2>3 DEF BeginPromote, Start
    <2>4. ASSUME NEW d \in Dep, BeginRollback(h, d) PROVE TypeOK'
      BY <2>4 DEF BeginRollback, Start
    <2>5. ASSUME NEW n \in Dep, CommitPromote(h, n) PROVE TypeOK'
      BY <2>5 DEF CommitPromote, Insert, Finish, NextRing, Modes, HandlersOK, HandlerOK
    <2>6. ASSUME NEW n \in Dep, CommitRollback(h, n) PROVE TypeOK'
      BY <2>6 DEF CommitRollback, Insert, Finish, Modes, HandlersOK, HandlerOK
    <2>7. ASSUME NEW j \in Job, SemaphoreAccepts(h, j) PROVE TypeOK'
      BY <2>7 DEF SemaphoreAccepts
    <2>8. ASSUME NEW s \in JobStates \cup {"unknown"}, SyncAnswer(h, s) PROVE TypeOK'
      <3>1. CASE StatusOf(s) = "deploying"
        BY <2>8, <3>1 DEF SyncAnswer, Finish
      <3>2. CASE StatusOf(s) # "deploying"
        BY <2>8, <3>2, StatusOfCases DEF SyncAnswer
      <3> QED
        BY <3>1, <3>2
    <2>9. CASE CommitTrigger(h)
      BY <2>9 DEF CommitTrigger, Finish, HandlersOK, HandlerOK
    <2>10. CASE CommitSync(h)
      BY <2>10 DEF CommitSync, Finish, HandlersOK, HandlerOK
    <2>11. CASE Abort(h)
      BY <2>11 DEF Abort, Finish, HandlersOK, HandlerOK
    <2> HIDE DEF TypeOK, JobStates
    <2> QED
      BY <1>2, <2>1, <2>2, <2>3, <2>4, <2>5, <2>6, <2>7, <2>8, <2>9, <2>10, <2>11
      DEF Request
  <1>3. ASSUME NEW d \in Dep, NEW j \in Job, LateAccept(d, j) PROVE TypeOK'
    BY <1>3 DEF LateAccept
  <1>4. ASSUME NEW j \in Job, JobStep(j) PROVE TypeOK'
    BY <1>4 DEF JobStep
  <1>5. CASE UNCHANGED vars
    BY <1>5 DEF vars
  <1> HIDE DEF TypeOK
  <1> QED
    BY <1>1, <1>2, <1>3, <1>4, <1>5 DEF Next

-----------------------------------------------------------------------------
(* What every step leaves alone.                                           *)

\* A row that exists keeps its mode and artifact, a triggered row stays
\* triggered, a task keeps its owner and its end, an event stays in the log.
Stable ==
  /\ \A d \in Dep : status[d] # "absent" =>
        status'[d] # "absent" /\ mode'[d] = mode[d] /\ artifact'[d] = artifact[d]
  /\ \A d \in Dep : status[d] \in Triggered => status'[d] \in Triggered
  /\ \A j \in Job : owner[j] # None => owner'[j] = owner[j]
  /\ \A j \in Job : jobState[j] \in {"success", "error"} => jobState'[j] = jobState[j]
  /\ audit \subseteq audit'

\* Whatever request or task moves, a request waiting for Semaphore may rely on this.
LEMMA StableStep == IndInv /\ [Next]_vars => Stable
  <1> SUFFICES ASSUME IndInv, [Next]_vars PROVE Stable
    OBVIOUS
  <1>0. TypeOK /\ HandlersOK /\ TasksOK
    BY DEF IndInv
  <1> USE <1>0 DEF Stable, TypeOK, Triggered, table, sema, handlers
  <1>1. ASSUME NEW n \in Dep, NEW m \in Modes, NEW a \in Artifact, Create(n, m, a)
        PROVE  Stable
    BY <1>1 DEF Create, Insert
  <1>2. ASSUME NEW h \in Handler, Request(h) PROVE Stable
    <2>1. ASSUME NEW d \in Dep,
                 BeginTrigger(h, d) \/ BeginSync(h, d) \/ BeginPromote(h, d)
                     \/ BeginRollback(h, d)
          PROVE  Stable
      BY <2>1 DEF BeginTrigger, BeginSync, BeginPromote, BeginRollback
    <2>2. ASSUME NEW n \in Dep, CommitPromote(h, n) \/ CommitRollback(h, n)
          PROVE  Stable
      BY <2>2 DEF CommitPromote, CommitRollback, Insert
    <2>3. ASSUME NEW j \in Job, SemaphoreAccepts(h, j) PROVE Stable
      BY <2>3 DEF SemaphoreAccepts, TasksOK
    <2>4. ASSUME NEW s, SyncAnswer(h, s) PROVE Stable
      BY <2>4 DEF SyncAnswer
    <2>5. CASE CommitTrigger(h)
      BY <2>5 DEF CommitTrigger
    <2>6. CASE CommitSync(h)
      BY <2>6 DEF CommitSync, HandlersOK, HandlerOK
    <2>7. CASE Abort(h)
      BY <2>7 DEF Abort
    <2> HIDE DEF Stable
    <2> QED
      BY <1>2, <2>1, <2>2, <2>3, <2>4, <2>5, <2>6, <2>7 DEF Request
  <1>3. ASSUME NEW d \in Dep, NEW j \in Job, LateAccept(d, j) PROVE Stable
    BY <1>3 DEF LateAccept, TasksOK
  <1>4. ASSUME NEW j \in Job, JobStep(j) PROVE Stable
    BY <1>4 DEF JobStep
  <1>5. CASE UNCHANGED vars
    BY <1>5 DEF vars
  <1> HIDE DEF Stable
  <1> QED
    BY <1>1, <1>2, <1>3, <1>4, <1>5 DEF Next

\* So a task that succeeded or failed for a deployment has done so for ever.
LEMMA RanIsForGood ==
  ASSUME Stable, TypeOK, NEW d \in Dep, NEW s \in {"success", "error"}, Ran(d, s)
  PROVE  Ran(d, s)'
  BY DEF Stable, Ran, TypeOK

-----------------------------------------------------------------------------
(* One lemma per part of the invariant.                                    *)

\* A row has a job exactly from its first trigger on: the job id and the status
\* are written together, and a verdict is written only over a triggered row.
LEMMA RowsStep == IndInv /\ [Next]_vars => RowsOK'
  <1> SUFFICES ASSUME IndInv, [Next]_vars PROVE RowsOK'
    OBVIOUS
  <1>0. TypeOK /\ HandlersOK /\ RowsOK
    BY DEF IndInv
  <1> USE <1>0 DEF TypeOK, RowsOK, Triggered, table
  <1>1. ASSUME NEW n \in Dep, NEW m \in Modes, NEW a \in Artifact, Create(n, m, a)
        PROVE  RowsOK'
    BY <1>1 DEF Create, Insert
  <1>2. ASSUME NEW h \in Handler, Request(h) PROVE RowsOK'
    <2>1. ASSUME NEW n \in Dep, CommitPromote(h, n) \/ CommitRollback(h, n)
          PROVE  RowsOK'
      BY <2>1 DEF CommitPromote, CommitRollback, Insert
    <2>2. CASE CommitTrigger(h)
      BY <2>2 DEF CommitTrigger, HandlersOK, HandlerOK
    <2>3. CASE CommitSync(h)
      BY <2>3 DEF CommitSync, HandlersOK, HandlerOK
    <2>4. ASSUME UNCHANGED table PROVE RowsOK'
      BY <2>4
    <2> HIDE DEF RowsOK
    <2> QED
      BY <1>2, <2>1, <2>2, <2>3, <2>4
      DEF Request, BeginTrigger, BeginSync, BeginPromote, BeginRollback,
          SemaphoreAccepts, SyncAnswer, Abort
  <1>3. ASSUME UNCHANGED table PROVE RowsOK'
    BY <1>3
  <1> HIDE DEF RowsOK
  <1> QED
    BY <1>1, <1>2, <1>3 DEF Next, LateAccept, JobStep, vars

\* A task comes with its owner, and is owned by a row that exists.
LEMMA TasksStep == IndInv /\ [Next]_vars => TasksOK'
  <1> SUFFICES ASSUME IndInv, [Next]_vars PROVE TasksOK'
    OBVIOUS
  <1>0. TypeOK /\ HandlersOK /\ TasksOK
    BY DEF IndInv
  <1>00. \A d \in Dep : status[d] # "absent" => status'[d] # "absent"
    BY StableStep DEF Stable
  <1> USE <1>0, <1>00 DEF TypeOK, TasksOK, sema
  <1>1. ASSUME NEW h \in Handler, Request(h) PROVE TasksOK'
    <2>1. ASSUME NEW j \in Job, SemaphoreAccepts(h, j) PROVE TasksOK'
      BY <2>1 DEF SemaphoreAccepts, HandlersOK, HandlerOK
    <2>2. CASE Abort(h)
      BY <2>2 DEF Abort, HandlersOK, HandlerOK
    <2>3. ASSUME UNCHANGED sema PROVE TasksOK'
      BY <2>3
    <2> HIDE DEF TasksOK
    <2> QED
      BY <1>1, <2>1, <2>2, <2>3
      DEF Request, BeginTrigger, BeginSync, BeginPromote, BeginRollback,
          CommitPromote, CommitRollback, CommitTrigger, CommitSync, SyncAnswer
  <1>2. ASSUME NEW d \in Dep, NEW j \in Job, LateAccept(d, j) PROVE TasksOK'
    BY <1>2 DEF LateAccept
  <1>3. ASSUME NEW j \in Job, JobStep(j) PROVE TasksOK'
    BY <1>3 DEF JobStep
  <1>4. ASSUME UNCHANGED sema PROVE TasksOK'
    BY <1>4
  <1> HIDE DEF TasksOK
  <1> QED
    BY <1>1, <1>2, <1>3, <1>4 DEF Next, Create, vars

\* A handler whose own state did not change still holds what is true.
LEMMA HandlerFrame ==
  ASSUME TypeOK, Stable, NEW k \in Handler, HandlerOK(k),
         <<pc[k], dep[k], hjob[k], verdict[k]>>' = <<pc[k], dep[k], hjob[k], verdict[k]>>
  PROVE  HandlerOK(k)'
  <1>1. dep[k] \in Dep /\ Ran(dep[k], "success") => Ran(dep[k], "success")'
    BY RanIsForGood
  <1> QED
    BY <1>1 DEF TypeOK, Stable, HandlerOK

\* Each request holds only what no other request can undo.
LEMMA HandlersStep == IndInv /\ [Next]_vars => HandlersOK'
  <1> SUFFICES ASSUME IndInv, [Next]_vars PROVE HandlersOK'
    OBVIOUS
  <1>0. Stable /\ TypeOK /\ TypeOK' /\ HandlersOK /\ RowsOK /\ TasksOK /\ VerdictIsEarned
          /\ TrackedJobIsAudited
    BY StableStep, TypeStep DEF IndInv
  <1>1. ASSUME UNCHANGED handlers PROVE HandlersOK'
    BY <1>0, <1>1, HandlerFrame DEF HandlersOK, handlers
  <1>2. ASSUME NEW h \in Handler, Request(h) PROVE HandlersOK'
    <2> SUFFICES ASSUME NEW k \in Handler PROVE HandlerOK(k)'
      BY DEF HandlersOK
    <2>0. HandlerOK(h) /\ HandlerOK(k)
      BY <1>0 DEF HandlersOK
    <2>1. CASE k # h
      <3>1. <<pc[k], dep[k], hjob[k], verdict[k]>>' = <<pc[k], dep[k], hjob[k], verdict[k]>>
        BY <1>0, <1>2, <2>1
        DEF TypeOK, Request, BeginTrigger, BeginSync, BeginPromote, BeginRollback,
            Start, CommitPromote, CommitRollback, SemaphoreAccepts, SyncAnswer,
            CommitTrigger, CommitSync, Abort, Finish, handlers
      <3> QED
        BY <1>0, <2>0, <3>1, HandlerFrame
    <2>2. CASE k = h
      <3>1. CASE Finish(h)
        BY <1>0, <2>2, <3>1 DEF Finish, TypeOK, HandlerOK
      <3>2. ASSUME NEW d \in Dep, BeginTrigger(h, d) PROVE HandlerOK(h)'
        BY <1>0, <3>2 DEF BeginTrigger, Start, TriggerAllowed, TypeOK, HandlerOK, table
      <3>3. ASSUME NEW d \in Dep, BeginSync(h, d) PROVE HandlerOK(h)'
        BY <1>0, <3>3 DEF BeginSync, Start, TypeOK, HandlerOK, TrackedJobIsAudited,
                          Triggered, table, sema
      <3>4. ASSUME NEW d \in Dep, BeginPromote(h, d) PROVE HandlerOK(h)'
        BY <1>0, <3>4 DEF BeginPromote, Start, PromoteAllowed, TypeOK, HandlerOK,
                          VerdictIsEarned, Ran, table, sema
      <3>5. ASSUME NEW d \in Dep, BeginRollback(h, d) PROVE HandlerOK(h)'
        BY <1>0, <3>5 DEF BeginRollback, Start, RollbackAllowed, TypeOK, HandlerOK, table
      <3>6. ASSUME NEW j \in Job, SemaphoreAccepts(h, j) PROVE HandlerOK(h)'
        BY <1>0, <2>0, <3>6 DEF SemaphoreAccepts, TypeOK, HandlerOK, table
      <3>7. ASSUME NEW s, SyncAnswer(h, s), ~Finish(h) PROVE HandlerOK(h)'
        <4>1. StatusOf(s) # "deploying" /\ s \in {jobState[hjob[h]], "unknown"}
          BY <3>7 DEF SyncAnswer
        <4>2. \/ StatusOf(s) = "success" /\ jobState[hjob[h]] = "success"
              \/ StatusOf(s) = "failed" /\ jobState[hjob[h]] = "error"
          BY <4>1, StatusOfCases
        <4> QED
          BY <1>0, <2>0, <3>7, <4>1, <4>2 DEF SyncAnswer, TypeOK, HandlerOK, table, sema
      <3> QED
        BY <1>2, <2>2, <3>1, <3>2, <3>3, <3>4, <3>5, <3>6, <3>7
        DEF Request, CommitPromote, CommitRollback, CommitTrigger, CommitSync, Abort
    <2> QED
      BY <2>1, <2>2
  <1> QED
    BY <1>1, <1>2 DEF Next, Create, LateAccept, JobStep, vars

\* A verdict is written only from a task of the row that ended so, and what a
\* task ended as is for good.
LEMMA VerdictStep == IndInv /\ [Next]_vars => VerdictIsEarned'
  <1> SUFFICES ASSUME IndInv, [Next]_vars, NEW d \in Dep
               PROVE  /\ status'[d] = "success" => Ran(d, "success")'
                      /\ status'[d] = "failed"  => Ran(d, "error")'
    BY DEF VerdictIsEarned
  <1>0. TypeOK /\ HandlersOK /\ VerdictIsEarned
    BY DEF IndInv
  <1>1. /\ Ran(d, "success") => Ran(d, "success")'
        /\ Ran(d, "error") => Ran(d, "error")'
    BY <1>0, StableStep, RanIsForGood
  <1>2. CASE status'[d] = status[d]
    BY <1>0, <1>1, <1>2 DEF VerdictIsEarned
  <1>3. CASE \E h \in Handler : CommitSync(h) /\ dep[h] = d
    <2>1. PICK h \in Handler : CommitSync(h) /\ dep[h] = d
      BY <1>3
    <2>2. HandlerOK(h) /\ pc[h] = "synced" /\ status'[d] = verdict[h]
      BY <1>0, <2>1 DEF CommitSync, HandlersOK, TypeOK
    <2> QED
      BY <1>1, <2>1, <2>2 DEF HandlerOK, Ran
  <1>4. CASE status'[d] \in {"pending", "deploying"}
    BY <1>4
  <1> QED
    <2>1. \/ UNCHANGED status
          \/ \E n \in Dep : status' = [status EXCEPT ![n] = "pending"]
          \/ \E h \in Handler : status' = [status EXCEPT ![dep[h]] = "deploying"]
          \/ \E h \in Handler : CommitSync(h)
      BY DEF Next, Create, Insert, Request, BeginTrigger, BeginSync, BeginPromote,
             BeginRollback, CommitPromote, CommitRollback, SemaphoreAccepts, SyncAnswer,
             CommitTrigger, Abort, LateAccept, JobStep, vars, table
    <2>2. ASSUME NEW h \in Handler, CommitSync(h), dep[h] # d
          PROVE  status'[d] = status[d]
      BY <1>0, <2>2 DEF CommitSync, TypeOK
    <2> QED
      BY <1>0, <1>2, <1>3, <1>4, <2>1, <2>2 DEF TypeOK

\* Every step changes the job column only together with the audit log.
LEMMA TrackedStep == IndInv /\ [Next]_vars => TrackedJobIsAudited'
  <1> SUFFICES ASSUME IndInv, [Next]_vars, NEW d \in Dep, job'[d] # None
               PROVE  /\ owner'[job'[d]] = d
                      /\ Event("triggered", d, None, job'[d]) \in audit'
    BY DEF TrackedJobIsAudited, Event
  <1>0. TypeOK /\ HandlersOK /\ TrackedJobIsAudited /\ Stable
    BY StableStep DEF IndInv
  <1>1. CASE job'[d] = job[d]
    BY <1>0, <1>1 DEF TrackedJobIsAudited, Stable, TypeOK
  <1>2. ASSUME NEW h \in Handler, CommitTrigger(h), job'[d] # job[d]
        PROVE  /\ owner'[job'[d]] = d
               /\ Event("triggered", d, None, job'[d]) \in audit'
    <2>1. HandlerOK(h) /\ pc[h] = "accepted" /\ d = dep[h] /\ job'[d] = hjob[h]
      BY <1>0, <1>2 DEF CommitTrigger, HandlersOK, TypeOK
    <2>2. owner'[hjob[h]] = d
      BY <1>0, <2>1 DEF HandlerOK, Stable, TypeOK
    <2> QED
      BY <1>2, <2>1, <2>2 DEF CommitTrigger
  <1>3. UNCHANGED job \/ \E h \in Handler : CommitTrigger(h)
    BY DEF Next, Create, Insert, Request, BeginTrigger, BeginSync, BeginPromote,
           BeginRollback, CommitPromote, CommitRollback, SemaphoreAccepts, SyncAnswer,
           CommitSync, Abort, LateAccept, JobStep, vars, table
  <1> QED
    BY <1>1, <1>2, <1>3

\* The audit log grows only by events about rows the same step leaves existing,
\* and a promotion is logged only by the handler that held its success.
LEMMA AuditStep == IndInv /\ [Next]_vars => AuditOK' /\ PromotedFromSuccess'
  <1> SUFFICES ASSUME IndInv, [Next]_vars PROVE AuditOK' /\ PromotedFromSuccess'
    OBVIOUS
  <1> DEFINE Good(e) ==
        /\ status[e.dep] # "absent"
        /\ e.action = "promoted" =>
             /\ e.from \in Dep /\ status[e.from] # "absent"
             /\ Ran(e.from, "success")
             /\ artifact[e.dep] = artifact[e.from]
             /\ mode[e.from] \in Promotable
             /\ mode[e.dep] = NextRing(mode[e.from])
  <1>0. TypeOK /\ HandlersOK /\ AuditOK /\ PromotedFromSuccess /\ Stable
    BY StableStep DEF IndInv
  <1>1. SUFFICES ASSUME NEW e \in audit' PROVE Good(e)'
    BY <1>1 DEF AuditOK, PromotedFromSuccess
  <1>2. CASE e \in audit
    <2>1. Good(e) /\ e.dep \in Dep
      BY <1>0, <1>2 DEF AuditOK, PromotedFromSuccess, TypeOK, Events
    <2>2. e.action = "promoted" => Ran(e.from, "success")'
      BY <1>0, <2>1, RanIsForGood
    <2> QED
      BY <1>0, <2>1, <2>2 DEF Stable
  <1>3. ASSUME NEW n \in Dep, NEW m \in Modes, NEW a \in Artifact, Create(n, m, a),
               e \notin audit
        PROVE  Good(e)'
    BY <1>0, <1>3 DEF Create, Insert, Event, TypeOK
  <1>4. ASSUME NEW h \in Handler, NEW n \in Dep, CommitPromote(h, n), e \notin audit
        PROVE  Good(e)'
    <2> DEFINE o == dep[h]
    <2>1. /\ o \in Dep /\ status[o] # "absent" /\ o # n
          /\ Ran(o, "success") /\ mode[o] \in Promotable
      BY <1>0, <1>4 DEF CommitPromote, Insert, HandlersOK, HandlerOK
    <2>2. Ran(o, "success") => \E j \in Job : owner'[j] = o /\ jobState'[j] = "success"
      BY <1>0, <2>1 DEF Ran, Stable, TypeOK
    <2>3. /\ e = Event("promoted", n, o, None)
          /\ status' = [status EXCEPT ![n] = "pending"]
          /\ mode' = [mode EXCEPT ![n] = NextRing(mode[o])]
          /\ artifact' = [artifact EXCEPT ![n] = artifact[o]]
      BY <1>4 DEF CommitPromote, Insert
    <2>4. e.dep = n /\ e.from = o
      BY <2>3 DEF Event
    <2> HIDE DEF o
    <2>5. Ran(e.from, "success")'
      BY <2>1, <2>2, <2>4 DEF Ran
    <2> QED
      BY <1>0, <2>1, <2>3, <2>4, <2>5 DEF TypeOK
  <1>5. ASSUME NEW h \in Handler, NEW n \in Dep, CommitRollback(h, n), e \notin audit
        PROVE  Good(e)'
    BY <1>0, <1>5 DEF CommitRollback, Insert, Event, TypeOK
  <1>6. ASSUME NEW h \in Handler, CommitTrigger(h), e \notin audit
        PROVE  Good(e)'
    BY <1>0, <1>6 DEF CommitTrigger, Event, TypeOK, HandlersOK, HandlerOK
  <1>7. CASE UNCHANGED audit
    BY <1>2, <1>7
  <1> HIDE DEF Good
  <1> QED
    BY <1>2, <1>3, <1>4, <1>5, <1>6, <1>7
    DEF Next, Request, BeginTrigger, BeginSync, BeginPromote, BeginRollback,
        SemaphoreAccepts, SyncAnswer, CommitSync, Abort, LateAccept, JobStep, vars

-----------------------------------------------------------------------------
\* The invariant holds for ever, for any number of rows, tasks and requests.
THEOREM IndInvInvariant == Spec => []IndInv
  <1>1. IndInv /\ [Next]_vars => IndInv'
    BY TypeStep, RowsStep, TasksStep, HandlersStep, VerdictStep, TrackedStep, AuditStep
    DEF IndInv
  <1> QED
    BY InitIndInv, <1>1, PTL DEF Spec

\* Every reachable state is well typed.
THEOREM TypeCorrect == Spec => []TypeOK
  BY IndInvInvariant, PTL DEF IndInv

\* A row says success or failure only if a task fired for it ended so.
THEOREM VerdictIsEarnedAlways == Spec => []VerdictIsEarned
  BY IndInvInvariant, PTL DEF IndInv

\* The tracked job is the row's own and its trigger is in the audit log.
THEOREM TrackedJobIsAuditedAlways == Spec => []TrackedJobIsAudited
  BY IndInvInvariant, PTL DEF IndInv

\* Whatever was promoted had succeeded one ring below, with the same artifact.
THEOREM PromotedFromSuccessAlways == Spec => []PromotedFromSuccess
  BY IndInvInvariant, PTL DEF IndInv

\* No step of any request takes a triggered row back or leaves it without job.
THEOREM NeverUntriggeredAlways == Spec => NeverUntriggered
  <1>1. IndInv /\ IndInv' /\ [Next]_vars =>
          [\A d \in Dep : status[d] \in Triggered =>
              status'[d] \in Triggered /\ job'[d] # None]_table
    BY StableStep DEF Stable, IndInv, RowsOK
  <1> QED
    BY IndInvInvariant, <1>1, PTL DEF Spec, NeverUntriggered


-----------------------------------------------------------------------------
(* When the API serves one request at a time, Deployments implements       *)
(* RolloutLifecycle, lost answers, crashes and stray tasks included: the   *)
(* row a handler writes is still as the handler read it (SerialOK), so     *)
(* every commit is one abstract step and every other step a stutter.       *)

\* With one handler, no row changes between a request's read and its commit.
LEMMA SerialStep ==
  ASSUME OneAtATime, IndInv, SerialOK, [Next]_vars
  PROVE  SerialOK'
  <1> USE DEF IndInv, TypeOK, SerialOK, OneAtATime, table, sema, handlers
  <1>1. ASSUME NEW n \in Dep, NEW m \in Modes, NEW a \in Artifact, Create(n, m, a)
        PROVE  SerialOK'
    BY <1>1 DEF Create, Insert, HandlersOK, HandlerOK
  <1>2. ASSUME NEW h \in Handler, Request(h) PROVE SerialOK'
    <2>1. ASSUME NEW d \in Dep,
                 BeginTrigger(h, d) \/ BeginSync(h, d) \/ BeginPromote(h, d)
                     \/ BeginRollback(h, d)
          PROVE  SerialOK'
      <3>1. CASE BeginTrigger(h, d)
        BY <3>1 DEF BeginTrigger, Start, TriggerAllowed
      <3>2. CASE BeginSync(h, d)
        BY <3>2 DEF BeginSync, Start
      <3>3. CASE BeginPromote(h, d)
        BY <3>3 DEF BeginPromote, Start, PromoteAllowed
      <3>4. CASE BeginRollback(h, d)
        BY <3>4 DEF BeginRollback, Start, RollbackAllowed
      <3> QED
        BY <2>1, <3>1, <3>2, <3>3, <3>4
    <2>2. ASSUME NEW n \in Dep, CommitPromote(h, n) \/ CommitRollback(h, n)
          PROVE  SerialOK'
      BY <2>2 DEF CommitPromote, CommitRollback, Insert, Finish, Modes, NextRing
    <2>3. ASSUME NEW j \in Job, SemaphoreAccepts(h, j) PROVE SerialOK'
      BY <2>3 DEF SemaphoreAccepts
    <2>4. ASSUME NEW s, SyncAnswer(h, s) PROVE SerialOK'
      BY <2>4 DEF SyncAnswer, Finish
    <2>5. CASE CommitTrigger(h)
      BY <2>5 DEF CommitTrigger, Finish, HandlersOK, HandlerOK
    <2>6. CASE CommitSync(h)
      BY <2>6 DEF CommitSync, Finish, HandlersOK, HandlerOK
    <2>7. CASE Abort(h)
      BY <2>7 DEF Abort, Finish
    <2> HIDE DEF SerialOK
    <2> QED
      BY <1>2, <2>1, <2>2, <2>3, <2>4, <2>5, <2>6, <2>7 DEF Request
  <1>3. ASSUME UNCHANGED <<table, handlers>> PROVE SerialOK'
    BY <1>3
  <1> HIDE DEF SerialOK
  <1> QED
    BY <1>1, <1>2, <1>3 DEF Next, LateAccept, JobStep, vars

\* The lineage the audit log records grows only by promotions and rollbacks.
LEMMA LineageFrame ==
  ASSUME NEW a \in {"created", "triggered"}, NEW d, NEW f, NEW j,
         audit' = audit \cup {Event(a, d, f, j)}
  PROVE  Lineage' = Lineage
  BY DEF Lineage, Event

\* A promotion or rollback adds exactly its own derivation.
LEMMA LineageGrows ==
  ASSUME NEW a \in {"promoted", "rollback_requested"}, NEW d, NEW f, NEW j,
         audit' = audit \cup {Event(a, d, f, j)}
  PROVE  Lineage' = Lineage \cup {<<d, a, f>>}
  <1> DEFINE E == Event(a, d, f, j)
             Derivations(A) == {x \in A : x.action \in {"promoted", "rollback_requested"}}
  <1>1. E.action = a /\ E.dep = d /\ E.from = f
    BY DEF Event
  <1>2. Derivations(audit \cup {E}) = Derivations(audit) \cup {E}
    BY <1>1
  <1>3. /\ Lineage = {<<e.dep, e.action, e.from>> : e \in Derivations(audit)}
        /\ Lineage' = {<<e.dep, e.action, e.from>> : e \in Derivations(audit \cup {E})}
    BY DEF Lineage
  <1> HIDE DEF E, Derivations
  <1> QED
    BY <1>1, <1>2, <1>3

\* Each step is a step of the life cycle, or changes nothing of it.
LEMMA RefineStep ==
  ASSUME OneAtATime, IndInv, SerialOK, [Next]_vars
  PROVE  [Lifecycle!LNext]_<<status, Lineage>>
  <1> DEFINE Refined == [Lifecycle!LNext]_<<status, Lineage>>
  <1>0. TypeOK /\ HandlersOK
    BY DEF IndInv
  <1>1. ASSUME NEW n \in Dep, NEW m \in Modes, NEW a \in Artifact, Create(n, m, a)
        PROVE  Refined
    <2>1. Lifecycle!Register(n)
      BY <1>1, LineageFrame DEF Create, Insert, Lifecycle!Register, Lifecycle!Move
    <2> QED
      BY <2>1 DEF Lifecycle!LNext
  <1>2. ASSUME NEW h \in Handler, NEW n \in Dep, CommitPromote(h, n)
        PROVE  Refined
    <2>1. dep[h] \in Dep /\ status[dep[h]] = "success"
      BY <1>0, <1>2 DEF CommitPromote, SerialOK, HandlersOK, HandlerOK
    <2>2. Lifecycle!Derive(n, "promoted", dep[h])
      BY <1>2, <2>1, LineageGrows
      DEF CommitPromote, Insert, Lifecycle!Derive, Lifecycle!Move
    <2> QED
      BY <2>1, <2>2 DEF Lifecycle!LNext
  <1>3. ASSUME NEW h \in Handler, NEW n \in Dep, CommitRollback(h, n)
        PROVE  Refined
    <2>1. dep[h] \in Dep /\ status[dep[h]] \in {"success", "failed"}
      BY <1>0, <1>3 DEF CommitRollback, SerialOK, HandlersOK, HandlerOK
    <2>2. Lifecycle!Derive(n, "rollback_requested", dep[h])
      BY <1>3, <2>1, LineageGrows
      DEF CommitRollback, Insert, Lifecycle!Derive, Lifecycle!Move
    <2> QED
      BY <2>1, <2>2 DEF Lifecycle!LNext
  <1>4. ASSUME NEW h \in Handler, CommitTrigger(h)
        PROVE  Refined
    <2>1. dep[h] \in Dep /\ status[dep[h]] = "pending"
      BY <1>0, <1>4 DEF CommitTrigger, SerialOK, HandlersOK, HandlerOK
    <2>2. Lifecycle!Fire(dep[h])
      BY <1>4, <2>1, LineageFrame DEF CommitTrigger, Lifecycle!Fire, Lifecycle!Move
    <2> QED
      BY <2>1, <2>2 DEF Lifecycle!LNext
  <1>5. ASSUME NEW h \in Handler, CommitSync(h)
        PROVE  Refined
    <2>1. /\ dep[h] \in Dep /\ status[dep[h]] = "deploying"
          /\ verdict[h] \in {"success", "failed"}
      BY <1>0, <1>5 DEF CommitSync, SerialOK, HandlersOK, HandlerOK
    <2>2. Lifecycle!Conclude(dep[h])
      BY <1>5, <2>1 DEF CommitSync, Lineage, Lifecycle!Conclude, Lifecycle!Move
    <2> QED
      BY <2>1, <2>2 DEF Lifecycle!LNext
  <1>6. ASSUME UNCHANGED <<status, audit>> PROVE Refined
    BY <1>6 DEF Lineage
  <1> HIDE DEF Refined
  <1>7. Refined
    BY <1>1, <1>2, <1>3, <1>4, <1>5, <1>6
    DEF Next, Request, BeginTrigger, BeginSync, BeginPromote, BeginRollback,
        SemaphoreAccepts, SyncAnswer, Abort, LateAccept, JobStep, vars, table
  <1> QED
    BY <1>7 DEF Refined

\* Served one at a time, the routes keep the promise of the life cycle.
THEOREM SerialImplementsLifecycle ==
  ASSUME OneAtATime
  PROVE  Spec => ImplementsLifecycle
  <1>1. Init => Lifecycle!LInit /\ SerialOK
    BY DEF Init, Lifecycle!LInit, Lineage, SerialOK
  <1>2. IndInv /\ SerialOK /\ [Next]_vars =>
          SerialOK' /\ [Lifecycle!LNext]_<<status, Lineage>>
    BY OneAtATime, SerialStep, RefineStep
  <1>3. [Lifecycle!LNext]_<<status, Lineage>> => [Lifecycle!LNext]_Lifecycle!lifecycle
    BY DEF Lifecycle!lifecycle
  <1> QED
    BY <1>1, <1>2, <1>3, IndInvInvariant, PTL
    DEF Spec, ImplementsLifecycle, Lifecycle!LSpec

\* One at a time, the row's verdict is that of the task it points to: no trigger
\* replaces the task of a row that has one, and a task's end is for good.
LEMMA MatchStep ==
  ASSUME OneAtATime, IndInv, SerialOK, VerdictMatchesTrackedJob, [Next]_vars
  PROVE  VerdictMatchesTrackedJob'
  <1> USE DEF VerdictMatchesTrackedJob, Triggered
  <1>0. /\ TypeOK /\ HandlersOK /\ RowsOK
        /\ \A j \in Job : jobState[j] \in {"success", "error"} => jobState'[j] = jobState[j]
    BY StableStep DEF IndInv, Stable
  <1>1. ASSUME NEW h \in Handler, CommitTrigger(h)
        PROVE  VerdictMatchesTrackedJob'
    BY <1>0, <1>1 DEF CommitTrigger, SerialOK, HandlersOK, HandlerOK, TypeOK, sema
  <1>2. ASSUME NEW h \in Handler, CommitSync(h)
        PROVE  VerdictMatchesTrackedJob'
    BY <1>0, <1>2 DEF CommitSync, SerialOK, HandlersOK, HandlerOK, TypeOK, sema
  <1>3. ASSUME NEW n \in Dep, NEW m, NEW a, NEW e, Insert(n, m, a, e)
        PROVE  VerdictMatchesTrackedJob'
    BY <1>0, <1>3 DEF Insert, TypeOK, RowsOK
  <1>4. ASSUME UNCHANGED <<status, job, ended>> PROVE VerdictMatchesTrackedJob'
    BY <1>0, <1>4 DEF TypeOK, RowsOK
  <1> HIDE DEF VerdictMatchesTrackedJob
  <1> QED
    BY <1>1, <1>2, <1>3, <1>4
    DEF Next, Create, Request, BeginTrigger, BeginSync, BeginPromote, BeginRollback,
        CommitPromote, CommitRollback, SemaphoreAccepts, SyncAnswer, Abort, LateAccept,
        JobStep, vars, table

\* Served one at a time, a row's verdict is the one of its own last task.
THEOREM SerialVerdictMatches ==
  ASSUME OneAtATime
  PROVE  Spec => []VerdictMatchesTrackedJob
  <1>1. Init => SerialOK /\ VerdictMatchesTrackedJob
    BY DEF Init, SerialOK, VerdictMatchesTrackedJob
  <1>2. IndInv /\ SerialOK /\ VerdictMatchesTrackedJob /\ [Next]_vars =>
          (SerialOK /\ VerdictMatchesTrackedJob)'
    BY OneAtATime, SerialStep, MatchStep
  <1> QED
    BY <1>1, <1>2, IndInvInvariant, PTL DEF Spec
=============================================================================
