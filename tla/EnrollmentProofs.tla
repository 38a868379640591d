-------------------------- MODULE EnrollmentProofs --------------------------
(***************************************************************************)
(* Theorems about Enrollment for every set of devices, tokens, secrets and *)
(* handlers, every fault and every actor.  The inductive invariant says    *)
(* what a request may still rely on when it commits: its secret is its     *)
(* own and was never stored, its token is free or shared knowingly, and    *)
(* the device it registers is one the API already knows.                   *)
(***************************************************************************)
EXTENDS Enrollment, TLAPS

USE NoneAssumption, ScopeAssumption, GarbageAssumption

-----------------------------------------------------------------------------
\* Nothing issued, nothing stored, nothing running.
LEMMA InitIndInv == Init => IndInv
  BY DEF Init, IndInv, TypeOK, Idle, RequestsOK, StoredOK, DevicesOK, DeviceOK,
         TokensOK,
         ProgressOK, IdentityIsItsOwn, SingleUseUnlessOverlapping,
         UsedTokenGaveCredentials, FinishedIsKnown


\* What a device does by itself changes neither a request nor a credential.
LEMMA DeviceFrame ==
  ASSUME NEW d \in Device, DeviceStep(d)
  PROVE  UNCHANGED <<used, hash, registered, history, req>>
  <1> USE DEF tables, history
  <1>1. CASE StartUnit(d)
    BY <1>1 DEF StartUnit
  <1>2. CASE RunByHand(d)
    BY <1>2 DEF RunByHand
  <1>3. CASE RefuseProvision(d)
    BY <1>3 DEF RefuseProvision
  <1>4. CASE GiveUp(d)
    BY <1>4 DEF GiveUp
  <1>5. CASE BadAnswer(d)
    BY <1>5 DEF BadAnswer
  <1>6. CASE Install(d)
    BY <1>6 DEF Install
  <1>7. CASE EnableServices(d)
    BY <1>7 DEF EnableServices
  <1>8. CASE AgentStarts(d)
    BY <1>8 DEF AgentStarts
  <1>9. CASE ServicesUp(d)
    BY <1>9 DEF ServicesUp
  <1>10. CASE RefuseRegister(d)
    BY <1>10 DEF RefuseRegister
  <1>11. CASE Finish(d)
    BY <1>11 DEF Finish
  <1>12. CASE KillUnit(d)
    BY <1>12 DEF KillUnit
  <1>13. CASE PowerLoss(d)
    BY <1>13 DEF PowerLoss
  <1>14. CASE Deploy(d)
    BY <1>14 DEF Deploy
  <1>15. CASE Heartbeat(d)
    BY <1>15 DEF Heartbeat
  <1>16. CASE Silence(d)
    BY <1>16 DEF Silence
  <1>17. ASSUME NEW t \in ProvToken, NewCard(d, t)
        PROVE  UNCHANGED <<used, hash, registered, history, req>>
    BY <1>17 DEF NewCard
  <1> QED
    BY <1>1, <1>2, <1>3, <1>4, <1>5, <1>6, <1>7, <1>8, <1>9, <1>10, <1>11,
         <1>12, <1>13, <1>14, <1>15, <1>16, <1>17
    DEF DeviceStep

\* No step leaves the types.
LEMMA TypeStep == TypeOK /\ RequestsOK /\ DevicesOK /\ [Next]_vars => TypeOK'
  <1> SUFFICES ASSUME TypeOK, RequestsOK, DevicesOK, [Next]_vars PROVE TypeOK'
    OBVIOUS
  <1> USE DEF TypeOK, tables, history, disk, script, units, Idle, Requests, Garbage
  <1>1. ASSUME NEW d \in Device, DeviceStep(d) PROVE TypeOK'
    <2>1. CASE StartUnit(d)
      BY <2>1 DEF StartUnit
    <2>2. CASE RunByHand(d)
      BY <2>2 DEF RunByHand
    <2>3. CASE RefuseProvision(d)
      BY <2>3 DEF RefuseProvision, Fail
    <2>4. CASE GiveUp(d)
      BY <2>4 DEF GiveUp, Fail
    <2>5. CASE BadAnswer(d)
      BY <2>5 DEF BadAnswer
    <2>6. CASE Install(d)
      <3>1. incoming[d] # None
        BY <2>6 DEF Install, DevicesOK, DeviceOK
      <3> QED
        BY <2>6, <3>1 DEF Install
    <2>7. CASE EnableServices(d)
      BY <2>7 DEF EnableServices, Queue
    <2>8. CASE AgentStarts(d)
      BY <2>8 DEF AgentStarts
    <2>9. CASE ServicesUp(d)
      BY <2>9 DEF ServicesUp
    <2>10. CASE RefuseRegister(d)
      BY <2>10 DEF RefuseRegister, Fail
    <2>11. CASE Finish(d)
      BY <2>11 DEF Finish
    <2>12. CASE KillUnit(d)
      BY <2>12 DEF KillUnit, Fail
    <2>13. CASE PowerLoss(d)
      BY <2>13 DEF PowerLoss, Fail
    <2>14. CASE Deploy(d)
      BY <2>14 DEF Deploy, Queue
    <2>15. CASE Heartbeat(d)
      BY <2>15 DEF Heartbeat
    <2>16. CASE Silence(d)
      BY <2>16 DEF Silence
    <2>17. ASSUME NEW t \in ProvToken, NewCard(d, t) PROVE TypeOK'
      BY <2>17 DEF NewCard
    <2> HIDE DEF TypeOK
    <2> QED
      BY <1>1, <2>1, <2>2, <2>3, <2>4, <2>5, <2>6, <2>7, <2>8, <2>9, <2>10, <2>11,
         <2>12, <2>13, <2>14, <2>15, <2>16, <2>17
      DEF DeviceStep
  <1>2. ASSUME NEW h \in Handler, HandlerStep(h) PROVE TypeOK'
    <2>1. ASSUME NEW d \in Device, BeginRegister(h, d) PROVE TypeOK'
      BY <2>1 DEF BeginRegister, Posts, Take
    <2>2. ASSUME NEW d \in Device, NEW s \in Secret, BeginProvision(h, d, s)
          PROVE  TypeOK'
      BY <2>2 DEF BeginProvision, Posts, Generate, Take, DevicesOK, DeviceOK
    <2>3. ASSUME NEW d \in Device, NEW s \in Secret, BeginIssue(h, d, s)
          PROVE  TypeOK'
      BY <2>3 DEF BeginIssue, Generate, Take
    <2>4. CASE AnswerProvision(h)
      <3>1. req[h] \in Requests /\ req[h] # Idle
        BY <2>4 DEF AnswerProvision, Reply
      <3> QED
        BY <2>4, <3>1 DEF AnswerProvision, Reply, RequestsOK
    <2>5. CASE CommitProvision(h)
      BY <2>5 DEF CommitProvision, Commit, Store, RequestsOK
    <2>6. CASE AnswerRegister(h)
      <3>1. req[h] \in Requests /\ req[h] # Idle
        BY <2>6 DEF AnswerRegister, Reply
      <3> QED
        BY <2>6, <3>1 DEF AnswerRegister, Reply
    <2>7. CASE CommitRegister(h)
      BY <2>7 DEF CommitRegister, Commit
    <2>8. CASE AnswerIssue(h)
      BY <2>8 DEF AnswerIssue, Reply, RequestsOK
    <2>9. CASE CommitIssue(h)
      BY <2>9 DEF CommitIssue, Commit, Store, RequestsOK
    <2>10. CASE Abort(h)
      BY <2>10 DEF Abort
    <2> HIDE DEF TypeOK
    <2> QED
      BY <1>2, <2>1, <2>2, <2>3, <2>4, <2>5, <2>6, <2>7, <2>8, <2>9, <2>10
      DEF HandlerStep
  <1>3. CASE UNCHANGED vars
    BY <1>3 DEF vars
  <1> HIDE DEF TypeOK
  <1> QED
    BY <1>1, <1>2, <1>3 DEF Next

\* A request's secret stays its own: only fresh ones are handed out, and storing
\* one ends its request.
LEMMA RequestsStep ==
  TypeOK /\ DevicesOK /\ StoredOK /\ RequestsOK /\ [Next]_vars => RequestsOK'
  <1> SUFFICES ASSUME TypeOK, DevicesOK, StoredOK, RequestsOK, [Next]_vars
               PROVE RequestsOK'
    OBVIOUS
  <1> USE DEF TypeOK, tables, history, disk, script, units, Idle, Requests,
              Garbage, RequestsOK
  <1>1. ASSUME NEW d \in Device, DeviceStep(d) PROVE RequestsOK'
    BY <1>1, DeviceFrame
  <1>2. ASSUME NEW h \in Handler, HandlerStep(h) PROVE RequestsOK'
    <2>1. ASSUME NEW d \in Device, BeginRegister(h, d) PROVE RequestsOK'
      BY <2>1 DEF BeginRegister, Posts, Take
    <2>2. ASSUME NEW d \in Device, NEW s \in Secret, BeginProvision(h, d, s)
          PROVE  RequestsOK'
      BY <2>2 DEF BeginProvision, Posts, Generate, Take, MayProvision, DevicesOK,
                  DeviceOK, StoredOK
    <2>3. ASSUME NEW d \in Device, NEW s \in Secret, BeginIssue(h, d, s)
          PROVE  RequestsOK'
      BY <2>3 DEF BeginIssue, Generate, Take, StoredOK
    <2>4. CASE AnswerProvision(h)
      <3>1. req[h] \in Requests /\ req[h] # Idle
        BY <2>4 DEF AnswerProvision, Reply
      <3> QED
        BY <2>4, <3>1 DEF AnswerProvision, Reply
    <2>5. CASE CommitProvision(h)
      BY <2>5 DEF CommitProvision, Commit, Store
    <2>6. CASE AnswerRegister(h)
      <3>1. req[h] \in Requests /\ req[h] # Idle
        BY <2>6 DEF AnswerRegister, Reply
      <3> QED
        BY <2>6, <3>1 DEF AnswerRegister, Reply
    <2>7. CASE CommitRegister(h)
      BY <2>7 DEF CommitRegister, Commit
    <2>8. CASE AnswerIssue(h)
      BY <2>8 DEF AnswerIssue, Reply
    <2>9. CASE CommitIssue(h)
      BY <2>9 DEF CommitIssue, Commit, Store
    <2>10. CASE Abort(h)
      BY <2>10 DEF Abort
    <2> HIDE DEF RequestsOK
    <2> QED
      BY <1>2, <2>1, <2>2, <2>3, <2>4, <2>5, <2>6, <2>7, <2>8, <2>9, <2>10
      DEF HandlerStep
  <1>3. CASE UNCHANGED vars
    BY <1>3 DEF vars
  <1> HIDE DEF RequestsOK
  <1> QED
    BY <1>1, <1>2, <1>3 DEF Next

\* What the API stores was generated for the device.
LEMMA StoredStep == TypeOK /\ RequestsOK /\ StoredOK /\ [Next]_vars => StoredOK'
  <1> SUFFICES ASSUME TypeOK, RequestsOK, StoredOK, [Next]_vars PROVE StoredOK'
    OBVIOUS
  <1> USE DEF TypeOK, tables, history, disk, script, units, Idle, Requests,
              Garbage, StoredOK, RequestsOK
  <1>1. ASSUME NEW d \in Device, DeviceStep(d) PROVE StoredOK'
    BY <1>1, DeviceFrame
  <1>2. ASSUME NEW h \in Handler, HandlerStep(h) PROVE StoredOK'
    <2>1. ASSUME NEW d \in Device, BeginRegister(h, d) PROVE StoredOK'
      BY <2>1 DEF BeginRegister, Posts, Take
    <2>2. ASSUME NEW d \in Device, NEW s \in Secret, BeginProvision(h, d, s)
          PROVE  StoredOK'
      BY <2>2 DEF BeginProvision, Posts, Generate, Take
    <2>3. ASSUME NEW d \in Device, NEW s \in Secret, BeginIssue(h, d, s)
          PROVE  StoredOK'
      BY <2>3 DEF BeginIssue, Generate, Take
    <2>4. CASE AnswerProvision(h)
      <3>1. req[h] \in Requests /\ req[h] # Idle
        BY <2>4 DEF AnswerProvision, Reply
      <3> QED
        BY <2>4, <3>1 DEF AnswerProvision, Reply
    <2>5. CASE CommitProvision(h)
      BY <2>5 DEF CommitProvision, Commit, Store
    <2>6. CASE AnswerRegister(h)
      <3>1. req[h] \in Requests /\ req[h] # Idle
        BY <2>6 DEF AnswerRegister, Reply
      <3> QED
        BY <2>6, <3>1 DEF AnswerRegister, Reply
    <2>7. CASE CommitRegister(h)
      BY <2>7 DEF CommitRegister, Commit
    <2>8. CASE AnswerIssue(h)
      BY <2>8 DEF AnswerIssue, Reply
    <2>9. CASE CommitIssue(h)
      BY <2>9 DEF CommitIssue, Commit, Store
    <2>10. CASE Abort(h)
      BY <2>10 DEF Abort
    <2> HIDE DEF StoredOK
    <2> QED
      BY <1>2, <2>1, <2>2, <2>3, <2>4, <2>5, <2>6, <2>7, <2>8, <2>9, <2>10
      DEF HandlerStep
  <1>3. CASE UNCHANGED vars
    BY <1>3 DEF vars
  <1> HIDE DEF StoredOK
  <1> QED
    BY <1>1, <1>2, <1>3 DEF Next

\* Two requests hold one token, or hold one already traded, only after an overlap.
LEMMA TokensStep ==
  TypeOK /\ DevicesOK /\ RequestsOK /\ TokensOK /\ [Next]_vars => TokensOK'
  <1> SUFFICES ASSUME TypeOK, DevicesOK, RequestsOK, TokensOK, [Next]_vars
               PROVE TokensOK'
    OBVIOUS
  <1> USE DEF TypeOK, tables, history, disk, script, units, Idle, Requests,
              Garbage, TokensOK, RequestsOK
  <1>1. ASSUME NEW d \in Device, DeviceStep(d) PROVE TokensOK'
    BY <1>1, DeviceFrame
  <1>2. ASSUME NEW h \in Handler, HandlerStep(h) PROVE TokensOK'
    <2>1. ASSUME NEW d \in Device, BeginRegister(h, d) PROVE TokensOK'
      BY <2>1 DEF BeginRegister, Posts, Take
    <2>2. ASSUME NEW d \in Device, NEW s \in Secret, BeginProvision(h, d, s)
          PROVE  TokensOK'
      BY <2>2 DEF BeginProvision, Posts, Generate, Take, MayProvision, DevicesOK,
                  DeviceOK
    <2>3. ASSUME NEW d \in Device, NEW s \in Secret, BeginIssue(h, d, s)
          PROVE  TokensOK'
      BY <2>3 DEF BeginIssue, Generate, Take
    <2>4. CASE AnswerProvision(h)
      <3>1. req[h] \in Requests /\ req[h] # Idle
        BY <2>4 DEF AnswerProvision, Reply
      <3> QED
        BY <2>4, <3>1 DEF AnswerProvision, Reply
    <2>5. CASE CommitProvision(h)
      BY <2>5 DEF CommitProvision, Commit, Store
    <2>6. CASE AnswerRegister(h)
      <3>1. req[h] \in Requests /\ req[h] # Idle
        BY <2>6 DEF AnswerRegister, Reply
      <3> QED
        BY <2>6, <3>1 DEF AnswerRegister, Reply
    <2>7. CASE CommitRegister(h)
      BY <2>7 DEF CommitRegister, Commit
    <2>8. CASE AnswerIssue(h)
      BY <2>8 DEF AnswerIssue, Reply
    <2>9. CASE CommitIssue(h)
      BY <2>9 DEF CommitIssue, Commit, Store
    <2>10. CASE Abort(h)
      BY <2>10 DEF Abort
    <2> HIDE DEF TokensOK
    <2> QED
      BY <1>2, <2>1, <2>2, <2>3, <2>4, <2>5, <2>6, <2>7, <2>8, <2>9, <2>10
      DEF HandlerStep
  <1>3. CASE UNCHANGED vars
    BY <1>3 DEF vars
  <1> HIDE DEF TokensOK
  <1> QED
    BY <1>1, <1>2, <1>3 DEF Next

\* What reaches a device was generated for it.
LEMMA DevicesStep == TypeOK /\ RequestsOK /\ DevicesOK /\ [Next]_vars => DevicesOK'
  <1> SUFFICES ASSUME TypeOK, RequestsOK, DevicesOK, [Next]_vars PROVE DevicesOK'
    OBVIOUS
  <1> USE DEF TypeOK, tables, history, disk, script, units, Idle, Requests,
              Garbage, DevicesOK, DeviceOK, RequestsOK
  <1>1. ASSUME NEW d \in Device, DeviceStep(d) PROVE DevicesOK'
    <2>1. CASE StartUnit(d)
      BY <2>1 DEF StartUnit
    <2>2. CASE RunByHand(d)
      BY <2>2 DEF RunByHand
    <2>3. CASE RefuseProvision(d)
      BY <2>3 DEF RefuseProvision, Fail
    <2>4. CASE GiveUp(d)
      <3>1. CASE Fail(d)
        BY <2>4, <3>1 DEF GiveUp, Fail
      <3>2. CASE awaiting' = [awaiting EXCEPT ![d] = None] /\ UNCHANGED <<fb,
          incoming>>
        BY <2>4, <3>2 DEF GiveUp
      <3> QED
        BY <2>4, <3>1, <3>2 DEF GiveUp
    <2>5. CASE BadAnswer(d)
      BY <2>5 DEF BadAnswer
    <2>6. CASE Install(d)
      BY <2>6 DEF Install
    <2>7. CASE EnableServices(d)
      BY <2>7 DEF EnableServices, Queue
    <2>8. CASE AgentStarts(d)
      BY <2>8 DEF AgentStarts
    <2>9. CASE ServicesUp(d)
      BY <2>9 DEF ServicesUp
    <2>10. CASE RefuseRegister(d)
      BY <2>10 DEF RefuseRegister, Fail
    <2>11. CASE Finish(d)
      BY <2>11 DEF Finish
    <2>12. CASE KillUnit(d)
      BY <2>12 DEF KillUnit, Fail
    <2>13. CASE PowerLoss(d)
      BY <2>13 DEF PowerLoss, Fail
    <2>14. CASE Deploy(d)
      BY <2>14 DEF Deploy, Queue
    <2>15. CASE Heartbeat(d)
      BY <2>15 DEF Heartbeat
    <2>16. CASE Silence(d)
      BY <2>16 DEF Silence
    <2>17. ASSUME NEW t \in ProvToken, NewCard(d, t) PROVE DevicesOK'
      BY <2>17 DEF NewCard
    <2> HIDE DEF DevicesOK
    <2> QED
      BY <1>1, <2>1, <2>2, <2>3, <2>4, <2>5, <2>6, <2>7, <2>8, <2>9, <2>10, <2>11,
         <2>12, <2>13, <2>14, <2>15, <2>16, <2>17
      DEF DeviceStep
  <1>2. ASSUME NEW h \in Handler, HandlerStep(h) PROVE DevicesOK'
    <2>1. ASSUME NEW d \in Device, BeginRegister(h, d) PROVE DevicesOK'
      BY <2>1 DEF BeginRegister, Posts, Take
    <2>2. ASSUME NEW d \in Device, NEW s \in Secret, BeginProvision(h, d, s)
          PROVE  DevicesOK'
      BY <2>2 DEF BeginProvision, Posts, Generate, Take
    <2>3. ASSUME NEW d \in Device, NEW s \in Secret, BeginIssue(h, d, s)
          PROVE  DevicesOK'
      BY <2>3 DEF BeginIssue, Generate, Take
    <2>4. CASE AnswerProvision(h)
      <3>1. req[h] \in Requests /\ req[h] # Idle
        BY <2>4 DEF AnswerProvision, Reply
      <3> QED
        BY <2>4, <3>1 DEF AnswerProvision, Reply
    <2>5. CASE CommitProvision(h)
      BY <2>5 DEF CommitProvision, Commit, Store
    <2>6. CASE AnswerRegister(h)
      <3>1. req[h] \in Requests /\ req[h] # Idle
        BY <2>6 DEF AnswerRegister, Reply
      <3> QED
        BY <2>6, <3>1 DEF AnswerRegister, Reply
    <2>7. CASE CommitRegister(h)
      BY <2>7 DEF CommitRegister, Commit
    <2>8. CASE AnswerIssue(h)
      BY <2>8 DEF AnswerIssue, Reply
    <2>9. CASE CommitIssue(h)
      BY <2>9 DEF CommitIssue, Commit, Store
    <2>10. CASE Abort(h)
      BY <2>10 DEF Abort
    <2> HIDE DEF DevicesOK
    <2> QED
      BY <1>2, <2>1, <2>2, <2>3, <2>4, <2>5, <2>6, <2>7, <2>8, <2>9, <2>10
      DEF HandlerStep
  <1>3. CASE UNCHANGED vars
    BY <1>3 DEF vars
  <1> HIDE DEF DevicesOK
  <1> QED
    BY <1>1, <1>2, <1>3 DEF Next

\* The script only gets to its end through a started agent and an accepted key.
LEMMA ProgressStep ==
  TypeOK /\ DevicesOK /\ RequestsOK /\ ProgressOK /\ [Next]_vars => ProgressOK'
  <1> SUFFICES ASSUME TypeOK, DevicesOK, RequestsOK, ProgressOK, [Next]_vars
               PROVE ProgressOK'
    OBVIOUS
  <1> USE DEF TypeOK, tables, history, disk, script, units, Idle, Requests,
              Garbage, ProgressOK, DevicesOK, DeviceOK, RequestsOK
  <1>1. ASSUME NEW d \in Device, DeviceStep(d) PROVE ProgressOK'
    <2>1. CASE StartUnit(d)
      BY <2>1 DEF StartUnit
    <2>2. CASE RunByHand(d)
      BY <2>2 DEF RunByHand
    <2>3. CASE RefuseProvision(d)
      BY <2>3 DEF RefuseProvision, Fail
    <2>4. CASE GiveUp(d)
      BY <2>4 DEF GiveUp, Fail
    <2>5. CASE BadAnswer(d)
      BY <2>5 DEF BadAnswer
    <2>6. CASE Install(d)
      BY <2>6 DEF Install
    <2>7. CASE EnableServices(d)
      BY <2>7 DEF EnableServices, Queue
    <2>8. CASE AgentStarts(d)
      BY <2>8 DEF AgentStarts
    <2>9. CASE ServicesUp(d)
      BY <2>9 DEF ServicesUp
    <2>10. CASE RefuseRegister(d)
      BY <2>10 DEF RefuseRegister, Fail
    <2>11. CASE Finish(d)
      BY <2>11 DEF Finish
    <2>12. CASE KillUnit(d)
      BY <2>12 DEF KillUnit, Fail
    <2>13. CASE PowerLoss(d)
      BY <2>13 DEF PowerLoss, Fail
    <2>14. CASE Deploy(d)
      BY <2>14 DEF Deploy, Queue
    <2>15. CASE Heartbeat(d)
      BY <2>15 DEF Heartbeat
    <2>16. CASE Silence(d)
      BY <2>16 DEF Silence
    <2>17. ASSUME NEW t \in ProvToken, NewCard(d, t) PROVE ProgressOK'
      BY <2>17 DEF NewCard
    <2> HIDE DEF ProgressOK
    <2> QED
      BY <1>1, <2>1, <2>2, <2>3, <2>4, <2>5, <2>6, <2>7, <2>8, <2>9, <2>10, <2>11,
         <2>12, <2>13, <2>14, <2>15, <2>16, <2>17
      DEF DeviceStep
  <1>2. ASSUME NEW h \in Handler, HandlerStep(h) PROVE ProgressOK'
    <2>1. ASSUME NEW d \in Device, BeginRegister(h, d) PROVE ProgressOK'
      BY <2>1 DEF BeginRegister, Posts, Take
    <2>2. ASSUME NEW d \in Device, NEW s \in Secret, BeginProvision(h, d, s)
          PROVE  ProgressOK'
      BY <2>2 DEF BeginProvision, Posts, Generate, Take
    <2>3. ASSUME NEW d \in Device, NEW s \in Secret, BeginIssue(h, d, s)
          PROVE  ProgressOK'
      BY <2>3 DEF BeginIssue, Generate, Take
    <2>4. CASE AnswerProvision(h)
      <3>1. req[h] \in Requests /\ req[h] # Idle
        BY <2>4 DEF AnswerProvision, Reply
      <3> QED
        BY <2>4, <3>1 DEF AnswerProvision, Reply
    <2>5. CASE CommitProvision(h)
      BY <2>5 DEF CommitProvision, Commit, Store
    <2>6. CASE AnswerRegister(h)
      <3>1. req[h] \in Requests /\ req[h] # Idle
        BY <2>6 DEF AnswerRegister, Reply
      <3> QED
        BY <2>6, <3>1 DEF AnswerRegister, Reply
    <2>7. CASE CommitRegister(h)
      BY <2>7 DEF CommitRegister, Commit
    <2>8. CASE AnswerIssue(h)
      BY <2>8 DEF AnswerIssue, Reply
    <2>9. CASE CommitIssue(h)
      BY <2>9 DEF CommitIssue, Commit, Store
    <2>10. CASE Abort(h)
      BY <2>10 DEF Abort
    <2> HIDE DEF ProgressOK
    <2> QED
      BY <1>2, <2>1, <2>2, <2>3, <2>4, <2>5, <2>6, <2>7, <2>8, <2>9, <2>10
      DEF HandlerStep
  <1>3. CASE UNCHANGED vars
    BY <1>3 DEF vars
  <1> HIDE DEF ProgressOK
  <1> QED
    BY <1>1, <1>2, <1>3 DEF Next

\* A handler leaves the device's disk and units alone, keeps what was generated and
\* never forgets a device.
LEMMA HandlerFrame ==
  ASSUME TypeOK, RequestsOK, NEW h \in Handler, HandlerStep(h)
  PROVE  /\ UNCHANGED <<card, identity, agent, enabled>>
         /\ \A s \in Secret : issued[s] # None => issued'[s] = issued[s]
         /\ \A d \in Device : hash[d] # None => hash'[d] # None
  <1> DEFINE Goal == /\ UNCHANGED <<card, identity, agent, enabled>>
                     /\ \A s \in Secret : issued[s] # None => issued'[s] = issued[s]
                     /\ \A d \in Device : hash[d] # None => hash'[d] # None
  <1> USE DEF TypeOK, RequestsOK, tables, history, disk, units
  <1>1. ASSUME NEW d \in Device, BeginRegister(h, d) PROVE Goal
    BY <1>1 DEF BeginRegister
  <1>2. ASSUME NEW d \in Device, NEW s \in Secret,
               BeginProvision(h, d, s) \/ BeginIssue(h, d, s)
        PROVE  Goal
    BY <1>2 DEF BeginProvision, BeginIssue, Generate
  <1>3. CASE AnswerProvision(h) \/ AnswerRegister(h) \/ AnswerIssue(h) \/ Abort(h)
    BY <1>3 DEF AnswerProvision, AnswerRegister, AnswerIssue, Abort
  <1>4. CASE CommitProvision(h) \/ CommitIssue(h)
    BY <1>4 DEF CommitProvision, CommitIssue, Commit, Store
  <1>5. CASE CommitRegister(h)
    BY <1>5 DEF CommitRegister
  <1> QED
    BY <1>1, <1>2, <1>3, <1>4, <1>5 DEF HandlerStep

\* The installed identity stays the device's own.
LEMMA IdentityStep ==
  TypeOK /\ RequestsOK /\ DevicesOK /\ IdentityIsItsOwn /\ [Next]_vars
      => IdentityIsItsOwn'
  <1> SUFFICES ASSUME TypeOK, RequestsOK, DevicesOK, IdentityIsItsOwn, [Next]_vars
               PROVE IdentityIsItsOwn'
    OBVIOUS
  <1> USE DEF TypeOK, tables, history, disk, script, units, Idle, Requests,
              Garbage, IdentityIsItsOwn, DevicesOK, DeviceOK
  <1>1. ASSUME NEW d \in Device, DeviceStep(d) PROVE IdentityIsItsOwn'
    <2>1. CASE StartUnit(d)
      BY <2>1 DEF StartUnit
    <2>2. CASE RunByHand(d)
      BY <2>2 DEF RunByHand
    <2>3. CASE RefuseProvision(d)
      BY <2>3 DEF RefuseProvision, Fail
    <2>4. CASE GiveUp(d)
      BY <2>4 DEF GiveUp, Fail
    <2>5. CASE BadAnswer(d)
      BY <2>5 DEF BadAnswer
    <2>6. CASE Install(d)
      BY <2>6 DEF Install
    <2>7. CASE EnableServices(d)
      BY <2>7 DEF EnableServices, Queue
    <2>8. CASE AgentStarts(d)
      BY <2>8 DEF AgentStarts
    <2>9. CASE ServicesUp(d)
      BY <2>9 DEF ServicesUp
    <2>10. CASE RefuseRegister(d)
      BY <2>10 DEF RefuseRegister, Fail
    <2>11. CASE Finish(d)
      BY <2>11 DEF Finish
    <2>12. CASE KillUnit(d)
      BY <2>12 DEF KillUnit, Fail
    <2>13. CASE PowerLoss(d)
      BY <2>13 DEF PowerLoss, Fail
    <2>14. CASE Deploy(d)
      BY <2>14 DEF Deploy, Queue
    <2>15. CASE Heartbeat(d)
      BY <2>15 DEF Heartbeat
    <2>16. CASE Silence(d)
      BY <2>16 DEF Silence
    <2>17. ASSUME NEW t \in ProvToken, NewCard(d, t) PROVE IdentityIsItsOwn'
      BY <2>17 DEF NewCard
    <2> HIDE DEF IdentityIsItsOwn
    <2> QED
      BY <1>1, <2>1, <2>2, <2>3, <2>4, <2>5, <2>6, <2>7, <2>8, <2>9, <2>10, <2>11,
         <2>12, <2>13, <2>14, <2>15, <2>16, <2>17
      DEF DeviceStep
  <1>2. ASSUME NEW h \in Handler, HandlerStep(h) PROVE IdentityIsItsOwn'
    BY <1>2, HandlerFrame
  <1>3. CASE UNCHANGED vars
    BY <1>3 DEF vars
  <1> HIDE DEF IdentityIsItsOwn
  <1> QED
    BY <1>1, <1>2, <1>3 DEF Next

\* A second trade of one token needs an overlap.
LEMMA TradeStep ==
  TypeOK /\ RequestsOK /\ TokensOK /\ SingleUseUnlessOverlapping /\ [Next]_vars
      => SingleUseUnlessOverlapping'
  <1> SUFFICES ASSUME TypeOK, RequestsOK, TokensOK, SingleUseUnlessOverlapping, [Next]_vars
               PROVE SingleUseUnlessOverlapping'
    OBVIOUS
  <1> USE DEF TypeOK, tables, history, disk, script, units, Idle, Requests,
              Garbage, SingleUseUnlessOverlapping, TokensOK, RequestsOK
  <1>1. ASSUME NEW d \in Device, DeviceStep(d) PROVE SingleUseUnlessOverlapping'
    BY <1>1, DeviceFrame
  <1>2. ASSUME NEW h \in Handler, HandlerStep(h) PROVE SingleUseUnlessOverlapping'
    <2>1. ASSUME NEW d \in Device, BeginRegister(h,
                 d) PROVE SingleUseUnlessOverlapping'
      BY <2>1 DEF BeginRegister, Posts, Take
    <2>2. ASSUME NEW d \in Device, NEW s \in Secret, BeginProvision(h, d, s)
          PROVE  SingleUseUnlessOverlapping'
      BY <2>2 DEF BeginProvision, Posts, Generate, Take
    <2>3. ASSUME NEW d \in Device, NEW s \in Secret, BeginIssue(h, d, s)
          PROVE  SingleUseUnlessOverlapping'
      BY <2>3 DEF BeginIssue, Generate, Take
    <2>4. CASE AnswerProvision(h)
      <3>1. req[h] \in Requests /\ req[h] # Idle
        BY <2>4 DEF AnswerProvision, Reply
      <3> QED
        BY <2>4, <3>1 DEF AnswerProvision, Reply
    <2>5. CASE CommitProvision(h)
      <3> DEFINE t == req[h].tok
                 s == req[h].sec
      <3>1. t \in ProvToken /\ t # None /\ s \in Secret
        BY <2>5 DEF CommitProvision, Commit
      <3>2. traded' = traded \cup {<<t, s>>} /\ overlapped' = overlapped
        BY <2>5 DEF CommitProvision
      <3>3. \A p \in traded : p[1] = t => t \in overlapped
        BY <3>1
      <3>4. \A p, q \in traded : p[1] = q[1] => p = q \/ p[1] \in overlapped
        OBVIOUS
      <3> HIDE DEF t, s, TypeOK, TokensOK, RequestsOK, SingleUseUnlessOverlapping
      <3>5. ASSUME NEW p \in traded', NEW q \in traded', p[1] = q[1]
            PROVE  p = q \/ p[1] \in overlapped
        <4>1. \A x \in traded' : x \in traded \/ x = <<t, s>>
          BY <3>2
        <4>2. <<t, s>>[1] = t
          OBVIOUS
        <4>3. CASE p \in traded /\ q \in traded
          BY <3>4, <3>5, <4>3
        <4>4. CASE p = <<t, s>> /\ q = <<t, s>>
          BY <4>4
        <4>5. CASE p \in traded /\ q = <<t, s>>
          BY <3>3, <3>5, <4>2, <4>5
        <4>6. CASE p = <<t, s>> /\ q \in traded
          BY <3>3, <3>5, <4>2, <4>6
        <4> QED
          BY <4>1, <4>3, <4>4, <4>5, <4>6
      <3> QED
        BY <3>2, <3>5 DEF SingleUseUnlessOverlapping
    <2>6. CASE AnswerRegister(h)
      <3>1. req[h] \in Requests /\ req[h] # Idle
        BY <2>6 DEF AnswerRegister, Reply
      <3> QED
        BY <2>6, <3>1 DEF AnswerRegister, Reply
    <2>7. CASE CommitRegister(h)
      BY <2>7 DEF CommitRegister, Commit
    <2>8. CASE AnswerIssue(h)
      BY <2>8 DEF AnswerIssue, Reply
    <2>9. CASE CommitIssue(h)
      BY <2>9 DEF CommitIssue, Commit, Store
    <2>10. CASE Abort(h)
      BY <2>10 DEF Abort
    <2> HIDE DEF SingleUseUnlessOverlapping
    <2> QED
      BY <1>2, <2>1, <2>2, <2>3, <2>4, <2>5, <2>6, <2>7, <2>8, <2>9, <2>10
      DEF HandlerStep
  <1>3. CASE UNCHANGED vars
    BY <1>3 DEF vars
  <1> HIDE DEF SingleUseUnlessOverlapping
  <1> QED
    BY <1>1, <1>2, <1>3 DEF Next

\* The token is spent in the transaction that stores the credentials.
LEMMA UsedStep ==
  TypeOK /\ RequestsOK /\ StoredOK /\ UsedTokenGaveCredentials /\ [Next]_vars
      => UsedTokenGaveCredentials'
  <1> SUFFICES ASSUME TypeOK, RequestsOK, StoredOK, UsedTokenGaveCredentials, [Next]_vars
               PROVE UsedTokenGaveCredentials'
    OBVIOUS
  <1> USE DEF TypeOK, tables, history, disk, script, units, Idle, Requests,
              Garbage, UsedTokenGaveCredentials, RequestsOK, StoredOK
  <1>1. ASSUME NEW d \in Device, DeviceStep(d) PROVE UsedTokenGaveCredentials'
    BY <1>1, DeviceFrame
  <1>2. ASSUME NEW h \in Handler, HandlerStep(h) PROVE UsedTokenGaveCredentials'
    <2>1. ASSUME NEW d \in Device, BeginRegister(h,
                 d) PROVE UsedTokenGaveCredentials'
      BY <2>1 DEF BeginRegister, Posts, Take
    <2>2. ASSUME NEW d \in Device, NEW s \in Secret, BeginProvision(h, d, s)
          PROVE  UsedTokenGaveCredentials'
      BY <2>2 DEF BeginProvision, Posts, Generate, Take
    <2>3. ASSUME NEW d \in Device, NEW s \in Secret, BeginIssue(h, d, s)
          PROVE  UsedTokenGaveCredentials'
      BY <2>3 DEF BeginIssue, Generate, Take
    <2>4. CASE AnswerProvision(h)
      <3>1. req[h] \in Requests /\ req[h] # Idle
        BY <2>4 DEF AnswerProvision, Reply
      <3> QED
        BY <2>4, <3>1 DEF AnswerProvision, Reply
    <2>5. CASE CommitProvision(h)
      <3> DEFINE t == req[h].tok
                 s == req[h].sec
      <3>1. t \in ProvToken /\ s \in Secret /\ issued[s] \in Scope[t]
        BY <2>5 DEF CommitProvision, Commit
      <3>2. /\ used' = [used EXCEPT ![t] = TRUE] /\ live' = live \cup {s}
            /\ traded' = traded \cup {<<t, s>>} /\ issued' = issued
        BY <2>5 DEF CommitProvision, Store
      <3> HIDE DEF t, s
      <3>3. /\ <<t, s>> \in traded' /\ <<t, s>>[1] = t
            /\ <<t, s>>[2] \in live' /\ issued'[<<t, s>>[2]] \in Scope[t]
        BY <3>1, <3>2
      <3>4. ASSUME NEW u \in ProvToken, used'[u], u # t
            PROVE  \E p \in traded' : p[1] = u /\ p[2] \in live'
                   /\ issued'[p[2]] \in Scope[u]
        BY <3>1, <3>2, <3>4
      <3> QED
        BY <3>3, <3>4
    <2>6. CASE AnswerRegister(h)
      <3>1. req[h] \in Requests /\ req[h] # Idle
        BY <2>6 DEF AnswerRegister, Reply
      <3> QED
        BY <2>6, <3>1 DEF AnswerRegister, Reply
    <2>7. CASE CommitRegister(h)
      BY <2>7 DEF CommitRegister, Commit
    <2>8. CASE AnswerIssue(h)
      BY <2>8 DEF AnswerIssue, Reply
    <2>9. CASE CommitIssue(h)
      <3>1. /\ live \subseteq live'
            /\ used' = used /\ traded' = traded /\ issued' = issued
        BY <2>9 DEF CommitIssue, Store
      <3> QED
        BY <3>1
    <2>10. CASE Abort(h)
      BY <2>10 DEF Abort
    <2> HIDE DEF UsedTokenGaveCredentials
    <2> QED
      BY <1>2, <2>1, <2>2, <2>3, <2>4, <2>5, <2>6, <2>7, <2>8, <2>9, <2>10
      DEF HandlerStep
  <1>3. CASE UNCHANGED vars
    BY <1>3 DEF vars
  <1> HIDE DEF UsedTokenGaveCredentials
  <1> QED
    BY <1>1, <1>2, <1>3 DEF Next

\* Only Finish clears the card, and it comes after an accepted key.
LEMMA FinishedStep ==
  TypeOK /\ RequestsOK /\ ProgressOK /\ DevicesOK /\ FinishedIsKnown
      /\ [Next]_vars => FinishedIsKnown'
  <1> SUFFICES ASSUME TypeOK, RequestsOK, ProgressOK, DevicesOK, FinishedIsKnown, [Next]_vars
               PROVE FinishedIsKnown'
    OBVIOUS
  <1> USE DEF TypeOK, tables, history, disk, script, units, Idle, Requests,
              Garbage, FinishedIsKnown, ProgressOK, DevicesOK, DeviceOK
  <1>1. ASSUME NEW d \in Device, DeviceStep(d) PROVE FinishedIsKnown'
    <2>1. CASE StartUnit(d)
      BY <2>1 DEF StartUnit
    <2>2. CASE RunByHand(d)
      BY <2>2 DEF RunByHand
    <2>3. CASE RefuseProvision(d)
      BY <2>3 DEF RefuseProvision, Fail
    <2>4. CASE GiveUp(d)
      BY <2>4 DEF GiveUp, Fail
    <2>5. CASE BadAnswer(d)
      BY <2>5 DEF BadAnswer
    <2>6. CASE Install(d)
      BY <2>6 DEF Install
    <2>7. CASE EnableServices(d)
      BY <2>7 DEF EnableServices, Queue
    <2>8. CASE AgentStarts(d)
      BY <2>8 DEF AgentStarts
    <2>9. CASE ServicesUp(d)
      BY <2>9 DEF ServicesUp
    <2>10. CASE RefuseRegister(d)
      BY <2>10 DEF RefuseRegister, Fail
    <2>11. CASE Finish(d)
      BY <2>11 DEF Finish
    <2>12. CASE KillUnit(d)
      BY <2>12 DEF KillUnit, Fail
    <2>13. CASE PowerLoss(d)
      BY <2>13 DEF PowerLoss, Fail
    <2>14. CASE Deploy(d)
      BY <2>14 DEF Deploy, Queue
    <2>15. CASE Heartbeat(d)
      BY <2>15 DEF Heartbeat
    <2>16. CASE Silence(d)
      BY <2>16 DEF Silence
    <2>17. ASSUME NEW t \in ProvToken, NewCard(d, t) PROVE FinishedIsKnown'
      BY <2>17 DEF NewCard
    <2> HIDE DEF FinishedIsKnown
    <2> QED
      BY <1>1, <2>1, <2>2, <2>3, <2>4, <2>5, <2>6, <2>7, <2>8, <2>9, <2>10, <2>11,
         <2>12, <2>13, <2>14, <2>15, <2>16, <2>17
      DEF DeviceStep
  <1>2. ASSUME NEW h \in Handler, HandlerStep(h) PROVE FinishedIsKnown'
    BY <1>2, HandlerFrame
  <1>3. CASE UNCHANGED vars
    BY <1>3 DEF vars
  <1> HIDE DEF FinishedIsKnown
  <1> QED
    BY <1>1, <1>2, <1>3 DEF Next

-----------------------------------------------------------------------------
(* The theorems.                                                           *)

\* The invariant holds whatever is lost, retried, killed or overtaken.
THEOREM IndInvInvariant == Spec => []IndInv
  <1>1. Init => IndInv
    BY InitIndInv
  <1>2. IndInv /\ [Next]_vars => IndInv'
    BY TypeStep, RequestsStep, StoredStep, DevicesStep, TokensStep, ProgressStep,
       IdentityStep, TradeStep, UsedStep, FinishedStep DEF IndInv
  <1> QED
    BY <1>1, <1>2, PTL DEF Spec

\* Every variable keeps its type.
THEOREM TypeCorrect == Spec => []TypeOK
  BY IndInvInvariant, PTL DEF IndInv

\* The identity file of a device is always one generated for that device, through
\* bad answers, kills and power losses (firstboot.sh:103-113).
THEOREM IdentityIsItsOwnAlways == Spec => []IdentityIsItsOwn
  BY IndInvInvariant, PTL DEF IndInv

\* used_at is checked and written without a lock: a token is traded twice only
\* when two requests held it at once (devices.py:128-139).
THEOREM SingleUseAlways == Spec => []SingleUseUnlessOverlapping
  BY IndInvInvariant, PTL DEF IndInv

\* A failing request does not spend the token (db.py:26-33).
THEOREM UsedTokenGaveCredentialsAlways == Spec => []UsedTokenGaveCredentials
  BY IndInvInvariant, PTL DEF IndInv

\* A device that threw its token away is known to the API and starts its agent
\* (firstboot.sh:139-214).
THEOREM FinishedIsKnownAlways == Spec => []FinishedIsKnown
  BY IndInvInvariant, PTL DEF IndInv

\* One step does not bring replaced credentials back: what a commit stores was
\* never stored.
LEMMA ReplacedStep ==
  ASSUME IndInv, [Next]_vars, NEW s \in live, hash[issued[s]] # s
  PROVE  hash'[issued[s]] # s
  <1>0. TypeOK /\ RequestsOK /\ StoredOK
    BY DEF IndInv
  <1> USE <1>0 DEF TypeOK, RequestsOK, StoredOK
  <1>1. ASSUME NEW h \in Handler, CommitProvision(h) \/ CommitIssue(h)
        PROVE  hash'[issued[s]] # s
    BY <1>1 DEF CommitProvision, CommitIssue, Commit, Store
  <1>2. ASSUME NEW h \in Handler, HandlerStep(h), ~CommitProvision(h),
               ~CommitIssue(h)
        PROVE  hash' = hash
    BY <1>2 DEF HandlerStep, BeginRegister, BeginProvision, BeginIssue,
                AnswerProvision,
                AnswerRegister, CommitRegister, AnswerIssue, Abort, tables
  <1>3. ASSUME NEW d \in Device, DeviceStep(d) PROVE hash' = hash
    BY <1>3, DeviceFrame
  <1>4. CASE UNCHANGED vars
    BY <1>4 DEF vars, tables
  <1> QED
    BY <1>1, <1>2, <1>3, <1>4 DEF Next

\* Replaced credentials stay dead, however late an older request commits
\* (devices.py:171-172, 524-525).
THEOREM ReplacedStaysDeadAlways == Spec => ReplacedStaysDead
  <1>1. IndInv /\ [Next]_vars =>
            [\A s \in live : hash[issued[s]] # s => hash'[issued[s]] # s]_tables
    BY ReplacedStep
  <1> QED
    BY <1>1, IndInvInvariant, PTL DEF Spec, ReplacedStaysDead

=============================================================================
