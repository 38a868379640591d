-------------------------- MODULE OperationsProofs --------------------------
(***************************************************************************)
(* Theorems about Telemetry and Operations for every set of devices,       *)
(* sites, zones and requests, and for every payload.                       *)
(***************************************************************************)
EXTENDS Operations, TLAPS

-----------------------------------------------------------------------------
(* The labels: both rewrites leave the identity labels of the row and no    *)
(* others, whatever the payload is.                                        *)

LEMMA CanonicalIsIdentity ==
  ASSUME NEW d, NEW r
  PROVE  \A l \in Pairs(Canonical(d, r)) : l[1] \in IdentityLabels
  <1>1. DOMAIN Canonical(d, r) \subseteq IdentityLabels
    BY DEF Canonical, IdentityLabels
  <1> QED
    BY <1>1 DEF Pairs

LEMMA RewritePrometheusIdentity ==
  ASSUME NEW p, NEW d, NEW r
  PROVE  {l \in RewritePrometheus(p, d, r) : l[1] \in IdentityLabels} = Pairs(Canonical(d, r))
  BY CanonicalIsIdentity DEF RewritePrometheus

LEMMA RewriteLokiIdentity ==
  ASSUME NEW p, NEW d, NEW r
  PROVE  {l \in RewriteLoki(p, d, r) : l[1] \in IdentityLabels} = Pairs(Canonical(d, r))
  <1> DEFINE claimed == AsMapping(p)
  <1> DEFINE kept == Restrict(claimed, DOMAIN claimed \ IdentityLabels)
  <1> DEFINE new == Canonical(d, r)
  <1> DEFINE all == [n \in DOMAIN kept \cup DOMAIN new |->
                       IF n \in DOMAIN new THEN new[n] ELSE kept[n]]
  <1>1. DOMAIN kept = DOMAIN claimed \ IdentityLabels
    BY DEF Restrict
  <1>2. DOMAIN new \subseteq IdentityLabels
    BY DEF Canonical, IdentityLabels
  <1>3. RewriteLoki(p, d, r) = Pairs(all)
    BY DEF RewriteLoki
  <1> HIDE DEF kept, new
  <1>4. ASSUME NEW l \in Pairs(all), l[1] \in IdentityLabels PROVE l \in Pairs(new)
    <2>1. PICK n \in DOMAIN all : l = <<n, all[n]>>
      BY <1>4 DEF Pairs
    <2>2. n \in DOMAIN new /\ all[n] = new[n]
      BY <1>1, <1>4, <2>1
    <2> QED
      BY <2>1, <2>2 DEF Pairs
  <1>5. \A l \in Pairs(new) : l \in Pairs(all) /\ l[1] \in IdentityLabels
    BY <1>1, <1>2 DEF Pairs
  <1> HIDE DEF all
  <1>6. {l \in Pairs(all) : l[1] \in IdentityLabels} = Pairs(new)
    BY <1>4, <1>5
  <1> QED
    BY <1>3, <1>6 DEF new

\* A label that the row's labels contain is the row's.
LEMMA CanonicalLabels ==
  ASSUME NEW d, NEW r, NEW v
  PROVE  /\ <<"site", v>> \in Pairs(Canonical(d, r)) => v = r.site
         /\ <<"device_id", v>> \in Pairs(Canonical(d, r)) => v = d
  BY DEF Pairs, Canonical

-----------------------------------------------------------------------------
LEMMA IdentityStep ==
  ASSUME IdentityIsTheRow, TNext \/ UNCHANGED tvars
  PROVE  IdentityIsTheRow'
  <1> SUFFICES ASSUME AuthRequired
               PROVE  \A r \in metrics' \cup logs' :
                          {l \in r.labels : l[1] \in IdentityLabels} = Pairs(Canonical(r.sender, r.row))
    BY DEF IdentityIsTheRow
  <1> DEFINE True(r) ==
               {l \in r.labels : l[1] \in IdentityLabels} = Pairs(Canonical(r.sender, r.row))
  <1>1. \A r \in metrics \cup logs : True(r)
    BY DEF IdentityIsTheRow
  <1>2. ASSUME NEW p, IngestMetrics(p) PROVE \A r \in metrics' \cup logs' : True(r)
    <2> DEFINE new == Sent(RewritePrometheus(p, push.sender, push.row))
    <2>1. metrics' = metrics \cup {new} /\ logs' = logs
      BY <1>2 DEF IngestMetrics
    <2>2. True(new)
      BY RewritePrometheusIdentity DEF Sent
    <2> HIDE DEF new, True
    <2> QED
      BY <1>1, <2>1, <2>2
  <1>3. ASSUME NEW p, IngestLogs(p) PROVE \A r \in metrics' \cup logs' : True(r)
    <2> DEFINE new == Sent(RewriteLoki(p, push.sender, push.row))
    <2>1. metrics' = metrics /\ logs' = logs \cup {new}
      BY <1>3 DEF IngestLogs
    <2>2. True(new)
      BY RewriteLokiIdentity DEF Sent
    <2> HIDE DEF new, True
    <2> QED
      BY <1>1, <2>1, <2>2
  <1>4. CASE UNCHANGED <<metrics, logs>>
    BY <1>1, <1>4
  <1> QED
    BY <1>2, <1>3, <1>4 DEF TNext, Move, Authenticate, Reject, tvars

\* What a query returns has every label it asks for.
LEMMA QueriesAskForLabels ==
  ASSUME NEW u \in Callers, u.scope # None
  PROVE  /\ \A s, z : \A r \in QueryServiceHealth(u, s, z) :
                r \in metrics /\ <<"site", u.scope>> \in r.labels
         /\ \A s : \A r \in ListAlerts(u, s) : r \in metrics /\ <<"site", u.scope>> \in r.labels
         /\ \A r \in QueryRecentLogs(u, None) : r \in logs /\ <<"site", u.scope>> \in r.labels
         /\ \A d \in Device :
                /\ \A r \in QueryDeviceMetrics(u, d) : r \in metrics /\ <<"device_id", d>> \in r.labels
                /\ \A r \in QueryRecentLogs(u, d) : r \in logs /\ <<"device_id", d>> \in r.labels
  <1>0. RequireSiteScope(u) = {u.scope}
    BY DEF RequireSiteScope
  <1>1. \A s, z : MayNamePlace(u, s, z) \subseteq {u.scope}
    BY <1>0 DEF MayNamePlace
  <1>2. \A d : MayNameDevice(u, d) \subseteq {u.scope}
    BY <1>0 DEF MayNameDevice
  <1>3. \A records, claims : \A r \in Labelled(records, claims) :
            r \in records /\ \A l \in claims : l[2] # None => l \in r.labels
    BY DEF Labelled
  <1>4. ASSUME NEW s, NEW z, NEW r \in QueryServiceHealth(u, s, z)
        PROVE  r \in metrics /\ <<"site", u.scope>> \in r.labels
    <2>1. r \in Labelled(metrics, {<<"zone", z>>, <<"site", u.scope>>})
      BY <1>1, <1>4 DEF QueryServiceHealth
    <2> QED
      BY <1>3, <2>1
  <1>5. ASSUME NEW s, NEW r \in ListAlerts(u, s)
        PROVE  r \in metrics /\ <<"site", u.scope>> \in r.labels
    <2>1. PICK scope \in MayNamePlace(u, s, None) :
               r \in Labelled(metrics, {<<"site", IF scope = None THEN s ELSE scope>>})
      BY <1>5 DEF ListAlerts
    <2>2. scope = u.scope
      BY <1>1
    <2>3. r \in Labelled(metrics, {<<"site", u.scope>>})
      BY <2>1, <2>2
    <2> QED
      BY <1>3, <2>3
  <1>6. ASSUME NEW r \in QueryRecentLogs(u, None)
        PROVE  r \in logs /\ <<"site", u.scope>> \in r.labels
    <2>1. r \in Labelled(logs, {<<"device_id", None>>, <<"site", u.scope>>})
      BY <1>0, <1>6 DEF QueryRecentLogs
    <2> QED
      BY <1>3, <2>1
  <1>7. ASSUME NEW d \in Device, NEW r \in QueryDeviceMetrics(u, d)
        PROVE  r \in metrics /\ <<"device_id", d>> \in r.labels
    <2>1. r \in Labelled(metrics, {<<"device_id", d>>})
      BY <1>2, <1>7 DEF QueryDeviceMetrics
    <2> QED
      BY <1>3, <2>1, DeviceAssumption
  <1>8. ASSUME NEW d \in Device, NEW r \in QueryRecentLogs(u, d)
        PROVE  r \in logs /\ <<"device_id", d>> \in r.labels
    <2>1. r \in Labelled(logs, {<<"device_id", d>>, <<"site", u.scope>>})
      BY <1>2, <1>8, DeviceAssumption DEF QueryRecentLogs
    <2> QED
      BY <1>3, <2>1, DeviceAssumption
  <1> QED
    BY <1>4, <1>5, <1>6, <1>7, <1>8

\* Where labels say who sent them, asking for labels is asking for the sender.
LEMMA IdentityConfines == IdentityIsTheRow => AnswersStayInSite
  <1> SUFFICES ASSUME IdentityIsTheRow, AuthRequired, NEW u \in Callers, u.scope # None
               PROVE  /\ \A s \in Site \cup {None}, z \in Zone \cup {None} :
                           \A r \in QueryServiceHealth(u, s, z) \cup ListAlerts(u, s)
                                        \cup QueryRecentLogs(u, None) : r.row.site = u.scope
                      /\ \A d \in Device, r \in metrics \cup logs :
                           r \in QueryDeviceMetrics(u, d) \cup QueryRecentLogs(u, d) => r.sender = d
    BY DEF AnswersStayInSite
  <1>1. ASSUME NEW r \in metrics \cup logs, NEW l \in r.labels, l[1] \in IdentityLabels
        PROVE  l \in Pairs(Canonical(r.sender, r.row))
    BY <1>1 DEF IdentityIsTheRow
  <1>2. ASSUME NEW r \in metrics \cup logs, <<"site", u.scope>> \in r.labels
        PROVE  r.row.site = u.scope
    <2>1. <<"site", u.scope>>[1] \in IdentityLabels
      BY DEF IdentityLabels
    <2> QED
      BY <1>1, <1>2, <2>1, CanonicalLabels
  <1>3. ASSUME NEW d \in Device, NEW r \in metrics \cup logs, <<"device_id", d>> \in r.labels
        PROVE  r.sender = d
    <2>1. <<"device_id", d>>[1] \in IdentityLabels
      BY DEF IdentityLabels
    <2> QED
      BY <1>1, <1>3, <2>1, CanonicalLabels
  <1> QED
    BY <1>2, <1>3, QueriesAskForLabels

-----------------------------------------------------------------------------
(* The requests.                                                           *)

LEMMA IdleRequest == Idle \in Requests /\ Idle.stage = "idle"
  BY DEF Idle, Requests

LEMMA StageOnly ==
  ASSUME NEW r \in Requests, NEW s \in {"idle", "fire", "commit"}
  PROVE  LET q == [r EXCEPT !.stage = s]
         IN  /\ q \in Requests /\ q.stage = s /\ q.op = r.op /\ q.device = r.device
             /\ q.scope = r.scope /\ q.job = r.job /\ q.moved = r.moved
  BY DEF Requests

LEMMA MovedOnly ==
  ASSUME NEW r \in Requests, NEW moved \in BOOLEAN
  PROVE  LET q == [r EXCEPT !.moved = moved]
         IN  /\ q \in Requests /\ q.stage = r.stage /\ q.op = r.op /\ q.device = r.device
             /\ q.scope = r.scope /\ q.job = r.job /\ q.moved = moved
  BY DEF Requests

\* A request starts with a new number, for a device that its caller may name.
LEMMA Begins ==
  ASSUME TypeOK, NEW h \in Handler, NEW op \in Operation, NEW d \in Device, NEW u \in Callers,
         Begin(h, op, d, u)
  PROVE  /\ posted' = posted + 1 /\ UNCHANGED <<tvars, late, jobs, events, untold>>
         /\ req[h] = Idle
         /\ \E r \in Requests :
                /\ req' = [req EXCEPT ![h] = r]
                /\ r.stage = "fire" /\ r.op = op /\ r.device = d /\ r.job = posted + 1
                /\ r.scope # None => InSite(row[d], r.scope)
  <1>1. PICK scope \in MayNameDevice(u, d) :
            /\ req[h] = Idle
            /\ posted' = posted + 1
            /\ Goto(h, [Idle EXCEPT !.stage = "fire", !.op = op, !.device = d, !.scope = scope,
                                    !.job = posted'])
            /\ UNCHANGED <<tvars, late, jobs, events, untold>>
    BY DEF Begin
  <1>2. scope \in Site \cup {None} /\ (scope # None => scope = SiteOf(d))
    BY DEF MayNameDevice, RequireSiteScope, Callers
  <1>3. scope # None => InSite(row[d], scope)
    BY <1>2 DEF SiteOf, InSite
  <1>4. posted + 1 \in Nat
    BY DEF TypeOK
  <1> DEFINE p == [Idle EXCEPT !.stage = "fire"]
  <1> DEFINE q == [p EXCEPT !.op = op]
  <1> DEFINE v == [q EXCEPT !.device = d]
  <1> DEFINE w == [v EXCEPT !.scope = scope]
  <1> DEFINE r == [w EXCEPT !.job = posted + 1]
  <1>5. p \in Requests /\ p.stage = "fire"
    BY IdleRequest, StageOnly
  <1>6. q \in Requests /\ q.stage = "fire" /\ q.op = op
    <2> HIDE DEF p
    <2> QED
      BY <1>5 DEF Requests
  <1>7. v \in Requests /\ v.stage = "fire" /\ v.op = op /\ v.device = d
    <2> HIDE DEF q
    <2> QED
      BY <1>6 DEF Requests
  <1>8. /\ w \in Requests /\ w.stage = "fire" /\ w.op = op /\ w.device = d
        /\ w.scope = scope
    <2> HIDE DEF v
    <2> QED
      BY <1>2, <1>7 DEF Requests
  <1>9. /\ r \in Requests /\ r.stage = "fire" /\ r.op = op /\ r.device = d
        /\ r.scope = scope /\ r.job = posted + 1
    <2> HIDE DEF w
    <2> QED
      BY <1>4, <1>8 DEF Requests
  <1>10. req' = [req EXCEPT ![h] = r]
    BY <1>1 DEF Goto
  <1> HIDE DEF r
  <1> QED
    BY <1>1, <1>3, <1>9, <1>10

\* What happens elsewhere changes nothing of a request but whether its device was moved.
LEMMA ElsewhereEffect ==
  ASSUME TypeOK, Elsewhere
  PROVE  /\ row' \in [Device -> Places]
         /\ UNCHANGED <<posted, jobs, events, untold>>
         /\ req' \in [Handler -> Requests]
         /\ late' \subseteq Requests
         /\ \A h \in Handler :
                /\ req'[h].stage = req[h].stage /\ req'[h].op = req[h].op
                /\ req'[h].device = req[h].device /\ req'[h].scope = req[h].scope
                /\ req'[h].job = req[h].job
                /\ req[h].stage # "idle" /\ ~req'[h].moved =>
                       ~req[h].moved /\ row'[req[h].device] = row[req[h].device]
         /\ \A q \in late' : \E r \in late :
                /\ q = [r EXCEPT !.moved = r.moved \/ row'[r.device] # row[r.device]]
                /\ q.device = r.device /\ q.scope = r.scope /\ q.job = r.job
                /\ ~q.moved => ~r.moved /\ row'[r.device] = row[r.device]
  <1> DEFINE Moved(r) == r.moved \/ row'[r.device] # row[r.device]
  <1> DEFINE After(r) == [r EXCEPT !.moved = Moved(r)]
  <1>1. row' \in [Device -> Places]
    BY DEF Elsewhere, TNext, Move, Authenticate, IngestMetrics, IngestLogs, Reject, TypeOK
  <1>2. UNCHANGED <<posted, jobs, events, untold>>
    BY DEF Elsewhere
  <1>3. ASSUME NEW r \in Requests
        PROVE  /\ After(r) \in Requests
               /\ After(r).stage = r.stage /\ After(r).op = r.op /\ After(r).device = r.device
               /\ After(r).scope = r.scope /\ After(r).job = r.job
               /\ ~After(r).moved => ~r.moved /\ row'[r.device] = row[r.device]
    <2> DEFINE m == Moved(r)
    <2>1. m \in BOOLEAN /\ (~m => ~r.moved /\ row'[r.device] = row[r.device])
      BY DEF Requests
    <2>2. After(r) = [r EXCEPT !.moved = m]
      OBVIOUS
    <2> HIDE DEF m, After
    <2> QED
      BY <2>1, <2>2, MovedOnly
  <1>4. ASSUME NEW h \in Handler
        PROVE  req'[h] = After(req[h]) \/ (req[h] = Idle /\ req'[h] = Idle)
    <2>1. req'[h] = IF req[h] = Idle THEN Idle ELSE After(req[h])
      BY DEF Elsewhere
    <2> QED
      BY <2>1
  <1>5. late' = {After(r) : r \in late}
    BY DEF Elsewhere
  <1>6. req' = [h \in Handler |-> req'[h]]
    BY DEF Elsewhere
  <1> HIDE DEF After, Moved
  <1>7. \A h \in Handler : req[h] \in Requests
    BY DEF TypeOK
  <1>8. req' \in [Handler -> Requests]
    BY <1>3, <1>4, <1>6, <1>7
  <1>9. late' \subseteq Requests
    BY <1>3, <1>5 DEF TypeOK
  <1>10. \A h \in Handler :
            /\ req'[h].stage = req[h].stage /\ req'[h].op = req[h].op
            /\ req'[h].device = req[h].device /\ req'[h].scope = req[h].scope
            /\ req'[h].job = req[h].job
            /\ req[h].stage # "idle" /\ ~req'[h].moved =>
                   ~req[h].moved /\ row'[req[h].device] = row[req[h].device]
    BY <1>3, <1>4, <1>7, IdleRequest
  <1>11. \A q \in late' : \E r \in late :
            /\ q = After(r)
            /\ q.device = r.device /\ q.scope = r.scope /\ q.job = r.job
            /\ ~q.moved => ~r.moved /\ row'[r.device] = row[r.device]
    BY <1>3, <1>5 DEF TypeOK
  <1> QED
    BY <1>1, <1>2, <1>8, <1>9, <1>10, <1>11 DEF After, Moved

\* No step breaks the types.
LEMMA TypeStep ==
  ASSUME TypeOK, [Next]_vars
  PROVE  TypeOK'
  <1>1. CASE Elsewhere
    BY <1>1, ElsewhereEffect DEF TypeOK
  <1>2. ASSUME NEW h \in Handler, NEW op \in Operation, NEW d \in Device, NEW u \in Callers,
               Begin(h, op, d, u)
        PROVE  TypeOK'
    BY <1>2, Begins DEF TypeOK, tvars
  <1>3. ASSUME NEW h \in Handler, SemaphoreAccepts(h) PROVE TypeOK'
    <2>1. [req[h] EXCEPT !.stage = "commit"] \in Requests
      BY StageOnly DEF TypeOK
    <2> QED
      BY <1>3, <2>1, IdleRequest DEF SemaphoreAccepts, Goto, TypeOK, tvars
  <1>4. ASSUME NEW h \in Handler,
               SemaphoreRefuses(h) \/ GiveUp(h) \/ Commit(h) \/ Abort(h)
        PROVE  TypeOK'
    BY <1>4, IdleRequest DEF SemaphoreRefuses, GiveUp, Commit, Abort, Goto, TypeOK, tvars
  <1>5. ASSUME NEW r \in late, LateAccept(r) PROVE TypeOK'
    BY <1>5 DEF LateAccept, TypeOK, tvars
  <1>6. CASE UNCHANGED vars
    BY <1>6 DEF TypeOK, vars, tvars, ovars
  <1> QED
    BY <1>1, <1>2, <1>3, <1>4, <1>5, <1>6 DEF Next

-----------------------------------------------------------------------------
\* What is under way is where it was checked to be, or is known to have been moved.
LEMMA UnderwayStep ==
  ASSUME TypeOK, UnderwayOK, [Next]_vars
  PROVE  UnderwayOK'
  <1>1. CASE Elsewhere
    <2>1. \A h \in Handler : (Busy(h) => Underway(req[h]))'
      BY <1>1, ElsewhereEffect DEF UnderwayOK, Busy, Underway
    <2>2. \A r \in late' : Underway(r)'
      BY <1>1, ElsewhereEffect DEF UnderwayOK, Underway
    <2> QED
      BY <2>1, <2>2 DEF UnderwayOK
  <1>2. ASSUME NEW h \in Handler, NEW op \in Operation, NEW d \in Device, NEW u \in Callers,
               Begin(h, op, d, u)
        PROVE  UnderwayOK'
    <2>1. PICK r \in Requests :
                /\ req' = [req EXCEPT ![h] = r]
                /\ r.stage = "fire" /\ r.op = op /\ r.device = d /\ r.job = posted + 1
                /\ r.scope # None => InSite(row[d], r.scope)
      BY <1>2, Begins
    <2>2. posted' = posted + 1 /\ row' = row /\ late' = late
      BY <1>2, Begins DEF tvars
    <2>3. \A g \in Handler : req'[g] = IF g = h THEN r ELSE req[g]
      BY <2>1 DEF TypeOK
    <2>4. \A g \in Handler : (Busy(g) => Underway(req[g]))'
      BY <2>1, <2>2, <2>3 DEF UnderwayOK, Underway, Busy, TypeOK, Requests
    <2>5. \A q \in late' : Underway(q)'
      BY <2>2 DEF UnderwayOK, Underway, TypeOK, Requests
    <2> QED
      BY <2>4, <2>5 DEF UnderwayOK
  <1>3. ASSUME NEW h \in Handler, SemaphoreAccepts(h) PROVE UnderwayOK'
    <2> DEFINE q == [req[h] EXCEPT !.stage = "commit"]
    <2>1. /\ q.device = req[h].device /\ q.scope = req[h].scope /\ q.job = req[h].job
          /\ q.moved = req[h].moved
      BY StageOnly DEF TypeOK
    <2>2. req[h].stage = "fire" /\ row' = row /\ late' = late /\ posted' = posted
          /\ (req' = [req EXCEPT ![h] = q] \/ req' = [req EXCEPT ![h] = Idle])
      BY <1>3 DEF SemaphoreAccepts, Goto, tvars
    <2> HIDE DEF q
    <2>3. \A g \in Handler : req'[g] = req[g] \/ req'[g] = Idle \/ (g = h /\ req'[g] = q)
      BY <2>2 DEF TypeOK
    <2> QED
      BY <2>1, <2>2, <2>3, IdleRequest DEF UnderwayOK, Underway, Busy
  <1>4. ASSUME NEW h \in Handler,
               SemaphoreRefuses(h) \/ GiveUp(h) \/ Commit(h) \/ Abort(h)
        PROVE  UnderwayOK'
    <2>1. row' = row /\ posted' = posted /\ late' \subseteq late \cup {req[h]}
          /\ req[h].stage # "idle" /\ req' = [req EXCEPT ![h] = Idle]
      BY <1>4 DEF SemaphoreRefuses, GiveUp, Commit, Abort, Goto, tvars
    <2>2. \A g \in Handler : req'[g] = req[g] \/ req'[g] = Idle
      BY <2>1 DEF TypeOK
    <2> QED
      BY <2>1, <2>2, IdleRequest DEF UnderwayOK, Underway, Busy
  <1>5. ASSUME NEW r \in late, LateAccept(r) PROVE UnderwayOK'
    BY <1>5 DEF LateAccept, UnderwayOK, Underway, Busy, tvars
  <1>6. CASE UNCHANGED vars
    BY <1>6 DEF UnderwayOK, Underway, Busy, vars, tvars, ovars
  <1> QED
    BY <1>1, <1>2, <1>3, <1>4, <1>5, <1>6 DEF Next

\* Tasks on devices in their caller's site are sent for devices there.
LEMMA SiteStep ==
  ASSUME UnderwayOK, TasksStayInSite, [Next]_vars
  PROVE  TasksStayInSite'
  <1>1. ASSUME NEW r, jobs' = jobs \cup {Job(r)}, Underway(r) PROVE TasksStayInSite'
    BY <1>1 DEF TasksStayInSite, Job, Underway
  <1>2. ASSUME NEW h \in Handler, SemaphoreAccepts(h) PROVE TasksStayInSite'
    BY <1>1, <1>2 DEF SemaphoreAccepts, UnderwayOK, Busy
  <1>3. ASSUME NEW r \in late, LateAccept(r) PROVE TasksStayInSite'
    BY <1>1, <1>3 DEF LateAccept, UnderwayOK
  <1>4. CASE jobs' = jobs
    BY <1>4 DEF TasksStayInSite
  <1> QED
    BY <1>2, <1>3, <1>4
    DEF Next, Elsewhere, Begin, SemaphoreRefuses, GiveUp, Commit, Abort, vars, ovars

-----------------------------------------------------------------------------
(* The numbers of the tasks.                                               *)

LEMMA ElsewhereNumbers ==
  ASSUME TypeOK, NumbersOK, Elsewhere
  PROVE  NumbersOK'
  <1>1. /\ UNCHANGED <<posted, jobs, events, untold>>
        /\ \A h \in Handler :
               /\ req'[h].stage = req[h].stage /\ req'[h].op = req[h].op
               /\ req'[h].device = req[h].device /\ req'[h].job = req[h].job
    BY ElsewhereEffect
  <1>2. \A q \in late' : \E r \in late :
            q = [r EXCEPT !.moved = r.moved \/ row'[r.device] # row[r.device]] /\ q.job = r.job
    BY ElsewhereEffect
  <1>3. \A h \in Handler : (Busy(h) =>
           /\ \A e \in events : e.job # req[h].job
           /\ \A g \in Handler : Busy(g) /\ g # h => req[g].job # req[h].job
           /\ \A r \in late : r.job # req[h].job)'
    BY <1>1, <1>2 DEF NumbersOK, Busy
  <1>4. \A q \in late' : q.job \in untold /\ \A j \in jobs : j.id # q.job
    BY <1>2 DEF NumbersOK
  <1>5. \A q, s \in late' : q.job = s.job => q = s
    BY <1>2 DEF NumbersOK
  <1> QED
    BY <1>1, <1>3, <1>4, <1>5 DEF NumbersOK

LEMMA BeginNumbers ==
  ASSUME TypeOK, UnderwayOK, NumbersOK, TasksAreLogged,
         NEW h \in Handler, NEW op \in Operation, NEW d \in Device, NEW u \in Callers,
         Begin(h, op, d, u)
  PROVE  NumbersOK'
  <1>1. PICK r \in Requests :
              /\ req' = [req EXCEPT ![h] = r]
              /\ r.stage = "fire" /\ r.op = op /\ r.device = d /\ r.job = posted + 1
    BY Begins
  <1>2. posted' = posted + 1 /\ UNCHANGED <<late, jobs, events, untold>>
    BY Begins
  <1>3. \A g \in Handler : req'[g] = IF g = h THEN r ELSE req[g]
    BY <1>1 DEF TypeOK
  <1>4. posted \in Nat
    BY DEF TypeOK
  <1>5. /\ \A j \in jobs : j.id # posted + 1
        /\ \A e \in events : e.job # posted + 1
        /\ \A g \in Handler : Busy(g) => req[g].job # posted + 1
        /\ \A q \in late : q.job # posted + 1
    BY <1>4 DEF NumbersOK, TasksAreLogged, UnderwayOK, Underway, TypeOK, Requests
  <1>6. \A j \in jobs : j.id \in 0 .. posted'
    BY <1>2, <1>4 DEF NumbersOK
  <1>7. \A g \in Handler : (Busy(g) =>
           /\ \A e \in events : e.job # req[g].job
           /\ \A k \in Handler : Busy(k) /\ k # g => req[k].job # req[g].job
           /\ \A q \in late : q.job # req[g].job)'
    BY <1>1, <1>2, <1>3, <1>5 DEF NumbersOK, Busy
  <1>8. \A g \in Handler : (req[g].stage = "fire" => \A j \in jobs : j.id # req[g].job)'
    BY <1>1, <1>2, <1>3, <1>5 DEF NumbersOK
  <1>9. \A g \in Handler : (req[g].stage = "commit" => \E j \in jobs :
           j.id = req[g].job /\ j.op = req[g].op /\ j.device = req[g].device)'
    BY <1>1, <1>2, <1>3 DEF NumbersOK
  <1> QED
    BY <1>2, <1>6, <1>7, <1>8, <1>9 DEF NumbersOK

\* A task arrives in Semaphore and its request goes on, or is gone.
LEMMA AcceptNumbers ==
  ASSUME TypeOK, UnderwayOK, NumbersOK, TasksAreLogged, NEW h \in Handler, SemaphoreAccepts(h)
  PROVE  NumbersOK' /\ TasksAreLogged'
  <1> DEFINE r == req[h]
  <1> DEFINE q == [r EXCEPT !.stage = "commit"]
  <1>1. /\ q.stage = "commit" /\ q.op = r.op /\ q.device = r.device /\ q.job = r.job
    BY StageOnly DEF TypeOK
  <1>2. /\ r.stage = "fire"
        /\ jobs' = jobs \cup {Job(r)}
        /\ UNCHANGED <<posted, late, events>>
        /\ \/ req' = [req EXCEPT ![h] = q] /\ untold' = untold
           \/ req' = [req EXCEPT ![h] = Idle] /\ untold' = untold \cup {r.job}
    BY DEF SemaphoreAccepts, Goto
  <1>3. /\ Job(r).id = r.job /\ Job(r).op = r.op /\ Job(r).device = r.device
    BY DEF Job
  <1>4. r.job \in 0 .. posted
    BY <1>2 DEF UnderwayOK, Busy, Underway, TypeOK, Requests
  <1> HIDE DEF q
  <1>5. \A g \in Handler : req'[g] = IF g = h THEN req'[h] ELSE req[g]
    BY <1>2 DEF TypeOK
  <1>6. \/ req'[h] = q /\ untold' = untold
        \/ req'[h] = Idle /\ untold' = untold \cup {r.job}
    BY <1>2 DEF TypeOK
  <1>7. Busy(h)
    BY <1>2 DEF Busy
  <1>8. \A j \in jobs' : j.id \in 0 .. posted'
    BY <1>2, <1>3, <1>4 DEF NumbersOK
  <1>9. \A g \in Handler : (Busy(g) =>
           /\ \A e \in events : e.job # req[g].job
           /\ \A k \in Handler : Busy(k) /\ k # g => req[k].job # req[g].job
           /\ \A s \in late : s.job # req[g].job)'
    BY <1>1, <1>2, <1>5, <1>6, <1>7, IdleRequest DEF NumbersOK, Busy
  <1>10. \A g \in Handler : (req[g].stage = "fire" => \A j \in jobs : j.id # req[g].job)'
    BY <1>1, <1>2, <1>3, <1>5, <1>6, <1>7, IdleRequest DEF NumbersOK, Busy
  <1>11. \A g \in Handler : (req[g].stage = "commit" => \E j \in jobs :
           j.id = req[g].job /\ j.op = req[g].op /\ j.device = req[g].device)'
    BY <1>1, <1>2, <1>3, <1>5, <1>6, IdleRequest DEF NumbersOK
  <1>12. \A s \in late' : s.job \in untold' /\ \A j \in jobs' : j.id # s.job
    BY <1>2, <1>3, <1>7 DEF NumbersOK
  <1>13. NumbersOK'
    BY <1>2, <1>8, <1>9, <1>10, <1>11, <1>12 DEF NumbersOK
  <1>14. \A j \in jobs' : \/ \E e \in events' : e.job = j.id
                          \/ j.id \in untold'
                          \/ \E g \in Handler : req'[g].stage = "commit" /\ req'[g].job = j.id
    BY <1>1, <1>2, <1>3, <1>5, <1>6 DEF TasksAreLogged
  <1> QED
    BY <1>2, <1>13, <1>14 DEF TasksAreLogged

\* A task arrives whose request has given up.
LEMMA LateNumbers ==
  ASSUME TypeOK, UnderwayOK, NumbersOK, TasksAreLogged, NEW r \in late, LateAccept(r)
  PROVE  NumbersOK' /\ TasksAreLogged'
  <1>1. /\ late' = late \ {r}
        /\ jobs' = jobs \cup {Job(r)}
        /\ UNCHANGED <<req, posted, events, untold>>
    BY DEF LateAccept
  <1>2. Job(r).id = r.job /\ r.job \in 0 .. posted
    BY DEF Job, UnderwayOK, Underway, TypeOK, Requests
  <1>3. NumbersOK'
    BY <1>1, <1>2 DEF NumbersOK, Busy
  <1> QED
    BY <1>1, <1>2, <1>3 DEF TasksAreLogged, NumbersOK

\* A request ends without an event: its task is refused, still on its way, or untold.
LEMMA EndNumbers ==
  ASSUME TypeOK, UnderwayOK, NumbersOK, TasksAreLogged, NEW h \in Handler,
         SemaphoreRefuses(h) \/ GiveUp(h) \/ Abort(h)
  PROVE  NumbersOK' /\ TasksAreLogged'
  <1>1. /\ req' = [req EXCEPT ![h] = Idle] /\ UNCHANGED <<posted, jobs, events>>
        /\ \/ req[h].stage = "fire" /\ UNCHANGED <<late, untold>>
           \/ /\ req[h].stage = "fire"
              /\ late' = late \cup {req[h]} /\ untold' = untold \cup {req[h].job}
           \/ /\ req[h].stage = "commit"
              /\ late' = late /\ untold' = untold \cup {req[h].job}
    BY DEF SemaphoreRefuses, GiveUp, Abort, Goto
  <1>2. \A g \in Handler : req'[g] = IF g = h THEN Idle ELSE req[g]
    BY <1>1 DEF TypeOK
  <1>3. Busy(h)
    BY <1>1 DEF Busy
  <1>4. NumbersOK'
    BY <1>1, <1>2, <1>3, IdleRequest DEF NumbersOK, Busy
  <1>5. \A j \in jobs' : \/ \E e \in events' : e.job = j.id
                         \/ j.id \in untold'
                         \/ \E g \in Handler : req'[g].stage = "commit" /\ req'[g].job = j.id
    BY <1>1, <1>2 DEF TasksAreLogged
  <1> QED
    BY <1>1, <1>4, <1>5 DEF TasksAreLogged

\* The event of a task that Semaphore has is committed.
LEMMA CommitNumbers ==
  ASSUME TypeOK, UnderwayOK, NumbersOK, TasksAreLogged, NEW h \in Handler, Commit(h)
  PROVE  NumbersOK' /\ TasksAreLogged'
  <1> DEFINE event == [op |-> req[h].op, device |-> req[h].device, job |-> req[h].job]
  <1>1. /\ req[h].stage = "commit"
        /\ req' = [req EXCEPT ![h] = Idle] /\ UNCHANGED <<posted, late, jobs, untold>>
        /\ events' = events \cup {event}
    BY DEF Commit, Goto
  <1>2. \A g \in Handler : req'[g] = IF g = h THEN Idle ELSE req[g]
    BY <1>1 DEF TypeOK
  <1>3. Busy(h)
    BY <1>1 DEF Busy
  <1>4. event.op = req[h].op /\ event.device = req[h].device /\ event.job = req[h].job
    OBVIOUS
  <1> HIDE DEF event
  <1>5. NumbersOK'
    BY <1>1, <1>2, <1>3, <1>4, IdleRequest DEF NumbersOK, Busy
  <1>6. \A e \in events' : \E j \in jobs' :
            j.id = e.job /\ j.op = e.op /\ j.device = e.device
    BY <1>1, <1>4 DEF TasksAreLogged, NumbersOK
  <1>7. \A e, f \in events' : e.job = f.job => e = f
    BY <1>1, <1>3, <1>4 DEF TasksAreLogged, NumbersOK
  <1>8. \A j \in jobs' : \/ \E e \in events' : e.job = j.id
                         \/ j.id \in untold'
                         \/ \E g \in Handler : req'[g].stage = "commit" /\ req'[g].job = j.id
    BY <1>1, <1>2, <1>4 DEF TasksAreLogged
  <1> QED
    BY <1>5, <1>6, <1>7, <1>8 DEF TasksAreLogged

-----------------------------------------------------------------------------
\* IndInv is inductive.
LEMMA IndInvStep == IndInv /\ [Next]_vars => IndInv'
  <1> SUFFICES ASSUME IndInv, [Next]_vars PROVE IndInv'
    OBVIOUS
  <1>0. TypeOK /\ UnderwayOK /\ NumbersOK /\ TasksAreLogged /\ TasksStayInSite
    BY DEF IndInv
  <1>1. TypeOK' /\ UnderwayOK' /\ TasksStayInSite'
    BY <1>0, TypeStep, UnderwayStep, SiteStep
  <1>2. CASE Elsewhere
    <2>1. NumbersOK'
      BY <1>0, <1>2, ElsewhereNumbers
    <2>2. TasksAreLogged'
      BY <1>0, <1>2, ElsewhereEffect DEF TasksAreLogged
    <2> QED
      BY <1>1, <2>1, <2>2 DEF IndInv
  <1>3. ASSUME NEW h \in Handler, NEW op \in Operation, NEW d \in Device, NEW u \in Callers,
               Begin(h, op, d, u)
        PROVE  IndInv'
    <2>1. NumbersOK'
      BY <1>0, <1>3, BeginNumbers
    <2>2. \A g \in Handler : req[g].stage = "commit" => req'[g] = req[g]
      BY <1>0, <1>3, Begins, IdleRequest DEF TypeOK
    <2>3. UNCHANGED <<jobs, events, untold>>
      BY <1>0, <1>3, Begins
    <2>4. TasksAreLogged'
      BY <1>0, <2>2, <2>3 DEF TasksAreLogged
    <2> QED
      BY <1>1, <2>1, <2>4 DEF IndInv
  <1>4. ASSUME NEW h \in Handler,
               SemaphoreAccepts(h) \/ SemaphoreRefuses(h) \/ GiveUp(h) \/ Commit(h) \/ Abort(h)
        PROVE  IndInv'
    BY <1>0, <1>1, <1>4, AcceptNumbers, EndNumbers, CommitNumbers DEF IndInv
  <1>5. ASSUME NEW r \in late, LateAccept(r) PROVE IndInv'
    BY <1>0, <1>1, <1>5, LateNumbers DEF IndInv
  <1>6. CASE UNCHANGED vars
    BY <1>0, <1>1, <1>6 DEF IndInv, NumbersOK, Busy, TasksAreLogged, vars, ovars
  <1> QED
    BY <1>2, <1>3, <1>4, <1>5, <1>6 DEF Next

\* The initial state, with devices anywhere and no request, satisfies it.
LEMMA InitIndInv == Init => IndInv
  BY IdleRequest
  DEF Init, TInit, IndInv, TypeOK, UnderwayOK, Busy, NumbersOK, TasksAreLogged, TasksStayInSite

LEMMA Inductive == Spec => []IndInv
  BY InitIndInv, IndInvStep, PTL DEF Spec

\* Every variable of the requests and the devices keeps its type.
THEOREM TypeCorrect == Spec => []TypeOK
  <1>1. IndInv => TypeOK
    BY DEF IndInv
  <1> QED
    BY <1>1, Inductive, PTL

\* Whatever answers are lost and whatever fails after the task is sent, an event names a
\* task of its own that Semaphore has, and only a request that died leaves one unnamed.
THEOREM TasksAreLoggedAlways == Spec => []TasksAreLogged
  <1>1. IndInv => TasksAreLogged
    BY DEF IndInv
  <1> QED
    BY <1>1, Inductive, PTL

\* A task for a caller confined to a site runs on a device there, unless the device was
\* moved between the check and Semaphore (_get_operation_device).
THEOREM TasksStayInSiteAlways == Spec => []TasksStayInSite
  <1>1. IndInv => TasksStayInSite
    BY DEF IndInv
  <1> QED
    BY <1>1, Inductive, PTL

\* What is stored says of its sender what the sender's row says, whatever any payload
\* claims (telemetry_rewrite.py).
THEOREM IdentityIsTheRowAlways == Spec => []IdentityIsTheRow
  <1>1. Init => IdentityIsTheRow
    BY DEF Init, TInit, IdentityIsTheRow
  <1>2. IdentityIsTheRow /\ [Next]_vars => IdentityIsTheRow'
    <2>1. [Next]_vars => TNext \/ UNCHANGED tvars
      BY DEF Next, Elsewhere, Begin, SemaphoreAccepts, SemaphoreRefuses, GiveUp, Commit, Abort,
             LateAccept, vars
    <2> QED
      BY <2>1, IdentityStep
  <1> QED
    BY <1>1, <1>2, PTL DEF Spec

\* However devices move, a caller confined to a site is shown what was sent from the site,
\* and about a device that it names what that device sent (observability.py).
THEOREM AnswersStayInSiteAlways == Spec => []AnswersStayInSite
  BY IdentityIsTheRowAlways, IdentityConfines, PTL
=============================================================================
