----------------------------- MODULE Telemetry ------------------------------
(***************************************************************************)
(* The telemetry gateway of the Fleet API and the reads that it protects:  *)
(* devices push metrics and logs (api/app/routers/telemetry.py), the API   *)
(* rewrites the labels that say who sent them                              *)
(* (api/app/services/telemetry_rewrite.py), and operators confined to a    *)
(* site query what is stored (api/app/routers/observability.py).           *)
(*                                                                         *)
(* A device may say anything about itself, may be moved to another site at *)
(* any time, and may be in a zone of another site than its own.            *)
(***************************************************************************)
EXTENDS Naturals, Sequences, Functions

CONSTANTS
    Device, Site, Zone,
    ZoneSite,       \* the site of each zone
    AuthRequired,   \* TELEMETRY_AUTH_REQUIRED
    MaxPushes,      \* bound: how often a device pushes
    None

ASSUME DeviceAssumption == None \notin Device

VARIABLES
    row,       \* site and zone of each device
    metrics,   \* what Prometheus holds,
    logs,      \* and Loki: [labels, sender, row], the last two as history
    push,      \* the push under way
    pushes     \* how many there were

tvars == <<row, metrics, logs, push, pushes>>

IdentityLabels == {"device_id", "site", "zone", "instance"}
Places == [site : Site \cup {None}, zone : Zone \cup {None}]
NoPush == [sender |-> None, row |-> None]

-----------------------------------------------------------------------------
(* The labels.                                                             *)

\* What a payload may claim: a value of each kind, for any label, twice or not.
Claims == {<<"device_id", d>> : d \in Device} \cup {<<"site", s>> : s \in Site}
              \cup {<<"zone", z>> : z \in Zone} \cup {<<"job", None>>}
Payloads == {<<>>} \cup (Claims \X Claims)

\* The authoritative labels of device d with row r: NULL columns have none.
Canonical(d, r) ==
    [n \in {"device_id", "instance"} \cup {c \in {"site", "zone"} : r[c] # None} |->
        IF n \in {"site", "zone"} THEN r[n] ELSE d]

\* Labels listed one by one, as in a protobuf time series.
Pairs(f) == {<<n, f[n]>> : n \in DOMAIN f}

\* The labels of a stream are a mapping: of two with one name the last counts.
AsMapping(p) ==
    [n \in {p[i][1] : i \in DOMAIN p} |->
        LET last == CHOOSE i \in DOMAIN p :
                        p[i][1] = n /\ \A j \in DOMAIN p : p[j][1] = n => j <= i
        IN  p[last][2]]

\* Faulty variant: only the labels that the row has are replaced.
RewriteKnownPrometheus(p, d, r) ==
    {l \in Range(p) : l[1] \notin DOMAIN Canonical(d, r)} \cup Pairs(Canonical(d, r))

RewritePrometheus(p, d, r) ==
    {l \in Range(p) : l[1] \notin IdentityLabels} \cup Pairs(Canonical(d, r))

RewriteLoki(p, d, r) ==
    LET kept == Restrict(AsMapping(p), DOMAIN AsMapping(p) \ IdentityLabels)
        new == Canonical(d, r)
    IN  Pairs([n \in DOMAIN kept \cup DOMAIN new |-> IF n \in DOMAIN new THEN new[n] ELSE kept[n]])

-----------------------------------------------------------------------------
TInit ==
    /\ row \in [Device -> Places]
    /\ metrics = {}
    /\ logs = {}
    /\ push = NoPush
    /\ pushes = 0

\* PUT /devices/{id}, and the deletion of the site or the zone it is in.
Move(d, r) ==
    /\ row' = [row EXCEPT ![d] = r]
    /\ UNCHANGED <<metrics, logs, push, pushes>>

\* A device is authenticated by its token, and its row read, before its payload is;
\* without authentication the sender is not looked at.
Authenticate(d) ==
    /\ push = NoPush
    /\ pushes < MaxPushes
    /\ push' = [sender |-> d, row |-> IF AuthRequired THEN row[d] ELSE None]
    /\ pushes' = pushes + 1
    /\ UNCHANGED <<row, metrics, logs>>

Sent(labels) == [labels |-> labels, sender |-> push.sender, row |-> push.row]

IngestMetrics(p) ==
    /\ push # NoPush
    /\ metrics' = metrics \cup {Sent(IF AuthRequired THEN RewritePrometheus(p, push.sender, push.row)
                                     ELSE Range(p))}
    /\ push' = NoPush
    /\ UNCHANGED <<row, logs, pushes>>

IngestLogs(p) ==
    /\ push # NoPush
    /\ logs' = logs \cup {Sent(IF AuthRequired THEN RewriteLoki(p, push.sender, push.row)
                               ELSE Range(p))}
    /\ push' = NoPush
    /\ UNCHANGED <<row, metrics, pushes>>

\* A payload that cannot be read, a rewrite that is not available, or no answer from
\* Prometheus or Loki: 400, 503, 502.
Reject ==
    /\ push # NoPush
    /\ push' = NoPush
    /\ UNCHANGED <<row, metrics, logs, pushes>>

-----------------------------------------------------------------------------
(* The reads, as the records that a caller is shown; none where the request *)
(* is refused.                                                             *)

FleetWideRoles == {"admin", "ci_bot", "viewer"}
Callers == [role : {"admin", "operator"}, scope : Site \cup {None}]

\* The site a caller is confined to, None for the whole fleet; nothing for a caller
\* that should have a site and has not.
RequireSiteScope(u) ==
    IF u.scope = None /\ u.role \notin FleetWideRoles THEN {} ELSE {u.scope}

SiteOf(d) ==
    IF row[d].site = None /\ row[d].zone # None THEN ZoneSite[row[d].zone] ELSE row[d].site

\* The scopes of a caller that may name device d, or site s and zone z.
MayNameDevice(u, d) == RequireSiteScope(u) \cap {SiteOf(d), None}
MayNamePlace(u, s, z) ==
    {scope \in RequireSiteScope(u) : /\ scope # None => s \in {scope, None}
                                     /\ z # None => scope \in {ZoneSite[z], None}}

Labelled(records, claims) ==
    {r \in records : {l \in claims : l[2] # None} \subseteq r.labels}

\* Faulty variant: a zone that the caller may see needs no site.
HealthByZone(u, s, z) ==
    UNION {Labelled(metrics, IF z # None THEN {<<"zone", z>>}
                             ELSE {<<"site", IF scope = None THEN s ELSE scope>>}) :
               scope \in MayNamePlace(u, s, z)}

\* GET /query/service-health, for a site s and a zone z, or None.
QueryServiceHealth(u, s, z) ==
    UNION {Labelled(metrics, {<<"zone", z>>, <<"site", IF scope = None THEN s ELSE scope>>}) :
               scope \in MayNamePlace(u, s, z)}

\* GET /query/device-metrics/{id}: by the device's name alone.
QueryDeviceMetrics(u, d) ==
    UNION {Labelled(metrics, {<<"device_id", d>>}) : scope \in MayNameDevice(u, d)}

\* GET /query/recent-logs, of a device or, with None, of any.
QueryRecentLogs(u, d) ==
    UNION {Labelled(logs, {<<"device_id", d>>, <<"site", scope>>}) :
               scope \in IF d = None THEN RequireSiteScope(u) ELSE MayNameDevice(u, d)}

\* GET /alerts: alerts carry the labels of the series that raised them.
ListAlerts(u, s) ==
    UNION {Labelled(metrics, {<<"site", IF scope = None THEN s ELSE scope>>}) :
               scope \in MayNamePlace(u, s, None)}

-----------------------------------------------------------------------------
TNext ==
    \/ \E d \in Device, r \in Places : Move(d, r)
    \/ \E d \in Device : Authenticate(d)
    \/ \E p \in Payloads : IngestMetrics(p) \/ IngestLogs(p)
    \/ Reject

-----------------------------------------------------------------------------
(* Properties.                                                             *)

\* Whatever a payload claims, leaves out or repeats, its identity labels are those of
\* the row that the sender was authenticated with: it claims nothing the row lacks.
IdentityIsTheRow ==
    AuthRequired => \A r \in metrics \cup logs :
        {l \in r.labels : l[1] \in IdentityLabels} = Pairs(Canonical(r.sender, r.row))

\* However devices move, a caller confined to a site is shown what was sent from the
\* site, and about a device that it names, and that is in the site, what it sent.
AnswersStayInSite ==
    AuthRequired => \A u \in {v \in Callers : v.scope # None} :
        /\ \A s \in Site \cup {None}, z \in Zone \cup {None} :
               \A r \in QueryServiceHealth(u, s, z) \cup ListAlerts(u, s)
                            \cup QueryRecentLogs(u, None) : r.row.site = u.scope
        /\ \A d \in Device, r \in metrics \cup logs :
               r \in QueryDeviceMetrics(u, d) \cup QueryRecentLogs(u, d) => r.sender = d

=============================================================================
