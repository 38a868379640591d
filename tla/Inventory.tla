----------------------------- MODULE Inventory ------------------------------
(***************************************************************************)
(* The inventory of the Fleet API: sites, zones, profiles and devices      *)
(* (api/app/routers/sites.py, zones.py, profiles.py, devices.py), and the  *)
(* service units that devices report with their heartbeats.                *)
(*                                                                         *)
(* The routes share one shape.  A create is one INSERT.  An update and a   *)
(* delete read a row, may wait, and write at the commit what they decided  *)
(* on by what they read.  A heartbeat locks the row of its device between  *)
(* the two: its queries flush last_seen first.                             *)
(***************************************************************************)
EXTENDS Naturals, FiniteSets

CONSTANTS
    Site, Zone, Profile, Device,   \* possible ids
    Unit,                          \* systemd units of a device
    Handler,                       \* request slots of the API
    MaxRequests,                   \* bound: how many requests begin
    None                           \* SQL NULL, or no row

Id == Site \cup Zone \cup Profile \cup Device

\* Rows of different tables are different, and NULL is none of them.
ASSUME TablesAssumption ==
    /\ Site \cap Profile = {} /\ Zone \cap Device = {}
    /\ (Site \cup Profile) \cap (Zone \cup Device) = {}
    /\ None \notin Id /\ None \notin Nat /\ None \notin Handler
ASSUME BoundAssumption == MaxRequests \in Nat

VARIABLES
    row,       \* what each row refers to, or None where there is no row
    count,     \* restart_count of each unit, or None
    failures,  \* history: the failures reported for the unit since it has a row
    req,       \* the requests that have read and not yet committed
    begun

vars == <<row, count, failures, req, begun>>

Column == {"site", "zone", "profile"}
ASSUME RowsAssumption == None \notin [Column -> Id \cup {None}]
Blank == [c \in Column |-> None]
\* A request has read the row of i; changed: history, it is not the same any more.
Request(op, i, scope, c, v, failed, seen) ==
    [op |-> op, id |-> i, scope |-> scope, column |-> c, value |-> v,
     failed |-> failed, seen |-> seen, changed |-> FALSE]
Idle == Request("none", None, None, "site", None, {}, None)

\* What a column may hold: sites and profiles refer to nothing, and only a zone must
\* have a site.
Table == [site |-> Site, zone |-> Zone, profile |-> Profile]
Values(i, c) ==
    CASE i \in Zone /\ c = "site" -> Site
      [] (i \in Zone /\ c = "profile") \/ i \in Device -> Table[c] \cup {None}
      [] OTHER -> {None}

Shape(i) == [site : Values(i, "site"), zone : Values(i, "zone"), profile : Values(i, "profile")]
Exists(i) == row[i] # None
RefsExist(r) == \A c \in Column : r[c] \in {i \in Id : Exists(i)} \cup {None}

-----------------------------------------------------------------------------
(* Site scopes.  A caller without a scope (None) sees the whole fleet.     *)

\* A caller confined to a site reads rows of that site, and no profile to change it.
InScope(i, r, scope) ==
    \/ scope = None
    \/ i \in Site /\ i = scope
    \/ i \in Zone \cup Device /\ r.site = scope

-----------------------------------------------------------------------------
(* Any consistent content may have been created by earlier requests.       *)

Rows(S) == {f \in [S -> UNION {Shape(i) : i \in S} \cup {None}] :
                \A i \in S : f[i] \in Shape(i) \cup {None}}

Init ==
    /\ \E a \in Rows(Site \cup Profile), z \in Rows(Zone), d \in Rows(Device) :
           row = [i \in Id |-> CASE i \in Zone -> z[i] [] i \in Device -> d[i] [] OTHER -> a[i]]
    /\ \A i \in {j \in Id : Exists(j)} : RefsExist(row[i])
    /\ failures \in [Device -> [Unit -> 0 .. 1]]
    /\ \A d \in Device : ~Exists(d) => failures[d] = [u \in Unit |-> 0]
    /\ count = [d \in Device |-> [u \in Unit |->
                   IF failures[d][u] > 0 THEN failures[d][u] ELSE None]]
    /\ req = [h \in Handler |-> Idle]
    /\ begun \in 0 .. MaxRequests

units == <<count, failures>>

Begin == begun < MaxRequests /\ begun' = begun + 1

\* A heartbeat has flushed last_seen: writes to the row wait for the end of the heartbeat.
Locked(i) == \E h \in Handler : req[h].op = "sync" /\ req[h].id = i

\* The rows become new; handler h is done and the others may have read old ones.
Write(h, new) ==
    /\ \A i \in Id : new[i] # row[i] => ~Locked(i)
    /\ row' = new
    /\ req' = [g \in Handler |->
                   IF g = h \/ req[g] = Idle THEN Idle
                   ELSE [req[g] EXCEPT !.changed = @ \/ new[req[g].id] # row[req[g].id]]]

-----------------------------------------------------------------------------
(* Creates: the primary key and the foreign keys are checked on the spot.  *)

Insert(new) ==
    /\ Begin
    /\ \A i \in DOMAIN new : ~Exists(i) /\ new[i] \in Shape(i) /\ RefsExist(new[i])
    /\ Write(None, [i \in Id |-> IF i \in DOMAIN new THEN new[i] ELSE row[i]])
    /\ UNCHANGED units

Create(i, r, scope) == InScope(i, r, scope) /\ Insert([j \in {i} |-> r])

CreateSite(s, scope) == Create(s, Blank, scope)
CreateZone(z, r, scope) == Create(z, r, scope)
CreateDevice(d, r, scope) == Create(d, r, scope)
CreateProfile(p, scope) == Create(p, Blank, scope)

\* All the devices of a bulk import or none; it does not look at scopes.
BulkImport(new) == new # <<>> /\ Insert(new)

-----------------------------------------------------------------------------
(* Updates and deletes.                                                    *)

Take(h, r) ==
    /\ req[h] = Idle
    /\ Begin
    /\ Exists(r.id)
    /\ req' = [req EXCEPT ![h] = r]
    /\ UNCHANGED <<row, units>>

\* One column gets a value other than NULL; UPDATE names what differs from the row
\* that was read.
BeginUpdate(h, i, scope, c, v) ==
    /\ v # None
    /\ Exists(i) /\ row[i][c] # v /\ [row[i] EXCEPT ![c] = v] \in Shape(i)
    /\ InScope(i, row[i], scope)
    /\ Take(h, Request("update", i, scope, c, v, {}, None))

\* Name, time zone, components and criticality are left out.
UpdateZone(h, z, scope, p) == BeginUpdate(h, z, scope, "profile", p)

\* Faulty variant: the new site is not compared with the caller's.
UpdateDeviceAnywhere(h, d, scope, c, v) == BeginUpdate(h, d, scope, c, v)

UpdateDevice(h, d, scope, c, v) ==
    /\ scope # None /\ c = "site" => v = scope
    /\ BeginUpdate(h, d, scope, c, v)

CommitUpdate(h) ==
    LET i == req[h].id IN
    /\ req[h].op = "update"
    /\ Exists(i) /\ Exists(req[h].value)
    /\ Write(h, [row EXCEPT ![i][req[h].column] = req[h].value])
    /\ UNCHANGED <<units, begun>>

BeginDelete(h, i, scope) ==
    /\ Exists(i) /\ InScope(i, row[i], scope)
    /\ Take(h, Request("delete", i, scope, "site", None, {}, IF i \in Device THEN count[i] ELSE None))

DeleteSite(h, s, scope) == BeginDelete(h, s, scope)
DeleteZone(h, z, scope) == BeginDelete(h, z, scope)
DeleteDevice(h, d, scope) == BeginDelete(h, d, scope)
DeleteProfile(h, p, scope) == BeginDelete(h, p, scope)

\* Faulty variant: the units of a deleted device stay.
CommitDeleteRowOnly(h) ==
    LET i == req[h].id
        Without(r) == [c \in Column |-> IF r[c] = i THEN None ELSE r[c]]
    IN
    /\ req[h].op = "delete"
    /\ Write(h, [j \in Id |-> IF j = i \/ ~Exists(j) THEN None ELSE Without(row[j])])
    /\ \A j \in Zone : row'[j] \in Shape(j) \cup {None}
    /\ UNCHANGED <<units, begun>>

\* The references to the row become NULL first, which the site of a zone must not, and
\* the units of a device go with it: those that were read with it, and one more would be
\* an orphan.  A row that is gone by now is no error.
CommitDelete(h) ==
    LET i == req[h].id
        Without(r) == [c \in Column |-> IF r[c] = i THEN None ELSE r[c]]
    IN
    /\ req[h].op = "delete"
    /\ Write(h, [j \in Id |-> IF j = i \/ ~Exists(j) THEN None ELSE Without(row[j])])
    /\ \A j \in Zone : row'[j] \in Shape(j) \cup {None}
    /\ i \in Device => \A u \in Unit : count[i][u] # None => req[h].seen[u] # None
    /\ count' = [d \in Device |-> IF d = i THEN [u \in Unit |-> None] ELSE count[d]]
    /\ failures' = [d \in Device |-> IF d = i THEN [u \in Unit |-> 0] ELSE failures[d]]
    /\ UNCHANGED begun

\* The database refuses the commit, though the answer has been sent, or the request
\* dies before it.
Abort(h) ==
    /\ req[h] # Idle
    /\ req' = [req EXCEPT ![h] = Idle]
    /\ UNCHANGED <<row, units, begun>>

-----------------------------------------------------------------------------
(* POST /devices/{id}/heartbeat, which reports every unit.                 *)

BeginHeartbeat(h, d, failed) ==
    Take(h, Request("heartbeat", d, None, "site", None, failed, None))

\* Faulty variant: the units are read before last_seen is set.
ReadUnitsUnlocked(h) ==
    /\ req[h].op = "heartbeat"
    /\ Exists(req[h].id)
    /\ req' = [req EXCEPT ![h].op = "sync", ![h].seen = count[req[h].id]]
    /\ UNCHANGED <<row, units, begun>>

\* The query for the first unit flushes last_seen, which fails if the row is gone and
\* waits for another heartbeat of the device.
ReadUnits(h) ==
    /\ req[h].op = "heartbeat"
    /\ Exists(req[h].id) /\ ~Locked(req[h].id)
    /\ req' = [req EXCEPT ![h].op = "sync", ![h].seen = count[req[h].id]]
    /\ UNCHANGED <<row, units, begun>>

\* restart_count is incremented as it was read, or is that of a new unit.
CommitHeartbeat(h) ==
    LET d == req[h].id
        Failed(u) == IF u \in req[h].failed THEN 1 ELSE 0
        Seen(u) == IF req[h].seen[u] = None THEN 0 ELSE req[h].seen[u]
    IN
    /\ req[h].op = "sync"
    /\ count' = [count EXCEPT ![d] = [u \in Unit |-> Seen(u) + Failed(u)]]
    /\ failures' = [failures EXCEPT ![d] = [u \in Unit |-> @[u] + Failed(u)]]
    /\ req' = [req EXCEPT ![h] = Idle]
    /\ UNCHANGED <<row, begun>>

-----------------------------------------------------------------------------
Scopes == Site \cup {None}

Creates(scope) ==
    \/ \E s \in Site : CreateSite(s, scope)
    \/ \E z \in Zone : \E r \in Shape(z) : CreateZone(z, r, scope)
    \/ \E d \in Device : \E r \in Shape(d) : CreateDevice(d, r, scope)
    \/ \E p \in Profile : CreateProfile(p, scope)

Updates(h, scope) ==
    \/ \E z \in Zone, p \in Profile : UpdateZone(h, z, scope, p)
    \/ \E d \in Device, c \in Column, v \in Id : UpdateDevice(h, d, scope, c, v)

Deletes(h, scope) ==
    \/ \E s \in Site : DeleteSite(h, s, scope)
    \/ \E z \in Zone : DeleteZone(h, z, scope)
    \/ \E d \in Device : DeleteDevice(h, d, scope)
    \/ \E p \in Profile : DeleteProfile(h, p, scope)

Imports == \E D \in SUBSET Device : \E new \in [D -> UNION {Shape(d) : d \in D}] : BulkImport(new)

Free == {h \in Handler : req[h] = Idle /\ begun < MaxRequests}

Next ==
    \/ begun < MaxRequests /\ \E scope \in Scopes : Creates(scope)
    \/ begun < MaxRequests /\ Imports
    \/ \E h \in Free, scope \in Scopes : Updates(h, scope) \/ Deletes(h, scope)
    \/ \E h \in Free, d \in Device, failed \in SUBSET Unit : BeginHeartbeat(h, d, failed)
    \/ \E h \in Handler : CommitUpdate(h) \/ CommitDelete(h) \/ Abort(h)
    \/ \E h \in Handler : ReadUnits(h) \/ CommitHeartbeat(h)

Spec == Init /\ [][Next]_vars

-----------------------------------------------------------------------------
(* Properties.                                                             *)

\* Whatever is deleted while other requests refer to it: every reference leads to a
\* row, every zone has a site and no unit outlives its device.
NoOrphans ==
    /\ \A i \in Id : Exists(i) => row[i] \in Shape(i) /\ RefsExist(row[i])
    /\ \A d \in Device : ~Exists(d) => \A u \in Unit : count[d][u] = None

\* However heartbeats of a device overlap, and outlive it and report for the next of its
\* id, restart_count is the number of failures reported since that one was created.
CountsFailures ==
    \A d \in Device, u \in Unit :
        failures[d][u] = IF count[d][u] = None THEN 0 ELSE count[d][u]

\* A request of a caller confined to a site changes no row outside of it and moves
\* none out, unless another request changed the row after this one checked it.
ConfinedWrites ==
    [][\A h \in Handler :
           LET r == req[h] IN
           r.op \in {"update", "delete"} /\ req'[h] = Idle /\ row'[r.id] # row[r.id]
                   /\ ~r.changed =>
               /\ InScope(r.id, row[r.id], r.scope)
               /\ r.op = "update" => InScope(r.id, row'[r.id], r.scope)]_vars

-----------------------------------------------------------------------------
(* Why they hold: what a request will write fits its row, and is what it    *)
(* was checked to be as long as the row stays the same, which that of a     *)
(* heartbeat does while it is locked.                                       *)

Requests ==
    [op : {"none", "update", "delete", "heartbeat", "sync"}, id : Id \cup {None},
     scope : Site \cup {None}, column : Column, value : Id \cup {None},
     failed : SUBSET Unit, seen : [Unit -> Nat \cup {None}] \cup {None}, changed : BOOLEAN]

TypeOK ==
    /\ row = [i \in Id |-> row[i]]
    /\ \A i \in Id : row[i] \in Shape(i) \cup {None}
    /\ count \in [Device -> [Unit -> Nat \cup {None}]]
    /\ failures \in [Device -> [Unit -> Nat]]
    /\ req \in [Handler -> Requests]
    /\ begun \in Nat

Fits(r) ==
    /\ r.op # "none" => r.id \in Id
    /\ r.op = "update" => r.value \in Values(r.id, r.column) \ {None}
    /\ r.op \in {"heartbeat", "sync"} => r.id \in Device

HasSeen(r) == r.op = "sync" => Exists(r.id) /\ r.seen = count[r.id]

Confined(r) ==
    r.op \in {"update", "delete"} /\ ~r.changed =>
        /\ InScope(r.id, row[r.id], r.scope)
        /\ r.op = "update" => InScope(r.id, [row[r.id] EXCEPT ![r.column] = r.value], r.scope)

LockedOnce ==
    \A g, h \in Handler : req[g].op = "sync" /\ req[h].op = "sync" /\ req[g].id = req[h].id => g = h

IndInv ==
    /\ TypeOK /\ NoOrphans /\ CountsFailures /\ LockedOnce
    /\ \A h \in Handler : Fits(req[h]) /\ HasSeen(req[h]) /\ Confined(req[h])
=============================================================================
