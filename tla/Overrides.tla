----------------------------- MODULE Overrides ------------------------------
(***************************************************************************)
(* Overrides of single components and the manifest of a device             *)
(* (api/app/routers/overrides.py and api/app/services/resolver.py), over   *)
(* the rows of the inventory.  An override names its target without a      *)
(* foreign key: it may outlive the target and meet another with its id.    *)
(***************************************************************************)
EXTENDS Inventory

CONSTANTS
    Component, Artifact,
    Stack         \* baseline stacks: functions from some components to artifacts

VARIABLES
    baseline,     \* the stack of each profile that there is
    override,     \* the rows: [target, component, ref, lapsed]
    res           \* the resolution under way; it writes nothing, so one shows what many do

ovars == <<vars, baseline, override, res>>

-----------------------------------------------------------------------------
(* Site scopes.                                                            *)

\* The site that decides who may touch an override, and read the manifest of a device;
\* None where the target is gone.
SiteOf(t) ==
    CASE t \in Site -> t
      [] t \in Zone /\ Exists(t) -> row[t].site
      [] t \in Device /\ Exists(t) ->
             IF row[t].site = None /\ row[t].zone # None THEN row[row[t].zone].site
             ELSE row[t].site
      [] OTHER -> None

MayAccess(t, scope) == scope = None \/ SiteOf(t) = scope

-----------------------------------------------------------------------------
(* resolve_manifest, query by query: others commit in between.             *)

\* What the resolution has read: the row of the device, its profile and the stack of
\* that, which overrides had expired by then, and those it has applied.
NoResolution ==
    [stage |-> "none", device |-> None, row |-> Blank, profile |-> None, stack |-> <<>>,
     expired |-> {}, layer |-> 1, applied |-> {}, components |-> <<>>]

\* Faulty variant: the device comes before its zone.
TargetsDeviceFirst(r) == <<r.row.site, r.device, r.row.zone>>

\* The targets whose overrides apply, in the order in which they are read.
Targets(r) == <<r.row.site, r.row.zone, r.device>>

Resolve(r) == res' = r /\ UNCHANGED <<vars, baseline, override>>

\* What has expired is judged by one look at the clock, before the overrides are read.
WithStack(r, stack) ==
    [r EXCEPT !.stage = "layers", !.stack = stack, !.components = stack,
              !.expired = {o \in override : o.lapsed}]

WithProfile(r, p) ==
    IF p = None THEN WithStack(r, <<>>) ELSE [r EXCEPT !.stage = "profile", !.profile = p]

ReadDevice(d, scope) ==
    LET r == [NoResolution EXCEPT !.device = d, !.row = row[d]] IN
    /\ res.stage = "none"
    /\ Exists(d) /\ MayAccess(d, scope)
    /\ Resolve(IF row[d].profile = None /\ row[d].zone # None THEN [r EXCEPT !.stage = "zone"]
               ELSE WithProfile(r, row[d].profile))

\* A device without a profile of its own has that of its zone, if that is still there.
ReadZone ==
    LET z == res.row.zone IN
    /\ res.stage = "zone"
    /\ Resolve(WithProfile(res, IF Exists(z) THEN row[z].profile ELSE None))

ReadProfile ==
    LET p == res.profile IN
    /\ res.stage = "profile"
    /\ Resolve(WithStack(res, IF Exists(p) THEN baseline[p] ELSE <<>>))

\* Each row replaces what its component was until then.  The database returns the rows
\* in any order, so that any of a component's may be the last.
Overlaid(components, rows) ==
    LET named == {o.component : o \in rows} IN
    {[c \in DOMAIN components \cup named |-> IF c \in named THEN last[c].ref ELSE components[c]] :
        last \in {f \in [named -> rows] : \A c \in named : f[c].component = c}}

ReadLayer ==
    LET rows == {o \in override : o.target = Targets(res)[res.layer] /\ o \notin res.expired} IN
    /\ res.stage = "layers"
    /\ \E components \in Overlaid(res.components, rows) :
           Resolve([res EXCEPT !.stage = IF res.layer = 3 THEN "done" ELSE @, !.layer = @ + 1,
                               !.applied = @ \cup rows, !.components = components])

\* The answer, or the end of the request anywhere before.
EndManifest == res.stage # "none" /\ Resolve(NoResolution)

Resolution ==
    \/ \E d \in Device, scope \in Scopes : ReadDevice(d, scope)
    \/ ReadZone \/ ReadProfile \/ ReadLayer \/ EndManifest

-----------------------------------------------------------------------------
(* The routes.                                                             *)

CreateOverride(t, c, a, scope) ==
    /\ Begin
    /\ MayAccess(t, scope)
    /\ override' = override \cup {[target |-> t, component |-> c, ref |-> a, lapsed |-> FALSE]}
    /\ UNCHANGED <<row, units, req, baseline, res>>

DeleteOverride(o, scope) ==
    /\ Begin
    /\ o \in override
    /\ MayAccess(o.target, scope)
    /\ override' = override \ {o}
    /\ UNCHANGED <<row, units, req, baseline, res>>

\* expires_at goes by.
Lapse(o) ==
    /\ o \in override /\ ~o.lapsed
    /\ override' = (override \ {o}) \cup {[o EXCEPT !.lapsed = TRUE]}
    /\ UNCHANGED <<vars, baseline, res>>

\* PUT /profiles/{id}: the stack is replaced as a whole.
UpdateProfile(p, stack, scope) ==
    /\ Begin
    /\ scope = None
    /\ Exists(p)
    /\ baseline' = [baseline EXCEPT ![p] = stack]
    /\ UNCHANGED <<row, units, req, override, res>>

Override == [target : Site \cup Zone \cup Device, component : Component, ref : Artifact,
             lapsed : BOOLEAN]

OInit ==
    /\ Init
    /\ baseline \in [Profile -> Stack \cup {None}]
    /\ \A p \in Profile : Exists(p) <=> baseline[p] # None
    /\ override \in SUBSET Override
    /\ res = NoResolution

\* A profile is created with its stack and takes it along.
Inventoried ==
    /\ Next
    /\ baseline' \in [Profile -> Stack \cup {None}]
    /\ \A p \in Profile :
           /\ (row'[p] # None) <=> (baseline'[p] # None)
           /\ Exists(p) /\ row'[p] # None => baseline'[p] = baseline[p]
    /\ UNCHANGED <<override, res>>

ONext ==
    \/ Inventoried
    \/ Resolution
    \/ \E t \in Site \cup Zone \cup Device, c \in Component, a \in Artifact, s \in Scopes :
           CreateOverride(t, c, a, s)
    \/ \E o \in override, s \in Scopes : DeleteOverride(o, s)
    \/ \E o \in override : Lapse(o)
    \/ \E p \in Profile, stack \in Stack, s \in Scopes : UpdateProfile(p, stack, s)

OSpec == OInit /\ [][ONext]_ovars

-----------------------------------------------------------------------------
(* Properties.                                                             *)

\* The docstring of resolver.py, declaratively: the live overrides of the most
\* specific target that has one decide on a component, and the baseline where no
\* target has.  Only rivals, for one component at one target, leave it open.
Live(t, c) == {o.ref : o \in {r \in override : r.target = t /\ r.component = c /\ ~r.lapsed}}

\* The device's own profile, or that of its zone.
ProfileOf(d) ==
    IF row[d].profile # None \/ row[d].zone = None THEN row[d].profile
    ELSE row[row[d].zone].profile

StackOf(d) == IF ProfileOf(d) = None THEN <<>> ELSE baseline[ProfileOf(d)]

\* Of the artifacts at a device, its zone and its site, the first that there are, or the rest.
Nearest(own, zone, site, rest) ==
    IF own # {} THEN own ELSE IF zone # {} THEN zone ELSE IF site # {} THEN site ELSE rest

In(stack, c) == {stack[k] : k \in DOMAIN stack \cap {c}}

Decided(d, c) ==
    Nearest(Live(d, c), Live(row[d].zone, c), Live(row[d].site, c), In(StackOf(d), c))

\* What a resolution has read of a component is still so.
StillRead(c) ==
    /\ row[res.device] = res.row /\ StackOf(res.device) = res.stack
    /\ {o \in override : o.target \in {res.row.site, res.row.zone, res.device} /\ ~o.lapsed
                             /\ o.component = c} = {o \in res.applied : o.component = c}

\* Whatever the inventory went through, whatever changes while a manifest is put
\* together, and in whatever order the rows come: it has a component exactly where a
\* layer has it, from the layer that decides, if what was read of that one is still so.
ManifestFollowsLayers ==
    res.stage = "done" =>
        \A c \in {k \in Component : StillRead(k)} :
            IF c \in DOMAIN res.components THEN res.components[c] \in Decided(res.device, c)
            ELSE Decided(res.device, c) = {}

-----------------------------------------------------------------------------
(* Why it holds: layer by layer, a component is what has been read of it.   *)

Applied(r, t, c) == {o.ref : o \in {q \in r.applied : q.target = t /\ q.component = c}}

FromRead(r, c) ==
    Nearest(Applied(r, r.device, c), Applied(r, r.row.zone, c), Applied(r, r.row.site, c),
            In(r.stack, c))

Follows(r) ==
    \A c \in Component :
        IF c \in DOMAIN r.components THEN r.components[c] \in FromRead(r, c)
        ELSE FromRead(r, c) = {}

Consistent(r) ==
    /\ r = [k \in DOMAIN NoResolution |-> r[k]]
    /\ r.stage \in {"none", "zone", "profile", "layers", "done"}
    /\ r.stage # "none" => r.device \in Device /\ r.row \in Shape(r.device)
    /\ r.stage = "zone" => r.row.zone # None
    /\ r.stage \in {"none", "zone", "profile"} => r.layer = 1 /\ r.applied = {}
    /\ r.stage = "layers" => r.layer \in 1 .. 3
    /\ r.stage = "done" => r.layer = 4
    /\ r.stage \in {"layers", "done"} =>
           /\ Follows(r)
           /\ \A o \in r.applied : \E i \in 1 .. 3 : i < r.layer /\ o.target = Targets(r)[i]

ResInv == override \subseteq Override /\ Consistent(res)

=============================================================================
