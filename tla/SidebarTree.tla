---------------------------- MODULE SidebarTree -----------------------------
(***************************************************************************)
(* The tree of sites, zones and devices beside every page of the Fleet UI  *)
(* (ui/static/js/sidebar-tree.js).  A rendering walks the tree and waits   *)
(* where it has to fetch; clicks and searches start others meanwhile, and  *)
(* all of them share the caches and the container they write to.           *)
(*                                                                         *)
(* JavaScript runs to completion: nothing happens between two awaits of a  *)
(* rendering.  What the API holds does not change while the page is open.  *)
(***************************************************************************)
EXTENDS Naturals

CONSTANTS
    Site, Zone, Device,
    ZoneSite,    \* the site of each zone
    Home,        \* site and zone of each device, Absent if it stands in none
    Matching,    \* sets of nodes, those that a search may match
    Rendering,   \* renderings that may be under way at once
    MaxEvents,   \* bound: clicks and searches
    Absent       \* what a cache holds where it has no entry

ASSUME NodesAssumption ==
    /\ Site \cap Zone = {} /\ Device \cap (Site \cup Zone) = {}
    /\ Absent \notin Site \cup Zone \cup [Device -> Nat]
    /\ \A nodes \in SUBSET (Site \cup Zone) : nodes # Absent
    /\ ZoneSite \in [Zone -> Site]
    /\ Home \in [Device -> [site : Site, zone : Zone \cup {Absent}]]
    /\ MaxEvents \in Nat

VARIABLES
    sites,       \* sitesCache
    zones,       \* zonesCache
    devices,     \* devicesCache: how often the list of each zone has each device
    prefetched,  \* prefetchedSiteDevices
    expanded,    \* expandedState
    filter,      \* the nodes that match searchFilter
    work,        \* the renderings: [stage, site, zone, sites, zones left, html]
    shown,       \* the nodes in the container, each with the one above it
    events,
    spoilt,      \* history: sites of which a prefetch failed, or two overlapped
    alone        \* history: the last rendering was, all the time

caches == <<sites, zones, devices, prefetched>>
treeVars == <<caches, expanded, filter, work, shown, events, spoilt, alone>>

Done == [stage |-> "done", site |-> Absent, zone |-> Absent, sitesLeft |-> {}, zonesLeft |-> {},
         html |-> {}]

ZonesOf(s) == {z \in Zone : ZoneSite[z] = s}
DevicesOf(z) == {d \in Device : Home[d].zone = z}

\* A list, and the devices of a set once more.
Extended(list, more) ==
    [d \in Device |-> (IF list = Absent THEN 0 ELSE list[d]) + (IF d \in more THEN 1 ELSE 0)]

\* Only what waits for an answer lets anything else happen.
AtRest == \A r \in Rendering : work[r].stage \notin {"site", "zone"}

Proceed(r, w) == work' = [work EXCEPT ![r] = w]

-----------------------------------------------------------------------------
(* Starting a rendering: init, toggleExpand, the search input.             *)

TreeInit ==
    /\ sites = Absent
    /\ zones = [s \in Site |-> Absent]
    /\ devices = [z \in Zone |-> Absent]
    /\ prefetched = {}
    /\ expanded \in SUBSET (Site \cup Zone)
    /\ filter = Site \cup Zone \cup Device
    /\ work = [r \in Rendering |-> Done]
    /\ shown = {}
    /\ events = 0
    /\ spoilt = {}
    /\ alone = TRUE

Render(r) ==
    /\ work[r] = Done
    /\ Proceed(r, [Done EXCEPT !.stage = "site", !.sitesLeft = sites'])
    /\ alone' = (work = [q \in Rendering |-> Done])

\* fetchSites, once: all of them or, after a failure, none.
LoadSites(r, answer) ==
    /\ sites = Absent
    /\ sites' = answer
    /\ Render(r)
    /\ UNCHANGED <<zones, devices, prefetched, expanded, filter, shown, events, spoilt>>

Event ==
    /\ events < MaxEvents
    /\ sites # Absent
    /\ AtRest
    /\ events' = events + 1

\* Faulty variant: the tree is drawn again for what opens, not for what closes.
ToggleOpening(r, n) ==
    /\ Event
    /\ n \in {e.node : e \in shown} \ Device
    /\ expanded' = IF n \in expanded THEN expanded \ {n} ELSE expanded \cup {n}
    /\ UNCHANGED <<caches, filter, shown, spoilt>>
    /\ IF n \in expanded THEN UNCHANGED <<work, alone>> ELSE Render(r)

ToggleExpand(r, n) ==
    /\ Event
    /\ n \in {e.node : e \in shown} \ Device
    /\ expanded' = IF n \in expanded THEN expanded \ {n} ELSE expanded \cup {n}
    /\ UNCHANGED <<caches, filter, shown, spoilt>>
    /\ Render(r)

Search(r, matching) ==
    /\ Event
    /\ filter' = matching
    /\ UNCHANGED <<caches, expanded, shown, spoilt>>
    /\ Render(r)

-----------------------------------------------------------------------------
(* render                                                                  *)

Quiet == UNCHANGED <<expanded, filter, shown, events, spoilt, alone>>

Node(n, above) == [node |-> n, above |-> above]
Visible(n, above) == {Node(m, above) : m \in {n} \cap filter}

\* What is shown of the devices of a zone, under the search as it is now.
DeviceNodes(z, list) == {Node(d, z) : d \in {e \in Device : list[e] > 0} \cap filter}

\* The zones of the site: from the cache, or fetched next.
WithZones(w) ==
    IF zones[w.site] = Absent THEN [w EXCEPT !.stage = "zones"]
    ELSE [w EXCEPT !.stage = "zone", !.zonesLeft = zones[w.site]]

\* Faulty variant: every time the site is drawn.
PrefetchAlways(s) == TRUE

NeedsPrefetch(s) == s \notin prefetched

\* A site, in the order of the answer, which is left open.  Its devices are fetched
\* first if it is open and they were not before.
VisitSite(r, s) ==
    LET w == [work[r] EXCEPT !.site = s, !.sitesLeft = @ \ {s},
                             !.html = @ \cup Visible(s, Absent)]
        open == s \in filter \cap expanded
        fetched == open /\ NeedsPrefetch(s)
    IN
    /\ work[r].stage = "site" /\ s \in work[r].sitesLeft
    /\ Proceed(r, IF fetched THEN [w EXCEPT !.stage = "prefetch"]
               ELSE IF open THEN WithZones(w) ELSE w)
    /\ spoilt' = IF fetched /\ \E q \in Rendering : work[q].stage = "prefetch" /\ work[q].site = s
                 THEN spoilt \cup {s} ELSE spoilt
    /\ UNCHANGED <<caches, expanded, filter, shown, events, alone>>

\* The devices of the site are appended to the lists of their zones, whatever those
\* hold by now.
Prefetched(r) ==
    LET s == work[r].site
        Found(z) == {d \in Device : Home[d] = [site |-> s, zone |-> z]}
    IN
    /\ work[r].stage = "prefetch" /\ AtRest
    /\ devices' = [z \in Zone |-> IF Found(z) = {} THEN devices[z]
                                  ELSE Extended(devices[z], Found(z))]
    /\ prefetched' = prefetched \cup {s}
    /\ Proceed(r, WithZones(work[r]))
    /\ UNCHANGED <<sites, zones>> /\ Quiet

PrefetchFails(r) ==
    /\ work[r].stage = "prefetch" /\ AtRest
    /\ Proceed(r, WithZones(work[r]))
    /\ spoilt' = spoilt \cup {work[r].site}
    /\ UNCHANGED <<caches, expanded, filter, shown, events, alone>>

\* fetchZones: a failed one is not remembered, and shows none.
FetchedZones(r, answer) ==
    LET s == work[r].site IN
    /\ work[r].stage = "zones" /\ AtRest
    /\ zones' = IF answer = Absent THEN zones ELSE [zones EXCEPT ![s] = answer]
    /\ Proceed(r, [work[r] EXCEPT !.stage = "zone", !.zonesLeft = IF answer = Absent THEN {} ELSE answer])
    /\ UNCHANGED <<sites, devices, prefetched>> /\ Quiet

VisitZone(r, z) ==
    LET w == [work[r] EXCEPT !.zone = z, !.zonesLeft = @ \ {z},
                             !.html = @ \cup Visible(z, work[r].site)]
        open == z \in filter \cap expanded
    IN
    /\ work[r].stage = "zone" /\ z \in work[r].zonesLeft
    /\ Proceed(r, IF open /\ devices[z] = Absent THEN [w EXCEPT !.stage = "devices"]
               ELSE IF open THEN [w EXCEPT !.html = @ \cup DeviceNodes(z, devices[z])]
               ELSE w)
    /\ UNCHANGED caches /\ Quiet

\* fetchDevices, likewise; the answer replaces the list.
FetchedDevices(r, answer) ==
    LET w == work[r]
        list == Extended(Absent, answer)
    IN
    /\ w.stage = "devices" /\ AtRest
    /\ devices' = IF answer = Absent THEN devices ELSE [devices EXCEPT ![w.zone] = list]
    /\ Proceed(r, [w EXCEPT !.stage = "zone",
                         !.html = IF answer = Absent THEN @ ELSE @ \cup DeviceNodes(w.zone, list)])
    /\ UNCHANGED <<sites, zones, prefetched>> /\ Quiet

ZonesDone(r) ==
    /\ work[r].stage = "zone" /\ work[r].zonesLeft = {}
    /\ Proceed(r, [work[r] EXCEPT !.stage = "site"])
    /\ UNCHANGED caches /\ Quiet

\* The container gets what this rendering has put together.
Show(r) ==
    /\ work[r].stage = "site" /\ work[r].sitesLeft = {}
    /\ shown' = work[r].html
    /\ Proceed(r, Done)
    /\ UNCHANGED <<caches, expanded, filter, events, spoilt, alone>>

Walk(r) ==
    \/ \E s \in Site : VisitSite(r, s)
    \/ \E z \in Zone : VisitZone(r, z)
    \/ ZonesDone(r) \/ Show(r)

\* The API's answers to the fetches: everything there is, or an error.
Answer(r) ==
    \/ Prefetched(r) \/ PrefetchFails(r)
    \/ \E answer \in {ZonesOf(work[r].site), Absent} : FetchedZones(r, answer)
    \/ \E answer \in {DevicesOf(work[r].zone), Absent} : FetchedDevices(r, answer)

TreeNext ==
    \E r \in Rendering :
        \/ \E answer \in {Site, {}} : LoadSites(r, answer)
        \/ \E n \in Site \cup Zone : ToggleExpand(r, n)
        \/ \E matching \in Matching : Search(r, matching)
        \/ Walk(r) \/ Answer(r)

TreeSpec == TreeInit /\ [][TreeNext]_treeVars

-----------------------------------------------------------------------------
(* Properties.                                                             *)

\* Two functions fill the device cache, and renderings overlap in both: yet a site that
\* was prefetched has each of its devices exactly once in the list of a zone of its own,
\* unless a prefetch of the site failed or ran twice at once.
ListedOnce ==
    \A s \in prefetched \ spoilt, z \in Zone, d \in Device :
        ZoneSite[z] = s /\ Home[d] = [site |-> s, zone |-> z] =>
            devices[z] # Absent /\ devices[z][d] = 1

\* When nothing is under way, and the last rendering was alone all the time, the page
\* shows the sites, and the known zones of open sites, that match, and below open zones
\* no device but theirs, and at least those of prefetched sites as above.
ShownFollowsState ==
    (\A r \in Rendering : work[r] = Done) /\ alone /\ sites # Absent =>
        LET Open(n) == n \in expanded /\ \E e \in shown : e.node = n
            Listed(n) == {e.node : e \in {f \in shown : f.above = n}}
        IN
        /\ Listed(Absent) = sites \cap filter
        /\ \A s \in Site : Listed(s) = IF Open(s) /\ zones[s] # Absent THEN zones[s] \cap filter ELSE {}
        /\ \A z \in Zone :
               /\ Listed(z) \subseteq IF Open(z) THEN DevicesOf(z) \cap filter ELSE {}
               /\ Open(z) /\ ZoneSite[z] \in prefetched \ spoilt =>
                      {d \in filter \cap Device : Home[d] = [site |-> ZoneSite[z], zone |-> z]}
                          \subseteq Listed(z)

-----------------------------------------------------------------------------
(* Why they hold.                                                          *)

Nodes == {Node(s, Absent) : s \in Site} \cup {Node(z, ZoneSite[z]) : z \in Zone}
             \cup {Node(d, z) : d \in Device, z \in Zone}

Works == [stage : {"site", "prefetch", "zones", "zone", "devices"},
          site : Site \cup {Absent}, zone : Zone \cup {Absent},
          sitesLeft : SUBSET Site, zonesLeft : SUBSET Zone, html : SUBSET Nodes]

TreeTypeOK ==
    /\ sites \in (SUBSET Site) \cup {Absent}
    /\ zones \in [Site -> (SUBSET Zone) \cup {Absent}]
    /\ devices \in [Zone -> [Device -> Nat] \cup {Absent}]
    /\ work \in [Rendering -> Works \cup {Done}]
    /\ shown \subseteq Nodes

\* The caches hold what the API has.
CachesTrue ==
    /\ \A s \in Site : zones[s] \in {ZonesOf(s), Absent}
    /\ \A z \in Zone, d \in Device :
           devices[z] # Absent /\ devices[z][d] > 0 => d \in DevicesOf(z)

\* Where a rendering is: it looks at the zones of a site when the site was prefetched,
\* or when that failed.
Placed(w) ==
    /\ w.stage \in {"prefetch", "zones", "zone", "devices"} => w.site \in Site
    /\ w.stage \in {"zones", "zone", "devices"} => w.site \in prefetched \cup spoilt
    /\ w.stage \in {"zone", "devices"} => w.zonesLeft \subseteq ZonesOf(w.site)
    /\ w.stage = "devices" => w.zone \in ZonesOf(w.site)

Prefetching(r, s) == work[r].stage = "prefetch" /\ work[r].site = s

\* A site is prefetched once, and until then no list has a device of its own zones.
PrefetchedOnce ==
    \A s \in Site \ spoilt :
        /\ \A r \in Rendering : Prefetching(r, s) =>
               s \notin prefetched /\ \A q \in Rendering : Prefetching(q, s) => q = r
        /\ s \notin prefetched =>
               \A z \in Zone, d \in Device :
                   ZoneSite[z] = s /\ Home[d] = [site |-> s, zone |-> z] =>
                       devices[z] = Absent \/ devices[z][d] = 0

CacheInv ==
    /\ TreeTypeOK /\ CachesTrue /\ PrefetchedOnce /\ ListedOnce
    /\ \A r \in Rendering : Placed(work[r])

\* What a rendering that is alone has drawn: the sites it has come to, the known zones
\* of the open ones that it is done with or has come to, and their devices.
Visited(w, z) ==
    LET s == ZoneSite[z]
        current == w.stage # "site" /\ s = w.site
    IN
    /\ s \in sites \ w.sitesLeft /\ s \in filter \cap expanded /\ zones[s] # Absent
    /\ current => w.stage \notin {"prefetch", "zones"} /\ z \notin w.zonesLeft

Drawn(w) ==
    /\ sites # Absent /\ w.sitesLeft \subseteq sites
    /\ w.stage # "site" => w.site \in (sites \ w.sitesLeft) \cap filter \cap expanded
    /\ w.stage = "zones" => zones[w.site] = Absent
    /\ w.stage \in {"zone", "devices"} /\ zones[w.site] = Absent => w.zonesLeft = {}
    /\ w.stage = "devices" =>
           devices[w.zone] = Absent /\ w.zone \in expanded /\ Node(w.zone, w.site) \in w.html
    /\ \A s \in Site : Node(s, Absent) \in w.html <=> s \in (sites \ w.sitesLeft) \cap filter
    /\ \A z \in Zone : Node(z, ZoneSite[z]) \in w.html <=> z \in filter /\ Visited(w, z)
    /\ \A z \in Zone, d \in Device :
           Node(d, z) \in w.html =>
               d \in DevicesOf(z) \cap filter /\ z \in expanded /\ Node(z, ZoneSite[z]) \in w.html
    /\ \A z \in Zone, d \in filter \cap Device :
           /\ Home[d] = [site |-> ZoneSite[z], zone |-> z]
           /\ ZoneSite[z] \in prefetched \ spoilt
           /\ z \in expanded /\ Node(z, ZoneSite[z]) \in w.html
           /\ ~(w.stage = "devices" /\ w.zone = z)
           => Node(d, z) \in w.html

PageInv ==
    /\ alone => \A r \in Rendering : work[r] # Done =>
           /\ \A q \in Rendering \ {r} : work[q] = Done
           /\ Drawn(work[r])
    /\ ShownFollowsState

=============================================================================
