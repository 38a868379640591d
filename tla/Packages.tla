------------------------------ MODULE Packages ------------------------------
(***************************************************************************)
(* The package repositories behind api/app/routers/packages.py: uploads,   *)
(* imports and the promotion of a repository's content from dev to staging *)
(* to prod.  The repositories live in Aptly; the API keeps no state of its *)
(* own, so a promotion is a sequence of calls between which anything may   *)
(* change, and each of which may be executed without an answer.            *)
(*                                                                         *)
(* A build is one .deb file.  Two builds of one package, architecture and  *)
(* version conflict in a repository.                                       *)
(***************************************************************************)
EXTENDS Naturals, Functions

CONSTANTS
    Build,
    Package,      \* (package, architecture): a function on Build
    Version,      \* a function on Build
    Repo,         \* records [dist, channel]; a name without "-" has no dist
    Handler,      \* request slots of the API
    MaxUploads,   \* bounds: how often a build is uploaded,
    MaxRequests,  \* and how many promotions begin
    None

ASSUME RepoAssumption == \A r \in Repo : r.channel \in {"dev", "staging", "prod"}
ASSUME NoneAssumption == \A builds \in SUBSET Build : builds # None

VARIABLES
    staged,     \* the uploaded files, each in a directory of its own
    uploads,    \* how many there were
    repo,       \* the builds in each repository
    direct,     \* history: the builds imported straight into a repository,
    been,       \* and all that ever were in it
    late,       \* posts to Aptly whose sender has given up
    req,        \* the promotions under way
    begun,      \* how many began
    answers,    \* history: their answers
    log         \* the audit events of promotions

aptly == <<staged, uploads, repo, direct, been>>
vars  == <<aptly, late, req, begun, answers, log>>

Idle == [stage |-> "idle", src |-> None, dst |-> None, force |-> FALSE, seen |-> {},
         found |-> {}, refs |-> {}, before |-> None, clash |-> FALSE]

-----------------------------------------------------------------------------
OneBelow(s, t) == <<s.channel, t.channel>> \in {<<"dev", "staging">>, <<"staging", "prod">>}
SameDistribution(s, t) == s.dist = None \/ t.dist = None \/ s.dist = t.dist

\* Faulty variants: the path table is not looked up; the distributions are not
\* compared.
UpwardsOnly(s, t) == SameDistribution(s, t) /\ s.channel # "prod" /\ t.channel # "dev"
OneBelowOnly(s, t) == OneBelow(s, t)

\* One channel up, and within a distribution where both names have one.
PathAllowed(s, t) ==
    /\ SameDistribution(s, t)
    /\ OneBelow(s, t)

\* The index of the target keeps one version of a package, whichever came last.
Indexes(found) ==
    {ix \in [{Package[b] : b \in found} -> Range(Version)] :
        \A p \in DOMAIN ix : \E b \in found : Package[b] = p /\ Version[b] = ix[p]}

\* Faulty variant: the plan only looks for packages that are missing.
NothingMissing(seen, ix) == \A b \in seen : Package[b] \in DOMAIN ix

\* Nothing to add and nothing to update.
UpToDate(seen, ix) ==
    \A b \in seen : Package[b] \in DOMAIN ix /\ ix[Package[b]] = Version[b]

\* Aptly.
Conflict(b, c) == b # c /\ Package[b] = Package[c] /\ Version[b] = Version[c]
Refused(r, refs, force) == ~force /\ \E b \in refs, c \in repo[r] \cup refs : Conflict(b, c)

\* The builds of refs are in r from now on.
Added(r, refs) ==
    /\ repo' = [repo EXCEPT ![r] = {c \in @ : \A b \in refs : ~Conflict(b, c)} \cup refs]
    /\ been' = [been EXCEPT ![r] = @ \cup refs]

\* Handler h goes on as r; what it did clashes with every other request.
Noticed(h, r) ==
    req' = [g \in Handler |-> IF g = h THEN r
                              ELSE IF req[g] = Idle THEN Idle
                              ELSE [req[g] EXCEPT !.clash = TRUE]]

-----------------------------------------------------------------------------
Init ==
    /\ staged = {}
    /\ uploads = 0
    /\ repo = [r \in Repo |-> {}]
    /\ direct = [r \in Repo |-> {}]
    /\ been = [r \in Repo |-> {}]
    /\ late = {}
    /\ req = [h \in Handler |-> Idle]
    /\ begun = 0
    /\ answers = {}
    /\ log = {}

\* POST /packages/upload: only a readable .deb gets as far as Aptly.
Upload(b) ==
    /\ uploads < MaxUploads
    /\ uploads' = uploads + 1
    /\ staged' = staged \cup {b}
    /\ UNCHANGED <<repo, direct, been, late, req, begun, answers, log>>

\* POST /packages/add-to-repo, into any repository.  Aptly removes the files it
\* took, and leaves those it refuses.
AddToRepo(b, r, force) ==
    /\ b \in staged
    /\ ~Refused(r, {b}, force)
    /\ staged' = staged \ {b}
    /\ direct' = [direct EXCEPT ![r] = @ \cup {b}]
    /\ Added(r, {b})
    /\ Noticed(None, Idle)
    /\ UNCHANGED <<uploads, late, begun, answers, log>>

-----------------------------------------------------------------------------
(* POST /packages/promotions/execute.                                      *)

Goto(h, r) == req' = [req EXCEPT ![h] = r]

\* The plan reads the source, ...
ReadSource(h, s, t, force) ==
    /\ req[h] = Idle
    /\ begun < MaxRequests
    /\ begun' = begun + 1
    /\ PathAllowed(s, t)
    /\ Goto(h, [Idle EXCEPT !.stage = "target", !.src = s, !.dst = t, !.force = force,
                            !.seen = repo[s]])
    /\ UNCHANGED <<aptly, late, answers, log>>

\* ... then the target; where it finds no difference the request is over.
ReadTarget(h) ==
    /\ req[h].stage = "target"
    /\ LET r == [req[h] EXCEPT !.stage = "refs", !.found = repo[req[h].dst]]
       IN  \E ix \in Indexes(r.found) :
               IF UpToDate(r.seen, ix)
               THEN /\ answers' = answers \cup {[r EXCEPT !.stage = "noop"]}
                    /\ Goto(h, Idle)
               ELSE UNCHANGED answers /\ Goto(h, r)
    /\ UNCHANGED <<aptly, late, begun, log>>

\* Faulty variant: only what the target lacks is promoted.
ReadRefsMissing(h) ==
    /\ req[h].stage = "refs"
    /\ LET refs == repo[req[h].src] \ repo[req[h].dst]
       IN  Goto(h, IF refs = {} THEN Idle
                   ELSE [req[h] EXCEPT !.stage = "first", !.refs = refs])
    /\ UNCHANGED <<aptly, late, begun, answers, log>>

\* What is promoted is read again; an empty answer is a 400.
ReadRefs(h) ==
    /\ req[h].stage = "refs"
    /\ LET refs == repo[req[h].src]
       IN  Goto(h, IF refs = {} THEN Idle
                   ELSE [req[h] EXCEPT !.stage = "first", !.refs = refs])
    /\ UNCHANGED <<aptly, late, begun, answers, log>>

\* A call without an answer is followed by one without ForceReplace, and that by
\* a 502.
NextTry(r) ==
    IF r.stage = "first" THEN [r EXCEPT !.stage = "second", !.force = FALSE] ELSE Idle

\* Aptly executes the call; its answer may be lost.
Post(h) ==
    /\ req[h].stage \in {"first", "second"}
    /\ ~Refused(req[h].dst, req[h].refs, req[h].force)
    /\ Added(req[h].dst, req[h].refs)
    /\ LET r == [req[h] EXCEPT !.before = IF @ = None THEN repo[req[h].dst] ELSE @]
       IN  \/ Noticed(h, [r EXCEPT !.stage = "log"])
           \/ Noticed(h, NextTry(r))
    /\ UNCHANGED <<staged, uploads, direct, late, begun, answers, log>>

\* Aptly refuses the call or is away, or is so slow that nobody waits for it.
NoAnswer(h) ==
    /\ req[h].stage \in {"first", "second"}
    /\ late' \in {late, late \cup {[dst |-> req[h].dst, refs |-> req[h].refs,
                                    force |-> req[h].force]}}
    /\ Goto(h, NextTry(req[h]))
    /\ UNCHANGED <<aptly, begun, answers, log>>

LatePost(p) ==
    /\ p \in late
    /\ late' = late \ {p}
    /\ \/ /\ ~Refused(p.dst, p.refs, p.force)
          /\ Added(p.dst, p.refs)
          /\ Noticed(None, Idle)
       \/ UNCHANGED <<repo, been, req>>
    /\ UNCHANGED <<staged, uploads, direct, begun, answers, log>>

\* The event is stored in a session of its own; a failure is not noticed.
SafeAuditLog(event) == log' \in {log, log \cup {event}}

\* The event and the answer carry the plan, not what was read after it.
Log(h) ==
    /\ req[h].stage = "log"
    /\ SafeAuditLog([req[h] EXCEPT !.stage = "promoted"])
    /\ answers' = answers \cup {[req[h] EXCEPT !.stage = "promoted"]}
    /\ Goto(h, Idle)
    /\ UNCHANGED <<aptly, late, begun>>

\* Aptly is away when it is read (503), or the API stops.
Abort(h) ==
    /\ req[h] # Idle
    /\ Goto(h, Idle)
    /\ UNCHANGED <<aptly, late, begun, answers, log>>

-----------------------------------------------------------------------------
Promote(h) ==
    \/ \E s, t \in Repo, force \in BOOLEAN : ReadSource(h, s, t, force)
    \/ ReadTarget(h) \/ ReadRefs(h) \/ Post(h) \/ NoAnswer(h) \/ Log(h) \/ Abort(h)

Next ==
    \/ \E b \in Build : Upload(b)
    \/ \E b \in Build, r \in Repo, force \in BOOLEAN : AddToRepo(b, r, force)
    \/ \E h \in Handler : Promote(h)
    \/ \E p \in late : LatePost(p)

Spec == Init /\ [][Next]_vars

-----------------------------------------------------------------------------
(* Properties.                                                             *)

Stages == {"idle", "target", "refs", "first", "second", "log"}

Promotion ==
    [stage : Stages,
     src : Repo \cup {None}, dst : Repo \cup {None}, force : BOOLEAN,
     seen : SUBSET Build, found : SUBSET Build, refs : SUBSET Build,
     before : (SUBSET Build) \cup {None}, clash : BOOLEAN]

TypeOK ==
    /\ staged \subseteq Build
    /\ uploads \in Nat
    /\ repo \in [Repo -> SUBSET Build]
    /\ direct \in [Repo -> SUBSET Build]
    /\ been \in [Repo -> SUBSET Build]
    /\ late \subseteq [dst : Repo, refs : SUBSET Build, force : BOOLEAN]
    /\ req \in [Handler -> Promotion]
    /\ begun \in Nat

\* However promotions overlap, repeat their calls and arrive late, a build reaches
\* a channel only by an import straight into it or after the channel below.
UpstreamFirst ==
    \A t \in Repo : \A b \in been[t] \ direct[t] :
        \E s \in Repo : OneBelow(s, t) /\ b \in been[s]

\* A build in a repository of one distribution was imported for it, or has been
\* in a repository whose name has no distribution: that is the only way across.
DistributionKept ==
    \A t \in Repo : t.dist # None => \A b \in been[t] :
        \E s \in Repo :
            \/ s.dist = t.dist /\ b \in direct[s]
            \/ s.dist = None /\ b \in been[s]

\* "promoted" means that all of the source's builds have been in the target, with
\* or without a second call; "noop" that some build of each version has.
AnswersAreTrue ==
    \A a \in answers :
        /\ a.stage = "promoted" => a.refs \subseteq been[a.dst]
        /\ a.stage = "noop" => \A b \in a.seen : \E c \in been[a.dst] :
               Package[c] = Package[b] /\ Version[c] = Version[b]

\* The plan in the audit log describes what was promoted, and
\* the target it was promoted to, unless Aptly changed under the request.
LoggedPlanIsTrue ==
    \A e \in log : ~e.clash => e.seen = e.refs /\ e.found = e.before

-----------------------------------------------------------------------------
(* Why UpstreamFirst and DistributionKept hold: what a promotion carries,   *)
(* across all its calls and after it has given up, has been in its source,  *)
(* and history only grows.                                                  *)

RepositoriesOK == \A r \in Repo : repo[r] \subseteq been[r] /\ direct[r] \subseteq been[r]

\* A path along which refs may be promoted into t.
Sourced(refs, t) == \E s \in Repo : PathAllowed(s, t) /\ refs \subseteq been[s]

Founded(r) ==
    r.stage # "idle" =>
        /\ r.src \in Repo /\ r.dst \in Repo
        /\ PathAllowed(r.src, r.dst)
        /\ r.refs \subseteq been[r.src]

PromotionsOK ==
    /\ \A h \in Handler : Founded(req[h])
    /\ \A p \in late : Sourced(p.refs, p.dst)

IndInv == TypeOK /\ RepositoriesOK /\ PromotionsOK /\ UpstreamFirst /\ DistributionKept

(* Why AnswersAreTrue and LoggedPlanIsTrue hold: what a promotion has read   *)
(* or posted was there, and it still describes Aptly as long as nobody else  *)
(* has changed Aptly.                                                        *)

Reported(r, had) ==
    /\ r.stage # "idle" => r.found \subseteq had[r.dst]
    /\ r.stage = "log" => r.refs \subseteq had[r.dst]

Tried(r) == r.stage \in {"first", "second", "log"}

Undisturbed(r, has) ==
    ~r.clash =>
        /\ r.stage \in {"target", "refs"} => r.seen = has[r.src] /\ r.before = None
        /\ r.stage = "refs" => r.found = has[r.dst]
        /\ Tried(r) => r.seen = r.refs
        /\ Tried(r) /\ r.before # None => r.found = r.before
        /\ Tried(r) /\ r.before = None => r.stage # "log" /\ r.found = has[r.dst]

PlansOK ==
    /\ \A h \in Handler : Reported(req[h], been) /\ Undisturbed(req[h], repo)
    /\ \A a \in answers : a.dst \in Repo

PlanInv == PlansOK /\ AnswersAreTrue /\ LoggedPlanIsTrue
=============================================================================
