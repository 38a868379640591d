---------------------------- MODULE GrafanaSync -----------------------------
(***************************************************************************)
(* How the Fleet API keeps the Grafana account of one user in step with    *)
(* the user's row: POST and PATCH /auth/users (api/app/routers/auth.py)    *)
(* and the best-effort calls of api/app/services/grafana_provisioner.py.   *)
(*                                                                         *)
(* A request reads the row, calls Grafana several times, and commits what  *)
(* it changed.  A call may be refused, or raise: its answer is lost, and   *)
(* Grafana may have carried it out.  Nothing holds a second request about  *)
(* the same user back, except that a username is inserted only once.       *)
(***************************************************************************)
EXTENDS Naturals

CONSTANTS
    Role,        \* the roles in use
    SiteScope,   \* the sites to which users are confined
    Handler,     \* request slots of the API
    MaxAccounts, \* bound: accounts that Grafana ever creates for the user
    MaxBreaks,   \* bound: failing calls, dying requests and overlaps
    None

ASSUME RoleAssumption == Role \subseteq {"admin", "operator", "technician", "viewer", "ci_bot"}
\* A user's row: the role, the site, the activity and the account's id in Grafana.
Row == [role : Role, site : SiteScope \cup {None}, active : BOOLEAN, gid : Nat \cup {None}]

ASSUME NoneAssumption == None \notin SiteScope \cup Nat \cup Row
ASSUME BoundsAssumption == MaxAccounts \in Nat /\ MaxBreaks \in Nat

VARIABLES
    row,       \* the user in fleet_user, or None
    account,   \* the user's account in Grafana, by its id, or None,
    accounts,  \* how many it has had,
    orgRole,   \* its role in the organisation,
    member,    \* and the sites in whose teams it is
    teams,     \* the sites that have a team
    req,       \* the handlers
    synced,    \* history: whether the last requests left both in step,
    breaks     \* and how often something went wrong

vars == <<row, account, accounts, orgRole, member, teams, req, synced, breaks>>
grafana == <<account, accounts, orgRole, member, teams>>

_ROLE_MAP(r) ==
    CASE r = "admin" -> "Admin" [] r = "operator" -> "Editor" [] OTHER -> "Viewer"

Columns == {"role", "site", "active", "gid"}
Stages == {"user", "role", "list", "team", "members", "delete", "commit"}

\* The state of a request: the row as it wants it, the columns that it changes, the
\* account it found, the listed teams it has yet to look at, and the user's.
\* History: whether that team was not listed, and whether a call failed or another
\* request ran beside it.
Idle == [stage |-> "idle", new |-> None, changed |-> {}, id |-> None, left |-> {},
         target |-> None, unlisted |-> FALSE, disturbed |-> FALSE]

-----------------------------------------------------------------------------
Init ==
    /\ row = None
    /\ account = None
    /\ accounts = 0
    /\ orgRole = None
    /\ member = {}
    /\ teams \in SUBSET SiteScope
    /\ req = [h \in Handler |-> Idle]
    /\ synced = "no"
    /\ breaks = 0

\* Something goes wrong, or nothing does.
Break(b) ==
    /\ b => breaks < MaxBreaks
    /\ breaks' = IF b THEN breaks + 1 ELSE breaks

\* Handler h takes a request that is to write row r; requests that meet disturb each
\* other.
Take(h, r, columns, stage) ==
    LET others == {g \in Handler : req[g] # Idle} IN
    /\ req[h] = Idle
    /\ Break(others # {})
    /\ req' = [g \in Handler |->
                   IF g = h THEN [Idle EXCEPT !.stage = stage, !.new = r, !.changed = columns,
                                              !.disturbed = others # {}]
                   ELSE IF g \in others THEN [req[g] EXCEPT !.disturbed = TRUE]
                   ELSE req[g]]
    /\ UNCHANGED <<row, grafana, synced>>

\* POST /auth/users.  The row is flushed before Grafana is called, so that a second
\* creation waits until it is there, or fails.
BeginCreate(h, role, site) ==
    /\ row = None
    /\ \A g \in Handler : req[g] = Idle
    /\ Take(h, [role |-> role, site |-> site, active |-> TRUE, gid |-> None], Columns, "user")

\* PATCH /auth/users/{id} that changes role, site or activity; a site is never taken
\* away.  An active user is provisioned, another loses the account that the row names.
BeginUpdate(h, role, site, active) ==
    /\ row # None
    /\ site = None => row.site = None
    /\ <<role, site, active>> # <<row.role, row.site, row.active>>
    /\ LET new == [role |-> role, site |-> site, active |-> active, gid |-> row.gid] IN
       Take(h, new, {c \in Columns : new[c] # row[c]},
            IF active THEN "user" ELSE IF row.gid # None THEN "delete" ELSE "commit")

-----------------------------------------------------------------------------
(* provision_user: each call is answered, refused, or raises.              *)

\* The request goes on with r after a call that was answered; one that raises ends
\* the provisioning, whatever is left of it.
Answered(h, r) == req' = [req EXCEPT ![h] = r] /\ Break(FALSE)
Refused(h, r) == req' = [req EXCEPT ![h] = [r EXCEPT !.disturbed = TRUE]] /\ Break(TRUE)
Raised(h) == Refused(h, [req[h] EXCEPT !.stage = "commit"])

\* _get_or_create_user: found, created with its role, or neither.
GetUser(h) ==
    /\ req[h].stage = "user"
    /\ account # None
    /\ Answered(h, [req[h] EXCEPT !.stage = "role", !.id = account])
    /\ UNCHANGED <<row, grafana, synced>>

CreateAccount(h) ==
    /\ req[h].stage = "user"
    /\ account = None
    /\ accounts < MaxAccounts
    /\ account' = accounts + 1
    /\ accounts' = accounts + 1
    /\ orgRole' = _ROLE_MAP(req[h].new.role)
    /\ member' = {}
    /\ \/ Answered(h, [req[h] EXCEPT !.stage = "role", !.id = account'])
       \/ Raised(h)
    /\ UNCHANGED <<row, teams, synced>>

\* _set_org_role, of the account that was found.
SetOrgRole(h) ==
    /\ req[h].stage = "role"
    /\ orgRole' = IF account = req[h].id THEN _ROLE_MAP(req[h].new.role) ELSE orgRole
    /\ Answered(h, [req[h] EXCEPT !.stage = "list"]) \/ Raised(h)
    /\ UNCHANGED <<row, account, accounts, member, teams, synced>>

\* _sync_team_membership lists the teams (the first hundred; there are fewer),
ListTeams(h) ==
    /\ req[h].stage = "list"
    /\ Answered(h, [req[h] EXCEPT !.stage = "team", !.left = teams])
    /\ UNCHANGED <<row, grafana, synced>>

\* _get_or_create_team gets or creates the user's own,
GetTeam(h) ==
    /\ req[h].stage = "team"
    /\ teams' = teams \cup ({req[h].new.site} \ {None})
    /\ \/ Answered(h, [req[h] EXCEPT !.stage = "members", !.target = req[h].new.site,
               !.unlisted = req[h].new.site \notin req[h].left \cup {None}])
       \/ Raised(h)
    /\ UNCHANGED <<row, account, accounts, orgRole, member, synced>>

\* Faulty variant: the user joins a team and leaves none.
SyncMemberJoinOnly(h, s) ==
    /\ req[h].stage = "members"
    /\ s \in req[h].left
    /\ member' = IF account = req[h].id /\ s = req[h].target THEN member \cup {s} ELSE member
    /\ Answered(h, [req[h] EXCEPT !.left = @ \ {s}]) \/ Raised(h)
    /\ UNCHANGED <<row, account, accounts, orgRole, teams, synced>>

\* and then adds the user to it, or removes the user from another, team by team.
SyncMember(h, s) ==
    /\ req[h].stage = "members"
    /\ s \in req[h].left
    /\ member' = IF account # req[h].id THEN member
                 ELSE IF s = req[h].target THEN member \cup {s} ELSE member \ {s}
    /\ Answered(h, [req[h] EXCEPT !.left = @ \ {s}]) \/ Raised(h)
    /\ UNCHANGED <<row, account, accounts, orgRole, teams, synced>>

\* The account's id is kept if all calls were made.
Provisioned(h) ==
    /\ req[h].stage = "members"
    /\ req[h].left = {}
    /\ Answered(h, [req[h] EXCEPT !.stage = "commit", !.new.gid = req[h].id,
           !.changed = IF req[h].new.gid = req[h].id THEN @ ELSE @ \cup {"gid"}])
    /\ UNCHANGED <<row, grafana, synced>>

Forgotten(r) == [r EXCEPT !.stage = "commit", !.new.gid = None, !.changed = @ \cup {"gid"}]

\* deprovision_user: the id is forgotten however the call ends.
Deprovision(h) ==
    /\ req[h].stage = "delete"
    /\ IF account = req[h].new.gid
       THEN account' = None /\ orgRole' = None /\ member' = {}
       ELSE UNCHANGED <<account, orgRole, member>>
    /\ Answered(h, Forgotten(req[h]))
    /\ UNCHANGED <<row, accounts, teams, synced>>

\* A call that Grafana refuses, or that does not reach it.  Without an account the
\* provisioning ends; everything else that is refused is skipped.
Refuse(h) ==
    /\ LET r == req[h] IN
       \/ r.stage = "user" /\ Refused(h, [r EXCEPT !.stage = "commit"])
       \/ r.stage = "role" /\ Refused(h, [r EXCEPT !.stage = "list"])
       \/ r.stage = "list" /\ Refused(h, [r EXCEPT !.stage = "team"])
       \/ r.stage = "team" /\ Refused(h, [r EXCEPT !.stage = "members"])
       \/ r.stage = "members" /\ \E s \in r.left : Refused(h, [r EXCEPT !.left = @ \ {s}])
       \/ r.stage \in Stages \ {"delete", "commit"} /\ Raised(h)
       \/ r.stage = "delete" /\ Refused(h, Forgotten(r))
    /\ UNCHANGED <<row, grafana, synced>>

-----------------------------------------------------------------------------
\* The columns whose value differs from the one that was read are written.
Written(h) ==
    [c \in Columns |-> IF c \in req[h].changed THEN req[h].new[c] ELSE row[c]]

Verdict(h) ==
    IF req[h].disturbed THEN "no"
    ELSE IF ~req[h].new.active THEN synced
    ELSE IF req[h].unlisted THEN "unlisted" ELSE "yes"

Commit(h) ==
    /\ req[h].stage = "commit"
    /\ row' = Written(h)
    /\ synced' = Verdict(h)
    /\ req' = [req EXCEPT ![h] = Idle]
    /\ UNCHANGED <<grafana, breaks>>

\* The API stops, or the commit fails: what Grafana has done stays done.
Abort(h) ==
    /\ req[h] # Idle
    /\ Break(TRUE)
    /\ synced' = "no"
    /\ req' = [req EXCEPT ![h] = Idle]
    /\ UNCHANGED <<row, grafana>>

\* Another user of a site is provisioned.
OtherTeam(s) ==
    /\ teams' = teams \cup {s}
    /\ UNCHANGED <<row, account, accounts, orgRole, member, req, synced, breaks>>

Request(h) ==
    \/ \E role \in Role, site \in SiteScope \cup {None} :
           BeginCreate(h, role, site) \/ \E active \in BOOLEAN : BeginUpdate(h, role, site, active)
    \/ GetUser(h) \/ CreateAccount(h) \/ SetOrgRole(h) \/ ListTeams(h) \/ GetTeam(h)
    \/ \E s \in SiteScope : SyncMember(h, s)
    \/ Provisioned(h) \/ Deprovision(h) \/ Refuse(h) \/ Commit(h) \/ Abort(h)

Next == (\E h \in Handler : Request(h)) \/ \E s \in SiteScope : OtherTeam(s)

Spec == Init /\ [][Next]_vars

-----------------------------------------------------------------------------
(* Properties.                                                             *)

\* The account is as row r asks for, a team that was not listed apart.
Reflects(r, how) ==
    IF r.active
    THEN /\ account # None
         /\ r.gid = account
         /\ orgRole = _ROLE_MAP(r.role)
         /\ member = IF how = "yes" THEN {r.site} \ {None} ELSE {}
    ELSE account = None /\ r.gid = None

\* One request that provisions the user undisturbed repairs whatever failed calls,
\* overlapping and dying requests have left behind, and nothing but those breaks it
\* again: the account has the role of the row, is in no team but its site's, in that
\* one unless its team was not there when the teams were listed, and goes with the
\* user's deactivation.
InStep ==
    synced # "no" /\ (\A h \in Handler : req[h] = Idle) => Reflects(row, synced)

-----------------------------------------------------------------------------
(* Why it holds: a request that nothing disturbs is alone, and has brought  *)
(* the account as far as its stage says.                                   *)

Requests ==
    [stage : Stages, new : Row, changed : SUBSET Columns, id : Nat \cup {None},
     left : SUBSET SiteScope, target : SiteScope \cup {None},
     unlisted : BOOLEAN, disturbed : BOOLEAN]

TypeOK ==
    /\ row \in Row \cup {None}
    /\ account \in Nat \cup {None} /\ accounts \in Nat
    /\ orgRole \in {"Admin", "Editor", "Viewer", None}
    /\ member \subseteq teams /\ teams \subseteq SiteScope
    /\ req \in [Handler -> Requests \cup {Idle}]
    /\ \A h \in Handler : req[h].left \subseteq teams
    /\ synced \in {"no", "unlisted", "yes"}
    /\ breaks \in Nat

Brought(r) ==
    /\ \A c \in Columns \ r.changed : r.new[c] = row[c]
    /\ r.stage \notin {"delete", "commit"} => r.new.active
    /\ r.stage \in {"role", "list", "team", "members"} => account # None /\ r.id = account
    /\ r.stage \in {"list", "team", "members"} => orgRole = _ROLE_MAP(r.new.role)
    /\ r.stage = "team" => member \subseteq r.left
    /\ r.stage = "members" =>
           /\ r.target = r.new.site
           /\ member \subseteq r.left \cup {r.target}
           /\ IF r.unlisted THEN r.target \notin r.left \cup member
              ELSE r.target \in r.left \cup member \cup {None}
    /\ r.stage = "delete" => ~r.new.active /\ (synced # "no" => account = r.new.gid)

Undisturbed(h) ==
    req[h] # Idle /\ ~req[h].disturbed =>
        /\ \A g \in Handler \ {h} : req[g] = Idle
        /\ Brought(req[h])
        /\ req[h].stage = "commit" /\ Verdict(h) # "no" => Reflects(req[h].new, Verdict(h))

\* A row that is not there yet is written whole.
Whole(h) == req[h] # Idle /\ row = None => req[h].changed = Columns

IndInv == TypeOK /\ InStep /\ \A h \in Handler : Whole(h) /\ Undisturbed(h)

=============================================================================
