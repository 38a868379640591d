----------------------------- MODULE Enrollment -----------------------------
(***************************************************************************)
(* How a device joins the fleet.  firstboot.sh, run by the systemd unit    *)
(* fleet-firstboot or by hand, trades the single-use provision token of    *)
(* the device's boot card for an identity (POST /devices/{id}/provision),  *)
(* installs it, starts the agent, registers its repository key and throws  *)
(* the token away.  An operator can also issue a device token and have     *)
(* Ansible install it.  The API knows a device by one hash: whatever was   *)
(* committed last.                                                         *)
(*                                                                         *)
(* A secret stands for the bundle of credentials generated together, and   *)
(* for the identity file that carries them.  The API answers before it     *)
(* commits: the exit of get_db runs once the response is sent.             *)
(***************************************************************************)

CONSTANTS
    Device,     \* devices with a row in the API
    ProvToken,  \* provision tokens with a row in the API
    Scope,      \* allowed_device_ids of each provision token
    Secret,     \* what generate_device_token() can return
    Handler,    \* request slots of the API
    Actors,     \* who acts: "unit" or "hand" runs firstboot.sh, "operator"
    Faults,     \* what may go wrong: "power", "api", "net", "expiry"
    None        \* SQL NULL, a missing file

Garbage == "garbage"   \* a 200 answer that is not an identity file

ASSUME ScopeAssumption == Scope \in [ProvToken -> SUBSET Device]
ASSUME NoneAssumption == None \notin Device \cup ProvToken \cup Secret \cup Handler
ASSUME GarbageAssumption == Garbage \notin Secret \cup {None}
ASSUME ModesAssumption == /\ Actors \subseteq {"unit", "hand", "operator"}
                          /\ Faults \subseteq {"power", "api", "net", "expiry"}

VARIABLES
    \* The tables provision_token and device.
    used, hash, registered, online,
    \* History: the device each secret was generated for, the secrets that were
    \* some device's, what each token was traded for, and the tokens that two
    \* requests held at once.
    issued, live, traded, overlapped,
    \* The handlers, and the one each device waits for.
    req, awaiting,
    \* The device's disk: boot card, identity file, download in progress.
    card, identity, incoming,
    \* The device's processes: firstboot.sh and who started it, whether the boot
    \* still has to run its unit, the agent's unit and its enablement.
    fb, by, boot, agent, enabled,
    \* The device token an operator was given and has not deployed.
    offered

tables  == <<used, hash, registered, online>>
history == <<issued, live, traded, overlapped>>
disk    == <<card, identity, incoming>>
script  == <<fb, by, boot>>
units   == <<agent, enabled>>
vars    == <<tables, history, req, awaiting, disk, script, units, offered>>

Idle == [op |-> "none", stage |-> "idle", dev |-> None, tok |-> None, sec |-> None]

Requests == [op : {"provision", "register", "issue"}, stage : {"working", "answered"},
             dev : Device, tok : ProvToken \cup {None}, sec : Secret \cup {None}]

-----------------------------------------------------------------------------
Init ==
    /\ used = [t \in ProvToken |-> FALSE]
    /\ hash = [d \in Device |-> None]
    /\ registered = [d \in Device |-> FALSE]
    /\ online = [d \in Device |-> FALSE]
    /\ issued = [s \in Secret |-> None]
    /\ live = {}
    /\ traded = {}
    /\ overlapped = {}
    /\ req = [h \in Handler |-> Idle]
    /\ awaiting = [d \in Device |-> None]
    /\ card \in [Device -> ProvToken]
    /\ identity = [d \in Device |-> None]
    /\ incoming = [d \in Device |-> None]
    /\ fb = [d \in Device |-> "off"]
    /\ by = [d \in Device |-> "unit"]
    /\ boot = [d \in Device |-> TRUE]
    /\ agent = [d \in Device |-> "stopped"]
    /\ enabled = [d \in Device |-> FALSE]
    /\ offered = [d \in Device |-> None]

-----------------------------------------------------------------------------
(* The handlers of the API.                                                *)

\* A request takes handler h.
Take(h, op, d, t, s) ==
    /\ req[h] = Idle
    /\ req' = [req EXCEPT ![h] = [op |-> op, stage |-> "working",
                                  dev |-> d, tok |-> t, sec |-> s]]

\* Handler h sends its answer, and commits next.
Reply(h, op) ==
    /\ req[h].op = op
    /\ req[h].stage = "working"
    /\ req' = [req EXCEPT ![h].stage = "answered"]

\* Handler h commits its transaction.
Commit(h, op) ==
    /\ req[h].op = op
    /\ req[h].stage = "answered"
    /\ req' = [req EXCEPT ![h] = Idle]

\* A secret no request was given before.
Generate(s, d) ==
    /\ issued[s] = None
    /\ issued' = [issued EXCEPT ![s] = d]

\* s becomes the credentials the API knows d by.
Store(s, d) ==
    /\ hash' = [hash EXCEPT ![d] = s]
    /\ live' = live \cup {s}

\* Faulty variant: the provision token is spent before the request is checked
\* through and survives a roll-back.
BurnToken(h) ==
    /\ "api" \in Faults
    /\ req[h] # Idle
    /\ req' = [req EXCEPT ![h] = Idle]
    /\ used' = IF req[h].op = "provision" THEN [used EXCEPT ![req[h].tok] = TRUE]
                                          ELSE used
    /\ UNCHANGED <<hash, registered, online, history, awaiting, disk, script, units,
                   offered>>

\* A request dies with the API, or its commit fails: nothing of it is stored.
Abort(h) ==
    /\ "api" \in Faults
    /\ req[h] # Idle
    /\ req' = [req EXCEPT ![h] = Idle]
    /\ UNCHANGED <<tables, history, awaiting, disk, script, units, offered>>

-----------------------------------------------------------------------------
(* firstboot.sh.                                                           *)

\* The script exits with an error and keeps the boot card.
Fail(d) ==
    /\ fb' = [fb EXCEPT ![d] = "off"]
    /\ awaiting' = [awaiting EXCEPT ![d] = None]
    /\ incoming' = [incoming EXCEPT ![d] = None]

\* The boot runs the unit, whose condition is the boot card.
StartUnit(d) ==
    /\ "unit" \in Actors
    /\ boot[d]
    /\ boot' = [boot EXCEPT ![d] = FALSE]
    /\ fb' = [fb EXCEPT ![d] = IF card[d] = None THEN "off" ELSE "asking"]
    /\ by' = [by EXCEPT ![d] = "unit"]
    /\ UNCHANGED <<tables, history, req, awaiting, disk, units, offered>>

\* Somebody runs the script on a booted device.
RunByHand(d) ==
    /\ "hand" \in Actors
    /\ "unit" \in Actors => ~boot[d]
    /\ fb[d] = "off"
    /\ card[d] # None
    /\ fb' = [fb EXCEPT ![d] = "asking"]
    /\ by' = [by EXCEPT ![d] = "hand"]
    /\ UNCHANGED <<tables, history, req, awaiting, disk, boot, units, offered>>

\* The script is at the curl of stage p and no request of it is outstanding.
Posts(d, p) == fb[d] = p /\ awaiting[d] = None

\* Faulty variant: the used_at check is missing.
ScopeOnly(d) == d \in Scope[card[d]]

\* The checks of provision_device that read committed state.
MayProvision(d) == d \in Scope[card[d]] /\ ~used[card[d]]

\* The request passes its checks; used_at is only written at the commit.
BeginProvision(h, d, s) ==
    /\ Posts(d, "asking")
    /\ MayProvision(d)
    /\ Generate(s, d)
    /\ Take(h, "provision", d, card[d], s)
    /\ awaiting' = [awaiting EXCEPT ![d] = h]
    /\ overlapped' = IF \E g \in Handler : req[g].tok = card[d]
                     THEN overlapped \cup {card[d]} ELSE overlapped
    /\ UNCHANGED <<tables, live, traded, disk, script, units, offered>>

\* 409, 403, or 401 for a token older than 72 hours: curl does not retry these.
RefuseProvision(d) ==
    /\ Posts(d, "asking")
    /\ ~MayProvision(d) \/ "expiry" \in Faults
    /\ Fail(d)
    /\ UNCHANGED <<tables, history, req, card, identity, by, boot, units, offered>>

\* The UPDATE of used_at is flushed with the next query and locks the token's
\* row: a second request that read it unused waits here for the first to commit,
\* and goes on.  The identity reaches the device if it still waits for this answer.
AnswerProvision(h) ==
    LET d == req[h].dev IN
    /\ Reply(h, "provision")
    /\ \A g \in Handler : req[g].tok = req[h].tok => req[g].stage = "working"
    /\ IF awaiting[d] = h
       THEN /\ incoming' = [incoming EXCEPT ![d] = req[h].sec]
            /\ fb' = [fb EXCEPT ![d] = "checking"]
            /\ awaiting' = [awaiting EXCEPT ![d] = None]
       ELSE UNCHANGED <<incoming, fb, awaiting>>
    /\ UNCHANGED <<tables, history, card, identity, by, boot, units, offered>>

\* One transaction: used_at, the new hash, the audit event.
CommitProvision(h) ==
    /\ Commit(h, "provision")
    /\ used' = [used EXCEPT ![req[h].tok] = TRUE]
    /\ Store(req[h].sec, req[h].dev)
    /\ traded' = traded \cup {<<req[h].tok, req[h].sec>>}
    /\ UNCHANGED <<registered, online, issued, overlapped, awaiting, disk, script,
                   units, offered>>

\* curl gives up after --max-time, on a lost connection or on a 5xx: it retries,
\* or has used its retries up and the script fails.
GiveUp(d) ==
    /\ Faults \cap {"api", "net"} # {}
    /\ awaiting[d] # None
    /\ \/ awaiting' = [awaiting EXCEPT ![d] = None] /\ UNCHANGED <<fb, incoming>>
       \/ Fail(d)
    /\ UNCHANGED <<tables, history, req, card, identity, by, boot, units, offered>>

\* Something between device and API answers 200 in its place.
BadAnswer(d) ==
    /\ "net" \in Faults
    /\ fb[d] = "asking"
    /\ awaiting[d] # None
    /\ awaiting' = [awaiting EXCEPT ![d] = None]
    /\ incoming' = [incoming EXCEPT ![d] = Garbage]
    /\ fb' = [fb EXCEPT ![d] = "checking"]
    /\ UNCHANGED <<tables, history, req, card, identity, by, boot, units, offered>>

\* Faulty variant: whatever was downloaded is moved in place.
InstallUnchecked(d) ==
    /\ fb[d] = "checking"
    /\ identity' = [identity EXCEPT ![d] = incoming[d]]
    /\ incoming' = [incoming EXCEPT ![d] = None]
    /\ fb' = [fb EXCEPT ![d] = "installed"]
    /\ UNCHANGED <<tables, history, req, awaiting, card, by, boot, units, offered>>

\* The download is parsed before it is moved in place.
Install(d) ==
    /\ fb[d] = "checking"
    /\ incoming' = [incoming EXCEPT ![d] = None]
    /\ IF incoming[d] = Garbage
       THEN fb' = [fb EXCEPT ![d] = "off"] /\ UNCHANGED identity
       ELSE /\ identity' = [identity EXCEPT ![d] = incoming[d]]
            /\ fb' = [fb EXCEPT ![d] = "installed"]
    /\ UNCHANGED <<tables, history, req, awaiting, card, by, boot, units, offered>>

\* The agent's unit is asked to run.
Queue(d) ==
    /\ enabled' = [enabled EXCEPT ![d] = TRUE]
    /\ agent' = [agent EXCEPT ![d] = IF @ = "running" THEN @ ELSE "queued"]

\* systemctl enable --now: both units are enabled, their start jobs queued, and
\* the script waits for the jobs.
EnableServices(d) ==
    /\ fb[d] = "installed"
    /\ Queue(d)
    /\ fb' = [fb EXCEPT ![d] = "starting"]
    /\ UNCHANGED <<tables, history, req, awaiting, disk, by, boot, offered>>

\* Before=fleet-agent.service: while the oneshot unit has a job, to come or
\* running, the agent's job waits.
UnitHasJob(d) ==
    "unit" \in Actors /\ (boot[d] \/ (fb[d] # "off" /\ by[d] = "unit"))

\* Faulty variant: the agent's unit also requires that firstboot has succeeded.
AgentStartsAfterSuccess(d) ==
    /\ agent[d] = "queued"
    /\ ~UnitHasJob(d)
    /\ card[d] = None
    /\ agent' = [agent EXCEPT ![d] = "running"]
    /\ UNCHANGED <<tables, history, req, awaiting, disk, script, enabled, offered>>

AgentStarts(d) ==
    /\ agent[d] = "queued"
    /\ ~UnitHasJob(d)
    /\ agent' = [agent EXCEPT ![d] = "running"]
    /\ UNCHANGED <<tables, history, req, awaiting, disk, script, enabled, offered>>

\* The start job is done: systemctl returns.
ServicesUp(d) ==
    /\ fb[d] = "starting"
    /\ agent[d] = "running"
    /\ fb' = [fb EXCEPT ![d] = "keying"]
    /\ UNCHANGED <<tables, history, req, awaiting, disk, by, boot, units, offered>>

\* POST repo-key/self is authenticated by the hash the API has now.
BeginRegister(h, d) ==
    /\ Posts(d, "keying")
    /\ hash[d] = identity[d]
    /\ Take(h, "register", d, None, None)
    /\ awaiting' = [awaiting EXCEPT ![d] = h]
    /\ UNCHANGED <<tables, history, disk, script, units, offered>>

\* Faulty variant: the script takes a 401 for an answer.
IgnoreRefusal(d) ==
    /\ Posts(d, "keying")
    /\ hash[d] # identity[d]
    /\ fb' = [fb EXCEPT ![d] = "keyed"]
    /\ UNCHANGED <<tables, history, req, awaiting, disk, by, boot, units, offered>>

RefuseRegister(d) ==
    /\ Posts(d, "keying")
    /\ hash[d] # identity[d]
    /\ Fail(d)
    /\ UNCHANGED <<tables, history, req, card, identity, by, boot, units, offered>>

AnswerRegister(h) ==
    LET d == req[h].dev IN
    /\ Reply(h, "register")
    /\ IF awaiting[d] = h
       THEN /\ fb' = [fb EXCEPT ![d] = "keyed"]
            /\ awaiting' = [awaiting EXCEPT ![d] = None]
       ELSE UNCHANGED <<fb, awaiting>>
    /\ UNCHANGED <<tables, history, disk, by, boot, units, offered>>

CommitRegister(h) ==
    /\ Commit(h, "register")
    /\ registered' = [registered EXCEPT ![req[h].dev] = TRUE]
    /\ UNCHANGED <<used, hash, online, history, awaiting, disk, script, units, offered>>

\* The APT credentials are written, the boot card's token removed and the unit
\* disabled.
Finish(d) ==
    /\ fb[d] = "keyed"
    /\ card' = [card EXCEPT ![d] = None]
    /\ fb' = [fb EXCEPT ![d] = "off"]
    /\ UNCHANGED <<tables, history, req, awaiting, identity, incoming, by, boot,
                   units, offered>>

\* TimeoutStartSec: a unit that waits 300 s is killed.
KillUnit(d) ==
    /\ fb[d] # "off"
    /\ by[d] = "unit"
    /\ fb[d] = "starting" \/ Faults # {}
    /\ Fail(d)
    /\ UNCHANGED <<tables, history, req, card, identity, by, boot, units, offered>>

\* The device loses power and boots again.
PowerLoss(d) ==
    /\ "power" \in Faults
    /\ Fail(d)
    /\ boot' = [boot EXCEPT ![d] = TRUE]
    /\ agent' = [agent EXCEPT ![d] = IF enabled[d] THEN "queued" ELSE "stopped"]
    /\ UNCHANGED <<tables, history, req, card, identity, by, enabled, offered>>

\* An operator puts a new token file on the boot card of an idle device.
NewCard(d, t) ==
    /\ "operator" \in Actors
    /\ fb[d] = "off"
    /\ card' = [card EXCEPT ![d] = t]
    /\ UNCHANGED <<tables, history, req, awaiting, identity, incoming, script, units,
                   offered>>

-----------------------------------------------------------------------------
(* POST /devices/{id}/token with an operator's JWT, and Ansible.           *)

\* Faulty variant: the route hands out a token it gave before.
BeginIssueAgain(h, d, s) ==
    /\ "operator" \in Actors
    /\ issued[s] \in {None, d}
    /\ issued' = [issued EXCEPT ![s] = d]
    /\ Take(h, "issue", d, None, s)
    /\ UNCHANGED <<tables, live, traded, overlapped, awaiting, disk, script, units,
                   offered>>

BeginIssue(h, d, s) ==
    /\ "operator" \in Actors
    /\ Generate(s, d)
    /\ Take(h, "issue", d, None, s)
    /\ UNCHANGED <<tables, live, traded, overlapped, awaiting, disk, script, units,
                   offered>>

AnswerIssue(h) ==
    /\ Reply(h, "issue")
    /\ offered' = [offered EXCEPT ![req[h].dev] = req[h].sec]
    /\ UNCHANGED <<tables, history, awaiting, disk, script, units>>

CommitIssue(h) ==
    /\ Commit(h, "issue")
    /\ Store(req[h].sec, req[h].dev)
    /\ UNCHANGED <<used, registered, online, issued, traded, overlapped, awaiting, disk,
                   script, units, offered>>

\* The role fleet_agent writes the identity file and starts the agent.
Deploy(d) ==
    /\ offered[d] # None
    /\ identity' = [identity EXCEPT ![d] = offered[d]]
    /\ offered' = [offered EXCEPT ![d] = None]
    /\ Queue(d)
    /\ UNCHANGED <<tables, history, req, awaiting, card, incoming, script>>

-----------------------------------------------------------------------------
(* Heartbeats.                                                             *)

\* POST heartbeat; an identity the API does not know gets a 401, and the script
\* goes on.
Heartbeat(d) ==
    /\ agent[d] = "running"
    /\ identity[d] # None
    /\ identity[d] = hash[d]
    /\ online' = [online EXCEPT ![d] = TRUE]
    /\ UNCHANGED <<used, hash, registered, history, req, awaiting, disk, script, units,
                   offered>>

\* last_seen is older than 90 s.
Silence(d) ==
    /\ online[d]
    /\ online' = [online EXCEPT ![d] = FALSE]
    /\ UNCHANGED <<used, hash, registered, history, req, awaiting, disk, script, units,
                   offered>>

-----------------------------------------------------------------------------
DeviceStep(d) ==
    \/ StartUnit(d)       \/ RunByHand(d)     \/ RefuseProvision(d)
    \/ GiveUp(d)          \/ BadAnswer(d)     \/ Install(d)
    \/ EnableServices(d)  \/ AgentStarts(d)   \/ ServicesUp(d)
    \/ RefuseRegister(d)  \/ Finish(d)        \/ KillUnit(d)
    \/ PowerLoss(d)       \/ Deploy(d)        \/ Heartbeat(d)
    \/ Silence(d)
    \/ \E t \in ProvToken : NewCard(d, t)

HandlerStep(h) ==
    \/ \E d \in Device : BeginRegister(h, d)
    \/ \E d \in Device, s \in Secret : BeginProvision(h, d, s) \/ BeginIssue(h, d, s)
    \/ AnswerProvision(h) \/ CommitProvision(h)
    \/ AnswerRegister(h)  \/ CommitRegister(h)
    \/ AnswerIssue(h)     \/ CommitIssue(h)
    \/ Abort(h)

Next == \/ \E d \in Device : DeviceStep(d)
        \/ \E h \in Handler : HandlerStep(h)

Spec == Init /\ [][Next]_vars

\* What the script and the API do next when nothing goes wrong.
Advance(d) ==
    \/ StartUnit(d)  \/ RefuseProvision(d) \/ Install(d) \/ EnableServices(d)
    \/ ServicesUp(d) \/ RefuseRegister(d)  \/ Finish(d)
    \/ \E h \in Handler : \/ BeginRegister(h, d)
                          \/ \E s \in Secret : BeginProvision(h, d, s)

Serve(h) == \/ AnswerProvision(h) \/ CommitProvision(h) \/ AnswerRegister(h)
            \/ CommitRegister(h)  \/ AnswerIssue(h)     \/ CommitIssue(h)

\* The script and the API go on; systemd enforces its time-out and starts what
\* is queued, and the timer beats every 30 s, however often power is lost.
Fairness ==
    /\ \A d \in Device : /\ WF_vars(Advance(d))
                         /\ SF_vars(KillUnit(d))
                         /\ SF_vars(AgentStarts(d))
                         /\ SF_vars(Heartbeat(d))
    /\ \A h \in Handler : WF_vars(Serve(h))

FairSpec == Spec /\ Fairness

-----------------------------------------------------------------------------
(* Properties.                                                             *)

TypeOK ==
    /\ used \in [ProvToken -> BOOLEAN]
    /\ hash \in [Device -> Secret \cup {None}]
    /\ registered \in [Device -> BOOLEAN]
    /\ online \in [Device -> BOOLEAN]
    /\ issued \in [Secret -> Device \cup {None}]
    /\ live \subseteq Secret
    /\ traded \subseteq ProvToken \X Secret
    /\ overlapped \subseteq ProvToken
    /\ req \in [Handler -> Requests \cup {Idle}]
    /\ awaiting \in [Device -> Handler \cup {None}]
    /\ card \in [Device -> ProvToken \cup {None}]
    /\ identity \in [Device -> Secret \cup {None}]
    /\ incoming \in [Device -> Secret \cup {Garbage, None}]
    /\ fb \in [Device -> {"off", "asking", "checking", "installed", "starting",
                          "keying", "keyed"}]
    /\ by \in [Device -> {"unit", "hand"}]
    /\ boot \in [Device -> BOOLEAN]
    /\ agent \in [Device -> {"stopped", "queued", "running"}]
    /\ enabled \in [Device -> BOOLEAN]
    /\ offered \in [Device -> Secret \cup {None}]

\* The identity file of a device, whole or replaced, half way through a boot or
\* a power loss, is always one the API generated for that very device.
IdentityIsItsOwn ==
    \A d \in Device : identity[d] # None =>
        identity[d] \in {s \in Secret : issued[s] = d}

\* A provision token is traded twice only if two requests held it at once, as
\* they do when curl retries a request the API still works on.
SingleUseUnlessOverlapping ==
    \A p, q \in traded : p[1] = q[1] => p = q \/ p[1] \in overlapped

\* A provision token is not spent for nothing: once used, credentials generated
\* for a device in its scope were stored in exchange.
UsedTokenGaveCredentials ==
    \A t \in ProvToken : used[t] =>
        \E p \in traded : p[1] = t /\ p[2] \in live /\ issued[p[2]] \in Scope[t]

\* A device throws its provision token away only when the API knows it by
\* credentials and its agent starts with every boot.
FinishedIsKnown ==
    \A d \in Device : card[d] = None => hash[d] # None /\ enabled[d]

\* Credentials that were replaced are dead: no late commit of an older request
\* brings them back.
ReplacedStaysDead ==
    [][\A s \in live : hash[issued[s]] # s => hash'[issued[s]] # s]_tables

\* A device whose installed identity is the one the API knows reports in, even
\* when firstboot hangs and is killed; unless that identity is replaced first.
LiveDeviceReports ==
    \A d \in Device : enabled[d] /\ identity[d] # None /\ identity[d] = hash[d]
                          ~> online[d] \/ identity[d] # hash[d]

-----------------------------------------------------------------------------
(* The inductive invariant behind these properties.                        *)

\* A request holds a secret of its own, generated for its device and not yet
\* stored; a provisioning request's token is scoped to that device.
RequestsOK ==
    /\ \A h \in Handler :
           /\ req[h].op \in {"provision", "issue"} =>
                  req[h].sec \in Secret \ live /\ issued[req[h].sec] = req[h].dev
           /\ req[h].op = "provision" =>
                  req[h].tok \in ProvToken /\ req[h].dev \in Scope[req[h].tok]
           /\ req[h].tok # None => req[h].op = "provision"
           /\ req[h].sec # None => req[h].op \in {"provision", "issue"}
    /\ \A g, h \in Handler : req[g].sec = req[h].sec /\ req[g].sec # None => g = h

\* What the API stores was generated, for the device it is stored for.
StoredOK ==
    /\ \A s \in live : issued[s] \in Device
    /\ \A d \in Device : hash[d] # None => hash[d] \in live /\ issued[hash[d]] = d

\* So was what reaches the device; no script runs before the unit's turn in a
\* boot; the script waits only at its two curls, for
\* the answer to that curl, and has an identity after the installation.
DeviceOK(d) ==
    /\ awaiting[d] # None => fb[d] \in {"asking", "keying"}
    /\ \A h \in Handler : awaiting[d] = h /\ req[h].dev = d =>
           /\ req[h].op = "provision" => fb[d] = "asking"
           /\ req[h].op = "register" => fb[d] = "keying"
    /\ fb[d] # "off" => card[d] # None /\ ("unit" \in Actors => ~boot[d])
    /\ fb[d] = "checking" => incoming[d] # None
    /\ incoming[d] \in Secret => issued[incoming[d]] = d
    /\ offered[d] # None => issued[offered[d]] = d
    /\ fb[d] \in {"installed", "starting", "keying", "keyed"} => identity[d] # None

DevicesOK == \A d \in Device : DeviceOK(d)

\* A token in the hands of a request was traded, or is in other hands, only
\* after an overlap.
TokensOK ==
    /\ \A p \in traded : used[p[1]]
    /\ \A h \in Handler : req[h].tok # None /\ used[req[h].tok] =>
                               req[h].tok \in overlapped
    /\ \A g, h \in Handler : req[g].tok = req[h].tok /\ req[g].tok # None /\ g # h =>
                                  req[g].tok \in overlapped

\* From the start of the agent on it is enabled; a registration is only accepted
\* for a device the API knows.
ProgressOK ==
    /\ \A d \in Device :
           /\ fb[d] \in {"starting", "keying", "keyed"} => enabled[d]
           /\ fb[d] = "keyed" => hash[d] # None
    /\ \A h \in Handler : req[h].op = "register" =>
           hash[req[h].dev] # None /\ enabled[req[h].dev]

IndInv ==
    /\ TypeOK /\ RequestsOK /\ StoredOK /\ DevicesOK /\ TokensOK /\ ProgressOK
    /\ IdentityIsItsOwn /\ SingleUseUnlessOverlapping /\ UsedTokenGaveCredentials
    /\ FinishedIsKnown

-----------------------------------------------------------------------------
(* What the repository says and the code does not do.                      *)

\* firstboot.sh "removes the provision token from disk": the script comes to its
\* end when nothing goes wrong.
TokenLeavesDisk == \A d \in Device : <>(card[d] = None)

=============================================================================
