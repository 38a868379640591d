------------------------------- MODULE Access -------------------------------
(***************************************************************************)
(* The sessions of one account of the Fleet API (api/app/routers/auth.py   *)
(* and api/app/dependencies.py).  A session is a signed JWT that the API   *)
(* does not store: whether it is accepted follows from the account's row   *)
(* and from the table of revoked tokens.  A password change, a reset by an *)
(* administrator and a change of role, site or activity invalidate all     *)
(* sessions at once, by a time stamp in the row.                           *)
(*                                                                         *)
(* The stamp is taken while the request runs and stored at its commit; the *)
(* time a token is issued at counts whole seconds.  As in the other        *)
(* modules a request is a handler that reads, may wait, and commits.       *)
(***************************************************************************)
EXTENDS Naturals

CONSTANTS
    Token,     \* the JWTs of the account, by jti
    Password,
    Claims,    \* role and site_scope
    Handler,   \* request slots of the API
    MaxTime,   \* bound: the clock stops here
    Jose,      \* python-jose is installed; api/requirements.txt does not list it
    None       \* SQL NULL

ASSUME NoneAssumption == None \notin Token \cup Password \cup Claims \cup BOOLEAN \cup Nat
ASSUME MaxTimeAssumption == MaxTime \in Nat
ASSUME JoseAssumption == Jose \in BOOLEAN

VARIABLES
    \* The account's row in fleet_user, and the jtis in revoked_jwt.
    password, claims, active, validAfter, revoked,
    \* The tokens: the iat and the claims they carry.  History: when exactly they
    \* were issued, and the password they were issued for.
    iat, holds, issued, with,
    \* History: the tokens that some committed invalidation was meant for, and
    \* those whose login overlapped an invalidation.
    cut, overlapped,
    \* The clock, and the moment its current second began.
    now, second,
    \* The handlers.
    req

account == <<password, claims, active, validAfter>>
tokens  == <<iat, holds, issued, with, overlapped>>
clock   == <<now, second>>
vars    == <<account, revoked, tokens, cut, clock, req>>

Idle == [op |-> "none", stage |-> "idle", tok |-> None, password |-> None,
         claims |-> None, active |-> None, stamp |-> 0, clash |-> FALSE]

Requests == [op : {"login", "change", "reset", "update", "logout"},
             stage : {"read", "stamped"}, tok : Token \cup {None},
             password : Password \cup {None}, claims : Claims \cup {None},
             active : BOOLEAN \cup {None}, stamp : Nat, clash : BOOLEAN]

Minted(t) == iat[t] # None
Pending(h) == req[h].stage = "stamped"

-----------------------------------------------------------------------------
(* Who is let in.                                                          *)

Valid(t) ==
    /\ Minted(t)
    /\ t \notin revoked
    /\ active
    /\ iat[t] >= validAfter

\* Forward authentication of Grafana: the row's own role goes to Grafana, the
\* claims of the token are not compared.  The route imports jose before it
\* decodes the cookie; where that fails the answer is a 500.
GrafanaAccepts(t) == Jose /\ Valid(t)

\* Every route of the API.
Accepted(t) == Valid(t) /\ holds[t] = claims

-----------------------------------------------------------------------------
Init ==
    /\ password \in Password
    /\ claims \in Claims
    /\ active = TRUE
    /\ validAfter = 0
    /\ revoked = {}
    /\ iat = [t \in Token |-> None]
    /\ holds = [t \in Token |-> None]
    /\ issued = [t \in Token |-> None]
    /\ with = [t \in Token |-> None]
    /\ cut = {}
    /\ overlapped = {}
    /\ now = 1
    /\ second = 1
    /\ req = [h \in Handler |-> Idle]

\* The clock is read: no two readings agree.
ReadClock ==
    /\ now < MaxTime
    /\ now' = now + 1

TimePasses ==
    /\ ReadClock
    /\ second' \in {second, now'}
    /\ UNCHANGED <<account, revoked, tokens, cut, req>>

\* An idle handler takes a request r, having read the row.
Take(h, r) ==
    /\ req[h] = Idle
    /\ req' = [req EXCEPT ![h] = r]
    /\ UNCHANGED <<account, revoked, tokens, cut, clock>>

\* A request dies before its commit, or finds nothing to do.
Abort(h) ==
    /\ req[h] # Idle
    /\ req' = [req EXCEPT ![h] = Idle]
    /\ UNCHANGED <<account, revoked, tokens, cut, clock>>

-----------------------------------------------------------------------------
(* POST /auth/login.                                                       *)

\* The password is right for the row that was read.
BeginLogin(h) ==
    /\ active
    /\ Take(h, [Idle EXCEPT !.op = "login", !.stage = "read", !.password = password,
                            !.claims = claims, !.clash = \E g \in Handler : Pending(g)])

\* The token is signed with the claims that were read; only its audit event is
\* left to commit.
Mint(h, t) ==
    /\ req[h].op = "login"
    /\ ~Minted(t)
    /\ ReadClock
    /\ iat' = [iat EXCEPT ![t] = second]
    /\ issued' = [issued EXCEPT ![t] = now]
    /\ holds' = [holds EXCEPT ![t] = req[h].claims]
    /\ with' = [with EXCEPT ![t] = req[h].password]
    /\ overlapped' = IF req[h].clash THEN overlapped \cup {t} ELSE overlapped
    /\ req' = [req EXCEPT ![h] = Idle]
    /\ UNCHANGED <<account, revoked, cut, second>>

-----------------------------------------------------------------------------
(* Invalidations: _invalidate_all_user_tokens and what surrounds it.       *)

\* Faulty variant: the stamp lies ahead, to be safe within the second.
TakeStampAhead(h, r) ==
    /\ ReadClock
    /\ req' = [g \in Handler |->
                   IF g = h THEN [r EXCEPT !.stage = "stamped", !.stamp = now + 2]
                   ELSE IF req[g].op = "login" THEN [req[g] EXCEPT !.clash = TRUE]
                   ELSE req[g]]
    /\ UNCHANGED <<account, revoked, tokens, cut, second>>

\* Handler h, with request r, takes its stamp; a login under way overlaps it.
TakeStamp(h, r) ==
    /\ ReadClock
    /\ req' = [g \in Handler |->
                   IF g = h THEN [r EXCEPT !.stage = "stamped", !.stamp = now]
                   ELSE IF req[g].op = "login" THEN [req[g] EXCEPT !.clash = TRUE]
                   ELSE req[g]]
    /\ UNCHANGED <<account, revoked, tokens, cut, second>>

\* What every commit of an invalidation stores.
Invalidate(h) ==
    /\ Pending(h)
    /\ validAfter' = req[h].stamp
    /\ cut' = cut \cup {t \in Token : Minted(t)}
    /\ req' = [req EXCEPT ![h] = Idle]
    /\ UNCHANGED <<tokens, clock>>

\* POST /auth/change-password with token t, by somebody who knows the password.
BeginChange(h, t, p) ==
    /\ Accepted(t)
    /\ Take(h, [Idle EXCEPT !.op = "change", !.stage = "read", !.tok = t,
                            !.password = p])

\* The token is revoked too, unless another request has done so by now.
StampChange(h) ==
    /\ req[h].op = "change"
    /\ req[h].stage = "read"
    /\ TakeStamp(h, [req[h] EXCEPT !.tok = IF @ \in revoked THEN None ELSE @])

\* The primary key refuses a token that was revoked after that (Abort).
CommitChange(h) ==
    /\ req[h].op = "change"
    /\ req[h].tok \notin revoked
    /\ Invalidate(h)
    /\ password' = req[h].password
    /\ revoked' = revoked \cup ({req[h].tok} \ {None})
    /\ UNCHANGED <<claims, active>>

\* POST /auth/users/{id}/reset-password: what it reads does not matter.
BeginReset(h, p) ==
    /\ req[h] = Idle
    /\ TakeStamp(h, [Idle EXCEPT !.op = "reset", !.password = p])

\* Faulty variant: the reset keeps the sessions alive.
CommitResetQuietly(h) ==
    /\ req[h].op = "reset"
    /\ Pending(h)
    /\ password' = req[h].password
    /\ cut' = cut \cup {t \in Token : Minted(t)}
    /\ req' = [req EXCEPT ![h] = Idle]
    /\ UNCHANGED <<claims, active, validAfter, revoked, tokens, clock>>

CommitReset(h) ==
    /\ req[h].op = "reset"
    /\ Invalidate(h)
    /\ password' = req[h].password
    /\ UNCHANGED <<claims, active, revoked>>

\* PATCH /auth/users/{id}: the values that differ from the row that was read are
\* written, None stands for the others.  A patch that changes neither claims nor
\* activity touches nothing of a session and is left out.
BeginUpdate(h, c, a) ==
    /\ c # claims \/ a # active
    /\ Take(h, [Idle EXCEPT !.op = "update", !.stage = "read",
                            !.claims = IF c = claims THEN None ELSE c,
                            !.active = IF a = active THEN None ELSE a])

StampUpdate(h) == req[h].op = "update" /\ req[h].stage = "read" /\ TakeStamp(h, req[h])

\* Faulty variants: only a change of activity is taken for sensitive; a reactivation
\* lifts the stamp.
CommitUpdateQuietly(h) ==
    /\ req[h].op = "update"
    /\ Pending(h)
    /\ claims' = IF req[h].claims = None THEN claims ELSE req[h].claims
    /\ active' = IF req[h].active = None THEN active ELSE req[h].active
    /\ validAfter' = IF req[h].active = None THEN validAfter ELSE req[h].stamp
    /\ cut' = cut \cup {t \in Token : Minted(t)}
    /\ req' = [req EXCEPT ![h] = Idle]
    /\ UNCHANGED <<password, revoked, tokens, clock>>

CommitUpdateLifting(h) ==
    /\ req[h].op = "update"
    /\ Pending(h)
    /\ claims' = IF req[h].claims = None THEN claims ELSE req[h].claims
    /\ active' = IF req[h].active = None THEN active ELSE req[h].active
    /\ validAfter' = IF active' THEN 0 ELSE req[h].stamp
    /\ cut' = cut \cup {t \in Token : Minted(t)}
    /\ req' = [req EXCEPT ![h] = Idle]
    /\ UNCHANGED <<password, revoked, tokens, clock>>

CommitUpdate(h) ==
    /\ req[h].op = "update"
    /\ Invalidate(h)
    /\ claims' = IF req[h].claims = None THEN claims ELSE req[h].claims
    /\ active' = IF req[h].active = None THEN active ELSE req[h].active
    /\ UNCHANGED <<password, revoked>>

-----------------------------------------------------------------------------
(* POST /auth/logout with token t.  Where another request has revoked t by *)
(* now there is nothing to do, or the primary key refuses it (Abort).      *)

BeginLogout(h, t) ==
    /\ Accepted(t)
    /\ Take(h, [Idle EXCEPT !.op = "logout", !.stage = "read", !.tok = t])

CommitLogout(h) ==
    /\ req[h].op = "logout"
    /\ req[h].tok \notin revoked
    /\ revoked' = revoked \cup {req[h].tok}
    /\ req' = [req EXCEPT ![h] = Idle]
    /\ UNCHANGED <<account, tokens, cut, clock>>

-----------------------------------------------------------------------------
Request(h) ==
    \/ BeginLogin(h)
    \/ \E t \in Token : Mint(h, t) \/ BeginLogout(h, t)
    \/ \E p \in Password : BeginReset(h, p)
    \/ \E t \in Token, p \in Password : BeginChange(h, t, p)
    \/ \E c \in Claims, a \in BOOLEAN : BeginUpdate(h, c, a)
    \/ StampChange(h) \/ StampUpdate(h)
    \/ CommitChange(h) \/ CommitReset(h) \/ CommitUpdate(h) \/ CommitLogout(h)
    \/ Abort(h)

Next == TimePasses \/ \E h \in Handler : Request(h)

Spec == Init /\ [][Next]_vars

-----------------------------------------------------------------------------
(* Properties.  A login overlaps an invalidation when it reads the row or  *)
(* signs its token between the stamp and the commit of the invalidation.   *)

TypeOK ==
    /\ password \in Password
    /\ claims \in Claims
    /\ active \in BOOLEAN
    /\ validAfter \in Nat
    /\ revoked \subseteq Token
    /\ iat \in [Token -> Nat \cup {None}]
    /\ holds \in [Token -> Claims \cup {None}]
    /\ issued \in [Token -> Nat \cup {None}]
    /\ with \in [Token -> Password \cup {None}]
    /\ cut \subseteq Token
    /\ overlapped \subseteq Token
    /\ now \in Nat
    /\ second \in Nat
    /\ req \in [Handler -> Requests \cup {Idle}]

\* Whatever order concurrent invalidations commit in, a session that is let in
\* was opened after the last of them, with the password that is valid now;
\* unless its login overlapped one.
NoStaleSession ==
    \A t \in Token \ overlapped : Accepted(t) => t \notin cut /\ with[t] = password

\* An invalidation only hits the sessions opened before it: a later one is let
\* in until it is logged out, except when it was opened in the very second of
\* the stamp.
FreshSessionAccepted ==
    \A t \in Token \ (overlapped \cup cut \cup revoked) : Minted(t) =>
        Accepted(t) \/ (iat[t] < validAfter /\ validAfter < issued[t])

\* Grafana lets in nobody whom the API keeps out, although it never compares the
\* claims: a token whose claims are out of date is always older than the stamp.
GrafanaAgrees ==
    \A t \in Token \ overlapped : GrafanaAccepts(t) => Accepted(t)

\* A session that is shut out is never let in again: no reactivation, no return
\* to an earlier role and no late commit of an older stamp revives it.
DeadStaysDead ==
    [][\A t \in Token \ overlapped : Minted(t) /\ ~Accepted(t) => ~Accepted(t)']_vars

-----------------------------------------------------------------------------
(* The inductive invariant behind these properties.                        *)

\* What was read off the clock lies in the past.
ClockOK ==
    /\ second <= now
    /\ validAfter < now
    /\ \A h \in Handler : req[h].stamp < now
    /\ \A t \in Token : Minted(t) =>
           /\ issued[t] \in Nat /\ iat[t] \in Nat
           /\ iat[t] <= issued[t] /\ issued[t] < now

\* A login that overlaps nothing runs while nothing is pending, and the row is as
\* it was read.
LoginsOK ==
    \A h \in Handler : req[h].op = "login" =>
        /\ req[h].stage = "read"
        /\ ~req[h].clash => /\ \A g \in Handler : ~Pending(g)
                            /\ req[h].password = password
                            /\ req[h].claims = claims
                            /\ active

\* A pending stamp is later than every token without an overlap.
StampsOK ==
    \A h \in Handler : Pending(h) =>
        \A t \in Token \ overlapped : Minted(t) => issued[t] < req[h].stamp

RequestsOK ==
    \A h \in Handler :
        /\ req[h].op \in {"change", "logout"} => req[h].tok = None \/ Minted(req[h].tok)
        /\ req[h].op = "logout" => req[h].tok # None
        /\ req[h].op \in {"change", "reset"} => req[h].password \in Password

\* A token that was meant to die is older than the stamp; any other is as the
\* row is.
TokensOK ==
    /\ cut \cup revoked \subseteq {t \in Token : Minted(t)}
    /\ \A t \in cut \ overlapped : iat[t] < validAfter
    /\ \A t \in Token \ (overlapped \cup cut) : Minted(t) =>
           /\ with[t] = password
           /\ holds[t] = claims
           /\ active
           /\ validAfter < issued[t]

IndInv == TypeOK /\ ClockOK /\ LoginsOK /\ StampsOK /\ RequestsOK /\ TokensOK

=============================================================================
