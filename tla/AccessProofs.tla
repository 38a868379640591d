---------------------------- MODULE AccessProofs ----------------------------
(***************************************************************************)
(* Theorems about Access for every set of tokens, passwords, claims and    *)
(* handlers, and for every bound on the clock.  The invariant IndInv rests *)
(* on one observation: a stamp is later than every token whose login did   *)
(* not overlap it, and a login that overlaps nothing sees no row change    *)
(* between its read and its token.                                         *)
(***************************************************************************)
EXTENDS Access, TLAPS

USE NoneAssumption, MaxTimeAssumption

-----------------------------------------------------------------------------
(* The steps by their effect.                                              *)

\* A request that may take its stamp.
Draft == [op : {"change", "reset", "update"}, stage : {"idle", "read"},
          tok : Token \cup {None}, password : Password \cup {None},
          claims : Claims \cup {None}, active : BOOLEAN \cup {None},
          stamp : Nat, clash : BOOLEAN]

Stamping(h) == \E r \in Draft :
    /\ r.op = "change" => r.tok = None \/ Minted(r.tok)
    /\ r.op \in {"change", "reset"} => r.password \in Password
    /\ TakeStamp(h, r)

\* A request other than a login reads the row.
Reading(h) == \E r \in Requests :
    /\ r.op \in {"change", "update", "logout"} /\ r.stage = "read" /\ r.stamp = 0
    /\ r.op \in {"change", "logout"} => r.tok = None \/ Minted(r.tok)
    /\ r.op = "logout" => r.tok # None
    /\ r.op = "change" => r.password \in Password
    /\ Take(h, r)

Committing(h) == CommitChange(h) \/ CommitReset(h) \/ CommitUpdate(h)

\* The fields of an idle handler.
LEMMA IdleFields ==
  /\ Idle.op = "none" /\ Idle.stage = "idle" /\ Idle.stamp = 0 /\ Idle.clash = FALSE
  /\ Idle.tok = None /\ Idle.password = None /\ Idle.claims = None /\ Idle.active = None
  BY DEF Idle

\* The fields of a busy one.
LEMMA BusyFields ==
  ASSUME TypeOK, NEW h \in Handler, req[h] # Idle
  PROVE  /\ req[h] \in Requests
         /\ req[h].op \in {"login", "change", "reset", "update", "logout"}
         /\ req[h].stage \in {"read", "stamped"}
         /\ req[h].tok \in Token \cup {None}
         /\ req[h].password \in Password \cup {None}
         /\ req[h].claims \in Claims \cup {None}
         /\ req[h].active \in BOOLEAN \cup {None}
         /\ req[h].stamp \in Nat
         /\ req[h].clash \in BOOLEAN
  BY DEF TypeOK, Requests

\* The token a request is about.
LEMMA NamedToken ==
  ASSUME TypeOK, RequestsOK, NEW h \in Handler
  PROVE  /\ req[h].tok \in Token \cup {None}
         /\ req[h].op \in {"change", "logout"} => req[h].tok = None \/ Minted(req[h].tok)
         /\ req[h].op = "logout" => req[h].tok \in Token
  <1>1. req[h].tok \in Token \cup {None}
    BY BusyFields, IdleFields
  <1> QED
    BY <1>1 DEF RequestsOK

\* Every step of a handler has one of these effects.
LEMMA RequestKinds ==
  ASSUME TypeOK, RequestsOK, NEW h \in Handler, Request(h)
  PROVE  \/ BeginLogin(h) \/ (\E t \in Token : Mint(h, t)) \/ Reading(h) \/ Stamping(h)
         \/ Committing(h) \/ CommitLogout(h) \/ Abort(h)
  <1>1. ASSUME NEW t \in Token, BeginLogout(h, t) PROVE Reading(h)
    <2> DEFINE r == [Idle EXCEPT !.op = "logout", !.stage = "read", !.tok = t]
    <2>1. r \in Requests /\ r.op = "logout" /\ r.stage = "read" /\ r.tok = t /\ r.stamp = 0
      BY DEF Idle, Requests
    <2>2. Take(h, r) /\ Minted(t)
      BY <1>1 DEF BeginLogout, Accepted, Valid
    <2> HIDE DEF r
    <2> QED
      BY <2>1, <2>2 DEF Reading
  <1>2. ASSUME NEW t \in Token, NEW p \in Password, BeginChange(h, t, p) PROVE Reading(h)
    <2> DEFINE r == [Idle EXCEPT !.op = "change", !.stage = "read", !.tok = t,
                                 !.password = p]
    <2>1. /\ r \in Requests /\ r.op = "change" /\ r.stage = "read" /\ r.tok = t
          /\ r.password = p /\ r.stamp = 0
      BY DEF Idle, Requests
    <2>2. Take(h, r) /\ Minted(t)
      BY <1>2 DEF BeginChange, Accepted, Valid
    <2> HIDE DEF r
    <2> QED
      BY <2>1, <2>2 DEF Reading
  <1>3. ASSUME NEW c \in Claims, NEW a \in BOOLEAN, BeginUpdate(h, c, a) PROVE Reading(h)
    <2> DEFINE r == [Idle EXCEPT !.op = "update", !.stage = "read",
                                 !.claims = IF c = claims THEN None ELSE c,
                                 !.active = IF a = active THEN None ELSE a]
    <2>1. r \in Requests /\ r.op = "update" /\ r.stage = "read" /\ r.stamp = 0
      BY DEF Idle, Requests
    <2>2. Take(h, r)
      BY <1>3 DEF BeginUpdate
    <2> HIDE DEF r
    <2> QED
      BY <2>1, <2>2 DEF Reading
  <1>4. ASSUME NEW p \in Password, BeginReset(h, p) PROVE Stamping(h)
    <2> DEFINE r == [Idle EXCEPT !.op = "reset", !.password = p]
    <2>1. r \in Draft /\ r.op = "reset" /\ r.password = p
      BY DEF Idle, Draft
    <2>2. TakeStamp(h, r)
      BY <1>4 DEF BeginReset
    <2> HIDE DEF r
    <2> QED
      BY <2>1, <2>2 DEF Stamping
  <1>5. ASSUME StampUpdate(h) PROVE Stamping(h)
    <2>1. req[h] # Idle /\ req[h].op = "update" /\ req[h].stage = "read"
      BY <1>5, IdleFields DEF StampUpdate
    <2>2. req[h] \in Draft
      BY <2>1, BusyFields DEF Draft, Requests
    <2> QED
      BY <1>5, <2>1, <2>2 DEF StampUpdate, Stamping
  <1>6. ASSUME StampChange(h) PROVE Stamping(h)
    <2> DEFINE r == [req[h] EXCEPT !.tok = IF @ \in revoked THEN None ELSE @]
    <2>1. req[h] # Idle /\ req[h].op = "change" /\ req[h].stage = "read"
      BY <1>6, IdleFields DEF StampChange
    <2>2. req[h] \in Draft
      BY <2>1, BusyFields DEF Draft, Requests
    <2>3. r \in Draft /\ r.tok \in {None, req[h].tok} /\ r.password = req[h].password
      BY <2>2 DEF Draft
    <2>4. TakeStamp(h, r)
      BY <1>6 DEF StampChange
    <2> HIDE DEF r
    <2> QED
      BY <2>1, <2>3, <2>4 DEF Stamping, RequestsOK
  <1> QED
    BY <1>1, <1>2, <1>3, <1>4, <1>5, <1>6 DEF Request, Committing

-----------------------------------------------------------------------------
\* The fresh row satisfies the invariant.
LEMMA InitIndInv == Init => IndInv
  BY IdleFields
  DEF Init, IndInv, TypeOK, ClockOK, LoginsOK, StampsOK, RequestsOK, TokensOK, Minted,
      Pending

\* Types are kept by every step.
LEMMA TypeStep == TypeOK /\ RequestsOK /\ [Next]_vars => TypeOK'
  <1> SUFFICES ASSUME TypeOK, RequestsOK, [Next]_vars PROVE TypeOK'
    OBVIOUS
  <1> USE DEF TypeOK, account, tokens, clock
  <1>1. ASSUME NEW h \in Handler, Request(h) PROVE TypeOK'
    <2>1. CASE BeginLogin(h)
      <3> DEFINE r == [Idle EXCEPT !.op = "login", !.stage = "read",
                                   !.password = password, !.claims = claims,
                                   !.clash = \E g \in Handler : Pending(g)]
      <3>1. r \in Requests
        BY DEF Idle, Requests
      <3>2. Take(h, r)
        BY <2>1 DEF BeginLogin
      <3> HIDE DEF r
      <3> QED
        BY <3>1, <3>2 DEF Take
    <2>2. ASSUME NEW t \in Token, Mint(h, t) PROVE TypeOK'
      <3>1. /\ req[h].claims \in Claims \cup {None}
            /\ req[h].password \in Password \cup {None}
        BY <2>2, BusyFields, IdleFields DEF Mint
      <3> QED
        BY <2>2, <3>1 DEF Mint, ReadClock
    <2>3. CASE Reading(h)
      BY <2>3 DEF Reading, Take
    <2>4. CASE Stamping(h)
      <3>1. PICK r \in Draft : TakeStamp(h, r)
        BY <2>4 DEF Stamping
      <3>2. [r EXCEPT !.stage = "stamped", !.stamp = now] \in Requests
        BY DEF Draft, Requests
      <3>3. ASSUME NEW g \in Handler, req[g].op = "login"
            PROVE  [req[g] EXCEPT !.clash = TRUE] \in Requests
        <4>1. req[g] \in Requests
          BY <3>3, BusyFields, IdleFields
        <4> QED
          BY <4>1 DEF Requests
      <3>4. req' \in [Handler -> Requests \cup {Idle}]
        BY <3>1, <3>2, <3>3 DEF TakeStamp
      <3> QED
        BY <3>1, <3>4 DEF TakeStamp, ReadClock
    <2>5. CASE Committing(h)
      <3>1. /\ req[h].stamp \in Nat /\ req[h].tok \in Token \cup {None}
            /\ req[h].claims \in Claims \cup {None}
            /\ req[h].active \in BOOLEAN \cup {None}
        BY <2>5, BusyFields, IdleFields
        DEF Committing, CommitChange, CommitReset, CommitUpdate
      <3>2. CASE CommitChange(h)
        BY <3>1, <3>2 DEF CommitChange, Invalidate, RequestsOK
      <3>3. CASE CommitReset(h)
        BY <3>1, <3>3 DEF CommitReset, Invalidate, RequestsOK
      <3>4. CASE CommitUpdate(h)
        <4>1. claims' \in Claims /\ active' \in BOOLEAN
          BY <3>1, <3>4 DEF CommitUpdate
        <4> QED
          BY <3>1, <3>4, <4>1 DEF CommitUpdate, Invalidate
      <3> QED
        BY <2>5, <3>2, <3>3, <3>4 DEF Committing
    <2>6. CASE CommitLogout(h)
      BY <2>6, NamedToken DEF CommitLogout
    <2>7. CASE Abort(h)
      BY <2>7 DEF Abort
    <2> HIDE DEF TypeOK
    <2> QED
      BY <1>1, <2>1, <2>2, <2>3, <2>4, <2>5, <2>6, <2>7, RequestKinds
  <1>2. CASE TimePasses
    BY <1>2 DEF TimePasses, ReadClock
  <1>3. CASE UNCHANGED vars
    BY <1>3 DEF vars
  <1> HIDE DEF TypeOK
  <1> QED
    BY <1>1, <1>2, <1>3 DEF Next

-----------------------------------------------------------------------------
(* What a step does to the requests and to the tokens, seen from outside.  *)

\* No step goes back in time, moves a token or forgets what was cut.
Stable ==
    /\ now <= now'
    /\ \A t \in Token : Minted(t) => /\ iat'[t] = iat[t] /\ issued'[t] = issued[t]
                                     /\ holds'[t] = holds[t] /\ with'[t] = with[t]
                                     /\ t \in overlapped' <=> t \in overlapped
    /\ cut \subseteq cut'
    /\ revoked \subseteq revoked'

\* Every step is stable.
LEMMA StableStep == TypeOK /\ RequestsOK /\ [Next]_vars => Stable
  <1> SUFFICES ASSUME TypeOK, RequestsOK, [Next]_vars PROVE Stable
    OBVIOUS
  <1> USE DEF Stable, TypeOK, account, tokens, clock
  <1>1. ASSUME NEW h \in Handler, Request(h) PROVE Stable
    <2>1. CASE BeginLogin(h) \/ Reading(h)
      BY <2>1 DEF BeginLogin, Reading, Take
    <2>2. ASSUME NEW t \in Token, Mint(h, t) PROVE Stable
      BY <2>2 DEF Mint, ReadClock
    <2>3. CASE Stamping(h)
      BY <2>3 DEF Stamping, TakeStamp, ReadClock
    <2>4. CASE Committing(h)
      BY <2>4 DEF Committing, CommitChange, CommitReset, CommitUpdate, Invalidate
    <2>5. CASE CommitLogout(h) \/ Abort(h)
      BY <2>5 DEF CommitLogout, Abort
    <2> HIDE DEF Stable
    <2> QED
      BY <1>1, <2>1, <2>2, <2>3, <2>4, <2>5, RequestKinds
  <1>2. CASE TimePasses
    BY <1>2 DEF TimePasses, ReadClock
  <1>3. CASE UNCHANGED vars
    BY <1>3 DEF vars
  <1> HIDE DEF Stable
  <1> QED
    BY <1>1, <1>2, <1>3 DEF Next

\* A request read what it needs.
LEMMA RequestsStep == TypeOK /\ RequestsOK /\ [Next]_vars => RequestsOK'
  <1> SUFFICES ASSUME TypeOK, RequestsOK, [Next]_vars, NEW g \in Handler
               PROVE  /\ req'[g].op \in {"change", "logout"} =>
                             req'[g].tok = None \/ iat'[req'[g].tok] # None
                      /\ req'[g].op = "logout" => req'[g].tok # None
                      /\ req'[g].op \in {"change", "reset"} => req'[g].password \in Password
    BY DEF RequestsOK, Minted
  <1>0. Stable
    BY StableStep
  <1>1. CASE req'[g] = req[g]
    BY <1>0, <1>1, NamedToken DEF RequestsOK, Stable, Minted
  <1>2. CASE req'[g] = Idle
    BY <1>2, IdleFields
  <1>3. ASSUME NEW h \in Handler, BeginLogin(h) PROVE req'[g] = req[g] \/ req'[g].op = "login"
    <2> DEFINE r == [Idle EXCEPT !.op = "login", !.stage = "read",
                                 !.password = password, !.claims = claims,
                                 !.clash = \E k \in Handler : Pending(k)]
    <2>1. r.op = "login"
      BY DEF Idle
    <2>2. Take(h, r)
      BY <1>3 DEF BeginLogin
    <2> HIDE DEF r
    <2> QED
      BY <2>1, <2>2 DEF Take, TypeOK
  <1>4. ASSUME NEW h \in Handler, Reading(h)
        PROVE  \/ req'[g] = req[g]
               \/ /\ req'[g].op \in {"change", "logout"} =>
                       req'[g].tok = None \/ iat'[req'[g].tok] # None
                  /\ req'[g].op = "logout" => req'[g].tok # None
                  /\ req'[g].op \in {"change", "reset"} => req'[g].password \in Password
    BY <1>4 DEF Reading, Take, TypeOK, Minted, tokens
  <1>5. ASSUME NEW h \in Handler, Stamping(h)
        PROVE  \/ req'[g] = req[g]
               \/ req'[g].op = "login"
               \/ /\ req'[g].op \in {"change", "logout"} =>
                       req'[g].tok = None \/ iat'[req'[g].tok] # None
                  /\ req'[g].op = "logout" => req'[g].tok # None
                  /\ req'[g].op \in {"change", "reset"} => req'[g].password \in Password
    <2>1. PICK r \in Draft : /\ r.op = "change" => r.tok = None \/ Minted(r.tok)
                             /\ r.op \in {"change", "reset"} => r.password \in Password
                             /\ TakeStamp(h, r)
      BY <1>5 DEF Stamping
    <2>2. CASE g = h
      <3>1. req'[g] = [r EXCEPT !.stage = "stamped", !.stamp = now]
        BY <2>1, <2>2 DEF TakeStamp
      <3>2. req'[g].op = r.op /\ req'[g].tok = r.tok /\ req'[g].password = r.password
        BY <3>1 DEF Draft
      <3> QED
        BY <2>1, <3>2 DEF TakeStamp, Minted, tokens, Draft
    <2>3. CASE g # h /\ req[g].op = "login"
      <3>1. req'[g] = [req[g] EXCEPT !.clash = TRUE] /\ req[g] \in Requests
        BY <2>1, <2>3, BusyFields, IdleFields DEF TakeStamp
      <3> QED
        BY <2>3, <3>1 DEF Requests
    <2>4. CASE g # h /\ req[g].op # "login"
      BY <2>1, <2>4 DEF TakeStamp
    <2> QED
      BY <2>2, <2>3, <2>4
  <1>6. ASSUME NEW h \in Handler,
               (\E t \in Token : Mint(h, t)) \/ Committing(h) \/ CommitLogout(h) \/ Abort(h)
        PROVE  req'[g] = req[g] \/ req'[g] = Idle
    BY <1>6 DEF Mint, Committing, CommitChange, CommitReset, CommitUpdate, Invalidate,
                CommitLogout, Abort, TypeOK
  <1>7. CASE TimePasses \/ UNCHANGED vars
    BY <1>1, <1>7 DEF TimePasses, vars
  <1> QED
    BY <1>1, <1>2, <1>3, <1>4, <1>5, <1>6, <1>7, RequestKinds DEF Next

-----------------------------------------------------------------------------
(* How a step changes a request.                                           *)

\* A request is left alone, ends, begins without a stamp, or, when some handler
\* takes a stamp, is that handler's or a login marked as overlapping.
Moved(g) ==
    \/ req'[g] = req[g]
    \/ req'[g] = Idle
    \/ req'[g].op # "login" /\ req'[g].stage = "read" /\ req'[g].stamp = 0
    \/ BeginLogin(g)
    \/ \E h \in Handler :
          /\ Stamping(h)
          /\ \/ /\ g = h /\ req'[g].op # "login" /\ req'[g].stage = "stamped"
                /\ req'[g].stamp = now
             \/ /\ req[g].op = "login" /\ req'[g].op = "login" /\ req'[g].clash
                /\ req'[g].stage = req[g].stage /\ req'[g].stamp = req[g].stamp

LEMMA MovedStep ==
  ASSUME TypeOK, RequestsOK, [Next]_vars, NEW g \in Handler
  PROVE  Moved(g)
  <1> USE DEF Moved
  <1>1. ASSUME NEW h \in Handler, BeginLogin(h) PROVE Moved(g)
    <2>1. CASE g = h
      BY <1>1, <2>1
    <2>2. CASE g # h
      BY <1>1, <2>2 DEF BeginLogin, Take, TypeOK
    <2> QED
      BY <2>1, <2>2
  <1>2. ASSUME NEW h \in Handler, Reading(h) PROVE Moved(g)
    BY <1>2 DEF Reading, Take, TypeOK
  <1>3. ASSUME NEW h \in Handler, Stamping(h) PROVE Moved(g)
    <2>1. PICK r \in Draft : TakeStamp(h, r)
      BY <1>3 DEF Stamping
    <2>2. CASE g = h
      <3>1. req'[g] = [r EXCEPT !.stage = "stamped", !.stamp = now]
        BY <2>1, <2>2 DEF TakeStamp
      <3>2. req'[g].op = r.op /\ req'[g].stage = "stamped" /\ req'[g].stamp = now
        BY <3>1 DEF Draft
      <3>3. r.op # "login"
        BY DEF Draft
      <3> QED
        BY <1>3, <2>2, <3>2, <3>3
    <2>3. CASE g # h /\ req[g].op = "login"
      <3>1. req'[g] = [req[g] EXCEPT !.clash = TRUE] /\ req[g] \in Requests
        BY <2>1, <2>3, BusyFields, IdleFields DEF TakeStamp
      <3>2. /\ req'[g].op = "login" /\ req'[g].clash
            /\ req'[g].stage = req[g].stage /\ req'[g].stamp = req[g].stamp
        BY <2>3, <3>1 DEF Requests
      <3> QED
        BY <1>3, <2>3, <3>2
    <2>4. CASE g # h /\ req[g].op # "login"
      BY <2>1, <2>4 DEF TakeStamp
    <2> QED
      BY <2>2, <2>3, <2>4
  <1>4. ASSUME NEW h \in Handler,
               (\E t \in Token : Mint(h, t)) \/ Committing(h) \/ CommitLogout(h) \/ Abort(h)
        PROVE  Moved(g)
    BY <1>4 DEF Mint, Committing, CommitChange, CommitReset, CommitUpdate, Invalidate,
                CommitLogout, Abort, TypeOK
  <1>5. CASE TimePasses \/ UNCHANGED vars
    BY <1>5 DEF TimePasses, vars
  <1> HIDE DEF Moved
  <1> QED
    BY <1>1, <1>2, <1>3, <1>4, <1>5, RequestKinds DEF Next

\* A login that begins.
LEMMA LoginBegins ==
  ASSUME TypeOK, NEW g \in Handler, BeginLogin(g)
  PROVE  /\ req'[g].op = "login" /\ req'[g].stage = "read" /\ req'[g].stamp = 0
         /\ req'[g].password = password /\ req'[g].claims = claims /\ active
         /\ req'[g].clash = \E h \in Handler : Pending(h)
         /\ UNCHANGED <<account, revoked, tokens, cut, clock>>
         /\ \A h \in Handler : h # g => req'[h] = req[h]
  <1> DEFINE r == [Idle EXCEPT !.op = "login", !.stage = "read",
                               !.password = password, !.claims = claims,
                               !.clash = \E h \in Handler : Pending(h)]
  <1>1. /\ r.op = "login" /\ r.stage = "read" /\ r.stamp = 0 /\ r.password = password
        /\ r.claims = claims /\ r.clash = \E h \in Handler : Pending(h)
    BY DEF Idle
  <1>2. Take(g, r) /\ active
    BY DEF BeginLogin
  <1> HIDE DEF r
  <1> QED
    BY <1>1, <1>2 DEF Take, TypeOK

\* A stamp moves the clock and leaves everything else alone.
LEMMA StampEffect ==
  ASSUME NEW h \in Handler, Stamping(h)
  PROVE  now' = now + 1 /\ UNCHANGED <<account, revoked, tokens, cut, second>>
  BY DEF Stamping, TakeStamp, ReadClock

-----------------------------------------------------------------------------
\* Everything that was read off the clock lies in the past.
LEMMA ClockStep == IndInv /\ [Next]_vars => ClockOK'
  <1> SUFFICES ASSUME IndInv, [Next]_vars PROVE ClockOK'
    OBVIOUS
  <1>0. TypeOK /\ RequestsOK /\ ClockOK /\ Stable /\ TypeOK'
    BY StableStep, TypeStep DEF IndInv
  <1>1. ASSUME NEW g \in Handler PROVE req'[g].stamp < now'
    <2>1. Moved(g)
      BY <1>0, MovedStep
    <2>2. 0 < now' /\ req[g].stamp < now' /\ now \in Nat /\ now' \in Nat
      <3>1. req[g].stamp \in Nat
        BY <1>0, BusyFields, IdleFields
      <3> QED
        BY <1>0, <3>1 DEF ClockOK, TypeOK, Stable
    <2>3. CASE req'[g] = req[g] \/ req'[g] = Idle \/ req'[g].stamp = 0
      BY <2>2, <2>3, IdleFields
    <2>4. CASE BeginLogin(g)
      BY <1>0, <2>2, <2>4, LoginBegins
    <2>5. ASSUME NEW h \in Handler, Stamping(h),
                 req'[g].stamp = now \/ req'[g].stamp = req[g].stamp
          PROVE  req'[g].stamp < now'
      BY <2>2, <2>5, StampEffect
    <2> QED
      BY <2>1, <2>3, <2>4, <2>5 DEF Moved
  <1>2. second' <= now'
    <2>1. ASSUME NEW h \in Handler, Request(h) PROVE second' = second
      BY <1>0, <2>1, RequestKinds, StampEffect, LoginBegins
      DEF Mint, Reading, Take, Committing, CommitChange, CommitReset, CommitUpdate,
          Invalidate, CommitLogout, Abort, clock
    <2>2. CASE TimePasses
      BY <1>0, <2>2 DEF TimePasses, ReadClock, ClockOK, TypeOK
    <2>3. CASE second' = second
      BY <1>0, <2>3 DEF ClockOK, TypeOK, Stable
    <2> QED
      BY <2>1, <2>2, <2>3 DEF Next, vars, clock
  <1>3. validAfter' < now'
    <2>1. ASSUME NEW h \in Handler, Committing(h) PROVE validAfter' < now'
      BY <1>0, <2>1
      DEF Committing, CommitChange, CommitReset, CommitUpdate, Invalidate, ClockOK, clock
    <2>2. CASE validAfter' = validAfter
      BY <1>0, <2>2 DEF ClockOK, TypeOK, Stable
    <2>3. ASSUME NEW h \in Handler, Request(h), ~Committing(h) PROVE validAfter' = validAfter
      BY <1>0, <2>3, RequestKinds, StampEffect, LoginBegins
      DEF Mint, Reading, Take, CommitLogout, Abort, account
    <2> QED
      BY <2>1, <2>2, <2>3 DEF Next, TimePasses, vars, account
  <1>4. ASSUME NEW t \in Token, Minted(t)'
        PROVE  /\ issued'[t] \in Nat /\ iat'[t] \in Nat
               /\ iat'[t] <= issued'[t] /\ issued'[t] < now'
    <2>1. CASE Minted(t)
      BY <1>0, <2>1 DEF ClockOK, TypeOK, Stable
    <2>2. CASE ~Minted(t)
      <3>1. PICK h \in Handler : \E u \in Token : Mint(h, u)
        BY <1>0, <1>4, <2>2, RequestKinds, StampEffect, LoginBegins
        DEF Next, Reading, Take, Committing, CommitChange, CommitReset, CommitUpdate,
            Invalidate, CommitLogout, Abort, TimePasses, vars, tokens, Minted
      <3>2. Mint(h, t)
        BY <1>0, <1>4, <2>2, <3>1 DEF Mint, Minted, TypeOK
      <3> QED
        BY <1>0, <3>2 DEF Mint, ReadClock, ClockOK, TypeOK
    <2> QED
      BY <2>1, <2>2
  <1> QED
    BY <1>1, <1>2, <1>3, <1>4 DEF ClockOK

-----------------------------------------------------------------------------
(* Stamps and rows.                                                        *)

\* Only a commit of an invalidation changes the row or cuts tokens.
LEMMA RowStep ==
  ASSUME TypeOK, RequestsOK, [Next]_vars, \A h \in Handler : ~Committing(h)
  PROVE  UNCHANGED <<account, cut>>
  BY RequestKinds, StampEffect, LoginBegins
  DEF Next, Mint, Reading, Take, CommitLogout, Abort, TimePasses, vars

\* A stamp marks every login under way as overlapping.
LEMMA StampMarks ==
  ASSUME TypeOK, NEW h \in Handler, Stamping(h), NEW g \in Handler, req[g].op = "login"
  PROVE  req'[g].op # "login" \/ req'[g].clash
  <1>1. PICK r \in Draft : TakeStamp(h, r)
    BY DEF Stamping
  <1>2. CASE g = h
    <2>1. req'[g] = [r EXCEPT !.stage = "stamped", !.stamp = now]
      BY <1>1, <1>2 DEF TakeStamp
    <2> QED
      BY <2>1 DEF Draft
  <1>3. CASE g # h
    <2>1. req'[g] = [req[g] EXCEPT !.clash = TRUE] /\ req[g] \in Requests
      BY <1>1, <1>3, BusyFields, IdleFields DEF TakeStamp
    <2> QED
      BY <2>1 DEF Requests
  <1> QED
    BY <1>2, <1>3

\* A pending stamp was pending before, or is taken now.
LEMMA PendingStep ==
  ASSUME TypeOK, RequestsOK, LoginsOK, [Next]_vars, NEW k \in Handler, Pending(k)'
  PROVE  \/ Pending(k) /\ req'[k] = req[k]
         \/ (\E h \in Handler : Stamping(h)) /\ req'[k].stamp = now
  <1>1. Moved(k)
    BY MovedStep
  <1> QED
    BY <1>1, LoginBegins, IdleFields DEF Moved, Pending, LoginsOK

\* Between the read and the token of a login without an overlap nothing is
\* pending, so nothing changes the row.
LEMMA LoginsStep == IndInv /\ [Next]_vars => LoginsOK'
  <1> SUFFICES ASSUME IndInv, [Next]_vars, NEW g \in Handler, req'[g].op = "login"
               PROVE  /\ req'[g].stage = "read"
                      /\ ~req'[g].clash => /\ \A k \in Handler : ~Pending(k)'
                                           /\ req'[g].password = password'
                                           /\ req'[g].claims = claims'
                                           /\ active'
    BY DEF LoginsOK
  <1>0. TypeOK /\ RequestsOK /\ LoginsOK /\ Moved(g)
    BY MovedStep DEF IndInv
  <1>1. CASE req'[g] = req[g]
    <2>1. req[g].op = "login" /\ req'[g].stage = "read"
      BY <1>0, <1>1 DEF LoginsOK
    <2> SUFFICES ASSUME ~req'[g].clash
                 PROVE  /\ \A k \in Handler : ~Pending(k)'
                        /\ req'[g].password = password'
                        /\ req'[g].claims = claims'
                        /\ active'
      BY <2>1
    <2>2. /\ \A k \in Handler : ~Pending(k)
          /\ req[g].password = password /\ req[g].claims = claims /\ active
      BY <1>0, <1>1, <2>1 DEF LoginsOK
    <2>3. \A h \in Handler : ~Stamping(h)
      BY <1>0, <2>1, StampMarks
    <2>4. \A k \in Handler : ~Pending(k)'
      BY <1>0, <2>2, <2>3, PendingStep
    <2>5. UNCHANGED account
      BY <1>0, <2>2, RowStep
      DEF Committing, CommitChange, CommitReset, CommitUpdate, Invalidate
    <2> QED
      BY <1>1, <2>2, <2>4, <2>5 DEF account
  <1>2. CASE BeginLogin(g)
    <2>1. \A k \in Handler : Pending(k)' => Pending(k)
      BY <1>0, <1>2, LoginBegins DEF Pending
    <2>2. /\ req'[g] = [Idle EXCEPT !.op = "login", !.stage = "read", !.password = password,
                                   !.claims = claims,
                                   !.clash = \E k \in Handler : Pending(k)]
          /\ active /\ UNCHANGED account
      BY <1>0, <1>2 DEF BeginLogin, Take, TypeOK
    <2>3. req'[g].stage = "read" /\ req'[g].password = password /\ req'[g].claims = claims
          /\ req'[g].clash = \E k \in Handler : Pending(k)
      BY <2>2 DEF Idle
    <2>4. ASSUME ~req'[g].clash PROVE \A k \in Handler : ~Pending(k)'
      BY <2>1, <2>3, <2>4
    <2> QED
      BY <2>2, <2>3, <2>4 DEF account
  <1>3. ASSUME req[g].op = "login", req'[g].clash, req'[g].stage = req[g].stage
        PROVE  req'[g].stage = "read" /\ req'[g].clash
    BY <1>0, <1>3 DEF LoginsOK
  <1> QED
    BY <1>0, <1>1, <1>2, <1>3, IdleFields DEF Moved

\* A pending stamp is later than every token whose login did not overlap it.
LEMMA StampsStep == IndInv /\ [Next]_vars => StampsOK'
  <1> SUFFICES ASSUME IndInv, [Next]_vars, NEW k \in Handler, Pending(k)',
                      NEW t \in Token, t \notin overlapped', Minted(t)'
               PROVE  issued'[t] < req'[k].stamp
    BY DEF StampsOK
  <1>0. TypeOK /\ RequestsOK /\ LoginsOK /\ ClockOK /\ StampsOK /\ Stable
    BY StableStep DEF IndInv
  <1>1. CASE ~Minted(t)
    <2>1. PICK h \in Handler : \E u \in Token : Mint(h, u)
      BY <1>0, <1>1, RequestKinds, StampEffect, LoginBegins
      DEF Next, Reading, Take, Committing, CommitChange, CommitReset, CommitUpdate,
          Invalidate, CommitLogout, Abort, TimePasses, vars, tokens, Minted
    <2>2. Mint(h, t)
      BY <1>0, <1>1, <2>1 DEF Mint, Minted, TypeOK
    <2>3. ~req[h].clash /\ req[h].op = "login"
      BY <1>0, <2>2 DEF Mint, TypeOK
    <2>4. ~Pending(k)
      BY <1>0, <2>3 DEF LoginsOK
    <2>5. req'[k] = req[k] \/ req'[k] = Idle
      BY <1>0, <2>2 DEF Mint, TypeOK
    <2> QED
      BY <2>4, <2>5, IdleFields DEF Pending
  <1>2. CASE Minted(t)
    <2>1. issued'[t] = issued[t] /\ t \notin overlapped /\ issued[t] < now
      BY <1>0, <1>2 DEF Stable, ClockOK
    <2>2. CASE Pending(k) /\ req'[k] = req[k]
      BY <1>0, <1>2, <2>1, <2>2 DEF StampsOK
    <2> QED
      BY <1>0, <2>1, <2>2, PendingStep
  <1> QED
    BY <1>1, <1>2

\* What an invalidation cuts is older than its stamp; what it does not cut is as
\* the row is.
LEMMA TokensStep == IndInv /\ [Next]_vars => TokensOK'
  <1> SUFFICES ASSUME IndInv, [Next]_vars PROVE TokensOK'
    OBVIOUS
  <1>0. /\ TypeOK /\ RequestsOK /\ LoginsOK /\ ClockOK /\ StampsOK /\ TokensOK /\ Stable
        /\ TypeOK' /\ ClockOK'
    BY StableStep, TypeStep, ClockStep DEF IndInv
  <1>1. ASSUME NEW h \in Handler, Committing(h) PROVE TokensOK'
    <2>1. /\ Pending(h) /\ validAfter' = req[h].stamp
          /\ cut' = cut \cup {t \in Token : Minted(t)}
          /\ UNCHANGED tokens
          /\ revoked' \subseteq revoked \cup ({req[h].tok} \ {None})
          /\ revoked' = revoked \/ req[h].op = "change"
      BY <1>1 DEF Committing, CommitChange, CommitReset, CommitUpdate, Invalidate
    <2>2. cut' \cup revoked' \subseteq {t \in Token : Minted(t)'}
      <3>1. revoked' \subseteq {t \in Token : Minted(t)}
        BY <1>0, <2>1, NamedToken DEF TokensOK
      <3> QED
        BY <1>0, <2>1, <3>1 DEF TokensOK, Minted, tokens
    <2>3. ASSUME NEW t \in cut' \ overlapped' PROVE iat'[t] < validAfter'
      <3>1. t \in Token /\ Minted(t) /\ t \notin overlapped
        BY <1>0, <2>1, <2>3 DEF TokensOK, tokens
      <3>2. issued[t] < req[h].stamp /\ iat[t] <= issued[t] /\ iat[t] \in Nat
            /\ issued[t] \in Nat /\ req[h].stamp \in Nat
        <4>1. req[h].stamp \in Nat
          BY <1>0, <2>1, BusyFields, IdleFields DEF Pending
        <4> QED
          BY <1>0, <2>1, <3>1, <4>1 DEF StampsOK, ClockOK
      <3> QED
        BY <2>1, <3>2 DEF tokens
    <2>4. \A t \in Token \ (overlapped' \cup cut') : ~Minted(t)'
      BY <2>1 DEF Minted, tokens
    <2> QED
      BY <2>2, <2>3, <2>4 DEF TokensOK
  <1>2. ASSUME NEW h \in Handler, NEW t \in Token, Mint(h, t) PROVE TokensOK'
    <2>1. UNCHANGED <<account, cut, revoked>> /\ \A u \in Token : u # t =>
              /\ iat'[u] = iat[u] /\ issued'[u] = issued[u] /\ holds'[u] = holds[u]
              /\ with'[u] = with[u] /\ (u \in overlapped' <=> u \in overlapped)
      BY <1>0, <1>2 DEF Mint, TypeOK
    <2>2. t \notin cut \cup revoked
      BY <1>0, <1>2 DEF Mint, TokensOK, Minted
    <2>3. ASSUME t \notin overlapped'
          PROVE  /\ with'[t] = password /\ holds'[t] = claims /\ active
                 /\ validAfter < issued'[t]
      <3>1. ~req[h].clash /\ req[h].op = "login"
        BY <1>0, <1>2, <2>3 DEF Mint, TypeOK
      <3>2. req[h].password = password /\ req[h].claims = claims /\ active
        BY <1>0, <3>1 DEF LoginsOK
      <3> QED
        BY <1>0, <1>2, <3>2 DEF Mint, TypeOK, ClockOK
    <2>4. \A u \in Token : Minted(u) => Minted(u)'
      BY <1>0 DEF Stable, Minted
    <2> QED
      BY <1>0, <2>1, <2>2, <2>3, <2>4 DEF TokensOK, Minted, account
  <1>3. ASSUME UNCHANGED <<account, tokens, cut>>, revoked' \subseteq {t \in Token : Minted(t)}
        PROVE  TokensOK'
    BY <1>0, <1>3 DEF TokensOK, Minted, account, tokens
  <1>4. ASSUME NEW h \in Handler, CommitLogout(h) PROVE TokensOK'
    <2>1. revoked' \subseteq {t \in Token : Minted(t)}
      BY <1>0, <1>4, NamedToken DEF CommitLogout, TokensOK
    <2> QED
      BY <1>3, <1>4, <2>1 DEF CommitLogout
  <1>5. ASSUME UNCHANGED <<account, revoked, tokens, cut>> PROVE TokensOK'
    BY <1>0, <1>3, <1>5 DEF TokensOK
  <1>6. ASSUME NEW h \in Handler, BeginLogin(h) \/ Reading(h) \/ Stamping(h) \/ Abort(h)
        PROVE  TokensOK'
    BY <1>0, <1>5, <1>6, LoginBegins, StampEffect DEF Reading, Take, Abort
  <1> QED
    BY <1>0, <1>1, <1>2, <1>4, <1>5, <1>6, RequestKinds DEF Next, TimePasses, vars

-----------------------------------------------------------------------------
\* The invariant holds for ever.
THEOREM IndInvInvariant == Spec => []IndInv
  <1>1. IndInv /\ [Next]_vars => IndInv'
    BY TypeStep, ClockStep, LoginsStep, StampsStep, RequestsStep, TokensStep DEF IndInv
  <1> QED
    BY InitIndInv, <1>1, PTL DEF Spec

\* Every reachable state is well typed.
THEOREM TypeCorrect == Spec => []TypeOK
  BY IndInvInvariant, PTL DEF IndInv

\* What the invariant says about who is let in.
LEMMA Admission ==
  ASSUME IndInv
  PROVE  NoStaleSession /\ FreshSessionAccepted /\ GrafanaAgrees
  <1>0. TypeOK /\ ClockOK /\ TokensOK
    BY DEF IndInv
  <1>1. ASSUME NEW t \in cut \ overlapped PROVE ~Valid(t)
    <2>1. t \in Token /\ Minted(t) /\ iat[t] < validAfter
      BY <1>0 DEF TokensOK
    <2>2. iat[t] \in Nat /\ validAfter \in Nat
      BY <1>0, <2>1 DEF ClockOK, TypeOK
    <2> QED
      BY <2>1, <2>2 DEF Valid
  <1>2. NoStaleSession
    BY <1>0, <1>1 DEF NoStaleSession, Accepted, Valid, TokensOK
  <1>3. FreshSessionAccepted
    BY <1>0 DEF FreshSessionAccepted, Accepted, Valid, TokensOK, ClockOK, TypeOK
  <1>4. GrafanaAgrees
    BY <1>0, <1>1 DEF GrafanaAgrees, Accepted, GrafanaAccepts, Valid, TokensOK
  <1> QED
    BY <1>2, <1>3, <1>4

\* However invalidations overlap each other, who is let in logged in after the
\* last one with the password that is valid now.
THEOREM NoStaleSessionAlways == Spec => []NoStaleSession
  BY IndInvInvariant, Admission, PTL

\* An invalidation shuts out only older sessions and those of its own second.
THEOREM FreshSessionAcceptedAlways == Spec => []FreshSessionAccepted
  BY IndInvInvariant, Admission, PTL

\* Grafana lets in nobody whom the API keeps out.
THEOREM GrafanaAgreesAlways == Spec => []GrafanaAgrees
  BY IndInvInvariant, Admission, PTL

\* A session that was shut out once stays out.
THEOREM DeadStaysDeadAlways == Spec => DeadStaysDead
  <1>1. ASSUME IndInv, IndInv', [Next]_vars, NEW t \in Token, t \notin overlapped,
               Minted(t), ~Accepted(t)
        PROVE  ~Accepted(t)'
    <2>0. /\ TypeOK /\ RequestsOK /\ ClockOK /\ TokensOK /\ Stable
          /\ ClockOK' /\ TokensOK' /\ TypeOK'
      BY <1>1, StableStep DEF IndInv
    <2>1. Minted(t)' /\ t \notin overlapped' /\ iat'[t] = iat[t] /\ holds'[t] = holds[t]
      BY <1>1, <2>0 DEF Stable, Minted
    <2>2. CASE t \in revoked
      BY <2>0, <2>2 DEF Stable, Accepted, Valid
    <2>3. CASE t \in cut'
      <3>1. iat'[t] < validAfter' /\ iat'[t] \in Nat /\ validAfter' \in Nat
        BY <2>0, <2>1, <2>3 DEF TokensOK, ClockOK, TypeOK
      <3> QED
        BY <3>1 DEF Accepted, Valid
    <2>4. CASE t \notin revoked /\ t \notin cut'
      <3>1. UNCHANGED account
        <4>1. \A h \in Handler : ~Committing(h)
          BY <1>1, <2>4
          DEF Committing, CommitChange, CommitReset, CommitUpdate, Invalidate
        <4> QED
          BY <1>1, <2>0, <4>1, RowStep
      <3> QED
        BY <1>1, <2>0, <2>1, <2>4, <3>1 DEF Stable, Accepted, Valid, account
    <2> QED
      BY <2>2, <2>3, <2>4
  <1>2. IndInv /\ IndInv' /\ [Next]_vars =>
          [\A t \in Token \ overlapped : Minted(t) /\ ~Accepted(t) => ~Accepted(t)']_vars
    BY <1>1
  <1> QED
    BY IndInvInvariant, <1>2, PTL DEF Spec, DeadStaysDead

=============================================================================
