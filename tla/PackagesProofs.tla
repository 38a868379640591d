--------------------------- MODULE PackagesProofs ---------------------------
(***************************************************************************)
(* Theorems about Packages for every set of builds, repositories and       *)
(* requests.  The inductive invariant IndInv is defined beside the model.  *)
(***************************************************************************)
EXTENDS Packages, TLAPS

-----------------------------------------------------------------------------
\* No step makes a repository forget what has been in it or was imported.
Grows == \A r \in Repo : been[r] \subseteq been'[r] /\ direct[r] \subseteq direct'[r]

-----------------------------------------------------------------------------
(* The record of a promotion, field by field.  What a promotion may carry   *)
(* depends on its path and its references only.                             *)

Sound(r) == r \in Promotion /\ Founded(r)

LEMMA IdleSound == Sound(Idle)
  <1>1. Idle \in Promotion
    BY DEF Idle, Promotion, Stages
  <1>2. Founded(Idle)
    BY DEF Idle, Founded
  <1> QED
    BY <1>1, <1>2 DEF Sound

LEMMA StageSound ==
  ASSUME NEW r, Sound(r), r.stage # "idle", NEW s \in Stages
  PROVE  LET q == [r EXCEPT !.stage = s] IN Sound(q) /\ q.src = r.src
  BY DEF Sound, Promotion, Founded

LEMMA RefsSound ==
  ASSUME NEW r, Sound(r), NEW refs \in SUBSET Build, refs \subseteq been[r.src]
  PROVE  Sound([r EXCEPT !.refs = refs])
  BY DEF Sound, Promotion, Founded

LEMMA ForceSound ==
  ASSUME NEW r, Sound(r), NEW force \in BOOLEAN
  PROVE  Sound([r EXCEPT !.force = force])
  BY DEF Sound, Promotion, Founded

LEMMA FoundSound ==
  ASSUME NEW r, Sound(r), NEW found \in SUBSET Build
  PROVE  Sound([r EXCEPT !.found = found])
  BY DEF Sound, Promotion, Founded

LEMMA BeforeSound ==
  ASSUME NEW r, Sound(r), NEW before \in (SUBSET Build) \cup {None}
  PROVE  LET q == [r EXCEPT !.before = before] IN Sound(q) /\ q.stage = r.stage
  BY DEF Sound, Promotion, Founded

LEMMA ClashSound ==
  ASSUME NEW r, Sound(r)
  PROVE  Sound([r EXCEPT !.clash = TRUE])
  BY DEF Sound, Promotion, Founded

-----------------------------------------------------------------------------
RequestsSound == req \in [Handler -> Promotion] /\ \A h \in Handler : Sound(req[h])

\* The two ways in which the requests change.
LEMMA GotoSound ==
  ASSUME RequestsSound, NEW h \in Handler, NEW r, Sound(r), Goto(h, r)
  PROVE  req' \in [Handler -> Promotion] /\ \A g \in Handler : Sound(req'[g])
  BY DEF RequestsSound, Goto, Sound

LEMMA NoticedSound ==
  ASSUME RequestsSound, NEW h, NEW r, Sound(r), Noticed(h, r)
  PROVE  req' \in [Handler -> Promotion] /\ \A g \in Handler : Sound(req'[g])
  <1>1. \A g \in Handler : Sound([req[g] EXCEPT !.clash = TRUE])
    BY ClashSound DEF RequestsSound
  <1>2. \A g \in Handler : req'[g] = r \/ req'[g] = Idle \/ req'[g] = [req[g] EXCEPT !.clash = TRUE]
    BY DEF Noticed
  <1>3. \A g \in Handler : Sound(req'[g])
    BY <1>1, <1>2, IdleSound
  <1>4. req' = [g \in Handler |-> req'[g]]
    BY DEF Noticed
  <1> QED
    BY <1>3, <1>4 DEF Sound

\* A call that was not answered leaves a sound request.
LEMMA NextTrySound ==
  ASSUME NEW r, Sound(r), r.stage # "idle"
  PROVE  Sound(NextTry(r))
  <1>1. CASE r.stage = "first"
    <2>1. Sound([r EXCEPT !.stage = "second"])
      BY StageSound DEF Stages
    <2> DEFINE q == [r EXCEPT !.stage = "second"]
    <2>2. Sound([q EXCEPT !.force = FALSE])
      <3> HIDE DEF q
      <3> QED
        BY <2>1, ForceSound DEF q
    <2> QED
      BY <1>1, <2>2 DEF NextTry
  <1>2. CASE r.stage # "first"
    BY <1>2, IdleSound DEF NextTry
  <1> QED
    BY <1>1, <1>2

\* Builds that come along a path into t break neither property, whatever else of
\* theirs is in t and whoever brings them.
LEMMA PromotionKeeps ==
  ASSUME TypeOK, RepositoriesOK, UpstreamFirst, DistributionKept,
         NEW t \in Repo, NEW refs \in SUBSET Build, Sourced(refs, t),
         Added(t, refs), UNCHANGED direct
  PROVE  RepositoriesOK' /\ UpstreamFirst' /\ DistributionKept' /\ Grows
  <1>1. PICK s \in Repo : PathAllowed(s, t) /\ refs \subseteq been[s]
    BY DEF Sourced
  <1>2. /\ been' = [been EXCEPT ![t] = @ \cup refs]
        /\ repo' = [repo EXCEPT ![t] = {c \in @ : \A b \in refs : ~Conflict(b, c)} \cup refs]
    BY DEF Added
  <1>3. \A r \in Repo : been'[r] = IF r = t THEN been[r] \cup refs ELSE been[r]
    BY <1>2 DEF TypeOK
  <1>4. Grows
    BY <1>3 DEF Grows
  <1>5. RepositoriesOK'
    BY <1>2, <1>3 DEF TypeOK, RepositoriesOK
  <1>6. UpstreamFirst'
    <2>1. OneBelow(s, t)
      BY <1>1 DEF PathAllowed
    <2> QED
      BY <1>1, <1>3, <2>1 DEF UpstreamFirst
  <1>7. DistributionKept'
    <2>1. SameDistribution(s, t)
      BY <1>1 DEF PathAllowed
    <2>2. SUFFICES ASSUME NEW r \in Repo, r.dist # None, NEW b \in been'[r]
                   PROVE  \E q \in Repo : \/ q.dist = r.dist /\ b \in direct[q]
                                          \/ q.dist = None /\ b \in been'[q]
      BY DEF DistributionKept
    <2>3. \A q \in Repo : q.dist # None => \A c \in been[q] :
               \E p \in Repo : \/ p.dist = q.dist /\ c \in direct[p]
                               \/ p.dist = None /\ c \in been[p]
      BY DEF DistributionKept
    <2>4. CASE b \in been[r]
      BY <1>3, <2>2, <2>3, <2>4
    <2>5. CASE b \notin been[r]
      <3>1. r = t /\ b \in been[s]
        BY <1>1, <1>3, <2>2, <2>5
      <3>2. s.dist = None \/ s.dist = r.dist
        BY <2>1, <2>2, <3>1 DEF SameDistribution
      <3> QED
        BY <1>3, <2>2, <2>3, <3>1, <3>2
    <2> QED
      BY <2>4, <2>5
  <1> QED
    BY <1>4, <1>5, <1>6, <1>7

\* Where no repository changes, neither do the properties of their history.
LEMMA NothingAdded ==
  ASSUME RepositoriesOK, UpstreamFirst, DistributionKept, UNCHANGED <<repo, direct, been>>
  PROVE  RepositoriesOK' /\ UpstreamFirst' /\ DistributionKept' /\ Grows
  BY DEF RepositoriesOK, UpstreamFirst, DistributionKept, Grows

-----------------------------------------------------------------------------
\* An import straight into a repository.
LEMMA ImportStep ==
  ASSUME IndInv, NEW b \in Build, NEW r \in Repo, NEW force \in BOOLEAN,
         AddToRepo(b, r, force)
  PROVE  RepositoriesOK' /\ UpstreamFirst' /\ DistributionKept' /\ Grows
  <1> USE DEF IndInv, TypeOK
  <1>1. /\ been' = [been EXCEPT ![r] = @ \cup {b}]
        /\ direct' = [direct EXCEPT ![r] = @ \cup {b}]
        /\ repo' = [repo EXCEPT ![r] = {c \in @ : \A a \in {b} : ~Conflict(a, c)} \cup {b}]
    BY DEF AddToRepo, Added
  <1>2. \A q \in Repo : /\ been'[q] = IF q = r THEN been[q] \cup {b} ELSE been[q]
                        /\ direct'[q] = IF q = r THEN direct[q] \cup {b} ELSE direct[q]
    BY <1>1
  <1>3. RepositoriesOK'
    BY <1>1, <1>2 DEF RepositoriesOK
  <1>4. UpstreamFirst'
    BY <1>2 DEF UpstreamFirst
  <1>5. DistributionKept'
    BY <1>2 DEF DistributionKept
  <1> QED
    BY <1>2, <1>3, <1>4, <1>5 DEF Grows

\* Aptly executes the call of a promotion, in time or late.
LEMMA PostStep ==
  ASSUME IndInv, NEW h \in Handler, Post(h)
  PROVE  RepositoriesOK' /\ UpstreamFirst' /\ DistributionKept' /\ Grows
  <1>1. req[h].dst \in Repo /\ req[h].refs \in SUBSET Build /\ Sourced(req[h].refs, req[h].dst)
    BY DEF Post, IndInv, TypeOK, Promotion, PromotionsOK, Founded, Sourced
  <1>2. Added(req[h].dst, req[h].refs) /\ UNCHANGED direct
    BY DEF Post
  <1> QED
    BY <1>1, <1>2, PromotionKeeps DEF IndInv

LEMMA LatePostStep ==
  ASSUME IndInv, NEW p \in late, LatePost(p)
  PROVE  RepositoriesOK' /\ UpstreamFirst' /\ DistributionKept' /\ Grows
  <1>1. p.dst \in Repo /\ p.refs \in SUBSET Build /\ Sourced(p.refs, p.dst)
    BY DEF IndInv, TypeOK, PromotionsOK
  <1>2. CASE Added(p.dst, p.refs) /\ UNCHANGED direct
    BY <1>1, <1>2, PromotionKeeps DEF IndInv
  <1>3. CASE UNCHANGED <<repo, direct, been>>
    BY <1>3, NothingAdded DEF IndInv
  <1> QED
    BY <1>2, <1>3 DEF LatePost

\* No step breaks the properties of the repositories.
LEMMA RepositoriesStep ==
  ASSUME IndInv, [Next]_vars
  PROVE  RepositoriesOK' /\ UpstreamFirst' /\ DistributionKept' /\ Grows
  <1>1. ASSUME NEW b \in Build, NEW r \in Repo, NEW force \in BOOLEAN, AddToRepo(b, r, force)
        PROVE  RepositoriesOK' /\ UpstreamFirst' /\ DistributionKept' /\ Grows
    BY <1>1, ImportStep
  <1>2. ASSUME NEW h \in Handler, Post(h)
        PROVE  RepositoriesOK' /\ UpstreamFirst' /\ DistributionKept' /\ Grows
    BY <1>2, PostStep
  <1>3. ASSUME NEW p \in late, LatePost(p)
        PROVE  RepositoriesOK' /\ UpstreamFirst' /\ DistributionKept' /\ Grows
    BY <1>3, LatePostStep
  <1>4. CASE UNCHANGED <<repo, direct, been>>
    BY <1>4, NothingAdded DEF IndInv
  <1> QED
    BY <1>1, <1>2, <1>3, <1>4
    DEF Next, Promote, Upload, ReadSource, ReadTarget, ReadRefs, NoAnswer, Log, Abort, aptly, vars

-----------------------------------------------------------------------------
\* Every step of a promotion leaves its request sound.
LEMMA PromoteStep ==
  ASSUME TypeOK, RequestsSound, RepositoriesOK, NEW h \in Handler, Promote(h)
  PROVE  req' \in [Handler -> Promotion] /\ \A g \in Handler : Sound(req'[g])
  <1> DEFINE Done == req' \in [Handler -> Promotion] /\ \A g \in Handler : Sound(req'[g])
  <1>0. Sound(req[h])
    BY DEF RequestsSound
  <1>1. ASSUME NEW r, Sound(r), Goto(h, r) PROVE Done
    BY <1>1, GotoSound
  <1>2. ASSUME NEW r, Sound(r), Noticed(h, r) PROVE Done
    BY <1>2, NoticedSound
  <1>3. ASSUME NEW s \in Repo, NEW t \in Repo, NEW force \in BOOLEAN, ReadSource(h, s, t, force)
        PROVE  Done
    <2> DEFINE r == [Idle EXCEPT !.stage = "target", !.src = s, !.dst = t, !.force = force,
                                 !.seen = repo[s]]
    <2>1. Sound(r)
      <3> DEFINE p == [Idle EXCEPT !.stage = "target"]
      <3> DEFINE q == [p EXCEPT !.src = s]
      <3> DEFINE u == [q EXCEPT !.dst = t]
      <3> DEFINE v == [u EXCEPT !.force = force]
      <3>1. Idle \in Promotion /\ Idle.refs = {} /\ "target" \in Stages
        BY IdleSound DEF Idle, Sound, Stages
      <3>2. p \in Promotion /\ p.refs = {}
        BY <3>1 DEF Promotion
      <3>3. q \in Promotion /\ q.refs = {} /\ q.src = s
        <4> HIDE DEF p
        <4> QED
          BY <3>2 DEF Promotion
      <3>4. u \in Promotion /\ u.refs = {} /\ u.src = s /\ u.dst = t
        <4> HIDE DEF q
        <4> QED
          BY <3>3 DEF Promotion
      <3>5. v \in Promotion /\ v.refs = {} /\ v.src = s /\ v.dst = t
        <4> HIDE DEF u
        <4> QED
          BY <3>4 DEF Promotion
      <3>6. repo[s] \in SUBSET Build
        BY DEF TypeOK
      <3>7. LET w == [v EXCEPT !.seen = repo[s]]
            IN  w \in Promotion /\ w.refs = {} /\ w.src = s /\ w.dst = t
        <4> HIDE DEF v
        <4> QED
          BY <3>5, <3>6 DEF Promotion
      <3>8. PathAllowed(s, t)
        BY <1>3 DEF ReadSource
      <3>9. Founded(r)
        BY <3>7, <3>8 DEF Founded
      <3> QED
        BY <3>7, <3>9 DEF Sound
    <2>2. Goto(h, r)
      BY <1>3 DEF ReadSource
    <2> QED
      BY <1>1, <2>1, <2>2
  <1>4. CASE ReadTarget(h)
    <2> DEFINE p == [req[h] EXCEPT !.stage = "refs"]
    <2> DEFINE r == [p EXCEPT !.found = repo[req[h].dst]]
    <2>1. req[h].stage # "idle"
      BY <1>4 DEF ReadTarget
    <2>2. Sound(p)
      BY <1>0, <2>1, StageSound DEF Stages
    <2>3. repo[req[h].dst] \in SUBSET Build
      BY <1>0, <2>1 DEF Sound, Founded, TypeOK
    <2>4. Sound(r)
      <3> HIDE DEF p
      <3> QED
        BY <2>2, <2>3, FoundSound
    <2>5. Goto(h, r) \/ Goto(h, Idle)
      BY <1>4 DEF ReadTarget
    <2> QED
      BY <1>1, <2>4, <2>5, IdleSound
  <1>5. CASE ReadRefs(h)
    <2> DEFINE refs == repo[req[h].src]
    <2> DEFINE p == [req[h] EXCEPT !.stage = "first"]
    <2> DEFINE r == [p EXCEPT !.refs = refs]
    <2>1. req[h].stage # "idle"
      BY <1>5 DEF ReadRefs
    <2>2. Sound(p) /\ p.src = req[h].src
      BY <1>0, <2>1, StageSound DEF Stages
    <2>3. refs \in SUBSET Build /\ refs \subseteq been[req[h].src]
      BY <1>0, <2>1 DEF Sound, Founded, TypeOK, RepositoriesOK
    <2>4. Sound(r)
      <3> HIDE DEF p, refs
      <3> QED
        BY <2>2, <2>3, RefsSound
    <2>5. Goto(h, r) \/ Goto(h, Idle)
      BY <1>5 DEF ReadRefs
    <2> QED
      BY <1>1, <2>4, <2>5, IdleSound
  <1>6. CASE Post(h)
    <2> DEFINE r == [req[h] EXCEPT !.before = IF @ = None THEN repo[req[h].dst] ELSE @]
    <2>1. req[h].stage # "idle"
      BY <1>6 DEF Post
    <2>2. (IF req[h].before = None THEN repo[req[h].dst] ELSE req[h].before)
              \in (SUBSET Build) \cup {None}
      BY <1>0, <2>1 DEF Sound, Founded, Promotion, TypeOK
    <2>3. Sound(r) /\ r.stage # "idle"
      BY <1>0, <2>1, <2>2, BeforeSound
    <2>4. Sound([r EXCEPT !.stage = "log"]) /\ Sound(NextTry(r))
      <3> HIDE DEF r
      <3> QED
        BY <2>3, StageSound, NextTrySound DEF Stages
    <2>5. Noticed(h, [r EXCEPT !.stage = "log"]) \/ Noticed(h, NextTry(r))
      BY <1>6 DEF Post
    <2> QED
      BY <1>2, <2>4, <2>5
  <1>7. CASE NoAnswer(h)
    <2>1. Sound(NextTry(req[h]))
      BY <1>0, <1>7, NextTrySound DEF NoAnswer
    <2> QED
      BY <1>1, <1>7, <2>1 DEF NoAnswer
  <1>8. CASE Log(h) \/ Abort(h)
    BY <1>1, <1>8, IdleSound DEF Log, Abort
  <1> QED
    BY <1>3, <1>4, <1>5, <1>6, <1>7, <1>8 DEF Promote

\* Every step of the system does.
LEMMA RequestsStep ==
  ASSUME IndInv, [Next]_vars
  PROVE  req' \in [Handler -> Promotion] /\ \A g \in Handler : Sound(req'[g])
  <1> DEFINE Done == req' \in [Handler -> Promotion] /\ \A g \in Handler : Sound(req'[g])
  <1>0. RequestsSound /\ TypeOK /\ RepositoriesOK
    BY DEF IndInv, TypeOK, PromotionsOK, RequestsSound, Sound
  <1>1. ASSUME NEW h \in Handler, Promote(h) PROVE Done
    BY <1>0, <1>1, PromoteStep
  <1>2. CASE Noticed(None, Idle)
    BY <1>0, <1>2, IdleSound, NoticedSound
  <1>3. CASE UNCHANGED req
    BY <1>0, <1>3 DEF RequestsSound
  <1> QED
    BY <1>1, <1>2, <1>3 DEF Next, Upload, AddToRepo, LatePost, vars

\* Calls that nobody waits for carry what had a source.
LEMMA LateStep ==
  ASSUME IndInv, [Next]_vars
  PROVE  \A p \in late' : /\ p \in [dst : Repo, refs : SUBSET Build, force : BOOLEAN]
                          /\ Sourced(p.refs, p.dst)
  <1> DEFINE Good(p) == /\ p \in [dst : Repo, refs : SUBSET Build, force : BOOLEAN]
                        /\ Sourced(p.refs, p.dst)
  <1>1. \A p \in late : Good(p)
    BY DEF IndInv, TypeOK, PromotionsOK
  <1>2. ASSUME NEW h \in Handler, NoAnswer(h) PROVE \A p \in late' : Good(p)
    <2> DEFINE new == [dst |-> req[h].dst, refs |-> req[h].refs, force |-> req[h].force]
    <2>1. /\ req[h] \in Promotion /\ req[h].dst \in Repo
          /\ Sourced(req[h].refs, req[h].dst)
      BY <1>2 DEF NoAnswer, IndInv, TypeOK, PromotionsOK, Founded, Sourced
    <2>2. req[h].refs \in SUBSET Build /\ req[h].force \in BOOLEAN
      BY <2>1 DEF Promotion
    <2>3. Good(new)
      BY <2>1, <2>2
    <2>4. late' = late \/ late' = late \cup {new}
      BY <1>2 DEF NoAnswer
    <2> HIDE DEF new, Good
    <2> QED
      BY <1>1, <2>3, <2>4
  <1>3. CASE late' \subseteq late
    BY <1>1, <1>3
  <1> QED
    BY <1>2, <1>3
    DEF Next, Promote, Upload, AddToRepo, ReadSource, ReadTarget, ReadRefs, Post, Log, Abort,
        LatePost, aptly, vars

\* The files, the counts and the repositories keep their types.
LEMMA AptlyTypeStep ==
  ASSUME IndInv, [Next]_vars
  PROVE  /\ staged' \subseteq Build /\ uploads' \in Nat /\ begun' \in Nat
         /\ repo' \in [Repo -> SUBSET Build] /\ direct' \in [Repo -> SUBSET Build]
         /\ been' \in [Repo -> SUBSET Build]
  <1> DEFINE Done == /\ staged' \subseteq Build /\ uploads' \in Nat /\ begun' \in Nat
                     /\ repo' \in [Repo -> SUBSET Build]
                     /\ direct' \in [Repo -> SUBSET Build]
                     /\ been' \in [Repo -> SUBSET Build]
  <1>0. TypeOK
    BY DEF IndInv
  <1>1. ASSUME NEW r \in Repo, NEW refs \in SUBSET Build, Added(r, refs)
        PROVE  /\ repo' \in [Repo -> SUBSET Build]
               /\ been' \in [Repo -> SUBSET Build]
    BY <1>0, <1>1 DEF Added, TypeOK
  <1>2. ASSUME NEW b \in Build, NEW r \in Repo, NEW force \in BOOLEAN, AddToRepo(b, r, force)
        PROVE  Done
    BY <1>0, <1>1, <1>2 DEF AddToRepo, TypeOK
  <1>3. ASSUME NEW h \in Handler, Post(h) PROVE Done
    <2>1. req[h].dst \in Repo /\ req[h].refs \in SUBSET Build
      BY <1>3 DEF Post, IndInv, TypeOK, PromotionsOK, Founded, Promotion
    <2> QED
      BY <1>0, <1>1, <1>3, <2>1 DEF Post, TypeOK
  <1>4. ASSUME NEW p \in late, LatePost(p) PROVE Done
    <2>1. p.dst \in Repo /\ p.refs \in SUBSET Build
      BY <1>0 DEF TypeOK
    <2> QED
      BY <1>0, <1>1, <1>4, <2>1 DEF LatePost, TypeOK
  <1>5. ASSUME NEW b \in Build, Upload(b) PROVE Done
    BY <1>0, <1>5 DEF Upload, TypeOK
  <1>6. CASE UNCHANGED <<staged, uploads, repo, direct, been>> /\ begun' \in {begun, begun + 1}
    BY <1>0, <1>6 DEF TypeOK
  <1> QED
    BY <1>2, <1>3, <1>4, <1>5, <1>6
    DEF Next, Promote, ReadSource, ReadTarget, ReadRefs, NoAnswer, Log, Abort, aptly, vars

-----------------------------------------------------------------------------
\* IndInv is inductive.
LEMMA IndInvStep == IndInv /\ [Next]_vars => IndInv'
  <1> SUFFICES ASSUME IndInv, [Next]_vars PROVE IndInv'
    OBVIOUS
  <1>1. RepositoriesOK' /\ UpstreamFirst' /\ DistributionKept' /\ Grows
    BY RepositoriesStep
  <1>2. req' \in [Handler -> Promotion] /\ \A h \in Handler : Sound(req'[h])
    BY RequestsStep
  <1>3. \A p \in late' : /\ p \in [dst : Repo, refs : SUBSET Build, force : BOOLEAN]
                         /\ Sourced(p.refs, p.dst)
    BY LateStep
  <1>4. TypeOK'
    BY <1>2, <1>3, AptlyTypeStep DEF TypeOK
  <1>5. PromotionsOK'
    <2>1. \A h \in Handler : Founded(req[h])'
      BY <1>1, <1>2 DEF Sound, Founded, Grows
    <2>2. \A p \in late' : Sourced(p.refs, p.dst)'
      BY <1>1, <1>3 DEF Sourced, Grows
    <2> QED
      BY <2>1, <2>2 DEF PromotionsOK
  <1> QED
    BY <1>1, <1>4, <1>5 DEF IndInv

\* The initial state, with nothing uploaded, satisfies it.
LEMMA InitIndInv == Init => IndInv
  <1> SUFFICES ASSUME Init PROVE IndInv
    OBVIOUS
  <1>1. TypeOK
    BY IdleSound DEF Init, TypeOK, Sound
  <1>2. PromotionsOK
    BY IdleSound DEF Init, PromotionsOK, Sound
  <1>3. RepositoriesOK /\ UpstreamFirst /\ DistributionKept
    BY DEF Init, RepositoriesOK, UpstreamFirst, DistributionKept
  <1> QED
    BY <1>1, <1>2, <1>3 DEF IndInv

LEMMA Inductive == Spec => []IndInv
  BY InitIndInv, IndInvStep, PTL DEF Spec

\* Every variable keeps its type, the requests to Aptly included.
THEOREM TypeCorrect == Spec => []TypeOK
  <1>1. IndInv => TypeOK
    BY DEF IndInv
  <1> QED
    BY <1>1, Inductive, PTL

\* However promotions overlap, repeat their calls and arrive late, a build reaches a
\* channel only by a direct import or after the channel below (_PROMOTION_CHANNELS).
THEOREM UpstreamIsFirst == Spec => []UpstreamFirst
  <1>1. IndInv => UpstreamFirst
    BY DEF IndInv
  <1> QED
    BY <1>1, Inductive, PTL

\* Likewise no build crosses from one distribution to another
\* (_validate_promotion_path).
THEOREM DistributionIsKept == Spec => []DistributionKept
  <1>1. IndInv => DistributionKept
    BY DEF IndInv
  <1> QED
    BY <1>1, Inductive, PTL
-----------------------------------------------------------------------------
(* The plan of a promotion, its answer and its audit event.                *)

Accurate(r, has, had) == Reported(r, had) /\ Undisturbed(r, has)

LEMMA IdleAccurate == Accurate(Idle, repo, been) /\ Accurate(Idle, repo', been')
  BY DEF Accurate, Reported, Undisturbed, Tried, Idle

\* What setting the stage of a promotion, or what it found before its first call,
\* leaves alone.
LEMMA StageOnly ==
  ASSUME NEW r \in Promotion, NEW s \in Stages
  PROVE  LET q == [r EXCEPT !.stage = s]
         IN  /\ q \in Promotion /\ q.stage = s
             /\ q.src = r.src /\ q.dst = r.dst /\ q.seen = r.seen /\ q.found = r.found
             /\ q.refs = r.refs /\ q.before = r.before /\ q.clash = r.clash
  BY DEF Promotion

LEMMA BeforeOnly ==
  ASSUME NEW r \in Promotion, NEW before \in (SUBSET Build) \cup {None}
  PROVE  LET q == [r EXCEPT !.before = before]
         IN  /\ q \in Promotion /\ q.before = before
             /\ q.src = r.src /\ q.dst = r.dst /\ q.seen = r.seen /\ q.found = r.found
             /\ q.refs = r.refs /\ q.stage = r.stage /\ q.clash = r.clash
  BY DEF Promotion

LEMMA ForceOnly ==
  ASSUME NEW r \in Promotion
  PROVE  LET q == [r EXCEPT !.force = FALSE]
         IN  /\ q \in Promotion /\ q.before = r.before
             /\ q.src = r.src /\ q.dst = r.dst /\ q.seen = r.seen /\ q.found = r.found
             /\ q.refs = r.refs /\ q.stage = r.stage /\ q.clash = r.clash
  BY DEF Promotion

LEMMA FoundOnly ==
  ASSUME NEW r \in Promotion, NEW found \in SUBSET Build
  PROVE  LET q == [r EXCEPT !.found = found]
         IN  /\ q \in Promotion /\ q.before = r.before
             /\ q.src = r.src /\ q.dst = r.dst /\ q.seen = r.seen /\ q.found = found
             /\ q.refs = r.refs /\ q.stage = r.stage /\ q.clash = r.clash
  BY DEF Promotion

LEMMA RefsOnly ==
  ASSUME NEW r \in Promotion, NEW refs \in SUBSET Build
  PROVE  LET q == [r EXCEPT !.refs = refs]
         IN  /\ q \in Promotion /\ q.before = r.before
             /\ q.src = r.src /\ q.dst = r.dst /\ q.seen = r.seen /\ q.found = r.found
             /\ q.refs = refs /\ q.stage = r.stage /\ q.clash = r.clash
  BY DEF Promotion

LEMMA ClashOnly ==
  ASSUME NEW r \in Promotion
  PROVE  LET q == [r EXCEPT !.clash = TRUE]
         IN  /\ q.src = r.src /\ q.dst = r.dst /\ q.found = r.found /\ q.refs = r.refs
             /\ q.stage = r.stage /\ q.clash = TRUE
  BY DEF Promotion

-----------------------------------------------------------------------------
PlansNow ==
    \A h \in Handler : /\ req[h] \in Promotion /\ Founded(req[h])
                       /\ Accurate(req[h], repo, been)
PlansNext == \A h \in Handler : Accurate(req'[h], repo', been')

\* A request goes on while Aptly stays as it is.
LEMMA GotoAccurate ==
  ASSUME PlansNow, TypeOK, UNCHANGED <<repo, been>>,
         NEW h \in Handler, NEW r, Accurate(r, repo, been), Goto(h, r)
  PROVE  PlansNext
  <1>1. \A g \in Handler : req'[g] = r \/ req'[g] = req[g]
    BY DEF Goto, TypeOK
  <1> QED
    BY <1>1 DEF PlansNow, PlansNext

\* A request changes Aptly: it goes on, and nobody else trusts what they have read.
LEMMA NoticedAccurate ==
  ASSUME PlansNow, Grows, NEW h, NEW r, Accurate(r, repo', been'), Noticed(h, r)
  PROVE  PlansNext
  <1>1. ASSUME NEW g \in Handler
        PROVE  Accurate([req[g] EXCEPT !.clash = TRUE], repo', been')
    <2> DEFINE q == [req[g] EXCEPT !.clash = TRUE]
    <2>1. /\ q.stage = req[g].stage /\ q.found = req[g].found /\ q.refs = req[g].refs
          /\ q.dst = req[g].dst /\ q.clash = TRUE
      BY ClashOnly DEF PlansNow
    <2>2. Reported(req[g], been) /\ Founded(req[g])
      BY DEF PlansNow, Accurate
    <2> HIDE DEF q
    <2>3. Reported(q, been')
      <3>1. q.stage # "idle" => q.dst \in Repo /\ been[q.dst] \subseteq been'[q.dst]
        BY <2>1, <2>2 DEF Founded, Grows
      <3> QED
        BY <2>1, <2>2, <3>1 DEF Reported
    <2>4. Undisturbed(q, repo')
      BY <2>1 DEF Undisturbed
    <2> QED
      BY <2>3, <2>4 DEF Accurate, q
  <1>2. \A g \in Handler : req'[g] = r \/ req'[g] = Idle \/ req'[g] = [req[g] EXCEPT !.clash = TRUE]
    BY DEF Noticed
  <1> QED
    BY <1>1, <1>2, IdleAccurate DEF PlansNext

\* What follows a call that was not answered.
LEMMA NextTryAccurate ==
  ASSUME NEW r \in Promotion, NEW has, NEW had, r.stage \in {"first", "second"},
         Accurate(r, has, had)
  PROVE  Accurate(NextTry(r), has, had)
  <1>1. CASE r.stage = "first"
    <2> DEFINE p == [r EXCEPT !.stage = "second"]
    <2> DEFINE q == [p EXCEPT !.force = FALSE]
    <2>1. /\ p \in Promotion /\ p.stage = "second"
          /\ p.src = r.src /\ p.dst = r.dst /\ p.seen = r.seen /\ p.found = r.found
          /\ p.refs = r.refs /\ p.before = r.before /\ p.clash = r.clash
      BY StageOnly DEF Stages
    <2>2. /\ q.stage = "second"
          /\ q.src = r.src /\ q.dst = r.dst /\ q.seen = r.seen /\ q.found = r.found
          /\ q.refs = r.refs /\ q.before = r.before /\ q.clash = r.clash
      <3> HIDE DEF p
      <3> QED
        BY <2>1, ForceOnly
    <2>3. NextTry(r) = q
      BY <1>1 DEF NextTry
    <2> HIDE DEF q
    <2>4. Accurate(q, has, had)
      BY <1>1, <2>2 DEF Accurate, Reported, Undisturbed, Tried
    <2> QED
      BY <2>3, <2>4
  <1>2. CASE r.stage # "first"
    BY <1>2 DEF NextTry, Idle, Accurate, Reported, Undisturbed, Tried
  <1> QED
    BY <1>1, <1>2

\* The plan reads source and target, and what is promoted.
LEMMA ReadsAccurate ==
  ASSUME IndInv, PlansNow, NEW h \in Handler,
         \/ \E s, t \in Repo, force \in BOOLEAN : ReadSource(h, s, t, force)
         \/ ReadTarget(h)
         \/ ReadRefs(h)
  PROVE  PlansNext
  <1>0. TypeOK /\ RepositoriesOK /\ req[h] \in Promotion
    BY DEF IndInv, TypeOK
  <1>1. ASSUME NEW r, Accurate(r, repo, been), Goto(h, r), UNCHANGED aptly PROVE PlansNext
    BY <1>0, <1>1, GotoAccurate DEF aptly
  <1>2. ASSUME NEW s \in Repo, NEW t \in Repo, NEW force \in BOOLEAN, ReadSource(h, s, t, force)
        PROVE  PlansNext
    <2> DEFINE r == [Idle EXCEPT !.stage = "target", !.src = s, !.dst = t, !.force = force,
                                 !.seen = repo[s]]
    <2>1. /\ r.stage = "target" /\ r.seen = repo[s] /\ r.src = s /\ r.found = {}
          /\ r.before = None
      BY DEF Idle
    <2>2. Accurate(r, repo, been)
      <3> HIDE DEF r
      <3> QED
        BY <2>1 DEF Accurate, Reported, Undisturbed, Tried
    <2>3. Goto(h, r) /\ UNCHANGED aptly
      BY <1>2 DEF ReadSource
    <2> HIDE DEF r
    <2> QED
      BY <1>1, <2>2, <2>3
  <1>3. CASE ReadTarget(h)
    <2> DEFINE p == [req[h] EXCEPT !.stage = "refs"]
    <2> DEFINE r == [p EXCEPT !.found = repo[req[h].dst]]
    <2>1. req[h].stage = "target" /\ Founded(req[h]) /\ Accurate(req[h], repo, been)
      BY <1>3 DEF ReadTarget, PlansNow
    <2>2. /\ p \in Promotion /\ p.stage = "refs"
          /\ p.src = req[h].src /\ p.dst = req[h].dst /\ p.seen = req[h].seen
          /\ p.found = req[h].found /\ p.refs = req[h].refs /\ p.before = req[h].before
          /\ p.clash = req[h].clash
      BY <1>0, StageOnly DEF Stages
    <2>3. repo[req[h].dst] \in SUBSET Build /\ repo[req[h].dst] \subseteq been[req[h].dst]
      BY <1>0, <2>1 DEF Founded, TypeOK, RepositoriesOK
    <2>4. /\ r.stage = "refs" /\ r.src = req[h].src /\ r.dst = req[h].dst
          /\ r.seen = req[h].seen /\ r.found = repo[req[h].dst]
          /\ r.before = req[h].before /\ r.clash = req[h].clash
      <3> HIDE DEF p
      <3> QED
        BY <2>2, <2>3, FoundOnly
    <2>5. Accurate(r, repo, been)
      <3> HIDE DEF r
      <3> QED
        BY <2>1, <2>3, <2>4 DEF Accurate, Reported, Undisturbed, Tried
    <2>6. (Goto(h, r) \/ Goto(h, Idle)) /\ UNCHANGED aptly
      BY <1>3 DEF ReadTarget
    <2> HIDE DEF r
    <2> QED
      BY <1>1, <2>5, <2>6, IdleAccurate
  <1>4. CASE ReadRefs(h)
    <2> DEFINE refs == repo[req[h].src]
    <2> DEFINE p == [req[h] EXCEPT !.stage = "first"]
    <2> DEFINE r == [p EXCEPT !.refs = refs]
    <2>1. req[h].stage = "refs" /\ Founded(req[h]) /\ Accurate(req[h], repo, been)
      BY <1>4 DEF ReadRefs, PlansNow
    <2>2. /\ p \in Promotion /\ p.stage = "first"
          /\ p.src = req[h].src /\ p.dst = req[h].dst /\ p.seen = req[h].seen
          /\ p.found = req[h].found /\ p.before = req[h].before
          /\ p.clash = req[h].clash
      BY <1>0, StageOnly DEF Stages
    <2>3. refs \in SUBSET Build
      BY <1>0, <2>1 DEF Founded, TypeOK
    <2>4. /\ r.stage = "first" /\ r.src = req[h].src /\ r.dst = req[h].dst
          /\ r.seen = req[h].seen /\ r.found = req[h].found /\ r.refs = refs
          /\ r.before = req[h].before /\ r.clash = req[h].clash
      <3> HIDE DEF p, refs
      <3> QED
        BY <2>2, <2>3, RefsOnly
    <2>5. Accurate(r, repo, been)
      <3> HIDE DEF r
      <3> QED
        BY <2>1, <2>4 DEF Accurate, Reported, Undisturbed, Tried
    <2>6. (Goto(h, r) \/ Goto(h, Idle)) /\ UNCHANGED aptly
      BY <1>4 DEF ReadRefs
    <2> HIDE DEF r
    <2> QED
      BY <1>1, <2>5, <2>6, IdleAccurate
  <1> QED
    BY <1>2, <1>3, <1>4

\* Aptly executes a call: what was promoted is in the target now, and was found there
\* before the first call only.
LEMMA PostAccurate ==
  ASSUME IndInv, PlansNow, Grows, NEW h \in Handler, Post(h)
  PROVE  PlansNext
  <1> DEFINE before == IF req[h].before = None THEN repo[req[h].dst] ELSE req[h].before
  <1> DEFINE r == [req[h] EXCEPT !.before = before]
  <1> DEFINE q == [r EXCEPT !.stage = "log"]
  <1>0. TypeOK /\ RepositoriesOK /\ req[h] \in Promotion
    BY DEF IndInv, TypeOK
  <1>1. /\ req[h].stage \in {"first", "second"} /\ Founded(req[h])
        /\ Accurate(req[h], repo, been)
    BY DEF Post, PlansNow
  <1>2. req[h].dst \in Repo /\ repo[req[h].dst] \in SUBSET Build
    BY <1>0, <1>1 DEF Founded, TypeOK
  <1>3. before \in (SUBSET Build) \cup {None} /\ before # None
    <2>1. repo[req[h].dst] # None
      BY <1>2, NoneAssumption
    <2> QED
      BY <1>0, <1>2, <2>1 DEF Promotion
  <1>4. /\ r \in Promotion /\ r.before = before
        /\ r.src = req[h].src /\ r.dst = req[h].dst /\ r.seen = req[h].seen
        /\ r.found = req[h].found /\ r.refs = req[h].refs /\ r.stage = req[h].stage
        /\ r.clash = req[h].clash
    <2> HIDE DEF before
    <2> QED
      BY <1>0, <1>3, BeforeOnly
  <1>5. /\ q \in Promotion /\ q.stage = "log"
        /\ q.src = r.src /\ q.dst = r.dst /\ q.seen = r.seen
        /\ q.found = r.found /\ q.refs = r.refs /\ q.before = r.before
        /\ q.clash = r.clash
    <2> HIDE DEF r
    <2> QED
      BY <1>4, StageOnly DEF Stages
  <1>6. req[h].refs \subseteq been'[req[h].dst] /\ been[req[h].dst] \subseteq been'[req[h].dst]
    BY <1>0, <1>2 DEF Post, Added, Grows, TypeOK
  <1>7. /\ req[h].found \subseteq been[req[h].dst]
        /\ ~req[h].clash => req[h].seen = req[h].refs /\ req[h].found = before
    BY <1>1 DEF Accurate, Reported, Undisturbed, Tried
  <1> HIDE DEF before
  <1>8. Accurate(r, repo', been')
    <2> HIDE DEF r
    <2> QED
      BY <1>1, <1>3, <1>4, <1>6, <1>7 DEF Accurate, Reported, Undisturbed, Tried
  <1>9. Accurate(q, repo', been')
    <2> HIDE DEF q, r
    <2> QED
      BY <1>1, <1>3, <1>4, <1>5, <1>6, <1>7 DEF Accurate, Reported, Undisturbed, Tried
  <1>10. Accurate(NextTry(r), repo', been')
    <2> HIDE DEF r
    <2> QED
      BY <1>1, <1>4, <1>8, NextTryAccurate
  <1>11. Noticed(h, q) \/ Noticed(h, NextTry(r))
    BY DEF Post, before
  <1> HIDE DEF q, r
  <1> QED
    BY <1>9, <1>10, <1>11, NoticedAccurate

\* No step makes a plan claim more than it has read.
LEMMA PlansStep ==
  ASSUME IndInv, PlansNow, Grows, [Next]_vars
  PROVE  PlansNext
  <1>0. TypeOK
    BY DEF IndInv
  <1>1. CASE Noticed(None, Idle)
    BY <1>1, IdleAccurate, NoticedAccurate
  <1>2. CASE UNCHANGED <<repo, been, req>>
    BY <1>2 DEF PlansNow, PlansNext
  <1>3. ASSUME NEW h \in Handler, NoAnswer(h) PROVE PlansNext
    <2>1. Accurate(NextTry(req[h]), repo, been)
      BY <1>3, NextTryAccurate DEF NoAnswer, PlansNow
    <2> QED
      BY <1>0, <1>3, <2>1, GotoAccurate DEF NoAnswer, aptly
  <1>4. ASSUME NEW h \in Handler, Log(h) \/ Abort(h) PROVE PlansNext
    BY <1>0, <1>4, IdleAccurate, GotoAccurate DEF Log, Abort, aptly
  <1>5. ASSUME NEW h \in Handler, Promote(h) PROVE PlansNext
    BY <1>3, <1>4, <1>5, ReadsAccurate, PostAccurate DEF Promote
  <1> QED
    BY <1>1, <1>2, <1>5 DEF Next, Upload, AddToRepo, LatePost, vars, aptly

-----------------------------------------------------------------------------
\* Only two steps answer; each answer is about what has been in the target.
LEMMA AnswersStep ==
  ASSUME IndInv, PlansNow, PlanInv, Grows, [Next]_vars
  PROVE  (\A a \in answers : a.dst \in Repo)' /\ AnswersAreTrue'
  <1> DEFINE True(a, had) ==
               /\ a.dst \in Repo
               /\ a.stage = "promoted" => a.refs \subseteq had[a.dst]
               /\ a.stage = "noop" => \A b \in a.seen : \E c \in had[a.dst] :
                      Package[c] = Package[b] /\ Version[c] = Version[b]
  <1>0. TypeOK /\ RepositoriesOK
    BY DEF IndInv
  <1>1. \A a \in answers : True(a, been')
    <2>1. \A a \in answers : True(a, been)
      BY DEF PlanInv, PlansOK, AnswersAreTrue
    <2> QED
      BY <2>1 DEF Grows
  <1>2. ASSUME NEW h \in Handler, ReadTarget(h) PROVE \A a \in answers' : True(a, been')
    <2> DEFINE p == [req[h] EXCEPT !.stage = "refs"]
    <2> DEFINE r == [p EXCEPT !.found = repo[req[h].dst]]
    <2> DEFINE a == [r EXCEPT !.stage = "noop"]
    <2>1. req[h] \in Promotion /\ req[h].dst \in Repo
      BY <1>2 DEF ReadTarget, PlansNow, Founded
    <2>2. repo[req[h].dst] \in SUBSET Build /\ repo[req[h].dst] \subseteq been'[req[h].dst]
      BY <1>0, <2>1 DEF TypeOK, RepositoriesOK, Grows
    <2>3. /\ p \in Promotion /\ p.dst = req[h].dst /\ p.seen = req[h].seen
      BY <2>1, StageOnly DEF Stages
    <2>4. r \in Promotion /\ r.dst = req[h].dst /\ r.seen = req[h].seen
          /\ r.found = repo[req[h].dst]
      <3> HIDE DEF p
      <3> QED
        BY <2>2, <2>3, FoundOnly
    <2>5. a.dst = r.dst /\ a.seen = r.seen /\ a.stage = "noop"
      <3> HIDE DEF r
      <3> QED
        BY <2>4 DEF Promotion
    <2>6. PICK ix \in Indexes(r.found) :
               IF UpToDate(r.seen, ix) THEN answers' = answers \cup {a} ELSE answers' = answers
      BY <1>2 DEF ReadTarget
    <2> HIDE DEF a, r
    <2>7. CASE UpToDate(r.seen, ix)
      <3>1. \A b \in r.seen : \E c \in r.found : Package[c] = Package[b] /\ Version[c] = Version[b]
        BY <2>7 DEF UpToDate, Indexes
      <3>2. True(a, been')
        BY <2>1, <2>2, <2>4, <2>5, <3>1
      <3>3. answers' = answers \cup {a}
        BY <2>6, <2>7
      <3> HIDE DEF True
      <3> QED
        BY <1>1, <3>2, <3>3
    <2>8. CASE ~UpToDate(r.seen, ix)
      BY <1>1, <2>6, <2>8
    <2> QED
      BY <2>7, <2>8
  <1>3. ASSUME NEW h \in Handler, Log(h) PROVE \A a \in answers' : True(a, been')
    <2> DEFINE a == [req[h] EXCEPT !.stage = "promoted"]
    <2>1. /\ req[h] \in Promotion /\ req[h].dst \in Repo
          /\ req[h].refs \subseteq been[req[h].dst]
      BY <1>3 DEF Log, PlansNow, Founded, Accurate, Reported
    <2>2. a.dst = req[h].dst /\ a.refs = req[h].refs /\ a.stage = "promoted"
      BY <2>1 DEF Promotion
    <2>3. answers' = answers \cup {a}
      BY <1>3 DEF Log
    <2> HIDE DEF a
    <2>4. True(a, been')
      BY <2>1, <2>2 DEF Grows
    <2> HIDE DEF True
    <2> QED
      BY <1>1, <2>3, <2>4
  <1>4. \A a \in answers' : True(a, been')
    <2> HIDE DEF True
    <2>1. CASE answers' = answers
      BY <1>1, <2>1
    <2> QED
      BY <1>2, <1>3, <2>1
      DEF Next, Promote, Upload, AddToRepo, ReadSource, ReadRefs, Post, NoAnswer, Abort,
          LatePost, vars
  <1> QED
    BY <1>4 DEF AnswersAreTrue

\* Only an undisturbed promotion's plan is held to what was promoted.
LEMMA LogStep ==
  ASSUME PlansNow, PlanInv, [Next]_vars
  PROVE  LoggedPlanIsTrue'
  <1> DEFINE True(e) == ~e.clash => e.seen = e.refs /\ e.found = e.before
  <1>1. \A e \in log : True(e)
    BY DEF PlanInv, LoggedPlanIsTrue
  <1>2. ASSUME NEW h \in Handler, Log(h) PROVE \A e \in log' : True(e)
    <2> DEFINE e == [req[h] EXCEPT !.stage = "promoted"]
    <2>1. req[h] \in Promotion /\ True(req[h])
      BY <1>2 DEF Log, PlansNow, Accurate, Undisturbed, Tried
    <2>2. /\ e.clash = req[h].clash /\ e.seen = req[h].seen /\ e.refs = req[h].refs
          /\ e.found = req[h].found /\ e.before = req[h].before
      BY <2>1 DEF Promotion
    <2>3. log' \in {log, log \cup {e}}
      BY <1>2 DEF Log, SafeAuditLog
    <2> HIDE DEF e
    <2>4. True(e)
      BY <2>1, <2>2
    <2> HIDE DEF True
    <2> QED
      BY <1>1, <2>3, <2>4
  <1>3. \A e \in log' : True(e)
    <2>1. CASE log' = log
      BY <1>1, <2>1
    <2> QED
      BY <1>2, <2>1
      DEF Next, Promote, Upload, AddToRepo, ReadSource, ReadTarget, ReadRefs, Post, NoAnswer,
          Abort, LatePost, vars
  <1> QED
    BY <1>3 DEF LoggedPlanIsTrue

\* PlanInv holds initially and is kept by every step of the system.
LEMMA PlanInductive == Spec => []PlanInv
  <1>1. Init => PlanInv
    <2> SUFFICES ASSUME Init PROVE PlanInv
      OBVIOUS
    <2>1. \A h \in Handler : Accurate(req[h], repo, been)
      BY IdleAccurate DEF Init
    <2> QED
      BY <2>1 DEF Init, PlanInv, PlansOK, Accurate, AnswersAreTrue, LoggedPlanIsTrue
  <1>2. IndInv /\ PlanInv /\ [Next]_vars => PlanInv'
    <2> SUFFICES ASSUME IndInv, PlanInv, [Next]_vars PROVE PlanInv'
      OBVIOUS
    <2>1. PlansNow
      BY DEF IndInv, TypeOK, PromotionsOK, PlanInv, PlansOK, PlansNow, Accurate
    <2>2. Grows
      BY RepositoriesStep
    <2>3. \A h \in Handler : Accurate(req'[h], repo', been')
      BY <2>1, <2>2, PlansStep DEF PlansNext
    <2>4. (\A a \in answers : a.dst \in Repo)' /\ AnswersAreTrue' /\ LoggedPlanIsTrue'
      BY <2>1, <2>2, AnswersStep, LogStep
    <2> QED
      BY <2>3, <2>4 DEF PlanInv, PlansOK, Accurate
  <1> QED
    BY <1>1, <1>2, Inductive, PTL DEF Spec

\* "promoted" is only answered when all of the source's builds have been in the target,
\* "noop" only when some build of each of their versions has (execute_promotion).
THEOREM PromisesAreKept == Spec => []AnswersAreTrue
  <1>1. PlanInv => AnswersAreTrue
    BY DEF PlanInv
  <1> QED
    BY <1>1, PlanInductive, PTL

\* The plan in the audit log is what was promoted and what it was promoted over,
\* however often the call was made, unless another request changed Aptly meanwhile.
THEOREM LoggedPlansAreTrue == Spec => []LoggedPlanIsTrue
  <1>1. PlanInv => LoggedPlanIsTrue
    BY DEF PlanInv
  <1> QED
    BY <1>1, PlanInductive, PTL
=============================================================================
