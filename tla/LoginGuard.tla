----------------------------- MODULE LoginGuard -----------------------------
(***************************************************************************)
(* The lock on logins of the Fleet API (_LoginGuard and login in           *)
(* api/app/routers/auth.py), for one username and one address.  The lock   *)
(* is looked at before the password is checked and the failure is recorded *)
(* afterwards; other logins run in between.  Failures and lock are kept in *)
(* the memory of the process.                                              *)
(***************************************************************************)
EXTENDS Naturals, Sequences, FiniteSets

CONSTANTS
    Login,      \* logins that the API handles at once
    Threshold, Window, Lock, \* LOGIN_FAILURE_LOCK_THRESHOLD, ..._WINDOW_SECONDS, ..._LOCK_SECONDS
    MaxTime     \* bound: the clock stops here

ASSUME GuardAssumption == {Threshold, Window, Lock} \subseteq Nat \ {0} /\ MaxTime \in Nat
ASSUME LoginAssumption == IsFiniteSet(Login)

VARIABLES
    now,
    bucket,       \* _failures: when logins failed, oldest first
    lockedUntil,  \* _locked_until, 0 when there is none
    checking,     \* logins between the check of the lock and their verdict
    guesses       \* history: when passwords turned out wrong since the last right one

guard == <<bucket, lockedUntil, checking, guesses>>

GuardInit ==
    /\ now = 1
    /\ bucket = <<>>
    /\ lockedUntil = 0
    /\ checking = {}
    /\ guesses = <<>>

Tick ==
    /\ now < MaxTime
    /\ now' = now + 1
    /\ UNCHANGED guard

\* check_lock: a lock that has expired is dropped.
CheckLock(l) ==
    /\ l \notin checking
    /\ lockedUntil <= now
    /\ lockedUntil' = 0
    /\ checking' = checking \cup {l}
    /\ UNCHANGED <<now, bucket, guesses>>

\* Faulty variant: failures are dropped while they are in the window.
ExpiredEarly(t) == t + Window >= now

Expired(t) == t + Window < now

\* record_failure: an unknown user, an inactive one, or a wrong password.  The oldest
\* failures are dropped as long as they have expired.
RecordFailure(l) ==
    \E n \in 0 .. Len(bucket) :
        LET failures == Append(SubSeq(bucket, n + 1, Len(bucket)), now) IN
        /\ l \in checking
        /\ \A i \in 1 .. n : Expired(bucket[i])
        /\ n < Len(bucket) => ~Expired(bucket[n + 1])
        /\ IF Len(failures) >= Threshold
           THEN bucket' = <<>> /\ lockedUntil' = now + Lock
           ELSE bucket' = failures /\ UNCHANGED lockedUntil
        /\ checking' = checking \ {l}
        /\ guesses' = Append(guesses, now)
        /\ UNCHANGED now

\* clear: a login that succeeds lifts the lock that others have set meanwhile.
Clear(l) ==
    /\ l \in checking
    /\ bucket' = <<>>
    /\ lockedUntil' = 0
    /\ checking' = checking \ {l}
    /\ guesses' = <<>>
    /\ UNCHANGED now

\* A login dies between the two, for want of a database.
Drop(l) ==
    /\ l \in checking
    /\ checking' = checking \ {l}
    /\ UNCHANGED <<now, bucket, lockedUntil, guesses>>

\* The process is replaced.
ForgetLogins ==
    /\ bucket' = <<>>
    /\ lockedUntil' = 0
    /\ checking' = {}
    /\ guesses' = <<>>

GuardNext ==
    \/ Tick
    \/ \E l \in Login : CheckLock(l) \/ RecordFailure(l) \/ Clear(l) \/ Drop(l)

-----------------------------------------------------------------------------
\* However logins overlap, in no window of time do more passwords turn out wrong than
\* the threshold allows and one more for every other login the API handles at once,
\* unless a right one or a new process comes between; provided that a lock lasts as
\* long as the window does.
FewGuesses ==
    Lock >= Window =>
        \A i \in DOMAIN guesses :
            guesses[i] + Window > now => Len(guesses) - i + 1 <= Threshold - 1 + Cardinality(Login)

-----------------------------------------------------------------------------
(* Why it holds: the bucket is the end of the guesses, what is not in it is *)
(* out of the window or will be before the lock ends, and while that lasts *)
(* the logins under way can only use up what is left.                      *)

GuardTypeOK ==
    /\ now \in Nat /\ lockedUntil \in Nat
    /\ bucket \in Seq(Nat) /\ guesses \in Seq(Nat)
    /\ checking \subseteq Login

Others == Len(guesses) - Len(bucket)

BucketOK ==
    /\ Len(bucket) < Threshold /\ Others >= 0
    /\ \A i \in DOMAIN bucket : bucket[i] = guesses[Others + i]

OthersExpire ==
    /\ \A i \in DOMAIN guesses : guesses[i] <= now
    /\ \A i \in 1 .. Others : guesses[i] + Window <= now \/ guesses[i] + Window <= lockedUntil

LockedOut ==
    lockedUntil > now =>
        \A i \in DOMAIN guesses : guesses[i] + Window > now =>
            Len(guesses) - i + 1 + Cardinality(checking) <= Threshold - 1 + Cardinality(Login)

GuardInv == GuardTypeOK /\ BucketOK /\ (Lock >= Window => OthersExpire /\ LockedOut)

=============================================================================
