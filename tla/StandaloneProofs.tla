--------------------------- MODULE StandaloneProofs --------------------------
(***************************************************************************)
(* Theorems about the parts that share no state with the rest: the         *)
(* exporter's counter, the platform's update and the lock on logins, for   *)
(* every set of services and logins and every length of a run; the page of *)
(* the UI, for every fleet and any number of renderings; and a user's      *)
(* account in Grafana, for all roles and sites and any number of handlers. *)
(***************************************************************************)
EXTENDS PlatformUpdate, SidebarTree, GrafanaSync, FiniteSetTheorems, TLAPS

-----------------------------------------------------------------------------
(* The counter.                                                            *)

\* No step of the broker or of the exporter breaks the bound on the counter.
LEMMA CountStep == CountInv /\ (CountNext \/ UNCHANGED counts) => CountInv'
  <1> SUFFICES ASSUME CountInv, CountNext \/ UNCHANGED counts PROVE CountInv'
    OBVIOUS
  <1> USE DEF CountInv
  <1>1. CASE Message
    BY <1>1 DEF Message
  <1>2. CASE Publish
    BY <1>2 DEF Publish
  <1>3. CASE published > 0 /\ UpdateCounter(published)
    <2>1. CASE published > prev
      BY <1>3, <2>1 DEF UpdateCounter
    <2>2. CASE ~(published > prev)
      BY <1>3, <2>2 DEF UpdateCounter
    <2> QED
      BY <2>1, <2>2
  <1>4. CASE RestartBroker
    BY <1>4 DEF RestartBroker
  <1>5. CASE RestartExporter
    BY <1>5 DEF RestartExporter
  <1>6. CASE UNCHANGED counts
    BY <1>6 DEF counts
  <1> HIDE DEF CountInv
  <1> QED
    BY <1>1, <1>2, <1>3, <1>4, <1>5, <1>6 DEF CountNext

\* Of a step of the whole, the counter sees one of its own or none.
LEMMA StepOfCounter == [UpdateNext]_updateVars => CountNext \/ UNCHANGED counts
  BY DEF UpdateNext, updateVars, memory, Release, Start, PullConfig, PullImages, RestartApi,
         Rebuild, Interrupt, CrashApi

\* _update_counter never counts a message twice, whatever is restarted or delivered
\* again, and is exact as long as the broker lives.
THEOREM CounterIsSound == UpdateSpec => []CountsOnce
  <1>1. UpdateInit => CountInv
    BY DEF UpdateInit, CountInit, CountInv
  <1>2. CountInv /\ [UpdateNext]_updateVars => CountInv'
    BY CountStep, StepOfCounter
  <1>3. CountInv => CountsOnce
    BY DEF CountInv, CountsOnce
  <1> QED
    BY <1>1, <1>2, <1>3, PTL DEF UpdateSpec

-----------------------------------------------------------------------------
(* The image.                                                              *)

\* No step of the update, cut short or not, loses the comparison of images.
LEMMA ImageStep == ImageInv /\ [UpdateNext]_updateVars => ImageInv'
  <1> SUFFICES ASSUME ImageInv, [UpdateNext]_updateVars PROVE ImageInv'
    OBVIOUS
  <1> USE DEF ImageInv, config, images, Goto, Ended
  <1>1. CASE Release
    BY <1>1 DEF Release
  <1>2. ASSUME NEW mode \in {"full", "config", "images"}, Start(mode) PROVE ImageInv'
    BY <1>2 DEF Start
  <1>3. CASE PullConfig
    <2>1. CASE script.mode = "config"
      BY <1>3, <2>1 DEF PullConfig
    <2>2. CASE script.mode # "config"
      BY <1>3, <2>2 DEF PullConfig
    <2> QED
      BY <2>1, <2>2
  <1>4. CASE PullImages
    BY <1>4 DEF PullImages
  <1>5. CASE RestartApi
    BY <1>5 DEF RestartApi
  <1>6. CASE Rebuild
    BY <1>6 DEF Rebuild
  <1>7. CASE Interrupt
    BY <1>7 DEF Interrupt
  <1>8. CASE UNCHANGED <<config, images, script, cutShort>>
    BY <1>8 DEF config
  <1> HIDE DEF ImageInv
  <1> QED
    BY <1>1, <1>2, <1>3, <1>4, <1>5, <1>6, <1>7, <1>8 DEF UpdateNext, CrashApi, updateVars

\* Between two updates the API runs the image that was pulled last, unless an update
\* was cut short just before its restart.
THEOREM ImagesDoArrive == UpdateSpec => []ImagesArrive
  <1>1. UpdateInit => ImageInv
    BY DEF UpdateInit, ImageInv, Ended
  <1>2. ImageInv => ImagesArrive
    BY DEF ImageInv, ImagesArrive, Ended
  <1> QED
    BY <1>1, <1>2, ImageStep, PTL DEF UpdateSpec

-----------------------------------------------------------------------------
(* The lock on logins.                                                     *)

\* A login that ends leaves room for less than all others.
LEMMA CheckingCounts ==
  ASSUME GuardTypeOK
  PROVE  /\ Cardinality(Login) \in Nat /\ Cardinality(checking) \in Nat
         /\ Cardinality(checking) <= Cardinality(Login)
         /\ \A l \in checking : Cardinality(checking \ {l}) = Cardinality(checking) - 1
  <1>1. checking \subseteq Login /\ IsFiniteSet(Login)
    BY LoginAssumption DEF GuardTypeOK
  <1>2. IsFiniteSet(checking) /\ Cardinality(checking) <= Cardinality(Login)
    BY <1>1, FS_Subset
  <1>3. Cardinality(Login) \in Nat /\ Cardinality(checking) \in Nat
    BY <1>1, <1>2, FS_CardinalityType
  <1>4. \A l \in checking : Cardinality(checking \ {l}) = Cardinality(checking) - 1
    BY <1>2, FS_RemoveElement
  <1> QED
    BY <1>2, <1>3, <1>4

LEMMA GuardNumbers ==
  ASSUME GuardInv
  PROVE  /\ Threshold \in Nat /\ Window \in Nat /\ Lock \in Nat
         /\ Threshold > 0 /\ Window > 0 /\ Lock > 0
         /\ now \in Nat /\ lockedUntil \in Nat
         /\ Len(bucket) \in Nat /\ Len(guesses) \in Nat /\ Len(bucket) < Threshold
         /\ Others \in Nat /\ Others = Len(guesses) - Len(bucket) /\ Others <= Len(guesses)
         /\ DOMAIN guesses = 1 .. Len(guesses)
         /\ \A i \in 1 .. Len(guesses) : guesses[i] \in Nat
         /\ \A i \in 1 .. Len(bucket) : bucket[i] = guesses[Others + i]
  <1>1. GuardTypeOK /\ BucketOK
    BY DEF GuardInv
  <1>2. /\ Threshold \in Nat /\ Window \in Nat /\ Lock \in Nat
        /\ Threshold > 0 /\ Window > 0 /\ Lock > 0
    BY GuardAssumption
  <1>3. /\ Len(bucket) \in Nat /\ Len(guesses) \in Nat /\ Others = Len(guesses) - Len(bucket)
        /\ DOMAIN bucket = 1 .. Len(bucket) /\ DOMAIN guesses = 1 .. Len(guesses)
    BY <1>1 DEF GuardTypeOK, Others
  <1>4. Others >= 0 /\ Others \in Nat /\ Others <= Len(guesses) /\ Len(bucket) < Threshold
    BY <1>1, <1>3 DEF BucketOK
  <1>5. \A i \in 1 .. Len(guesses) : guesses[i] \in Nat
    BY <1>1 DEF GuardTypeOK
  <1>6. \A i \in 1 .. Len(bucket) : bucket[i] = guesses[Others + i]
    BY <1>1, <1>3 DEF BucketOK
  <1>7. now \in Nat /\ lockedUntil \in Nat
    BY <1>1 DEF GuardTypeOK
  <1> QED
    BY <1>2, <1>3, <1>4, <1>5, <1>6, <1>7

LEMMA TickStep == GuardInv /\ Tick => GuardInv'
  <1> SUFFICES ASSUME GuardInv, Tick PROVE GuardInv'
    OBVIOUS
  <1>1. now \in Nat /\ now' = now + 1 /\ UNCHANGED guard
    BY DEF Tick, GuardInv, GuardTypeOK
  <1>2. GuardTypeOK' /\ BucketOK'
    BY <1>1 DEF GuardInv, GuardTypeOK, BucketOK, Others, guard
  <1>3. Others' = Others /\ UNCHANGED <<bucket, lockedUntil, checking, guesses>>
    BY <1>1 DEF Others, guard
  <1>4. OthersExpire => OthersExpire'
    <2> SUFFICES ASSUME OthersExpire PROVE OthersExpire'
      OBVIOUS
    <2>1. ASSUME NEW i \in 1 .. Len(guesses) PROVE guesses[i] <= now'
      <3>1. guesses[i] <= now /\ guesses[i] \in Nat
        BY GuardNumbers DEF OthersExpire
      <3> QED
        BY <1>1, <3>1
    <2>2. ASSUME NEW i \in 1 .. Others
          PROVE  guesses[i] + Window <= now' \/ guesses[i] + Window <= lockedUntil
      <3>1. guesses[i] \in Nat
        BY GuardNumbers
      <3> QED
        BY <1>1, <3>1, GuardNumbers DEF OthersExpire
    <2> QED
      BY <1>3, <2>1, <2>2, GuardNumbers DEF OthersExpire
  <1>5. LockedOut => LockedOut'
    BY <1>1, <1>3, GuardNumbers DEF LockedOut
  <1> QED
    BY <1>2, <1>4, <1>5 DEF GuardInv

\* A lock that is dropped has expired, and with it all that the bucket has forgotten.
LEMMA CheckLockStep ==
  ASSUME GuardInv, NEW l \in Login, CheckLock(l)
  PROVE  GuardInv'
  <1>1. /\ lockedUntil <= now /\ lockedUntil' = 0 /\ checking' = checking \cup {l}
        /\ UNCHANGED <<now, bucket, guesses>>
    BY DEF CheckLock
  <1>2. GuardTypeOK' /\ BucketOK'
    BY <1>1 DEF GuardInv, GuardTypeOK, BucketOK, Others
  <1>3. OthersExpire => OthersExpire'
    BY <1>1, GuardAssumption DEF GuardInv, GuardTypeOK, BucketOK, OthersExpire, Others
  <1>4. LockedOut'
    BY <1>1 DEF GuardInv, GuardTypeOK, LockedOut
  <1> QED
    BY <1>2, <1>3, <1>4 DEF GuardInv

\* A failure comes to the end of the bucket as to that of the guesses, or locks.
LEMMA RecordFailureStep ==
  ASSUME GuardInv, NEW l \in Login, RecordFailure(l)
  PROVE  GuardInv'
  <1> DEFINE failures(n) == Append(SubSeq(bucket, n + 1, Len(bucket)), now)
  <1>1. PICK n \in 0 .. Len(bucket) :
            /\ l \in checking /\ checking' = checking \ {l}
            /\ \A i \in 1 .. n : Expired(bucket[i])
            /\ \/ /\ Len(failures(n)) >= Threshold
                  /\ bucket' = <<>> /\ lockedUntil' = now + Lock
               \/ /\ ~(Len(failures(n)) >= Threshold)
                  /\ bucket' = failures(n) /\ lockedUntil' = lockedUntil
            /\ guesses' = Append(guesses, now) /\ now' = now
    BY DEF RecordFailure
  <1>2. /\ Threshold \in Nat /\ Window \in Nat /\ Lock \in Nat
        /\ Threshold > 0 /\ Window > 0 /\ Lock > 0
        /\ now \in Nat /\ lockedUntil \in Nat
        /\ Len(bucket) \in Nat /\ Len(guesses) \in Nat /\ n \in Nat /\ n <= Len(bucket)
    BY GuardNumbers
  <1>3. /\ failures(n) \in Seq(Nat) /\ Len(failures(n)) = Len(bucket) - n + 1
        /\ \A i \in 1 .. Len(bucket) - n : failures(n)[i] = bucket[n + i]
        /\ failures(n)[Len(bucket) - n + 1] = now
    <2>1. bucket \in Seq(Nat)
      BY DEF GuardInv, GuardTypeOK
    <2> QED
      BY <1>2, <2>1
  <1>4. /\ guesses' \in Seq(Nat) /\ Len(guesses') = Len(guesses) + 1
        /\ guesses'[Len(guesses) + 1] = now
        /\ \A i \in 1 .. Len(guesses) : guesses'[i] = guesses[i]
        /\ DOMAIN guesses' = 1 .. Len(guesses')
    <2>1. guesses \in Seq(Nat)
      BY DEF GuardInv, GuardTypeOK
    <2> QED
      BY <1>1, <1>2, <2>1
  <1>5. /\ Cardinality(Login) \in Nat /\ Cardinality(checking) \in Nat
        /\ Cardinality(checking) <= Cardinality(Login)
        /\ Cardinality(checking') = Cardinality(checking) - 1
    BY <1>1, CheckingCounts DEF GuardInv
  <1> HIDE DEF failures
  <1>6. GuardTypeOK'
    <2>1. bucket' \in Seq(Nat) /\ lockedUntil' \in Nat
      <3>1. <<>> \in Seq(Nat) /\ now + Lock \in Nat
        BY <1>2
      <3> QED
        BY <1>1, <1>2, <1>3, <3>1
    <2> QED
      BY <1>1, <1>2, <1>4, <2>1 DEF GuardInv, GuardTypeOK
  <1>7. /\ Len(bucket) < Threshold /\ Others = Len(guesses) - Len(bucket)
        /\ Others \in Nat /\ Others <= Len(guesses)
        /\ \A i \in 1 .. Len(bucket) : bucket[i] = guesses[Others + i]
        /\ DOMAIN guesses = 1 .. Len(guesses)
        /\ \A i \in 1 .. Len(guesses) : guesses[i] \in Nat
    BY GuardNumbers
  <1>8. \A i \in 1 .. Others + n : i \in 1 .. Others \/ Expired(guesses[i])
    <2> SUFFICES ASSUME NEW i \in 1 .. Others + n, i > Others PROVE Expired(guesses[i])
      BY <1>2, <1>7
    <2>1. i - Others \in 1 .. n /\ i - Others \in 1 .. Len(bucket) /\ Others + (i - Others) = i
      BY <1>2, <1>7
    <2>2. guesses[i] = bucket[i - Others]
      BY <1>7, <2>1
    <2> QED
      BY <1>1, <2>1, <2>2
  <1>9. CASE bucket' = failures(n) /\ lockedUntil' = lockedUntil /\ ~(Len(failures(n)) >= Threshold)
    <2>1. Others' = Others + n /\ Len(bucket') = Len(bucket) - n + 1
      <3>1. Len(bucket') = Len(bucket) - n + 1
        BY <1>3, <1>9
      <3>2. Others' = Len(guesses') - Len(bucket')
        BY DEF Others
      <3> QED
        BY <1>2, <1>4, <1>7, <3>1, <3>2
    <2>2. BucketOK'
      <3>1. \A i \in 1 .. Len(bucket') : bucket'[i] = guesses'[Others' + i]
        <4> TAKE i \in 1 .. Len(bucket')
        <4>1. CASE i = Len(bucket) - n + 1
          <5>1. bucket'[i] = now /\ Others' + i = Len(guesses) + 1
            BY <1>2, <1>3, <1>7, <1>9, <2>1, <4>1
          <5> QED
            BY <1>4, <5>1
        <4>2. CASE i \in 1 .. Len(bucket) - n
          <5>1. bucket'[i] = bucket[n + i]
            BY <1>3, <1>9, <4>2
          <5>2. n + i \in 1 .. Len(bucket) /\ Others + (n + i) \in 1 .. Len(guesses)
            BY <1>1, <1>2, <1>7, <4>2
          <5>3. bucket[n + i] = guesses[Others + (n + i)]
            BY <1>7, <5>2
          <5>4. guesses'[Others + (n + i)] = guesses[Others + (n + i)]
            BY <1>4, <5>2
          <5>5. Others' + i = Others + (n + i)
            BY <1>1, <1>2, <1>7, <2>1, <4>2
          <5> QED
            BY <5>1, <5>3, <5>4, <5>5
        <4> QED
          BY <1>2, <2>1, <4>1, <4>2
      <3>2. Len(bucket') < Threshold /\ Others' >= 0
        BY <1>2, <1>3, <1>7, <1>9, <2>1
      <3>3. DOMAIN bucket' = 1 .. Len(bucket')
        BY <1>6 DEF GuardTypeOK
      <3> QED
        BY <3>1, <3>2, <3>3 DEF BucketOK
    <2>3. ASSUME OthersExpire PROVE OthersExpire'
      <3>1. \A i \in DOMAIN guesses' : guesses'[i] <= now'
        BY <1>1, <1>2, <1>4, <2>3 DEF OthersExpire
      <3>2. ASSUME NEW i \in 1 .. Others'
            PROVE  guesses'[i] + Window <= now' \/ guesses'[i] + Window <= lockedUntil'
        <4>1. i \in 1 .. Len(guesses) /\ guesses[i] \in Nat /\ guesses'[i] = guesses[i]
          BY <1>1, <1>2, <1>4, <1>7, <2>1, <3>2
        <4>2. i \in 1 .. Others \/ Expired(guesses[i])
          BY <1>8, <2>1, <3>2
        <4> QED
          BY <1>1, <1>2, <1>9, <2>3, <4>1, <4>2 DEF OthersExpire, Expired
      <3> QED
        BY <3>1, <3>2 DEF OthersExpire
    <2>4. ASSUME LockedOut PROVE LockedOut'
      <3> SUFFICES ASSUME lockedUntil > now, NEW i \in 1 .. Len(guesses'),
                          guesses'[i] + Window > now
                   PROVE  Len(guesses') - i + 1 + Cardinality(checking')
                              <= Threshold - 1 + Cardinality(Login)
        BY <1>1, <1>4, <1>9 DEF LockedOut
      <3>1. CASE i = Len(guesses) + 1
        BY <1>2, <1>4, <1>5, <3>1
      <3>2. CASE i \in 1 .. Len(guesses)
        <4>1. Len(guesses) - i + 1 + Cardinality(checking) <= Threshold - 1 + Cardinality(Login)
          BY <1>2, <1>4, <1>7, <2>4, <3>2 DEF LockedOut
        <4> QED
          BY <1>2, <1>4, <1>5, <3>2, <4>1
      <3> QED
        BY <1>2, <1>4, <3>1, <3>2
    <2> QED
      BY <1>6, <2>2, <2>3, <2>4 DEF GuardInv
  <1>10. CASE bucket' = <<>> /\ lockedUntil' = now + Lock
    <2>1. BucketOK'
      BY <1>2, <1>4, <1>10 DEF BucketOK, Others
    <2>2. ASSUME OthersExpire, Lock >= Window PROVE OthersExpire'
      <3>1. \A i \in 1 .. Len(guesses') : guesses'[i] \in Nat /\ guesses'[i] <= now
        <4>1. \A i \in 1 .. Len(guesses) : guesses[i] <= now
          BY <1>7, <2>2 DEF OthersExpire
        <4> QED
          BY <1>2, <1>4, <1>7, <4>1
      <3>2. Others' = Len(guesses')
        BY <1>4, <1>10 DEF Others
      <3> QED
        BY <1>1, <1>2, <1>4, <1>10, <2>2, <3>1, <3>2 DEF OthersExpire
    <2>3. ASSUME OthersExpire, LockedOut PROVE LockedOut'
      <3> SUFFICES ASSUME NEW i \in 1 .. Len(guesses'), guesses'[i] + Window > now
                   PROVE  Len(guesses') - i + 1 + Cardinality(checking')
                              <= Threshold - 1 + Cardinality(Login)
        BY <1>1, <1>4 DEF LockedOut
      <3>1. CASE i = Len(guesses) + 1
        BY <1>2, <1>4, <1>5, <3>1
      <3>2. CASE i \in 1 .. Len(guesses) /\ lockedUntil > now
        <4>1. Len(guesses) - i + 1 + Cardinality(checking) <= Threshold - 1 + Cardinality(Login)
          BY <1>2, <1>4, <1>7, <2>3, <3>2 DEF LockedOut
        <4> QED
          BY <1>2, <1>4, <1>5, <3>2, <4>1
      <3>3. CASE i \in 1 .. Len(guesses) /\ ~(lockedUntil > now)
        <4>1. guesses'[i] = guesses[i] /\ guesses[i] \in Nat
          BY <1>2, <1>4, <3>3
        <4>2. i > Others
          <5>1. CASE i \in 1 .. Others
            <6>1. guesses[i] + Window <= now \/ guesses[i] + Window <= lockedUntil
              BY <2>3, <5>1 DEF OthersExpire
            <6>2. lockedUntil <= now
              BY <1>2, <3>3
            <6> QED
              BY <1>2, <4>1, <6>1, <6>2
          <5> QED
            BY <1>7, <3>3, <5>1
        <4>3. Len(guesses) - i + 1 <= Threshold - 1
          BY <1>2, <1>7, <3>3, <4>2
        <4> QED
          BY <1>2, <1>4, <1>5, <3>3, <4>3
      <3> QED
        BY <1>2, <1>4, <3>1, <3>2, <3>3
    <2> QED
      BY <1>6, <2>1, <2>2, <2>3 DEF GuardInv
  <1> QED
    BY <1>1, <1>9, <1>10

\* Whatever forgets the guesses starts anew.
LEMMA ForgetStep ==
  ASSUME GuardInv, checking' \subseteq checking, now' = now,
         bucket' = <<>>, guesses' = <<>>, lockedUntil' = 0
  PROVE  GuardInv'
  <1>1. GuardTypeOK'
    BY DEF GuardInv, GuardTypeOK
  <1>2. BucketOK' /\ OthersExpire' /\ LockedOut'
    BY GuardAssumption DEF GuardInv, GuardTypeOK, BucketOK, Others,
         OthersExpire, LockedOut
  <1> QED
    BY <1>1, <1>2 DEF GuardInv

LEMMA DropStep ==
  ASSUME GuardInv, NEW l \in Login, Drop(l)
  PROVE  GuardInv'
  <1>1. /\ l \in checking /\ checking' = checking \ {l}
        /\ UNCHANGED <<now, bucket, lockedUntil, guesses>>
    BY DEF Drop
  <1>2. GuardTypeOK' /\ BucketOK' /\ (OthersExpire => OthersExpire')
    BY <1>1 DEF GuardInv, GuardTypeOK, BucketOK, Others, OthersExpire
  <1>3. LockedOut => LockedOut'
    <2>1. /\ Cardinality(Login) \in Nat /\ Cardinality(checking) \in Nat
          /\ Cardinality(checking') = Cardinality(checking) - 1
      BY <1>1, CheckingCounts DEF GuardInv
    <2> QED
      BY <1>1, <2>1, GuardAssumption DEF LockedOut, GuardInv, GuardTypeOK
  <1> QED
    BY <1>2, <1>3 DEF GuardInv

\* Of a step of the whole, the guard sees one of its own, a new process, or none.
LEMMA StepOfGuard ==
  [UpdateNext]_updateVars => GuardNext \/ (ForgetLogins /\ now' = now) \/ UNCHANGED <<now, guard>>
  BY DEF UpdateNext, updateVars, memory, Release, Start, PullConfig, PullImages, RestartApi,
         Rebuild, Interrupt, CrashApi, CountNext

LEMMA GuardStep == GuardInv /\ [UpdateNext]_updateVars => GuardInv'
  <1> SUFFICES ASSUME GuardInv, [UpdateNext]_updateVars PROVE GuardInv'
    OBVIOUS
  <1>1. CASE ForgetLogins /\ now' = now
    BY <1>1, ForgetStep DEF ForgetLogins
  <1>2. CASE UNCHANGED <<now, guard>>
    BY <1>2 DEF guard, GuardInv, GuardTypeOK, BucketOK, Others,
         OthersExpire, LockedOut
  <1>3. ASSUME NEW l \in Login, Clear(l) PROVE GuardInv'
    BY <1>3, ForgetStep DEF Clear
  <1> QED
    BY <1>1, <1>2, <1>3, StepOfGuard, TickStep, CheckLockStep, RecordFailureStep, DropStep
       DEF GuardNext

LEMMA GuardInductive == UpdateSpec => []GuardInv
  <1>1. UpdateInit => GuardInv
    BY GuardAssumption DEF UpdateInit, GuardInit, GuardInv, GuardTypeOK, BucketOK, Others,
         OthersExpire, LockedOut
  <1> QED
    BY <1>1, GuardStep, PTL DEF UpdateSpec

\* However logins overlap, updates and crashes included, the lock bounds the passwords
\* that turn out wrong in a window of time (_LoginGuard).
THEOREM FewGuessesAlways == UpdateSpec => []FewGuesses
  <1>1. GuardInv => FewGuesses
    <2> SUFFICES ASSUME GuardInv, Lock >= Window, NEW i \in DOMAIN guesses,
                        guesses[i] + Window > now
                 PROVE  Len(guesses) - i + 1 <= Threshold - 1 + Cardinality(Login)
      BY DEF FewGuesses
    <2>1. Cardinality(Login) \in Nat /\ Cardinality(checking) \in Nat
      BY CheckingCounts DEF GuardInv
    <2>2. /\ now \in Nat /\ lockedUntil \in Nat /\ bucket \in Seq(Nat) /\ guesses \in Seq(Nat)
          /\ i \in 1 .. Len(guesses) /\ guesses[i] \in Nat
      BY DEF GuardInv, GuardTypeOK
    <2>3. CASE lockedUntil > now
      BY <2>1, <2>2, <2>3, GuardAssumption DEF GuardInv, LockedOut
    <2>4. CASE ~(lockedUntil > now)
      <3>1. i > Len(guesses) - Len(bucket)
        BY <2>2, <2>4, GuardNumbers DEF GuardInv, OthersExpire
      <3> QED
        BY <2>1, <2>2, <3>1, GuardNumbers
    <2> QED
      BY <2>3, <2>4
  <1> QED
    BY <1>1, GuardInductive, PTL

-----------------------------------------------------------------------------
(* The tree of the UI: its caches.                                         *)

LEMMA DoneIsNoWork == Done.stage = "done" /\ Done \notin Works
  BY DEF Done, Works

LEMMA WorkAt ==
  ASSUME TreeTypeOK, NEW r \in Rendering, work[r].stage # "done"
  PROVE  work[r] \in Works /\ work[r] # Done
  BY DoneIsNoWork DEF TreeTypeOK

LEMMA NodesDrawn ==
  /\ \A s \in Site : Visible(s, Absent) \subseteq Nodes
  /\ \A z \in Zone : Visible(z, ZoneSite[z]) \subseteq Nodes
  /\ \A list : \A z \in Zone : DeviceNodes(z, list) \subseteq Nodes
  BY DEF Visible, DeviceNodes, Nodes

\* A rendering goes on without touching the devices that are known.
LEMMA GoesOn ==
  ASSUME CacheInv, NEW r \in Rendering, NEW w \in Works \cup {Done},
         work' = [work EXCEPT ![r] = w], Placed(w), w.stage # "prefetch",
         UNCHANGED <<devices, prefetched>>, spoilt \subseteq spoilt',
         sites' \in (SUBSET Site) \cup {Absent}, shown' \subseteq Nodes,
         zones' \in [Site -> (SUBSET Zone) \cup {Absent}],
         \A s \in Site : zones'[s] \in {ZonesOf(s), Absent}
  PROVE  CacheInv'
  <1>1. \A q \in Rendering : work'[q] = IF q = r THEN w ELSE work[q]
    BY DEF CacheInv, TreeTypeOK
  <1>2. TreeTypeOK' /\ CachesTrue'
    BY <1>1 DEF CacheInv, TreeTypeOK, CachesTrue
  <1>3. PrefetchedOnce'
    <2>1. \A q \in Rendering, s \in Site : Prefetching(q, s)' => Prefetching(q, s)
      BY <1>1 DEF Prefetching
    <2> QED
      BY <2>1 DEF CacheInv, PrefetchedOnce
  <1>4. ListedOnce'
    BY DEF CacheInv, ListedOnce
  <1>5. \A q \in Rendering : Placed(work[q])'
    BY <1>1 DEF CacheInv, Placed
  <1> QED
    BY <1>2, <1>3, <1>4, <1>5 DEF CacheInv

LEMMA StartStep ==
  ASSUME CacheInv, NEW r \in Rendering, Render(r), sites' \in SUBSET Site,
         UNCHANGED <<zones, devices, prefetched, spoilt, shown>>
  PROVE  CacheInv'
  <1> DEFINE w == [Done EXCEPT !.stage = "site", !.sitesLeft = sites']
  <1>1. w \in Works /\ w.stage = "site"
    BY DEF Done, Works
  <1>2. Placed(w)
    BY <1>1 DEF Placed
  <1>3. work' = [work EXCEPT ![r] = w]
    BY DEF Render, Proceed
  <1> HIDE DEF w
  <1> QED
    BY <1>1, <1>2, <1>3, GoesOn DEF CacheInv, TreeTypeOK, CachesTrue

\* What a rendering does with a site: its devices are fetched, or its zones looked at.
LEMMA WithZonesWork ==
  ASSUME CacheInv, NEW w \in Works, w.site \in Site
  PROVE  /\ WithZones(w) \in Works /\ WithZones(w).site = w.site
         /\ WithZones(w).sitesLeft = w.sitesLeft /\ WithZones(w).html = w.html
         /\ \/ /\ zones[w.site] = Absent /\ WithZones(w).stage = "zones"
            \/ /\ zones[w.site] # Absent /\ WithZones(w).stage = "zone"
               /\ WithZones(w).zonesLeft = zones[w.site] /\ zones[w.site] = ZonesOf(w.site)
  <1>1. zones[w.site] \in (SUBSET Zone) \cup {Absent} /\ zones[w.site] \in {ZonesOf(w.site), Absent}
    BY DEF CacheInv, TreeTypeOK, CachesTrue
  <1>2. CASE zones[w.site] = Absent
    <2>1. WithZones(w) = [w EXCEPT !.stage = "zones"]
      BY <1>2 DEF WithZones
    <2> QED
      BY <1>2, <2>1 DEF Works
  <1>3. CASE zones[w.site] # Absent
    <2> DEFINE left == zones[w.site]
    <2>1. WithZones(w) = [w EXCEPT !.stage = "zone", !.zonesLeft = left]
      BY <1>3 DEF WithZones
    <2>2. left \in SUBSET Zone
      BY <1>1, <1>3, Zenon
    <2>3. left = ZonesOf(w.site)
      BY <1>1, <1>3
    <2> HIDE DEF left
    <2>4. [w EXCEPT !.stage = "zone", !.zonesLeft = left] \in Works
      BY <2>2 DEF Works
    <2>5. LET q == [w EXCEPT !.stage = "zone", !.zonesLeft = left]
          IN  /\ q.stage = "zone" /\ q.zonesLeft = left /\ q.site = w.site
              /\ q.sitesLeft = w.sitesLeft /\ q.html = w.html
      BY DEF Works
    <2> QED
      BY <1>3, <2>1, <2>3, <2>4, <2>5 DEF left
  <1> QED
    BY <1>2, <1>3

\* A rendering that comes to a site.
LEMMA VisitSiteWork ==
  ASSUME CacheInv, NEW r \in Rendering, NEW s \in Site, VisitSite(r, s)
  PROVE  \E w \in Works :
             /\ work' = [work EXCEPT ![r] = w] /\ w.site = s
             /\ w.sitesLeft = work[r].sitesLeft \ {s}
             /\ w.html = work[r].html \cup Visible(s, Absent)
             /\ \/ /\ s \in filter \cap expanded /\ s \notin prefetched /\ w.stage = "prefetch"
                   /\ \A q \in Rendering : Prefetching(q, s) => s \in spoilt'
                \/ /\ s \in filter \cap expanded /\ s \in prefetched
                   /\ zones[s] = Absent /\ w.stage = "zones"
                \/ /\ s \in filter \cap expanded /\ s \in prefetched
                   /\ zones[s] # Absent /\ w.stage = "zone" /\ w.zonesLeft = ZonesOf(s)
                \/ s \notin filter \cap expanded /\ w.stage = "site"
  <1> DEFINE html == work[r].html \cup Visible(s, Absent)
  <1> DEFINE left == work[r].sitesLeft \ {s}
  <1> DEFINE w == [work[r] EXCEPT !.site = s, !.sitesLeft = left, !.html = html]
  <1> DEFINE fetched == s \in filter \cap expanded /\ s \notin prefetched
  <1>1. /\ work[r].stage = "site"
        /\ work' = [work EXCEPT ![r] = IF fetched THEN [w EXCEPT !.stage = "prefetch"]
                                       ELSE IF s \in filter \cap expanded THEN WithZones(w) ELSE w]
        /\ spoilt' = IF fetched /\ \E q \in Rendering :
                                       work[q].stage = "prefetch" /\ work[q].site = s
                     THEN spoilt \cup {s} ELSE spoilt
    BY DEF VisitSite, Proceed, NeedsPrefetch
  <1>2. work[r] \in Works
    BY <1>1, WorkAt DEF CacheInv
  <1>3. html \in SUBSET Nodes /\ left \in SUBSET Site
    BY <1>2, NodesDrawn DEF Works
  <1> HIDE DEF html, left
  <1>4. /\ w \in Works /\ w.site = s /\ w.sitesLeft = left /\ w.html = html /\ w.stage = "site"
    BY <1>1, <1>2, <1>3 DEF Works
  <1> HIDE DEF w
  <1>5. LET p == [w EXCEPT !.stage = "prefetch"]
        IN  /\ p \in Works /\ p.site = s /\ p.sitesLeft = left /\ p.html = html
            /\ p.stage = "prefetch"
    BY <1>4 DEF Works
  <1>6. CASE fetched
    <2>1. \A q \in Rendering : Prefetching(q, s) => s \in spoilt'
      BY <1>1, <1>6 DEF Prefetching
    <2>2. work' = [work EXCEPT ![r] = [w EXCEPT !.stage = "prefetch"]]
      BY <1>1, <1>6
    <2> QED
      BY <1>5, <1>6, <2>1, <2>2 DEF html, left
  <1>7. CASE ~fetched /\ s \in filter \cap expanded
    <2>1. work' = [work EXCEPT ![r] = WithZones(w)] /\ s \in prefetched
      BY <1>1, <1>7
    <2> QED
      BY <1>4, <1>7, <2>1, WithZonesWork DEF html, left
  <1>8. CASE s \notin filter \cap expanded
    <2>1. work' = [work EXCEPT ![r] = w]
      BY <1>1, <1>8
    <2> QED
      BY <1>4, <1>8, <2>1 DEF html, left
  <1> QED
    BY <1>6, <1>7, <1>8

LEMMA VisitSiteStep ==
  ASSUME CacheInv, NEW r \in Rendering, NEW s \in Site, VisitSite(r, s)
  PROVE  CacheInv'
  <1>1. PICK w \in Works :
            /\ work' = [work EXCEPT ![r] = w] /\ w.site = s
            /\ \/ /\ s \notin prefetched /\ w.stage = "prefetch"
                  /\ \A q \in Rendering : Prefetching(q, s) => s \in spoilt'
               \/ /\ s \in prefetched
                  /\ w.stage = "zones" \/ (w.stage = "zone" /\ w.zonesLeft = ZonesOf(s))
               \/ w.stage = "site"
    BY VisitSiteWork
  <1>2. UNCHANGED <<sites, zones, devices, prefetched, shown>> /\ spoilt \subseteq spoilt'
    BY DEF VisitSite, caches
  <1>3. CASE w.stage # "prefetch"
    <2>1. Placed(w)
      BY <1>1, <1>3 DEF Placed
    <2> QED
      BY <1>1, <1>2, <1>3, <2>1, GoesOn DEF CacheInv, TreeTypeOK, CachesTrue
  <1>4. CASE w.stage = "prefetch"
    <2>1. \A q \in Rendering : work'[q] = IF q = r THEN w ELSE work[q]
      BY <1>1 DEF CacheInv, TreeTypeOK
    <2>2. s \notin prefetched /\ \A q \in Rendering : Prefetching(q, s) => s \in spoilt'
      BY <1>1, <1>4
    <2>3. TreeTypeOK' /\ CachesTrue'
      BY <1>2, <2>1, <1>1 DEF CacheInv, TreeTypeOK, CachesTrue
    <2>4. PrefetchedOnce'
      <3>1. \A q \in Rendering, t \in Site :
                Prefetching(q, t)' => IF q = r THEN t = s ELSE Prefetching(q, t)
        BY <1>1, <2>1 DEF Prefetching
      <3>2. \A q \in Rendering, t \in Site \ spoilt' :
                Prefetching(q, t)' =>
                    t \notin prefetched /\ \A p \in Rendering : Prefetching(p, t)' => p = q
        BY <1>2, <2>2, <3>1 DEF CacheInv, PrefetchedOnce
      <3> QED
        BY <1>2, <3>2 DEF CacheInv, PrefetchedOnce
    <2>5. ListedOnce'
      BY <1>2 DEF CacheInv, ListedOnce
    <2>6. \A q \in Rendering : Placed(work[q])'
      BY <1>1, <1>2, <1>4, <2>1 DEF CacheInv, Placed
    <2> QED
      BY <2>3, <2>4, <2>5, <2>6 DEF CacheInv
  <1> QED
    BY <1>3, <1>4

LEMMA ExtendedList ==
  ASSUME NEW list \in [Device -> Nat] \cup {Absent}, NEW more
  PROVE  /\ Extended(list, more) \in [Device -> Nat] /\ Extended(list, more) # Absent
         /\ \A d \in Device :
                Extended(list, more)[d] = (IF list = Absent THEN 0 ELSE list[d])
                                              + (IF d \in more THEN 1 ELSE 0)
  <1>1. \A d \in Device :
            (IF list = Absent THEN 0 ELSE list[d]) + (IF d \in more THEN 1 ELSE 0) \in Nat
    OBVIOUS
  <1>2. Extended(list, more) \in [Device -> Nat]
    BY <1>1 DEF Extended
  <1> QED
    BY <1>2, NodesAssumption DEF Extended

\* The first answer about a site that is undisturbed finds none of its devices listed.
LEMMA PrefetchedStep ==
  ASSUME CacheInv, NEW r \in Rendering, Prefetched(r)
  PROVE  CacheInv'
  <1> DEFINE s == work[r].site
  <1> DEFINE Found(z) == {d \in Device : Home[d] = [site |-> s, zone |-> z]}
  <1>1. /\ work[r].stage = "prefetch" /\ prefetched' = prefetched \cup {s}
        /\ devices' = [z \in Zone |-> IF Found(z) = {} THEN devices[z]
                                      ELSE Extended(devices[z], Found(z))]
        /\ work' = [work EXCEPT ![r] = WithZones(work[r])]
        /\ UNCHANGED <<sites, zones, shown, spoilt>>
    BY DEF Prefetched, Proceed, Quiet
  <1>2. work[r] \in Works /\ s \in Site
    BY <1>1, WorkAt DEF CacheInv, Placed
  <1>3. \A z \in Zone, d \in Device : d \in Found(z) <=> Home[d] = [site |-> s, zone |-> z]
    OBVIOUS
  <1> HIDE DEF s, Found
  <1>4. /\ WithZones(work[r]) \in Works /\ WithZones(work[r]).site = s
        /\ \/ WithZones(work[r]).stage = "zones"
           \/ /\ WithZones(work[r]).stage = "zone"
              /\ WithZones(work[r]).zonesLeft = ZonesOf(s)
    BY <1>2, WithZonesWork DEF s
  <1>5. \A q \in Rendering : work'[q] = IF q = r THEN WithZones(work[r]) ELSE work[q]
    BY <1>1 DEF CacheInv, TreeTypeOK
  <1>6. \A z \in Zone : devices[z] \in [Device -> Nat] \cup {Absent}
    BY DEF CacheInv, TreeTypeOK
  <1>7. \A z \in Zone : Found(z) = {} => devices'[z] = devices[z]
    BY <1>1
  <1>8. ASSUME NEW z \in Zone, Found(z) # {}
        PROVE  /\ devices'[z] \in [Device -> Nat] /\ devices'[z] # Absent
               /\ \A d \in Device :
                      devices'[z][d] = (IF devices[z] = Absent THEN 0 ELSE devices[z][d])
                                           + (IF d \in Found(z) THEN 1 ELSE 0)
    BY <1>1, <1>6, <1>8, ExtendedList
  <1>9. TreeTypeOK'
    <2>1. \A z \in Zone : devices'[z] \in [Device -> Nat] \cup {Absent}
      BY <1>6, <1>7, <1>8
    <2>2. devices' \in [Zone -> [Device -> Nat] \cup {Absent}]
      BY <1>1, <2>1
    <2> QED
      BY <1>1, <1>4, <1>5, <2>2 DEF CacheInv, TreeTypeOK
  <1>10. CachesTrue'
    <2> SUFFICES ASSUME NEW z \in Zone, NEW d \in Device, devices'[z] # Absent, devices'[z][d] > 0
                 PROVE  d \in DevicesOf(z)
      BY <1>1 DEF CacheInv, CachesTrue
    <2>1. CASE d \in Found(z)
      <3>1. Home[d] = [site |-> s, zone |-> z]
        BY <1>3, <2>1
      <3>2. Home[d].zone = z
        BY <3>1
      <3> QED
        BY <3>2 DEF DevicesOf
    <2>2. CASE d \notin Found(z)
      <3>1. devices[z] # Absent /\ devices[z][d] > 0
        BY <1>6, <1>7, <1>8, <2>2
      <3> QED
        BY <3>1 DEF CacheInv, CachesTrue
    <2> QED
      BY <2>1, <2>2
  <1>11. \A t \in Site, z \in Zone, d \in Device :
            t # s /\ Home[d] = [site |-> t, zone |-> z] =>
                /\ d \notin Found(z)
                /\ devices[z] = Absent => devices'[z] = Absent \/ devices'[z][d] = 0
                /\ devices[z] # Absent => devices'[z] # Absent /\ devices'[z][d] = devices[z][d]
    <2> TAKE t \in Site, z \in Zone, d \in Device
    <2> HAVE t # s /\ Home[d] = [site |-> t, zone |-> z]
    <2>1. d \notin Found(z)
      <3>1. Home[d].site = t
        OBVIOUS
      <3>2. d \in Found(z) => Home[d] = [site |-> s, zone |-> z]
        BY <1>3
      <3>3. d \in Found(z) => Home[d].site = s
        BY <3>2
      <3> QED
        BY <3>1, <3>3
    <2> QED
      BY <1>6, <1>7, <1>8, <2>1
  <1>12. PrefetchedOnce'
    <2>1. \A q \in Rendering, t \in Site : Prefetching(q, t)' => Prefetching(q, t) /\ q # r
      BY <1>4, <1>5 DEF Prefetching
    <2>2. Prefetching(r, s)
      BY <1>1 DEF Prefetching, s
    <2>3. \A t \in Site \ spoilt, q \in Rendering : Prefetching(q, t)' =>
              t \notin prefetched' /\ \A p \in Rendering : Prefetching(p, t)' => p = q
      BY <1>1, <1>2, <2>1, <2>2 DEF CacheInv, PrefetchedOnce
    <2>4. \A t \in Site \ spoilt : t \notin prefetched' =>
              \A z \in Zone, d \in Device :
                  ZoneSite[z] = t /\ Home[d] = [site |-> t, zone |-> z] =>
                      devices'[z] = Absent \/ devices'[z][d] = 0
      BY <1>1, <1>11 DEF CacheInv, PrefetchedOnce
    <2> QED
      BY <1>1, <2>3, <2>4 DEF PrefetchedOnce
  <1>13. ListedOnce'
    <2> SUFFICES ASSUME NEW t \in prefetched' \ spoilt, NEW z \in Zone, NEW d \in Device,
                        ZoneSite[z] = t, Home[d] = [site |-> t, zone |-> z]
                 PROVE  devices'[z] # Absent /\ devices'[z][d] = 1
      BY <1>1 DEF ListedOnce
    <2>1. CASE t = s
      <3>1. d \in Found(z)
        BY <1>3, <2>1
      <3>2. s \notin prefetched
        BY <1>1, <1>2, <2>1 DEF CacheInv, PrefetchedOnce, Prefetching, s
      <3>3. devices[z] = Absent \/ devices[z][d] = 0
        BY <1>2, <2>1, <3>2 DEF CacheInv, PrefetchedOnce
      <3> QED
        BY <1>8, <3>1, <3>3
    <2>2. CASE t # s
      <3>1. t \in prefetched \ spoilt /\ t \in Site
        BY <1>1, <2>2, NodesAssumption
      <3>2. devices[z] # Absent /\ devices[z][d] = 1
        BY <3>1 DEF CacheInv, ListedOnce
      <3> QED
        BY <1>11, <2>2, <3>1, <3>2
    <2> QED
      BY <2>1, <2>2
  <1>14. \A q \in Rendering : Placed(work[q])'
    BY <1>1, <1>2, <1>4, <1>5 DEF CacheInv, Placed
  <1> QED
    BY <1>9, <1>10, <1>12, <1>13, <1>14 DEF CacheInv

\* A zone's own list is fetched after its site was prefetched, or failed to be.
LEMMA FetchedDevicesStep ==
  ASSUME CacheInv, NEW r \in Rendering, NEW answer \in {DevicesOf(work[r].zone), Absent},
         FetchedDevices(r, answer)
  PROVE  CacheInv'
  <1> DEFINE zone == work[r].zone
  <1> DEFINE list == Extended(Absent, answer)
  <1> DEFINE html == IF answer = Absent THEN work[r].html
                     ELSE work[r].html \cup DeviceNodes(zone, list)
  <1> DEFINE w == [work[r] EXCEPT !.stage = "zone", !.html = html]
  <1>1. /\ work[r].stage = "devices" /\ work' = [work EXCEPT ![r] = w]
        /\ devices' = IF answer = Absent THEN devices ELSE [devices EXCEPT ![zone] = list]
        /\ UNCHANGED <<sites, zones, prefetched, shown, spoilt>>
    BY DEF FetchedDevices, Proceed, Quiet
  <1>2. /\ work[r] \in Works /\ zone \in Zone /\ zone \in ZonesOf(work[r].site)
        /\ ZoneSite[zone] = work[r].site /\ work[r].site \in prefetched \cup spoilt
        /\ work[r].site \in Site /\ work[r].zonesLeft \subseteq ZonesOf(work[r].site)
    BY <1>1, WorkAt DEF CacheInv, Placed, ZonesOf
  <1>3. /\ list \in [Device -> Nat] /\ list # Absent
        /\ \A d \in Device : list[d] = IF d \in answer THEN 1 ELSE 0
    BY ExtendedList
  <1> HIDE DEF list
  <1>4. html \in SUBSET Nodes
    BY <1>2, NodesDrawn DEF Works
  <1> HIDE DEF html
  <1>5. /\ w \in Works /\ w.stage = "zone" /\ w.site = work[r].site
        /\ w.zonesLeft = work[r].zonesLeft
    BY <1>2, <1>4 DEF Works
  <1> HIDE DEF w, zone
  <1>6. Placed(w)
    BY <1>2, <1>5 DEF Placed
  <1>7. CASE answer = Absent
    <2>1. UNCHANGED <<devices, prefetched, sites, zones, shown, spoilt>>
      BY <1>1, <1>7
    <2> QED
      BY <1>1, <1>5, <1>6, <2>1, GoesOn DEF CacheInv, TreeTypeOK, CachesTrue
  <1>8. CASE answer = DevicesOf(zone) /\ answer # Absent
    <2>1. \A z \in Zone : devices'[z] = IF z = zone THEN list ELSE devices[z]
      BY <1>1, <1>8 DEF CacheInv, TreeTypeOK
    <2>2. \A q \in Rendering : work'[q] = IF q = r THEN w ELSE work[q]
      BY <1>1 DEF CacheInv, TreeTypeOK
    <2>3. TreeTypeOK'
      <3>1. devices' \in [Zone -> [Device -> Nat] \cup {Absent}]
        BY <1>1, <1>3, <1>8 DEF CacheInv, TreeTypeOK
      <3> QED
        BY <1>1, <1>5, <2>2, <3>1 DEF CacheInv, TreeTypeOK
    <2>4. CachesTrue'
      BY <1>1, <1>3, <1>8, <2>1 DEF CacheInv, CachesTrue
    <2>5. PrefetchedOnce'
      <3>1. \A q \in Rendering, t \in Site : Prefetching(q, t)' => Prefetching(q, t)
        BY <1>5, <2>2 DEF Prefetching
      <3>2. \A z \in Zone : ZoneSite[z] \notin prefetched \cup spoilt => devices'[z] = devices[z]
        BY <1>2, <2>1
      <3> QED
        BY <1>1, <3>1, <3>2 DEF CacheInv, PrefetchedOnce
    <2>6. ListedOnce'
      <3> SUFFICES ASSUME NEW t \in prefetched \ spoilt, NEW z \in Zone, NEW d \in Device,
                          ZoneSite[z] = t, Home[d] = [site |-> t, zone |-> z]
                   PROVE  devices'[z] # Absent /\ devices'[z][d] = 1
        BY <1>1 DEF ListedOnce
      <3>1. d \in DevicesOf(z)
        <4>1. Home[d].zone = z
          OBVIOUS
        <4> QED
          BY <4>1 DEF DevicesOf
      <3>2. CASE z = zone
        BY <1>3, <1>8, <2>1, <3>1, <3>2
      <3>3. CASE z # zone
        BY <2>1, <3>3 DEF CacheInv, ListedOnce
      <3> QED
        BY <3>2, <3>3
    <2>7. \A q \in Rendering : Placed(work[q])'
      BY <1>1, <1>6, <2>2 DEF CacheInv, Placed
    <2> QED
      BY <2>3, <2>4, <2>5, <2>6, <2>7 DEF CacheInv
  <1> QED
    BY <1>7, <1>8 DEF zone

LEMMA PrefetchFailsStep ==
  ASSUME CacheInv, NEW r \in Rendering, PrefetchFails(r)
  PROVE  CacheInv'
  <1>1. /\ work[r].stage = "prefetch" /\ spoilt' = spoilt \cup {work[r].site}
        /\ work' = [work EXCEPT ![r] = WithZones(work[r])]
        /\ UNCHANGED <<sites, zones, devices, prefetched, shown>>
    BY DEF PrefetchFails, Proceed, caches
  <1>2. work[r] \in Works /\ work[r].site \in Site
    BY <1>1, WorkAt DEF CacheInv, Placed
  <1> DEFINE w == WithZones(work[r])
  <1>3. /\ w \in Works /\ w.site = work[r].site
        /\ w.stage = "zones" \/ (w.stage = "zone" /\ w.zonesLeft = ZonesOf(w.site))
    BY <1>2, WithZonesWork
  <1> HIDE DEF w
  <1>4. \A q \in Rendering : work'[q] = IF q = r THEN w ELSE work[q]
    BY <1>1 DEF CacheInv, TreeTypeOK, w
  <1>5. TreeTypeOK' /\ CachesTrue' /\ ListedOnce'
    BY <1>1, <1>3, <1>4 DEF CacheInv, TreeTypeOK, CachesTrue, ListedOnce
  <1>6. PrefetchedOnce'
    <2>1. \A q \in Rendering, t \in Site : Prefetching(q, t)' => Prefetching(q, t)
      BY <1>3, <1>4 DEF Prefetching
    <2> QED
      BY <1>1, <2>1 DEF CacheInv, PrefetchedOnce
  <1>7. \A q \in Rendering : Placed(work[q])'
    BY <1>1, <1>2, <1>3, <1>4 DEF CacheInv, Placed
  <1> QED
    BY <1>5, <1>6, <1>7 DEF CacheInv

LEMMA FetchedZonesStep ==
  ASSUME CacheInv, NEW r \in Rendering, NEW answer \in {ZonesOf(work[r].site), Absent},
         FetchedZones(r, answer)
  PROVE  CacheInv'
  <1> DEFINE left == IF answer = Absent THEN {} ELSE answer
  <1> DEFINE w == [work[r] EXCEPT !.stage = "zone", !.zonesLeft = left]
  <1>1. /\ work[r].stage = "zones" /\ work' = [work EXCEPT ![r] = w]
        /\ zones' = IF answer = Absent THEN zones ELSE [zones EXCEPT ![work[r].site] = answer]
        /\ UNCHANGED <<sites, devices, prefetched, shown, spoilt>>
    BY DEF FetchedZones, Proceed, Quiet
  <1>2. work[r] \in Works /\ work[r].site \in Site /\ work[r].site \in prefetched \cup spoilt
    BY <1>1, WorkAt DEF CacheInv, Placed
  <1>3. left \in SUBSET Zone /\ left \subseteq ZonesOf(work[r].site)
    BY DEF ZonesOf
  <1> HIDE DEF left
  <1>4. /\ w \in Works /\ w.stage = "zone" /\ w.site = work[r].site /\ w.zonesLeft = left
    BY <1>2, <1>3 DEF Works
  <1> HIDE DEF w
  <1>5. Placed(w)
    BY <1>2, <1>3, <1>4 DEF Placed
  <1>6. /\ zones' \in [Site -> (SUBSET Zone) \cup {Absent}]
        /\ \A s \in Site : zones'[s] \in {ZonesOf(s), Absent}
    <2>1. ZonesOf(work[r].site) \in SUBSET Zone
      BY DEF ZonesOf
    <2> QED
      BY <1>1, <1>2, <2>1 DEF CacheInv, TreeTypeOK, CachesTrue
  <1> QED
    BY <1>1, <1>4, <1>5, <1>6, GoesOn DEF CacheInv, TreeTypeOK

LEMMA VisitZoneWork ==
  ASSUME CacheInv, NEW r \in Rendering, NEW z \in Zone, VisitZone(r, z)
  PROVE  \E w \in Works :
             /\ work' = [work EXCEPT ![r] = w] /\ w.zone = z /\ w.site = work[r].site
             /\ w.sitesLeft = work[r].sitesLeft /\ w.zonesLeft = work[r].zonesLeft \ {z}
             /\ \/ /\ z \in filter \cap expanded /\ devices[z] = Absent /\ w.stage = "devices"
                   /\ w.html = work[r].html \cup Visible(z, work[r].site)
                \/ /\ z \in filter \cap expanded /\ devices[z] # Absent /\ w.stage = "zone"
                   /\ w.html = work[r].html \cup Visible(z, work[r].site)
                                    \cup DeviceNodes(z, devices[z])
                \/ /\ z \notin filter \cap expanded /\ w.stage = "zone"
                   /\ w.html = work[r].html \cup Visible(z, work[r].site)
  <1> DEFINE html == work[r].html \cup Visible(z, work[r].site)
  <1> DEFINE more == html \cup DeviceNodes(z, devices[z])
  <1> DEFINE left == work[r].zonesLeft \ {z}
  <1> DEFINE w == [work[r] EXCEPT !.zone = z, !.zonesLeft = left, !.html = html]
  <1> DEFINE open == z \in filter \cap expanded
  <1>1. /\ work[r].stage = "zone" /\ z \in work[r].zonesLeft
        /\ work' = [work EXCEPT ![r] = IF open /\ devices[z] = Absent
                                       THEN [w EXCEPT !.stage = "devices"]
                                       ELSE IF open
                                            THEN [w EXCEPT !.html =
                                                      @ \cup DeviceNodes(z, devices[z])]
                                            ELSE w]
    BY DEF VisitZone, Proceed
  <1>2. work[r] \in Works /\ ZoneSite[z] = work[r].site
    BY <1>1, WorkAt DEF CacheInv, Placed, ZonesOf
  <1>3. html \in SUBSET Nodes /\ more \in SUBSET Nodes /\ left \in SUBSET Zone
    BY <1>2, NodesDrawn DEF Works
  <1> HIDE DEF html, left
  <1>4. /\ w \in Works /\ w.stage = "zone" /\ w.zone = z /\ w.site = work[r].site
        /\ w.sitesLeft = work[r].sitesLeft /\ w.zonesLeft = left /\ w.html = html
    BY <1>1, <1>2, <1>3 DEF Works
  <1> HIDE DEF w
  <1>5. LET p == [w EXCEPT !.stage = "devices"]
        IN  /\ p \in Works /\ p.stage = "devices" /\ p.zone = z /\ p.site = work[r].site
            /\ p.sitesLeft = work[r].sitesLeft /\ p.zonesLeft = left /\ p.html = html
    BY <1>4 DEF Works
  <1>6. [w EXCEPT !.html = @ \cup DeviceNodes(z, devices[z])] = [w EXCEPT !.html = more]
    BY <1>4
  <1> HIDE DEF more
  <1>7. LET p == [w EXCEPT !.html = more]
        IN  /\ p \in Works /\ p.stage = "zone" /\ p.zone = z /\ p.site = work[r].site
            /\ p.sitesLeft = work[r].sitesLeft /\ p.zonesLeft = left /\ p.html = more
    BY <1>3, <1>4 DEF Works
  <1>8. CASE open /\ devices[z] = Absent
    <2>1. work' = [work EXCEPT ![r] = [w EXCEPT !.stage = "devices"]]
      BY <1>1, <1>8
    <2> QED
      BY <1>5, <1>8, <2>1 DEF html, left
  <1>9. CASE open /\ devices[z] # Absent
    <2>1. work' = [work EXCEPT ![r] = [w EXCEPT !.html = more]]
      BY <1>1, <1>6, <1>9
    <2> QED
      BY <1>7, <1>9, <2>1 DEF html, more, left
  <1>10. CASE ~open
    <2>1. work' = [work EXCEPT ![r] = w]
      BY <1>1, <1>10
    <2> QED
      BY <1>4, <1>10, <2>1 DEF html, left
  <1> QED
    BY <1>8, <1>9, <1>10

LEMMA VisitZoneStep ==
  ASSUME CacheInv, NEW r \in Rendering, NEW z \in Zone, VisitZone(r, z)
  PROVE  CacheInv'
  <1>1. PICK w \in Works :
            /\ work' = [work EXCEPT ![r] = w] /\ w.zone = z /\ w.site = work[r].site
            /\ w.zonesLeft = work[r].zonesLeft \ {z}
            /\ w.stage \in {"zone", "devices"}
    BY VisitZoneWork
  <1>2. /\ work[r].stage = "zone" /\ z \in work[r].zonesLeft
        /\ UNCHANGED <<sites, zones, devices, prefetched, shown, spoilt>>
    BY DEF VisitZone, Quiet, caches
  <1>3. Placed(w)
    BY <1>1, <1>2 DEF CacheInv, Placed
  <1> QED
    BY <1>1, <1>2, <1>3, GoesOn DEF CacheInv, TreeTypeOK, CachesTrue

LEMMA ZonesDoneStep ==
  ASSUME CacheInv, NEW r \in Rendering, ZonesDone(r)
  PROVE  CacheInv'
  <1> DEFINE w == [work[r] EXCEPT !.stage = "site"]
  <1>1. /\ work[r].stage = "zone" /\ work' = [work EXCEPT ![r] = w]
        /\ UNCHANGED <<sites, zones, devices, prefetched, shown, spoilt>>
    BY DEF ZonesDone, Proceed, Quiet, caches
  <1>2. w \in Works /\ w.stage = "site"
    BY <1>1, WorkAt DEF CacheInv, Works
  <1> HIDE DEF w
  <1> QED
    BY <1>1, <1>2, GoesOn DEF CacheInv, TreeTypeOK, CachesTrue, Placed

LEMMA ShowStep ==
  ASSUME CacheInv, NEW r \in Rendering, Show(r)
  PROVE  CacheInv'
  <1>1. /\ work[r].stage = "site" /\ work' = [work EXCEPT ![r] = Done] /\ shown' = work[r].html
        /\ UNCHANGED <<sites, zones, devices, prefetched, spoilt>>
    BY DEF Show, Proceed, caches
  <1>2. work[r] \in Works /\ Placed(Done) /\ Done.stage # "prefetch"
    BY <1>1, WorkAt, DoneIsNoWork DEF CacheInv, Placed
  <1> QED
    BY <1>1, <1>2, GoesOn DEF CacheInv, TreeTypeOK, CachesTrue, Works

LEMMA CacheInvInit == TreeInit => CacheInv
  <1> SUFFICES ASSUME TreeInit PROVE CacheInv
    OBVIOUS
  <1>1. \A r \in Rendering : work[r] = Done /\ work[r].stage = "done"
    BY DoneIsNoWork DEF TreeInit
  <1>2. TreeTypeOK
    BY DEF TreeInit, TreeTypeOK
  <1>3. CachesTrue
    BY DEF TreeInit, CachesTrue
  <1>4. PrefetchedOnce /\ ListedOnce
    BY <1>1 DEF TreeInit, PrefetchedOnce, ListedOnce, Prefetching
  <1>5. \A r \in Rendering : Placed(work[r])
    BY <1>1 DEF Placed
  <1> QED
    BY <1>2, <1>3, <1>4, <1>5 DEF CacheInv

LEMMA CacheInvNext == CacheInv /\ [TreeNext]_treeVars => CacheInv'
  <1> SUFFICES ASSUME CacheInv, [TreeNext]_treeVars PROVE CacheInv'
    OBVIOUS
  <1>1. ASSUME NEW r \in Rendering, NEW answer \in {Site, {}}, LoadSites(r, answer)
        PROVE  CacheInv'
    BY <1>1, StartStep DEF LoadSites
  <1>2. ASSUME NEW r \in Rendering, NEW n \in Site \cup Zone, ToggleExpand(r, n)
        PROVE  CacheInv'
    BY <1>2, StartStep DEF ToggleExpand, Event, caches, CacheInv, TreeTypeOK
  <1>3. ASSUME NEW r \in Rendering, NEW matching \in Matching, Search(r, matching)
        PROVE  CacheInv'
    BY <1>3, StartStep DEF Search, Event, caches, CacheInv, TreeTypeOK
  <1>4. ASSUME NEW r \in Rendering, Walk(r) PROVE CacheInv'
    BY <1>4, VisitSiteStep, VisitZoneStep, ZonesDoneStep, ShowStep DEF Walk
  <1>5. ASSUME NEW r \in Rendering, Answer(r) PROVE CacheInv'
    BY <1>5, PrefetchedStep, PrefetchFailsStep, FetchedZonesStep, FetchedDevicesStep DEF Answer
  <1>6. CASE UNCHANGED treeVars
    BY <1>6 DEF treeVars, caches, CacheInv, TreeTypeOK, CachesTrue, PrefetchedOnce, ListedOnce,
                Prefetching, Placed
  <1> QED
    BY <1>1, <1>2, <1>3, <1>4, <1>5, <1>6 DEF TreeNext

LEMMA CacheInductive == TreeSpec => []CacheInv
  BY CacheInvInit, CacheInvNext, PTL DEF TreeSpec

\* Two functions fill the device cache (fetchDevices and prefetchSiteDevices), and any
\* number of renderings overlap in them: a site that was prefetched, once and without a
\* failure, has each of its devices exactly once in the list of its zone.
THEOREM ListedOnceAlways == TreeSpec => []ListedOnce
  <1>1. CacheInv => ListedOnce
    BY DEF CacheInv
  <1> QED
    BY <1>1, CacheInductive, PTL

-----------------------------------------------------------------------------
(* The tree of the UI: what the page shows.                                *)

LEMMA NodeIs ==
  /\ \A n, a, m, b : Node(n, a) = Node(m, b) <=> n = m /\ a = b
  /\ \A n, a : Node(n, a).node = n /\ Node(n, a).above = a
  /\ \A e \in Nodes : e = Node(e.node, e.above)
  <1>1. \A n, a : Node(n, a).node = n /\ Node(n, a).above = a
    BY DEF Node
  <1>2. \A n, a, m, b : Node(n, a) = Node(m, b) <=> n = m /\ a = b
    BY <1>1
  <1>3. \A e \in Nodes : e = Node(e.node, e.above)
    BY <1>1 DEF Nodes
  <1> QED
    BY <1>1, <1>2, <1>3

\* Sites, zones and devices are told apart by the node and the one above it.
LEMMA NodeKinds ==
  ASSUME NEW e \in Nodes
  PROVE  \/ e.node \in Site /\ e.above = Absent
         \/ e.node \in Zone /\ e.above = ZoneSite[e.node] /\ e.above \in Site
         \/ e.node \in Device /\ e.above \in Zone
  BY NodeIs, NodesAssumption DEF Nodes

LEMMA SiteDrawn ==
  ASSUME NEW s \in Site, NEW html, NEW more, more = html \cup Visible(s, Absent)
  PROVE  /\ \A t \in Site : Node(t, Absent) \in more <=>
                                Node(t, Absent) \in html \/ (t = s /\ s \in filter)
         /\ \A z \in Zone : Node(z, ZoneSite[z]) \in more <=> Node(z, ZoneSite[z]) \in html
         /\ \A z \in Zone, d \in Device : Node(d, z) \in more <=> Node(d, z) \in html
  <1>1. \A n, a : Node(n, a) \in Visible(s, Absent) <=> n = s /\ a = Absent /\ s \in filter
    BY NodeIs DEF Visible
  <1> QED
    BY <1>1, NodesAssumption

LEMMA ZoneDrawn ==
  ASSUME NEW z \in Zone, NEW html, NEW more, more = html \cup Visible(z, ZoneSite[z])
  PROVE  /\ \A t \in Site : Node(t, Absent) \in more <=> Node(t, Absent) \in html
         /\ \A y \in Zone : Node(y, ZoneSite[y]) \in more <=>
                                Node(y, ZoneSite[y]) \in html \/ (y = z /\ z \in filter)
         /\ \A y \in Zone, d \in Device : Node(d, y) \in more <=> Node(d, y) \in html
  <1>1. \A n, a : Node(n, a) \in Visible(z, ZoneSite[z]) <=>
                      n = z /\ a = ZoneSite[z] /\ z \in filter
    BY NodeIs DEF Visible
  <1> QED
    BY <1>1, NodesAssumption

LEMMA DevicesDrawn ==
  ASSUME NEW z \in Zone, NEW list \in [Device -> Nat], NEW html, NEW more,
         more = html \cup DeviceNodes(z, list)
  PROVE  /\ \A t \in Site : Node(t, Absent) \in more <=> Node(t, Absent) \in html
         /\ \A y \in Zone : Node(y, ZoneSite[y]) \in more <=> Node(y, ZoneSite[y]) \in html
         /\ \A y \in Zone, d \in Device :
                Node(d, y) \in more <=>
                    Node(d, y) \in html \/ (y = z /\ list[d] > 0 /\ d \in filter)
  <1>1. \A n, a : Node(n, a) \in DeviceNodes(z, list) <=>
                      a = z /\ n \in Device /\ list[n] > 0 /\ n \in filter
    BY NodeIs DEF DeviceNodes
  <1> QED
    BY <1>1, NodesAssumption

\* A rendering that goes on draws what a rendering that is alone draws.
LEMMA StaysDrawn ==
  ASSUME CacheInv, PageInv, NEW r \in Rendering, work[r].stage # "done", NEW w \in Works,
         work' = [work EXCEPT ![r] = w], alone' = alone,
         alone /\ Drawn(work[r]) => Drawn(w)'
  PROVE  PageInv'
  <1>1. work[r] # Done /\ w # Done
    BY DoneIsNoWork
  <1>2. \A q \in Rendering : work'[q] = IF q = r THEN w ELSE work[q]
    BY DEF CacheInv, TreeTypeOK
  <1>3. ShownFollowsState'
    BY <1>1, <1>2 DEF ShownFollowsState
  <1>4. ASSUME alone', NEW q \in Rendering, work'[q] # Done
        PROVE  /\ \A p \in Rendering \ {q} : work'[p] = Done
               /\ Drawn(work[q])'
    <2>1. Drawn(work[r]) /\ \A p \in Rendering \ {r} : work[p] = Done
      BY <1>1, <1>4 DEF PageInv
    <2>2. q = r
      BY <1>2, <1>4, <2>1
    <2>3. Drawn(w)' /\ work'[q] = w
      BY <1>2, <1>4, <2>1, <2>2
    <2> QED
      BY <1>2, <2>1, <2>2, <2>3
  <1> QED
    BY <1>3, <1>4 DEF PageInv

LEMMA StartDraws ==
  ASSUME CacheInv, NEW r \in Rendering, Render(r), sites' \in SUBSET Site
  PROVE  PageInv'
  <1> DEFINE w == [Done EXCEPT !.stage = "site", !.sitesLeft = sites']
  <1>1. /\ w \in Works /\ w.stage = "site" /\ w.sitesLeft = sites' /\ w.html = {}
    BY DEF Done, Works
  <1>2. work' = [work EXCEPT ![r] = w] /\ alone' = (work = [q \in Rendering |-> Done])
    BY DEF Render, Proceed
  <1> HIDE DEF w
  <1>3. \A q \in Rendering : work'[q] = IF q = r THEN w ELSE work[q]
    BY <1>2 DEF CacheInv, TreeTypeOK
  <1>4. /\ work'[r] # Done /\ work'[r].stage = "site"
        /\ work'[r].sitesLeft = sites' /\ work'[r].html = {}
    BY <1>1, <1>3, DoneIsNoWork
  <1>5. ShownFollowsState'
    BY <1>4 DEF ShownFollowsState
  <1>6. sites' # Absent
    BY NodesAssumption
  <1>7. Drawn(work[r])'
    BY <1>4, <1>6 DEF Drawn, Visited
  <1>8. ASSUME alone', NEW q \in Rendering, work'[q] # Done
        PROVE  q = r /\ \A p \in Rendering \ {q} : work'[p] = Done
    BY <1>2, <1>3, <1>8
  <1> QED
    BY <1>5, <1>7, <1>8 DEF PageInv

LEMMA VisitSiteDraws ==
  ASSUME CacheInv, PageInv, NEW r \in Rendering, NEW s \in Site, VisitSite(r, s)
  PROVE  PageInv'
  <1>1. PICK w \in Works :
            /\ work' = [work EXCEPT ![r] = w] /\ w.site = s
            /\ w.sitesLeft = work[r].sitesLeft \ {s}
            /\ w.html = work[r].html \cup Visible(s, Absent)
            /\ \/ s \in filter \cap expanded /\ w.stage = "prefetch"
               \/ /\ s \in filter \cap expanded /\ zones[s] = Absent /\ w.stage = "zones"
               \/ /\ s \in filter \cap expanded /\ zones[s] # Absent
                  /\ w.stage = "zone" /\ w.zonesLeft = ZonesOf(s)
               \/ s \notin filter \cap expanded /\ w.stage = "site"
    BY VisitSiteWork
  <1>2. /\ work[r].stage = "site" /\ s \in work[r].sitesLeft
        /\ UNCHANGED <<sites, zones, devices, prefetched, filter, expanded, alone>>
        /\ spoilt \subseteq spoilt'
    BY DEF VisitSite, caches
  <1>3. /\ \A t \in Site : Node(t, Absent) \in w.html <=>
                               Node(t, Absent) \in work[r].html \/ (t = s /\ s \in filter)
        /\ \A z \in Zone : Node(z, ZoneSite[z]) \in w.html <=> Node(z, ZoneSite[z]) \in work[r].html
        /\ \A z \in Zone, d \in Device : Node(d, z) \in w.html <=> Node(d, z) \in work[r].html
    BY <1>1, SiteDrawn
  <1>4. ASSUME Drawn(work[r]) PROVE Drawn(w)'
    <2>1. \A z \in Zone : Visited(w, z)' <=> Visited(work[r], z)
      BY <1>1, <1>2 DEF Visited, ZonesOf
    <2>2. /\ sites' # Absent /\ w.sitesLeft \subseteq sites'
          /\ w.stage # "site" => w.site \in (sites' \ w.sitesLeft) \cap filter' \cap expanded'
          /\ w.stage = "zones" => zones'[w.site] = Absent
          /\ w.stage \in {"zone", "devices"} /\ zones'[w.site] = Absent => w.zonesLeft = {}
          /\ w.stage # "devices"
      BY <1>1, <1>2, <1>4 DEF Drawn
    <2>3. \A t \in Site : Node(t, Absent) \in w.html <=> t \in (sites' \ w.sitesLeft) \cap filter'
      BY <1>1, <1>2, <1>3, <1>4 DEF Drawn
    <2>4. \A z \in Zone : Node(z, ZoneSite[z]) \in w.html <=> z \in filter' /\ Visited(w, z)'
      BY <1>2, <1>3, <1>4, <2>1 DEF Drawn
    <2>5. \A z \in Zone, d \in Device :
              Node(d, z) \in w.html =>
                  d \in DevicesOf(z) \cap filter' /\ z \in expanded'
                      /\ Node(z, ZoneSite[z]) \in w.html
      BY <1>2, <1>3, <1>4 DEF Drawn
    <2>6. \A z \in Zone, d \in filter' \cap Device :
              /\ Home[d] = [site |-> ZoneSite[z], zone |-> z]
              /\ ZoneSite[z] \in prefetched' \ spoilt'
              /\ z \in expanded'
                      /\ Node(z, ZoneSite[z]) \in w.html
              => Node(d, z) \in w.html
      BY <1>2, <1>3, <1>4 DEF Drawn
    <2> QED
      BY <2>2, <2>3, <2>4, <2>5, <2>6 DEF Drawn
  <1> QED
    BY <1>1, <1>2, <1>4, StaysDrawn

\* The zones of a site that is being drawn come next, whatever the caches get meanwhile.
LEMMA WaitingDraws ==
  ASSUME CacheInv, PageInv, NEW r \in Rendering, NEW w \in Works,
         work' = [work EXCEPT ![r] = w], work[r].stage \in {"prefetch", "zones"},
         w.site = work[r].site, w.sitesLeft = work[r].sitesLeft, w.html = work[r].html,
         UNCHANGED <<sites, filter, expanded, alone>>, spoilt \subseteq spoilt',
         \A s \in Site \ {w.site} : zones'[s] = zones[s],
         prefetched' \subseteq prefetched \cup {w.site},
         \/ w.stage = "zones" /\ zones'[w.site] = Absent
         \/ /\ w.stage = "zone" /\ w.zonesLeft = {}
            /\ Drawn(work[r]) => zones'[w.site] = Absent
         \/ w.stage = "zone" /\ zones'[w.site] # Absent /\ w.zonesLeft = ZonesOf(w.site)
  PROVE  PageInv'
  <1>1. ASSUME Drawn(work[r]) PROVE Drawn(w)'
    <2>1. \A z \in Zone : ZoneSite[z] \in Site
      BY NodesAssumption
    <2>2. \A z \in Zone : ZoneSite[z] = w.site => ~Visited(work[r], z) /\ ~Visited(w, z)'
      BY <1>1 DEF Visited, ZonesOf
    <2>3. \A z \in Zone : ZoneSite[z] # w.site => (Visited(w, z)' <=> Visited(work[r], z))
      BY <2>1 DEF Visited
    <2>4. /\ sites' # Absent /\ w.sitesLeft \subseteq sites'
          /\ w.site \in (sites' \ w.sitesLeft) \cap filter' \cap expanded'
          /\ w.stage = "zones" => zones'[w.site] = Absent
          /\ w.stage \in {"zone", "devices"} /\ zones'[w.site] = Absent => w.zonesLeft = {}
          /\ w.stage # "devices"
      BY <1>1 DEF Drawn
    <2>5. \A t \in Site : Node(t, Absent) \in w.html <=> t \in (sites' \ w.sitesLeft) \cap filter'
      BY <1>1 DEF Drawn
    <2>6. \A z \in Zone : Node(z, ZoneSite[z]) \in w.html <=> z \in filter' /\ Visited(w, z)'
      BY <1>1, <2>2, <2>3 DEF Drawn
    <2>7. \A z \in Zone, d \in Device :
              Node(d, z) \in w.html =>
                  d \in DevicesOf(z) \cap filter' /\ z \in expanded'
                      /\ Node(z, ZoneSite[z]) \in w.html
      BY <1>1 DEF Drawn
    <2>8. \A z \in Zone, d \in filter' \cap Device :
              /\ Home[d] = [site |-> ZoneSite[z], zone |-> z]
              /\ ZoneSite[z] \in prefetched' \ spoilt'
              /\ z \in expanded'
                      /\ Node(z, ZoneSite[z]) \in w.html
              => Node(d, z) \in w.html
      <3>1. \A z \in Zone : Node(z, ZoneSite[z]) \in w.html => ZoneSite[z] # w.site
        BY <2>2, <2>6
      <3> QED
        BY <1>1, <3>1 DEF Drawn
    <2> QED
      BY <2>4, <2>5, <2>6, <2>7, <2>8 DEF Drawn
  <1> QED
    BY <1>1, StaysDrawn

LEMMA PrefetchDraws ==
  ASSUME CacheInv, PageInv, NEW r \in Rendering, Prefetched(r) \/ PrefetchFails(r)
  PROVE  PageInv'
  <1>1. /\ work[r].stage = "prefetch" /\ work' = [work EXCEPT ![r] = WithZones(work[r])]
        /\ UNCHANGED <<sites, zones, filter, expanded, alone>> /\ spoilt \subseteq spoilt'
        /\ prefetched' \subseteq prefetched \cup {work[r].site}
    BY DEF Prefetched, PrefetchFails, Proceed, Quiet, caches
  <1>2. work[r] \in Works /\ work[r].site \in Site
    BY <1>1, WorkAt DEF CacheInv, Placed
  <1>3. PICK w \in Works :
            /\ w = WithZones(work[r]) /\ w.site = work[r].site
            /\ w.sitesLeft = work[r].sitesLeft /\ w.html = work[r].html
            /\ \/ w.stage = "zones" /\ zones[w.site] = Absent
               \/ w.stage = "zone" /\ zones[w.site] # Absent /\ w.zonesLeft = ZonesOf(w.site)
    BY <1>2, WithZonesWork
  <1> QED
    BY <1>1, <1>3, WaitingDraws

LEMMA FetchedZonesDraws ==
  ASSUME CacheInv, PageInv, NEW r \in Rendering, NEW answer \in {ZonesOf(work[r].site), Absent},
         FetchedZones(r, answer)
  PROVE  PageInv'
  <1> DEFINE left == IF answer = Absent THEN {} ELSE answer
  <1> DEFINE new == [work[r] EXCEPT !.stage = "zone", !.zonesLeft = left]
  <1>1. /\ work[r].stage = "zones" /\ work' = [work EXCEPT ![r] = new]
        /\ zones' = IF answer = Absent THEN zones ELSE [zones EXCEPT ![work[r].site] = answer]
        /\ UNCHANGED <<sites, devices, prefetched, filter, expanded, spoilt, alone>>
    BY DEF FetchedZones, Proceed, Quiet
  <1>2. work[r] \in Works /\ work[r].site \in Site
    BY <1>1, WorkAt DEF CacheInv, Placed
  <1>3. left \in SUBSET Zone /\ (answer # Absent => left = answer) /\ (answer = Absent => left = {})
    BY DEF ZonesOf
  <1> HIDE DEF left
  <1>4. /\ new \in Works /\ new.stage = "zone" /\ new.site = work[r].site /\ new.zonesLeft = left
        /\ new.sitesLeft = work[r].sitesLeft /\ new.html = work[r].html
    BY <1>2, <1>3 DEF Works
  <1> HIDE DEF new
  <1>5. PICK w \in Works : w = new
    BY <1>4
  <1>6. \A s \in Site \ {w.site} : zones'[s] = zones[s]
    BY <1>1, <1>4, <1>5 DEF CacheInv, TreeTypeOK
  <1>7. CASE answer = Absent
    <2>1. w.zonesLeft = {} /\ (Drawn(work[r]) => zones'[w.site] = Absent)
      BY <1>1, <1>3, <1>4, <1>5, <1>7 DEF Drawn
    <2> QED
      BY <1>1, <1>2, <1>4, <1>5, <1>6, <2>1, WaitingDraws
  <1>8. CASE answer # Absent /\ answer = ZonesOf(work[r].site)
    <2>1. zones'[w.site] = answer /\ w.zonesLeft = ZonesOf(w.site)
      BY <1>1, <1>2, <1>3, <1>4, <1>5, <1>8 DEF CacheInv, TreeTypeOK
    <2> QED
      BY <1>1, <1>4, <1>5, <1>6, <1>8, <2>1, WaitingDraws
  <1> QED
    BY <1>7, <1>8

LEMMA VisitZoneDraws ==
  ASSUME CacheInv, PageInv, NEW r \in Rendering, NEW z \in Zone, VisitZone(r, z)
  PROVE  PageInv'
  <1> DEFINE before == work[r].html
  <1> DEFINE site == work[r].site
  <1> DEFINE above == before \cup Visible(z, site)
  <1>1. PICK w \in Works :
            /\ work' = [work EXCEPT ![r] = w] /\ w.zone = z /\ w.site = site
            /\ w.sitesLeft = work[r].sitesLeft /\ w.zonesLeft = work[r].zonesLeft \ {z}
            /\ \/ /\ z \in filter \cap expanded /\ devices[z] = Absent /\ w.stage = "devices"
                  /\ w.html = above
               \/ /\ z \in filter \cap expanded /\ devices[z] # Absent /\ w.stage = "zone"
                  /\ w.html = above \cup DeviceNodes(z, devices[z])
               \/ /\ z \notin filter \cap expanded /\ w.stage = "zone"
                  /\ w.html = above
    BY VisitZoneWork
  <1>2. /\ work[r].stage = "zone" /\ z \in work[r].zonesLeft
        /\ UNCHANGED <<sites, zones, devices, prefetched, filter, expanded, spoilt, alone>>
    BY DEF VisitZone, Quiet, caches
  <1>3. ZoneSite[z] = site /\ site \in Site /\ work[r].zonesLeft \subseteq ZonesOf(site)
    BY <1>2 DEF CacheInv, Placed, ZonesOf
  <1>4. /\ \A t \in Site : Node(t, Absent) \in above <=> Node(t, Absent) \in before
        /\ \A y \in Zone : Node(y, ZoneSite[y]) \in above <=>
                               Node(y, ZoneSite[y]) \in before \/ (y = z /\ z \in filter)
        /\ \A y \in Zone, d \in Device : Node(d, y) \in above <=> Node(d, y) \in before
    <2>1. above = before \cup Visible(z, ZoneSite[z])
      BY <1>3
    <2> HIDE DEF above, before
    <2> QED
      BY <2>1, ZoneDrawn
  <1> HIDE DEF above, before
  <1>5. \/ w.html = above
        \/ devices[z] # Absent /\ w.html = above \cup DeviceNodes(z, devices[z])
    BY <1>1
  <1>6. devices[z] \in [Device -> Nat] \cup {Absent}
    BY DEF CacheInv, TreeTypeOK
  <1>7. /\ \A t \in Site : Node(t, Absent) \in w.html <=> Node(t, Absent) \in above
        /\ \A y \in Zone : Node(y, ZoneSite[y]) \in w.html <=> Node(y, ZoneSite[y]) \in above
        /\ \A y \in Zone, d \in Device : Node(d, y) \in above => Node(d, y) \in w.html
        /\ \A y \in Zone, d \in Device : Node(d, y) \in w.html =>
               \/ Node(d, y) \in above
               \/ /\ y = z /\ z \in filter \cap expanded /\ devices[z] # Absent
                  /\ devices[z][d] > 0 /\ d \in filter
        /\ w.stage # "devices" /\ z \in filter \cap expanded =>
               \A d \in Device : devices[z] # Absent /\ devices[z][d] > 0 /\ d \in filter =>
                   Node(d, z) \in w.html
    <2>1. CASE devices[z] # Absent /\ w.html = above \cup DeviceNodes(z, devices[z])
                   /\ z \in filter \cap expanded
      BY <1>6, <2>1, DevicesDrawn
    <2>2. CASE w.html = above /\ (w.stage = "devices" \/ z \notin filter \cap expanded)
      BY <2>2
    <2> QED
      BY <1>1, <2>1, <2>2
  <1>8. ASSUME Drawn(work[r]) PROVE Drawn(w)'
    <2>1. /\ sites # Absent /\ w.sitesLeft \subseteq sites /\ zones[site] # Absent
          /\ site \in (sites \ w.sitesLeft) \cap filter \cap expanded
      BY <1>1, <1>2, <1>8 DEF Drawn
    <2>2. \A y \in Zone : Visited(w, y)' <=> Visited(work[r], y) \/ y = z
      BY <1>1, <1>2, <1>3, <2>1 DEF Visited
    <2>3. \A t \in Site : Node(t, Absent) \in w.html <=> t \in (sites' \ w.sitesLeft) \cap filter'
      BY <1>1, <1>2, <1>4, <1>7, <1>8 DEF Drawn, before
    <2>4. \A y \in Zone : Node(y, ZoneSite[y]) \in w.html <=> y \in filter' /\ Visited(w, y)'
      BY <1>2, <1>4, <1>7, <1>8, <2>2 DEF Drawn, before
    <2>5. \A y \in Zone, d \in Device :
              Node(d, y) \in w.html =>
                  d \in DevicesOf(y) \cap filter' /\ y \in expanded'
                      /\ Node(y, ZoneSite[y]) \in w.html
      <3> SUFFICES ASSUME NEW y \in Zone, NEW d \in Device, Node(d, y) \in w.html
                   PROVE  d \in DevicesOf(y) \cap filter /\ y \in expanded
                              /\ Node(y, ZoneSite[y]) \in w.html
        BY <1>2
      <3>1. CASE Node(d, y) \in above
        BY <1>4, <1>7, <1>8, <3>1 DEF Drawn, before
      <3>2. CASE /\ y = z /\ z \in filter \cap expanded /\ devices[z] # Absent
                 /\ devices[z][d] > 0 /\ d \in filter
        BY <1>4, <1>7, <3>2 DEF CacheInv, CachesTrue
      <3> QED
        BY <1>7, <3>1, <3>2
    <2>6. \A y \in Zone, d \in filter' \cap Device :
              /\ Home[d] = [site |-> ZoneSite[y], zone |-> y]
              /\ ZoneSite[y] \in prefetched' \ spoilt'
              /\ y \in expanded'
                      /\ Node(y, ZoneSite[y]) \in w.html
              /\ ~(w.stage = "devices" /\ w.zone = y)
              => Node(d, y) \in w.html
      <3> SUFFICES ASSUME NEW y \in Zone, NEW d \in filter \cap Device,
                          Home[d] = [site |-> ZoneSite[y], zone |-> y],
                          ZoneSite[y] \in prefetched \ spoilt,
                          y \in expanded, Node(y, ZoneSite[y]) \in w.html,
                          ~(w.stage = "devices" /\ w.zone = y)
                   PROVE  Node(d, y) \in w.html
        BY <1>2
      <3>1. CASE y = z
        <4>1. devices[z] # Absent /\ devices[z][d] = 1
          BY <3>1 DEF CacheInv, ListedOnce
        <4>2. z \in filter
          BY <1>2, <2>4, <3>1
        <4> QED
          BY <1>1, <1>7, <3>1, <4>1, <4>2
      <3>2. CASE y # z
        BY <1>2, <1>4, <1>7, <1>8, <3>2 DEF Drawn, before
      <3> QED
        BY <3>1, <3>2
    <2>7. w.stage = "devices" =>
              devices'[w.zone] = Absent /\ w.zone \in expanded' /\ Node(w.zone, w.site) \in w.html
      BY <1>1, <1>2, <1>3, <1>4, <1>7
    <2>8. w.stage \in {"zone", "devices"}
      BY <1>1
    <2> QED
      BY <1>1, <1>2, <2>1, <2>3, <2>4, <2>5, <2>6, <2>7, <2>8 DEF Drawn
  <1> QED
    BY <1>1, <1>2, <1>8, StaysDrawn

LEMMA FetchedDevicesDraws ==
  ASSUME CacheInv, PageInv, NEW r \in Rendering, NEW answer \in {DevicesOf(work[r].zone), Absent},
         FetchedDevices(r, answer)
  PROVE  PageInv'
  <1> DEFINE zone == work[r].zone
  <1> DEFINE list == Extended(Absent, answer)
  <1> DEFINE html == IF answer = Absent THEN work[r].html
                     ELSE work[r].html \cup DeviceNodes(zone, list)
  <1> DEFINE new == [work[r] EXCEPT !.stage = "zone", !.html = html]
  <1>1. /\ work[r].stage = "devices" /\ work' = [work EXCEPT ![r] = new]
        /\ devices' = IF answer = Absent THEN devices ELSE [devices EXCEPT ![zone] = list]
        /\ UNCHANGED <<sites, zones, prefetched, filter, expanded, spoilt, alone>>
    BY DEF FetchedDevices, Proceed, Quiet
  <1>2. /\ work[r] \in Works /\ zone \in Zone /\ ZoneSite[zone] = work[r].site
        /\ work[r].site \in Site
    BY <1>1, WorkAt DEF CacheInv, Placed, ZonesOf
  <1>3. /\ list \in [Device -> Nat]
        /\ \A d \in Device : list[d] > 0 <=> d \in answer
    BY ExtendedList
  <1> HIDE DEF list
  <1>4. html \in SUBSET Nodes
    BY <1>2, NodesDrawn DEF Works
  <1>5. /\ \A t \in Site : Node(t, Absent) \in html <=> Node(t, Absent) \in work[r].html
        /\ \A y \in Zone : Node(y, ZoneSite[y]) \in html <=> Node(y, ZoneSite[y]) \in work[r].html
        /\ \A y \in Zone, d \in Device :
               Node(d, y) \in html <=>
                   \/ Node(d, y) \in work[r].html
                   \/ y = zone /\ answer # Absent /\ d \in answer /\ d \in filter
    <2>1. CASE answer = Absent
      BY <2>1
    <2>2. CASE answer # Absent
      <3>1. html = work[r].html \cup DeviceNodes(zone, list)
        BY <2>2
      <3> HIDE DEF html
      <3> QED
        BY <1>2, <1>3, <2>2, <3>1, DevicesDrawn
    <2> QED
      BY <2>1, <2>2
  <1> HIDE DEF html
  <1>6. /\ new \in Works /\ new.stage = "zone" /\ new.site = work[r].site
        /\ new.zonesLeft = work[r].zonesLeft /\ new.sitesLeft = work[r].sitesLeft
        /\ new.html = html
    BY <1>2, <1>4 DEF Works
  <1> HIDE DEF new
  <1>7. PICK w \in Works : w = new
    BY <1>6
  <1>8. ASSUME Drawn(work[r]) PROVE Drawn(w)'
    <2>1. devices[zone] = Absent /\ zone \in expanded /\ Node(zone, ZoneSite[zone]) \in work[r].html
      BY <1>1, <1>2, <1>8 DEF Drawn
    <2>2. \A y \in Zone : Visited(w, y)' <=> Visited(work[r], y)
      BY <1>1, <1>6, <1>7 DEF Visited
    <2>3. /\ sites' # Absent /\ w.sitesLeft \subseteq sites'
          /\ w.site \in (sites' \ w.sitesLeft) \cap filter' \cap expanded'
          /\ zones'[w.site] = Absent => w.zonesLeft = {}
          /\ w.stage = "zone"
      BY <1>1, <1>6, <1>7, <1>8 DEF Drawn
    <2>4. \A t \in Site : Node(t, Absent) \in w.html <=> t \in (sites' \ w.sitesLeft) \cap filter'
      BY <1>1, <1>5, <1>6, <1>7, <1>8 DEF Drawn
    <2>5. \A y \in Zone : Node(y, ZoneSite[y]) \in w.html <=> y \in filter' /\ Visited(w, y)'
      BY <1>1, <1>5, <1>6, <1>7, <1>8, <2>2 DEF Drawn
    <2>6. \A y \in Zone, d \in Device :
              Node(d, y) \in w.html =>
                  d \in DevicesOf(y) \cap filter' /\ y \in expanded'
                      /\ Node(y, ZoneSite[y]) \in w.html
      BY <1>1, <1>5, <1>6, <1>7, <1>8, <2>1 DEF Drawn
    <2>7. \A y \in Zone, d \in filter' \cap Device :
              /\ Home[d] = [site |-> ZoneSite[y], zone |-> y]
              /\ ZoneSite[y] \in prefetched' \ spoilt'
              /\ y \in expanded'
                      /\ Node(y, ZoneSite[y]) \in w.html
              => Node(d, y) \in w.html
      <3> SUFFICES ASSUME NEW y \in Zone, NEW d \in filter \cap Device,
                          Home[d] = [site |-> ZoneSite[y], zone |-> y],
                          ZoneSite[y] \in prefetched \ spoilt,
                          y \in expanded, Node(y, ZoneSite[y]) \in w.html
                   PROVE  Node(d, y) \in w.html
        BY <1>1
      <3>1. CASE y = zone
        BY <2>1, <3>1 DEF CacheInv, ListedOnce
      <3>2. CASE y # zone
        BY <1>1, <1>5, <1>6, <1>7, <1>8, <3>2 DEF Drawn
      <3> QED
        BY <3>1, <3>2
    <2> QED
      BY <2>3, <2>4, <2>5, <2>6, <2>7 DEF Drawn
  <1> QED
    BY <1>1, <1>7, <1>8, StaysDrawn

LEMMA ZonesDoneDraws ==
  ASSUME CacheInv, PageInv, NEW r \in Rendering, ZonesDone(r)
  PROVE  PageInv'
  <1> DEFINE new == [work[r] EXCEPT !.stage = "site"]
  <1>1. /\ work[r].stage = "zone" /\ work[r].zonesLeft = {} /\ work' = [work EXCEPT ![r] = new]
        /\ UNCHANGED <<sites, zones, devices, prefetched, filter, expanded, spoilt, alone>>
    BY DEF ZonesDone, Proceed, Quiet, caches
  <1>2. work[r] \in Works
    BY <1>1, WorkAt DEF CacheInv
  <1>3. PICK w \in Works : w = new
    BY <1>2 DEF Works
  <1>4. /\ w.stage = "site" /\ w.site = work[r].site /\ w.sitesLeft = work[r].sitesLeft
        /\ w.html = work[r].html
    BY <1>2, <1>3 DEF Works
  <1>5. ASSUME Drawn(work[r]) PROVE Drawn(w)'
    <2>1. \A z \in Zone : Visited(w, z)' <=> Visited(work[r], z)
      BY <1>1, <1>4 DEF Visited
    <2> QED
      BY <1>1, <1>4, <1>5, <2>1 DEF Drawn
  <1> QED
    BY <1>1, <1>3, <1>5, StaysDrawn

\* What is listed below a node, and whether it is open.
LEMMA Listings ==
  ASSUME NEW html \in SUBSET Nodes
  PROVE  /\ \A a : {e.node : e \in {f \in html : f.above = a}} =
                       {n \in Site \cup Zone \cup Device : Node(n, a) \in html}
         /\ \A s \in Site : (\E e \in html : e.node = s) <=> Node(s, Absent) \in html
         /\ \A z \in Zone : (\E e \in html : e.node = z) <=> Node(z, ZoneSite[z]) \in html
         /\ \A n : Node(n, Absent) \in html => n \in Site
         /\ \A n : \A s \in Site : Node(n, s) \in html => n \in Zone /\ ZoneSite[n] = s
         /\ \A n : \A z \in Zone : Node(n, z) \in html => n \in Device
  <1>1. \A e \in html : e \in Nodes /\ e = Node(e.node, e.above)
    BY NodeIs
  <1>2. \A n, a : Node(n, a).node = n /\ Node(n, a).above = a
    BY NodeIs
  <1>3. \A n, a : Node(n, a) \in html =>
            \/ n \in Site /\ a = Absent
            \/ n \in Zone /\ a = ZoneSite[n] /\ a \in Site
            \/ n \in Device /\ a \in Zone
    BY <1>1, <1>2, NodeKinds
  <1>4. ASSUME NEW a
        PROVE  {e.node : e \in {f \in html : f.above = a}} =
                   {n \in Site \cup Zone \cup Device : Node(n, a) \in html}
    BY <1>1, <1>2, <1>3
  <1>5. \A s \in Site : (\E e \in html : e.node = s) <=> Node(s, Absent) \in html
    BY <1>1, <1>2, <1>3, NodesAssumption
  <1>6. \A z \in Zone : (\E e \in html : e.node = z) <=> Node(z, ZoneSite[z]) \in html
    BY <1>1, <1>2, <1>3, NodesAssumption
  <1> QED
    BY <1>3, <1>4, <1>5, <1>6, NodesAssumption

\* A finished drawing is what the state says.
LEMMA DrawnIsState ==
  ASSUME CacheInv, NEW w \in Works, w.stage = "site", w.sitesLeft = {}, Drawn(w)
  PROVE  LET Open(n) == n \in expanded /\ \E e \in w.html : e.node = n
             Listed(n) == {e.node : e \in {f \in w.html : f.above = n}}
         IN
         /\ Listed(Absent) = sites \cap filter
         /\ \A s \in Site :
                Listed(s) = IF Open(s) /\ zones[s] # Absent THEN zones[s] \cap filter ELSE {}
         /\ \A z \in Zone :
                /\ Listed(z) \subseteq IF Open(z) THEN DevicesOf(z) \cap filter ELSE {}
                /\ Open(z) /\ ZoneSite[z] \in prefetched \ spoilt =>
                       {d \in filter \cap Device : Home[d] = [site |-> ZoneSite[z], zone |-> z]}
                           \subseteq Listed(z)
  <1> DEFINE Open(n) == n \in expanded /\ \E e \in w.html : e.node = n
  <1> DEFINE Listed(n) == {e.node : e \in {f \in w.html : f.above = n}}
  <1>1. w.html \in SUBSET Nodes
    BY DEF Works
  <1>2. /\ \A a, n : n \in Listed(a) <=> n \in Site \cup Zone \cup Device /\ Node(n, a) \in w.html
        /\ \A s \in Site : Open(s) <=> s \in expanded /\ Node(s, Absent) \in w.html
        /\ \A z \in Zone : Open(z) <=> z \in expanded /\ Node(z, ZoneSite[z]) \in w.html
    <2>1. \A a : Listed(a) = {n \in Site \cup Zone \cup Device : Node(n, a) \in w.html}
      BY <1>1, Listings
    <2>2. /\ \A s \in Site : Open(s) <=> s \in expanded /\ Node(s, Absent) \in w.html
          /\ \A z \in Zone : Open(z) <=> z \in expanded /\ Node(z, ZoneSite[z]) \in w.html
      <3> HIDE DEF Listed
      <3> QED
        BY <1>1, Listings
    <2> HIDE DEF Listed, Open
    <2> QED
      BY <2>1, <2>2
  <1>3. /\ \A n : Node(n, Absent) \in w.html => n \in Site
        /\ \A n : \A s \in Site : Node(n, s) \in w.html => n \in Zone /\ ZoneSite[n] = s
        /\ \A n : \A z \in Zone : Node(n, z) \in w.html => n \in Device
    BY <1>1, Listings
  <1> HIDE DEF Open, Listed
  <1>4. sites \subseteq Site /\ sites # Absent
    BY DEF Drawn, CacheInv, TreeTypeOK
  <1>5. Listed(Absent) = sites \cap filter
    <2>1. \A s \in Site : Node(s, Absent) \in w.html <=> s \in sites \cap filter
      BY DEF Drawn
    <2> QED
      BY <1>2, <1>3, <1>4, <2>1
  <1>6. ASSUME NEW s \in Site
        PROVE  Listed(s) = IF Open(s) /\ zones[s] # Absent THEN zones[s] \cap filter ELSE {}
    <2>1. Open(s) <=> s \in expanded /\ s \in sites \cap filter
      BY <1>2 DEF Drawn
    <2>2. \A z \in ZonesOf(s) : Node(z, s) \in w.html <=>
              z \in filter /\ s \in sites \cap filter \cap expanded /\ zones[s] # Absent
      BY DEF Drawn, Visited, ZonesOf
    <2>3. \A n : n \in Listed(s) <=> n \in ZonesOf(s) /\ Node(n, s) \in w.html
      BY <1>2, <1>3 DEF ZonesOf
    <2>4. zones[s] \in {ZonesOf(s), Absent}
      BY DEF CacheInv, CachesTrue
    <2> QED
      BY <2>1, <2>2, <2>3, <2>4
  <1>7. ASSUME NEW z \in Zone
        PROVE  Listed(z) \subseteq IF Open(z) THEN DevicesOf(z) \cap filter ELSE {}
    <2>1. \A n : n \in Listed(z) => n \in Device /\ Node(n, z) \in w.html
      BY <1>2, <1>3
    <2>2. \A d \in Device : Node(d, z) \in w.html => d \in DevicesOf(z) \cap filter /\ Open(z)
      BY <1>2 DEF Drawn
    <2> QED
      BY <2>1, <2>2
  <1>8. ASSUME NEW z \in Zone, Open(z), ZoneSite[z] \in prefetched \ spoilt,
               NEW d \in filter \cap Device, Home[d] = [site |-> ZoneSite[z], zone |-> z]
        PROVE  d \in Listed(z)
    <2>1. z \in expanded /\ Node(z, ZoneSite[z]) \in w.html
      BY <1>2, <1>8
    <2>2. Node(d, z) \in w.html
      BY <1>8, <2>1 DEF Drawn
    <2> QED
      BY <1>2, <2>2
  <1> QED
    BY <1>5, <1>6, <1>7, <1>8 DEF Open, Listed

LEMMA ShowDraws ==
  ASSUME CacheInv, PageInv, NEW r \in Rendering, Show(r)
  PROVE  PageInv'
  <1>1. /\ work[r].stage = "site" /\ work[r].sitesLeft = {}
        /\ work' = [work EXCEPT ![r] = Done] /\ shown' = work[r].html
        /\ UNCHANGED <<sites, zones, devices, prefetched, filter, expanded, spoilt, alone>>
    BY DEF Show, Proceed, caches
  <1>2. work[r] \in Works /\ work[r] # Done
    BY <1>1, WorkAt, DoneIsNoWork DEF CacheInv
  <1>3. \A q \in Rendering : work'[q] = IF q = r THEN Done ELSE work[q]
    BY <1>1 DEF CacheInv, TreeTypeOK
  <1>4. ASSUME alone
        PROVE  Drawn(work[r]) /\ \A q \in Rendering : work'[q] = Done
    BY <1>2, <1>3, <1>4 DEF PageInv
  <1>5. ShownFollowsState'
    <2>1. CASE alone
      BY <1>1, <1>2, <1>4, <2>1, DrawnIsState DEF ShownFollowsState
    <2>2. CASE ~alone
      BY <1>1, <2>2 DEF ShownFollowsState
    <2> QED
      BY <2>1, <2>2
  <1> QED
    BY <1>1, <1>4, <1>5 DEF PageInv

LEMMA PageInvInit == TreeInit => PageInv
  BY DEF TreeInit, PageInv, ShownFollowsState

LEMMA PageInvNext == CacheInv /\ PageInv /\ [TreeNext]_treeVars => PageInv'
  <1> SUFFICES ASSUME CacheInv, PageInv, [TreeNext]_treeVars PROVE PageInv'
    OBVIOUS
  <1>1. ASSUME NEW r \in Rendering, NEW answer \in {Site, {}}, LoadSites(r, answer)
        PROVE  PageInv'
    BY <1>1, StartDraws DEF LoadSites
  <1>2. ASSUME NEW r \in Rendering, NEW n \in Site \cup Zone, ToggleExpand(r, n)
        PROVE  PageInv'
    BY <1>2, StartDraws DEF ToggleExpand, Event, caches, CacheInv, TreeTypeOK
  <1>3. ASSUME NEW r \in Rendering, NEW matching \in Matching, Search(r, matching)
        PROVE  PageInv'
    BY <1>3, StartDraws DEF Search, Event, caches, CacheInv, TreeTypeOK
  <1>4. ASSUME NEW r \in Rendering, Walk(r) PROVE PageInv'
    BY <1>4, VisitSiteDraws, VisitZoneDraws, ZonesDoneDraws, ShowDraws DEF Walk
  <1>5. ASSUME NEW r \in Rendering, Answer(r) PROVE PageInv'
    BY <1>5, PrefetchDraws, FetchedZonesDraws, FetchedDevicesDraws DEF Answer
  <1>6. CASE UNCHANGED treeVars
    BY <1>6 DEF treeVars, caches, PageInv, ShownFollowsState, Drawn, Visited
  <1> QED
    BY <1>1, <1>2, <1>3, <1>4, <1>5, <1>6 DEF TreeNext

\* After a rendering that nothing overlapped, the container has what expandedState,
\* searchFilter and the caches say, for every set of sites, zones and devices.
THEOREM ShownFollowsStateAlways == TreeSpec => []ShownFollowsState
  <1>1. PageInv => ShownFollowsState
    BY DEF PageInv
  <1> QED
    BY <1>1, CacheInductive, PageInvInit, PageInvNext, PTL DEF TreeSpec

-----------------------------------------------------------------------------
(* The user's account in Grafana.                                          *)

LEMMA IdleRequest == Idle.stage = "idle" /\ Idle \notin Requests
  BY DEF Idle, Requests, Stages

LEMMA RequestAt ==
  ASSUME TypeOK, NEW h \in Handler, req[h].stage \in Stages
  PROVE  req[h] \in Requests /\ req[h] # Idle
  BY IdleRequest DEF TypeOK, Stages

LEMMA RolesKnown == \A r : _ROLE_MAP(r) \in {"Admin", "Editor", "Viewer"}
  BY DEF _ROLE_MAP

\* A request takes a step: it is alone, or all that are under way are disturbed.
LEMMA StepOf ==
  ASSUME IndInv, NEW h \in Handler, req[h] # Idle, NEW r \in Requests,
         req' = [req EXCEPT ![h] = r], UNCHANGED <<row, synced>>,
         TypeOK', Undisturbed(h)', req[h].changed \subseteq r.changed
  PROVE  IndInv'
  <1>1. /\ \A g \in Handler : req'[g] = IF g = h THEN r ELSE req[g]
        /\ r # Idle
    BY IdleRequest DEF IndInv, TypeOK
  <1>2. InStep'
    BY <1>1 DEF InStep
  <1>3. ASSUME NEW g \in Handler, g # h PROVE Undisturbed(g)'
    <2>1. req[g] = Idle \/ req[g].disturbed
      BY <1>3 DEF IndInv, Undisturbed
    <2> QED
      BY <1>1, <1>3, <2>1 DEF Undisturbed
  <1>4. ASSUME NEW g \in Handler PROVE Whole(g)'
    <2>1. CASE g = h
      <3>1. row = None => Columns \subseteq r.changed
        BY DEF IndInv, Whole
      <3>2. r.changed \subseteq Columns
        BY DEF Requests
      <3> QED
        BY <1>1, <2>1, <3>1, <3>2 DEF Whole
    <2>2. CASE g # h
      BY <1>1, <2>2 DEF IndInv, Whole
    <2> QED
      BY <2>1, <2>2
  <1> QED
    BY <1>2, <1>3, <1>4 DEF IndInv

\* What a step of the provisioning that is answered owes to the account: the steps
\* before, and that nobody else takes any.
LEMMA AnswerOf ==
  ASSUME IndInv, NEW h \in Handler, req[h].stage \in Stages, NEW r \in Requests,
         req' = [req EXCEPT ![h] = r], UNCHANGED <<row, synced, breaks>>,
         account' \in Nat \cup {None}, accounts' \in Nat,
         orgRole' \in {"Admin", "Editor", "Viewer", None},
         member' \subseteq teams', teams \subseteq teams', teams' \subseteq SiteScope,
         r.left \subseteq teams, req[h].changed \subseteq r.changed,
         r.disturbed = req[h].disturbed, ~r.disturbed /\ Brought(req[h]) => Undisturbed(h)'
  PROVE  IndInv'
  <1>1. req[h] \in Requests /\ req[h] # Idle
    BY RequestAt DEF IndInv
  <1>2. TypeOK'
    <2>1. \A g \in Handler : req'[g].left \subseteq teams'
      BY DEF IndInv, TypeOK
    <2> QED
      BY <2>1 DEF IndInv, TypeOK
  <1>3. req'[h] = r
    BY DEF IndInv, TypeOK
  <1>4. ~r.disturbed => Brought(req[h])
    BY <1>1 DEF IndInv, Undisturbed
  <1>5. Undisturbed(h)'
    BY <1>3, <1>4 DEF Undisturbed
  <1> QED
    BY <1>1, <1>2, <1>5, StepOf

\* A call that fails takes away what is known of the account.
LEMMA RefusedStep ==
  ASSUME IndInv, NEW h \in Handler, req[h].stage \in Stages, NEW r \in Requests, Refused(h, r),
         r.left \subseteq teams, req[h].changed \subseteq r.changed,
         UNCHANGED <<row, synced>>,
         account' \in Nat \cup {None}, accounts' \in Nat,
         orgRole' \in {"Admin", "Editor", "Viewer", None},
         member' \subseteq teams', teams \subseteq teams', teams' \subseteq SiteScope
  PROVE  IndInv'
  <1> DEFINE q == [r EXCEPT !.disturbed = TRUE]
  <1>1. q \in Requests /\ q.disturbed /\ q.left = r.left /\ q.changed = r.changed
    BY DEF Requests
  <1>2. req' = [req EXCEPT ![h] = q] /\ breaks' \in Nat
    BY DEF Refused, Break, IndInv, TypeOK
  <1> HIDE DEF q
  <1>3. TypeOK'
    <2>1. \A g \in Handler : req'[g].left \subseteq teams'
      BY <1>1, <1>2 DEF IndInv, TypeOK
    <2> QED
      BY <1>1, <1>2, <2>1 DEF IndInv, TypeOK
  <1>4. Undisturbed(h)'
    BY <1>1, <1>2 DEF IndInv, TypeOK, Undisturbed
  <1> QED
    BY <1>1, <1>2, <1>3, <1>4, RequestAt, StepOf DEF IndInv

LEMMA RaisedStep ==
  ASSUME IndInv, NEW h \in Handler, req[h].stage \in Stages, Raised(h),
         UNCHANGED <<row, synced>>,
         account' \in Nat \cup {None}, accounts' \in Nat,
         orgRole' \in {"Admin", "Editor", "Viewer", None},
         member' \subseteq teams', teams \subseteq teams', teams' \subseteq SiteScope
  PROVE  IndInv'
  <1> DEFINE r == [req[h] EXCEPT !.stage = "commit"]
  <1>1. r \in Requests /\ r.left \subseteq teams /\ req[h].changed \subseteq r.changed
    <2>1. req[h] \in Requests /\ req[h].left \subseteq teams
      BY RequestAt DEF IndInv, TypeOK
    <2> QED
      BY <2>1 DEF Requests, Stages
  <1>2. Refused(h, r)
    BY DEF Raised
  <1> HIDE DEF r
  <1> QED
    BY <1>1, <1>2, RefusedStep

-----------------------------------------------------------------------------
(* Provisioning, call by call.                                             *)

LEMMA GetUserStep ==
  ASSUME IndInv, NEW h \in Handler, GetUser(h)
  PROVE  IndInv'
  <1> DEFINE r == [req[h] EXCEPT !.stage = "role", !.id = account]
  <1>1. /\ req[h].stage = "user" /\ account # None
        /\ req' = [req EXCEPT ![h] = r] /\ UNCHANGED <<row, grafana, synced, breaks>>
    BY DEF GetUser, Answered, Break
  <1>2. req[h] \in Requests /\ req[h].stage \in Stages /\ req[h].left \subseteq teams
    BY <1>1, RequestAt DEF IndInv, TypeOK, Stages
  <1>3. /\ r \in Requests /\ r.stage = "role" /\ r.id = account /\ r.left = req[h].left
        /\ r.new = req[h].new /\ r.changed = req[h].changed /\ r.disturbed = req[h].disturbed
    BY <1>2 DEF Requests, Stages, IndInv, TypeOK
  <1> HIDE DEF r
  <1>4. \A g \in Handler : req'[g] = IF g = h THEN r ELSE req[g]
    BY <1>1 DEF IndInv, TypeOK
  <1>5. ASSUME ~r.disturbed, Brought(req[h]) PROVE Undisturbed(h)'
    <2>1. \A g \in Handler \ {h} : req[g] = Idle
      BY <1>2, <1>3, <1>5, IdleRequest DEF IndInv, Undisturbed
    <2>2. Brought(req[h])'
      BY <1>1, <1>3, <1>4, <1>5 DEF Brought, grafana
    <2> QED
      BY <1>3, <1>4, <2>1, <2>2 DEF Undisturbed
  <1> QED
    BY <1>1, <1>2, <1>3, <1>5, AnswerOf DEF IndInv, TypeOK, grafana

LEMMA CreateAccountStep ==
  ASSUME IndInv, NEW h \in Handler, CreateAccount(h)
  PROVE  IndInv'
  <1> DEFINE r == [req[h] EXCEPT !.stage = "role", !.id = accounts + 1]
  <1>1. /\ req[h].stage = "user"
        /\ account' = accounts + 1 /\ accounts' = accounts + 1 /\ member' = {}
        /\ orgRole' = _ROLE_MAP(req[h].new.role) /\ UNCHANGED <<row, teams, synced>>
        /\ \/ req' = [req EXCEPT ![h] = r] /\ breaks' = breaks
           \/ Raised(h)
    BY DEF CreateAccount, Answered, Break
  <1>2. req[h] \in Requests /\ req[h].stage \in Stages /\ req[h].left \subseteq teams
    BY <1>1, RequestAt DEF IndInv, TypeOK, Stages
  <1>3. /\ accounts + 1 \in Nat /\ accounts + 1 # None /\ teams' \subseteq SiteScope
        /\ orgRole' \in {"Admin", "Editor", "Viewer", None}
    BY <1>1, NoneAssumption, RolesKnown DEF IndInv, TypeOK
  <1>4. CASE Raised(h)
    BY <1>1, <1>2, <1>3, <1>4, RaisedStep
  <1>5. CASE req' = [req EXCEPT ![h] = r] /\ breaks' = breaks
    <2>1. /\ r \in Requests /\ r.stage = "role" /\ r.id = accounts + 1 /\ r.left = req[h].left
          /\ r.new = req[h].new /\ r.changed = req[h].changed /\ r.disturbed = req[h].disturbed
      BY <1>2, <1>3 DEF Requests, Stages
    <2> HIDE DEF r
    <2>2. \A g \in Handler : req'[g] = IF g = h THEN r ELSE req[g]
      BY <1>5 DEF IndInv, TypeOK
    <2>3. ASSUME ~r.disturbed, Brought(req[h]) PROVE Undisturbed(h)'
      <3>1. \A g \in Handler \ {h} : req[g] = Idle
        BY <1>2, <2>1, <2>3, IdleRequest DEF IndInv, Undisturbed
      <3>2. Brought(req[h])'
        BY <1>1, <1>3, <2>1, <2>2, <2>3 DEF Brought
      <3> QED
        BY <2>1, <2>2, <3>1, <3>2 DEF Undisturbed
    <2> QED
      BY <1>1, <1>2, <1>3, <1>5, <2>1, <2>3, AnswerOf
  <1> QED
    BY <1>1, <1>4, <1>5

LEMMA SetOrgRoleStep ==
  ASSUME IndInv, NEW h \in Handler, SetOrgRole(h)
  PROVE  IndInv'
  <1> DEFINE r == [req[h] EXCEPT !.stage = "list"]
  <1>1. /\ req[h].stage = "role"
        /\ orgRole' = IF account = req[h].id THEN _ROLE_MAP(req[h].new.role) ELSE orgRole
        /\ UNCHANGED <<row, account, accounts, member, teams, synced>>
        /\ \/ req' = [req EXCEPT ![h] = r] /\ breaks' = breaks
           \/ Raised(h)
    BY DEF SetOrgRole, Answered, Break
  <1>2. req[h] \in Requests /\ req[h].stage \in Stages /\ req[h].left \subseteq teams
    BY <1>1, RequestAt DEF IndInv, TypeOK, Stages
  <1>3. orgRole' \in {"Admin", "Editor", "Viewer", None}
    BY <1>1, RolesKnown DEF IndInv, TypeOK
  <1>4. CASE Raised(h)
    BY <1>1, <1>2, <1>3, <1>4, RaisedStep DEF IndInv, TypeOK
  <1>5. CASE req' = [req EXCEPT ![h] = r] /\ breaks' = breaks
    <2>1. /\ r \in Requests /\ r.stage = "list" /\ r.id = req[h].id /\ r.left = req[h].left
          /\ r.new = req[h].new /\ r.changed = req[h].changed /\ r.disturbed = req[h].disturbed
      BY <1>2 DEF Requests, Stages
    <2> HIDE DEF r
    <2>2. \A g \in Handler : req'[g] = IF g = h THEN r ELSE req[g]
      BY <1>5 DEF IndInv, TypeOK
    <2>3. ASSUME ~r.disturbed, Brought(req[h]) PROVE Undisturbed(h)'
      <3>1. \A g \in Handler \ {h} : req[g] = Idle
        BY <1>2, <2>1, <2>3, IdleRequest DEF IndInv, Undisturbed
      <3>2. Brought(req[h])'
        BY <1>1, <2>1, <2>2, <2>3 DEF Brought
      <3> QED
        BY <2>1, <2>2, <3>1, <3>2 DEF Undisturbed
    <2> QED
      BY <1>1, <1>2, <1>3, <1>5, <2>1, <2>3, AnswerOf DEF IndInv, TypeOK
  <1> QED
    BY <1>1, <1>4, <1>5

\* The user is in no team that is not listed.
LEMMA ListTeamsStep ==
  ASSUME IndInv, NEW h \in Handler, ListTeams(h)
  PROVE  IndInv'
  <1> DEFINE r == [req[h] EXCEPT !.stage = "team", !.left = teams]
  <1>1. /\ req[h].stage = "list"
        /\ req' = [req EXCEPT ![h] = r] /\ UNCHANGED <<row, grafana, synced, breaks>>
    BY DEF ListTeams, Answered, Break
  <1>2. req[h] \in Requests /\ req[h].stage \in Stages /\ req[h].left \subseteq teams
    BY <1>1, RequestAt DEF IndInv, TypeOK, Stages
  <1>3. /\ r \in Requests /\ r.stage = "team" /\ r.id = req[h].id /\ r.left = teams
        /\ r.new = req[h].new /\ r.changed = req[h].changed /\ r.disturbed = req[h].disturbed
    BY <1>2 DEF Requests, Stages, IndInv, TypeOK
  <1> HIDE DEF r
  <1>4. \A g \in Handler : req'[g] = IF g = h THEN r ELSE req[g]
    BY <1>1 DEF IndInv, TypeOK
  <1>5. ASSUME ~r.disturbed, Brought(req[h]) PROVE Undisturbed(h)'
    <2>1. \A g \in Handler \ {h} : req[g] = Idle
      BY <1>2, <1>3, <1>5, IdleRequest DEF IndInv, Undisturbed
    <2>2. Brought(req[h])'
      BY <1>1, <1>3, <1>4, <1>5 DEF Brought, grafana, IndInv, TypeOK
    <2> QED
      BY <1>3, <1>4, <2>1, <2>2 DEF Undisturbed
  <1> QED
    BY <1>1, <1>2, <1>3, <1>5, AnswerOf DEF IndInv, TypeOK, grafana

LEMMA GetTeamStep ==
  ASSUME IndInv, NEW h \in Handler, GetTeam(h)
  PROVE  IndInv'
  <1> DEFINE site == req[h].new.site
  <1> DEFINE unlisted == site \notin req[h].left \cup {None}
  <1> DEFINE r == [req[h] EXCEPT !.stage = "members", !.target = site, !.unlisted = unlisted]
  <1>1. /\ req[h].stage = "team" /\ teams' = teams \cup ({site} \ {None})
        /\ UNCHANGED <<row, account, accounts, orgRole, member, synced>>
        /\ \/ req' = [req EXCEPT ![h] = r] /\ breaks' = breaks
           \/ Raised(h)
    BY DEF GetTeam, Answered, Break
  <1>2. req[h] \in Requests /\ req[h].stage \in Stages /\ req[h].left \subseteq teams
    BY <1>1, RequestAt DEF IndInv, TypeOK, Stages
  <1>3. /\ site \in SiteScope \cup {None} /\ unlisted \in BOOLEAN
        /\ member' \subseteq teams' /\ teams' \subseteq SiteScope
    BY <1>1, <1>2 DEF IndInv, TypeOK, Requests, Row
  <1>4. CASE Raised(h)
    BY <1>1, <1>2, <1>3, <1>4, RaisedStep DEF IndInv, TypeOK
  <1>5. CASE req' = [req EXCEPT ![h] = r] /\ breaks' = breaks
    <2> HIDE DEF site, unlisted
    <2>1. /\ r \in Requests /\ r.stage = "members" /\ r.id = req[h].id /\ r.left = req[h].left
          /\ r.target = site /\ r.unlisted = unlisted
          /\ r.new = req[h].new /\ r.changed = req[h].changed /\ r.disturbed = req[h].disturbed
      BY <1>2, <1>3 DEF Requests, Stages
    <2> HIDE DEF r
    <2>2. \A g \in Handler : req'[g] = IF g = h THEN r ELSE req[g]
      BY <1>5 DEF IndInv, TypeOK
    <2>3. ASSUME ~r.disturbed, Brought(req[h]) PROVE Undisturbed(h)'
      <3>1. \A g \in Handler \ {h} : req[g] = Idle
        BY <1>2, <2>1, <2>3, IdleRequest DEF IndInv, Undisturbed
      <3>2. /\ member \subseteq r.left /\ r.target = r.new.site
            /\ r.unlisted => r.target \notin r.left \cup member
            /\ ~r.unlisted => r.target \in r.left \cup {None}
        BY <1>1, <2>1, <2>3 DEF Brought, site, unlisted
      <3>3. Brought(req[h])'
        BY <1>1, <2>1, <2>2, <2>3, <3>2 DEF Brought
      <3> QED
        BY <2>1, <2>2, <3>1, <3>3 DEF Undisturbed
    <2> QED
      BY <1>1, <1>2, <1>3, <1>5, <2>1, <2>3, AnswerOf DEF IndInv, TypeOK
  <1> QED
    BY <1>1, <1>4, <1>5

LEMMA SyncMemberStep ==
  ASSUME IndInv, NEW h \in Handler, NEW s \in SiteScope, SyncMember(h, s)
  PROVE  IndInv'
  <1> DEFINE r == [req[h] EXCEPT !.left = @ \ {s}]
  <1>1. /\ req[h].stage = "members" /\ s \in req[h].left
        /\ member' = IF account # req[h].id THEN member
                     ELSE IF s = req[h].target THEN member \cup {s} ELSE member \ {s}
        /\ UNCHANGED <<row, account, accounts, orgRole, teams, synced>>
        /\ \/ req' = [req EXCEPT ![h] = r] /\ breaks' = breaks
           \/ Raised(h)
    BY DEF SyncMember, Answered, Break
  <1>2. req[h] \in Requests /\ req[h].stage \in Stages /\ req[h].left \subseteq teams
    BY <1>1, RequestAt DEF IndInv, TypeOK, Stages
  <1>3. member' \subseteq teams' /\ teams' \subseteq SiteScope
    BY <1>1, <1>2 DEF IndInv, TypeOK
  <1>4. CASE Raised(h)
    BY <1>1, <1>2, <1>3, <1>4, RaisedStep DEF IndInv, TypeOK
  <1>5. CASE req' = [req EXCEPT ![h] = r] /\ breaks' = breaks
    <2>1. /\ r \in Requests /\ r.stage = "members" /\ r.id = req[h].id
          /\ r.left = req[h].left \ {s}
          /\ r.target = req[h].target /\ r.unlisted = req[h].unlisted
          /\ r.new = req[h].new /\ r.changed = req[h].changed /\ r.disturbed = req[h].disturbed
      BY <1>1, <1>2 DEF Requests, Stages
    <2> HIDE DEF r
    <2>2. \A g \in Handler : req'[g] = IF g = h THEN r ELSE req[g]
      BY <1>5 DEF IndInv, TypeOK
    <2>3. ASSUME ~r.disturbed, Brought(req[h]) PROVE Undisturbed(h)'
      <3>1. \A g \in Handler \ {h} : req[g] = Idle
        BY <1>2, <2>1, <2>3, IdleRequest DEF IndInv, Undisturbed
      <3>2. /\ member' \subseteq r.left \cup {r.target}
            /\ IF r.unlisted THEN r.target \notin r.left \cup member'
               ELSE r.target \in r.left \cup member' \cup {None}
        BY <1>1, <2>1, <2>3 DEF Brought
      <3>3. Brought(req[h])'
        BY <1>1, <2>1, <2>2, <2>3, <3>2 DEF Brought
      <3> QED
        BY <2>1, <2>2, <3>1, <3>3 DEF Undisturbed
    <2> QED
      BY <1>1, <1>2, <1>3, <1>5, <2>1, <2>3, AnswerOf DEF IndInv, TypeOK
  <1> QED
    BY <1>1, <1>4, <1>5

\* When all the teams have been looked at, the account is as the new row asks for.
LEMMA ProvisionedStep ==
  ASSUME IndInv, NEW h \in Handler, Provisioned(h)
  PROVE  IndInv'
  <1> DEFINE changed == IF req[h].new.gid = req[h].id THEN req[h].changed
                        ELSE req[h].changed \cup {"gid"}
  <1> DEFINE r == [req[h] EXCEPT !.stage = "commit", !.new.gid = req[h].id, !.changed = changed]
  <1>1. /\ req[h].stage = "members" /\ req[h].left = {}
        /\ req' = [req EXCEPT ![h] = r] /\ UNCHANGED <<row, grafana, synced, breaks>>
    BY DEF Provisioned, Answered, Break
  <1>2. req[h] \in Requests /\ req[h].stage \in Stages /\ req[h].left \subseteq teams
    BY <1>1, RequestAt DEF IndInv, TypeOK, Stages
  <1>3. changed \in SUBSET Columns
    BY <1>2 DEF Requests, Columns
  <1>4. "gid" \notin changed => req[h].new.gid = req[h].id /\ changed = req[h].changed
    OBVIOUS
  <1>5. req[h].changed \subseteq changed
    OBVIOUS
  <1> HIDE DEF changed
  <1>6. /\ r \in Requests /\ r.stage = "commit" /\ r.changed = changed /\ r.left = req[h].left
        /\ r.new.gid = req[h].id /\ r.new.role = req[h].new.role
        /\ r.new.site = req[h].new.site /\ r.new.active = req[h].new.active
        /\ r.unlisted = req[h].unlisted /\ r.disturbed = req[h].disturbed
    BY <1>2, <1>3 DEF Requests, Stages, Row
  <1> HIDE DEF r
  <1>7. \A g \in Handler : req'[g] = IF g = h THEN r ELSE req[g]
    BY <1>1 DEF IndInv, TypeOK
  <1>8. ASSUME ~r.disturbed, Brought(req[h]) PROVE Undisturbed(h)'
    <2>1. \A g \in Handler \ {h} : req[g] = Idle
      BY <1>2, <1>6, <1>8, IdleRequest DEF IndInv, Undisturbed
    <2>2. \A c \in Columns \ r.changed : r.new[c] = row[c]
      <3>1. \A c \in Columns \ r.changed : req[h].new[c] = row[c] /\ c \notin req[h].changed
        BY <1>5, <1>6, <1>8 DEF Brought
      <3> QED
        BY <1>4, <1>6, <3>1 DEF Columns
    <2>3. Brought(req[h])'
      BY <1>1, <1>6, <1>7, <2>2 DEF Brought, Stages
    <2>4. /\ r.new.active /\ account # None /\ r.new.gid = account
          /\ orgRole = _ROLE_MAP(r.new.role)
          /\ member = IF r.unlisted THEN {} ELSE {r.new.site} \ {None}
      <3>1. /\ req[h].new.active /\ account # None /\ req[h].id = account
            /\ orgRole = _ROLE_MAP(req[h].new.role)
            /\ req[h].target = req[h].new.site /\ member \subseteq {req[h].target}
            /\ IF req[h].unlisted THEN req[h].target \notin member
               ELSE req[h].target \in member \cup {None}
        BY <1>1, <1>8 DEF Brought
      <3>2. None \notin member
        BY NoneAssumption DEF IndInv, TypeOK
      <3> QED
        BY <1>6, <3>1, <3>2
    <2>5. Reflects(req[h].new, Verdict(h))'
      BY <1>1, <1>6, <1>7, <1>8, <2>4 DEF Reflects, Verdict, grafana
    <2> QED
      BY <1>6, <1>7, <2>1, <2>3, <2>5 DEF Undisturbed
  <1> QED
    BY <1>1, <1>2, <1>5, <1>6, <1>8, AnswerOf DEF IndInv, TypeOK, grafana

-----------------------------------------------------------------------------
(* Deprovisioning, and calls that fail.                                    *)

LEMMA ForgottenRequest ==
  ASSUME NEW r \in Requests
  PROVE  LET q == Forgotten(r)
         IN  /\ q \in Requests /\ q.stage = "commit" /\ q.changed = r.changed \cup {"gid"}
             /\ q.new.gid = None /\ q.new.role = r.new.role /\ q.new.site = r.new.site
             /\ q.new.active = r.new.active /\ q.left = r.left /\ q.disturbed = r.disturbed
  <1> DEFINE c == r.changed \cup {"gid"}
  <1> DEFINE q == [r EXCEPT !.stage = "commit", !.new.gid = None, !.changed = c]
  <1>1. c \in SUBSET Columns
    BY DEF Requests, Columns
  <1>2. Forgotten(r) = q
    BY DEF Forgotten
  <1> HIDE DEF c
  <1>3. /\ q \in Requests /\ q.stage = "commit" /\ q.changed = c
        /\ q.new.gid = None /\ q.new.role = r.new.role /\ q.new.site = r.new.site
        /\ q.new.active = r.new.active /\ q.left = r.left /\ q.disturbed = r.disturbed
    BY <1>1 DEF Requests, Stages, Row
  <1> HIDE DEF q
  <1> QED
    BY <1>2, <1>3 DEF c

\* Where the account was in step, the row names it, and it is the one that is deleted.
LEMMA DeprovisionStep ==
  ASSUME IndInv, NEW h \in Handler, Deprovision(h)
  PROVE  IndInv'
  <1> DEFINE r == Forgotten(req[h])
  <1>1. /\ req[h].stage = "delete"
        /\ IF account = req[h].new.gid
           THEN account' = None /\ orgRole' = None /\ member' = {}
           ELSE UNCHANGED <<account, orgRole, member>>
        /\ req' = [req EXCEPT ![h] = r] /\ UNCHANGED <<row, accounts, teams, synced, breaks>>
    BY DEF Deprovision, Answered, Break
  <1>2. req[h] \in Requests /\ req[h].stage \in Stages /\ req[h].left \subseteq teams
    BY <1>1, RequestAt DEF IndInv, TypeOK, Stages
  <1>3. /\ r \in Requests /\ r.stage = "commit" /\ r.changed = req[h].changed \cup {"gid"}
        /\ r.new.gid = None /\ r.new.role = req[h].new.role /\ r.new.site = req[h].new.site
        /\ r.new.active = req[h].new.active /\ r.left = req[h].left
        /\ r.disturbed = req[h].disturbed
    BY <1>2, ForgottenRequest
  <1> HIDE DEF r
  <1>4. \A g \in Handler : req'[g] = IF g = h THEN r ELSE req[g]
    BY <1>1 DEF IndInv, TypeOK
  <1>5. ASSUME ~r.disturbed, Brought(req[h]) PROVE Undisturbed(h)'
    <2>1. \A g \in Handler \ {h} : req[g] = Idle
      BY <1>2, <1>3, <1>5, IdleRequest DEF IndInv, Undisturbed
    <2>2. \A c \in Columns \ r.changed : r.new[c] = row[c]
      <3>1. \A c \in Columns \ r.changed : req[h].new[c] = row[c] /\ c # "gid"
        BY <1>3, <1>5 DEF Brought
      <3> QED
        BY <1>3, <3>1 DEF Columns
    <2>3. ~r.new.active /\ (synced # "no" => account' = None)
      BY <1>1, <1>3, <1>5 DEF Brought
    <2>4. Brought(req[h])'
      BY <1>1, <1>3, <1>4, <2>2 DEF Brought
    <2>5. (Verdict(h) # "no" => Reflects(req[h].new, Verdict(h)))'
      BY <1>1, <1>3, <1>4, <1>5, <2>3 DEF Reflects, Verdict
    <2> QED
      BY <1>3, <1>4, <2>1, <2>4, <2>5 DEF Undisturbed
  <1> QED
    BY <1>1, <1>2, <1>3, <1>5, AnswerOf DEF IndInv, TypeOK

LEMMA RefuseStep ==
  ASSUME IndInv, NEW h \in Handler, Refuse(h)
  PROVE  IndInv'
  <1>0. UNCHANGED <<row, grafana, synced>>
    BY DEF Refuse
  <1>1. /\ account' \in Nat \cup {None} /\ accounts' \in Nat
        /\ orgRole' \in {"Admin", "Editor", "Viewer", None}
        /\ member' \subseteq teams' /\ teams \subseteq teams' /\ teams' \subseteq SiteScope
    BY <1>0 DEF IndInv, TypeOK, grafana
  <1>2. req[h].stage \in Stages /\ req[h] \in Requests /\ req[h].left \subseteq teams
    <2>1. req[h].stage \in Stages
      BY DEF Refuse, Stages
    <2> QED
      BY <2>1, RequestAt DEF IndInv, TypeOK
  <1>3. ASSUME NEW s \in Stages, Refused(h, [req[h] EXCEPT !.stage = s]) PROVE IndInv'
    <2> DEFINE r == [req[h] EXCEPT !.stage = s]
    <2>1. r \in Requests /\ r.left = req[h].left /\ r.changed = req[h].changed
      BY <1>2 DEF Requests
    <2> HIDE DEF r
    <2>2. Refused(h, r)
      BY <1>3 DEF r
    <2> QED
      BY <1>0, <1>1, <1>2, <2>1, <2>2, RefusedStep
  <1>4. ASSUME NEW s, Refused(h, [req[h] EXCEPT !.left = @ \ {s}]) PROVE IndInv'
    <2> DEFINE r == [req[h] EXCEPT !.left = @ \ {s}]
    <2>1. r \in Requests /\ r.left = req[h].left \ {s} /\ r.changed = req[h].changed
      BY <1>2 DEF Requests
    <2> HIDE DEF r
    <2>2. Refused(h, r)
      BY <1>4 DEF r
    <2> QED
      BY <1>0, <1>1, <1>2, <2>1, <2>2, RefusedStep
  <1>5. CASE Raised(h)
    BY <1>0, <1>1, <1>2, <1>5, RaisedStep
  <1>6. ASSUME Refused(h, Forgotten(req[h])) PROVE IndInv'
    <2>1. /\ Forgotten(req[h]) \in Requests /\ Forgotten(req[h]).left = req[h].left
          /\ req[h].changed \subseteq Forgotten(req[h]).changed
      BY <1>2, ForgottenRequest
    <2> QED
      BY <1>0, <1>1, <1>2, <1>6, <2>1, RefusedStep
  <1> QED
    BY <1>3, <1>4, <1>5, <1>6 DEF Refuse, Stages

-----------------------------------------------------------------------------
(* Requests begin and end.                                                 *)

\* Requests that meet disturb each other; one that meets none finds the row as it is.
LEMMA TakeStep ==
  ASSUME IndInv, NEW h \in Handler, NEW new \in Row, NEW columns \in SUBSET Columns,
         NEW stage \in Stages, Take(h, new, columns, stage),
         \A c \in Columns \ columns : new[c] = row[c],
         stage \in {"user", "delete", "commit"}, stage = "user" <=> new.active,
         row = None => columns = Columns,
         ~new.active /\ synced # "no" /\ (\A g \in Handler : req[g] = Idle) =>
             account = new.gid /\ (stage = "commit" => new.gid = None)
  PROVE  IndInv'
  <1> DEFINE others == {g \in Handler : req[g] # Idle}
  <1> DEFINE r == [Idle EXCEPT !.stage = stage, !.new = new, !.changed = columns,
                               !.disturbed = others # {}]
  <1>1. /\ req[h] = Idle /\ UNCHANGED <<row, grafana, synced>>
        /\ req' = [g \in Handler |-> IF g = h THEN r
                                     ELSE IF g \in others THEN [req[g] EXCEPT !.disturbed = TRUE]
                                     ELSE req[g]]
    BY DEF Take
  <1>2. (others # {}) \in BOOLEAN /\ breaks' \in Nat
    <2>1. Break(others # {})
      BY DEF Take
    <2> HIDE DEF others
    <2> QED
      BY <2>1 DEF Break, IndInv, TypeOK
  <1>3. \A g \in Handler : g \in others <=> req[g] # Idle
    OBVIOUS
  <1> HIDE DEF others
  <1>4. /\ r \in Requests /\ r.stage = stage /\ r.new = new /\ r.changed = columns
        /\ r.left = {} /\ r.disturbed = (others # {})
    BY <1>2 DEF Idle, Requests
  <1> HIDE DEF r
  <1> DEFINE q(g) == [req[g] EXCEPT !.disturbed = TRUE]
  <1>5. ASSUME NEW g \in Handler, g \in others
        PROVE  /\ q(g) \in Requests /\ q(g).disturbed
               /\ q(g).left = req[g].left /\ q(g).changed = req[g].changed
    <2>1. req[g] \in Requests
      BY <1>3, <1>5 DEF IndInv, TypeOK
    <2> QED
      BY <2>1 DEF Requests
  <1>6. /\ req'[h] = r
        /\ \A g \in Handler \ {h} : IF g \in others THEN req'[g] = q(g) ELSE req'[g] = req[g]
        /\ req' = [g \in Handler |-> req'[g]]
    BY <1>1
  <1> HIDE DEF q
  <1>11. \A g \in Handler \ {h} :
             \/ /\ req[g] # Idle /\ req'[g] \in Requests /\ req'[g].disturbed
                /\ req'[g].left = req[g].left /\ req'[g].changed = req[g].changed
             \/ req[g] = Idle /\ req'[g] = Idle
    BY <1>3, <1>5, <1>6
  <1>7. TypeOK'
    <2>1. \A g \in Handler : req'[g] \in Requests \cup {Idle} /\ req'[g].left \subseteq teams
      BY <1>4, <1>6, <1>11 DEF IndInv, TypeOK
    <2>2. req' \in [Handler -> Requests \cup {Idle}]
      BY <1>6, <2>1
    <2> QED
      BY <1>1, <1>2, <2>1, <2>2 DEF IndInv, TypeOK, grafana
  <1>8. InStep'
    BY <1>4, <1>6, <1>11, IdleRequest DEF InStep
  <1>9. Undisturbed(h)'
    <2> SUFFICES ASSUME ~r.disturbed PROVE Undisturbed(h)'
      BY <1>6 DEF Undisturbed
    <2>1. (\A g \in Handler \ {h} : req[g] = Idle) /\ \A g \in Handler : req[g] = Idle
      BY <1>1, <1>3, <1>4
    <2>2. Brought(req[h])'
      BY <1>1, <1>4, <1>6, <2>1 DEF Brought, grafana
    <2>3. (req[h].stage = "commit" /\ Verdict(h) # "no" => Reflects(req[h].new, Verdict(h)))'
      BY <1>1, <1>4, <1>6, <2>1 DEF Verdict, Reflects, grafana
    <2> QED
      BY <1>6, <1>11, <2>1, <2>2, <2>3 DEF Undisturbed
  <1>10. ASSUME NEW g \in Handler, g # h PROVE Undisturbed(g)'
    BY <1>11, <1>10 DEF Undisturbed
  <1>12. ASSUME NEW g \in Handler PROVE Whole(g)'
    BY <1>1, <1>4, <1>6, <1>11 DEF IndInv, Whole
  <1> QED
    BY <1>7, <1>8, <1>9, <1>10, <1>12 DEF IndInv

LEMMA BeginStep ==
  ASSUME IndInv, NEW h \in Handler, NEW role \in Role, NEW site \in SiteScope \cup {None},
         BeginCreate(h, role, site) \/ \E active \in BOOLEAN : BeginUpdate(h, role, site, active)
  PROVE  IndInv'
  <1>1. CASE BeginCreate(h, role, site)
    <2> DEFINE new == [role |-> role, site |-> site, active |-> TRUE, gid |-> None]
    <2>1. new \in Row /\ new.active
      BY DEF Row
    <2>2. Take(h, new, Columns, "user")
      BY <1>1 DEF BeginCreate
    <2> HIDE DEF new
    <2> QED
      BY <2>1, <2>2, TakeStep DEF Stages
  <1>2. ASSUME NEW active \in BOOLEAN, BeginUpdate(h, role, site, active) PROVE IndInv'
    <2> DEFINE new == [role |-> role, site |-> site, active |-> active, gid |-> row.gid]
    <2> DEFINE columns == {c \in Columns : new[c] # row[c]}
    <2> DEFINE stage == IF active THEN "user" ELSE IF row.gid # None THEN "delete" ELSE "commit"
    <2>1. row \in Row /\ row # None /\ Take(h, new, columns, stage)
      BY <1>2 DEF BeginUpdate, IndInv, TypeOK
    <2>2. new \in Row /\ new.active = active /\ new.gid = row.gid
      BY <2>1 DEF Row
    <2>3. /\ stage \in Stages /\ stage \in {"user", "delete", "commit"}
          /\ stage = "user" <=> active
          /\ stage = "commit" => row.gid = None
      BY DEF Stages
    <2>4. columns \in SUBSET Columns /\ \A c \in Columns \ columns : new[c] = row[c]
      OBVIOUS
    <2>5. synced # "no" /\ (\A g \in Handler : req[g] = Idle) => account = row.gid
      BY DEF IndInv, InStep, Reflects
    <2> HIDE DEF new, columns, stage
    <2> QED
      BY <2>1, <2>2, <2>3, <2>4, <2>5, TakeStep
  <1> QED
    BY <1>1, <1>2

LEMMA EndOf ==
  ASSUME IndInv, NEW h \in Handler, req[h] # Idle, req' = [req EXCEPT ![h] = Idle],
         UNCHANGED grafana, breaks' \in Nat,
         row' \in Row \cup {None}, row' = None => row = None, synced' \in {"no", "unlisted", "yes"},
         synced' # "no" => ~req[h].disturbed /\ Reflects(row', synced')
  PROVE  IndInv'
  <1>1. \A g \in Handler : req'[g] = IF g = h THEN Idle ELSE req[g]
    BY DEF IndInv, TypeOK
  <1>2. TypeOK'
    <2>1. \A g \in Handler : req'[g].left \subseteq teams'
      BY <1>1 DEF IndInv, TypeOK, Idle, grafana
    <2> QED
      BY <2>1 DEF IndInv, TypeOK, grafana
  <1>3. InStep'
    BY DEF InStep, Reflects, grafana
  <1>4. ASSUME NEW g \in Handler PROVE Undisturbed(g)'
    <2>1. CASE g = h
      BY <1>1, <2>1 DEF Undisturbed
    <2>2. CASE g # h
      <3>1. req[g] = Idle \/ req[g].disturbed
        BY <2>2 DEF IndInv, Undisturbed
      <3> QED
        BY <1>1, <2>2, <3>1 DEF Undisturbed
    <2> QED
      BY <2>1, <2>2
  <1>5. ASSUME NEW g \in Handler PROVE Whole(g)'
    BY <1>1 DEF IndInv, Whole
  <1> QED
    BY <1>2, <1>3, <1>4, <1>5 DEF IndInv

LEMMA CommitStep ==
  ASSUME IndInv, NEW h \in Handler, Commit(h)
  PROVE  IndInv'
  <1>1. /\ req[h].stage = "commit" /\ row' = Written(h) /\ synced' = Verdict(h)
        /\ req' = [req EXCEPT ![h] = Idle] /\ UNCHANGED <<grafana, breaks>>
    BY DEF Commit
  <1>2. req[h] \in Requests /\ req[h] # Idle
    BY <1>1, RequestAt DEF IndInv, Stages
  <1>3. synced' \in {"no", "unlisted", "yes"}
    BY <1>1 DEF Verdict, IndInv, TypeOK
  <1>4. \A c \in Columns : row'[c] = IF c \in req[h].changed THEN req[h].new[c] ELSE row[c]
    BY <1>1 DEF Written
  <1>5. row' \in Row /\ (row' = None => row = None)
    <2>1. row \in Row \/ req[h].changed = Columns
      BY <1>2 DEF IndInv, TypeOK, Whole
    <2>2. req[h].new \in Row
      BY <1>2 DEF Requests
    <2>3. /\ row'["role"] \in Role /\ row'["site"] \in SiteScope \cup {None}
          /\ row'["active"] \in BOOLEAN /\ row'["gid"] \in Nat \cup {None}
      BY <1>4, <2>1, <2>2 DEF Row, Columns
    <2>4. row' = [role |-> row'["role"], site |-> row'["site"],
                  active |-> row'["active"], gid |-> row'["gid"]]
      BY <1>1 DEF Written, Columns
    <2>5. row' \in Row
      BY <2>3, <2>4 DEF Row
    <2> QED
      BY <2>5, NoneAssumption
  <1>6. ASSUME synced' # "no" PROVE ~req[h].disturbed /\ Reflects(row', synced')
    <2>1. ~req[h].disturbed
      BY <1>1, <1>6 DEF Verdict
    <2>2. Brought(req[h]) /\ Reflects(req[h].new, synced')
      BY <1>1, <1>2, <1>6, <2>1 DEF IndInv, Undisturbed
    <2>3. \A c \in Columns : row'[c] = req[h].new[c]
      BY <1>4, <2>2 DEF Brought
    <2>4. /\ row'.role = req[h].new.role /\ row'.site = req[h].new.site
          /\ row'.active = req[h].new.active /\ row'.gid = req[h].new.gid
      BY <2>3 DEF Columns
    <2> QED
      BY <2>1, <2>2, <2>4 DEF Reflects
  <1> QED
    BY <1>1, <1>2, <1>3, <1>5, <1>6, EndOf DEF IndInv, TypeOK

LEMMA AbortStep ==
  ASSUME IndInv, NEW h \in Handler, Abort(h)
  PROVE  IndInv'
  <1>1. /\ req[h] # Idle /\ synced' = "no" /\ req' = [req EXCEPT ![h] = Idle]
        /\ UNCHANGED <<row, grafana>> /\ breaks' \in Nat
    BY DEF Abort, Break, IndInv, TypeOK
  <1> QED
    BY <1>1, EndOf DEF IndInv, TypeOK

LEMMA OtherTeamStep ==
  ASSUME IndInv, NEW s \in SiteScope, OtherTeam(s)
  PROVE  IndInv'
  <1>1. TypeOK'
    BY DEF OtherTeam, IndInv, TypeOK
  <1>2. InStep'
    BY DEF OtherTeam, IndInv, InStep, Reflects
  <1>3. \A h \in Handler : Whole(h)' /\ Undisturbed(h)'
    BY DEF OtherTeam, IndInv, Whole, Undisturbed, Brought, Verdict, Reflects
  <1> QED
    BY <1>1, <1>2, <1>3 DEF IndInv

-----------------------------------------------------------------------------
LEMMA IndInvInit == Init => IndInv
  <1> SUFFICES ASSUME Init PROVE IndInv
    OBVIOUS
  <1>1. TypeOK
    BY DEF Init, TypeOK, Idle
  <1>2. InStep
    BY DEF Init, InStep
  <1>3. \A h \in Handler : Whole(h) /\ Undisturbed(h)
    BY DEF Init, Whole, Undisturbed
  <1> QED
    BY <1>1, <1>2, <1>3 DEF IndInv

LEMMA IndInvNext == IndInv /\ [Next]_vars => IndInv'
  <1> SUFFICES ASSUME IndInv, [Next]_vars PROVE IndInv'
    OBVIOUS
  <1>1. ASSUME NEW h \in Handler, Request(h) PROVE IndInv'
    BY <1>1, BeginStep, GetUserStep, CreateAccountStep, SetOrgRoleStep, ListTeamsStep,
       GetTeamStep, SyncMemberStep, ProvisionedStep, DeprovisionStep, RefuseStep,
       CommitStep, AbortStep DEF Request
  <1>2. CASE UNCHANGED vars
    <2>1. TypeOK' /\ InStep'
      BY <1>2 DEF vars, grafana, IndInv, TypeOK, InStep, Reflects
    <2>2. \A h \in Handler : Whole(h)' /\ Undisturbed(h)'
      BY <1>2 DEF vars, grafana, IndInv, Whole, Undisturbed, Brought, Verdict, Reflects
    <2> QED
      BY <2>1, <2>2 DEF IndInv
  <1> QED
    BY <1>1, <1>2, OtherTeamStep DEF Next

LEMMA Inductive == Spec => []IndInv
  BY IndInvInit, IndInvNext, PTL DEF Spec

\* The user's row, account and requests keep their types.
THEOREM TypeCorrect == Spec => []TypeOK
  <1>1. IndInv => TypeOK
    BY DEF IndInv
  <1> QED
    BY <1>1, Inductive, PTL

\* After a request that nothing disturbed, whatever others left behind before it, the
\* account in Grafana is as the row asks for (provision_user, deprovision_user).
THEOREM InStepAlways == Spec => []InStep
  <1>1. IndInv => InStep
    BY DEF IndInv
  <1> QED
    BY <1>1, Inductive, PTL

===============================================================================
