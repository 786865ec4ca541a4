---------------------------- MODULE LimitsProofs ----------------------------
(***************************************************************************)
(* Theorems about module Limits, for any requests, rates, lifetimes and    *)
(* bounds.                                                                 *)
(*                                                                         *)
(* The invariant about the bucket balances it against what was granted: a  *)
(* request whose bucket nobody changed since it arrived still pays for     *)
(* what it takes.                                                          *)
(***************************************************************************)
EXTENDS Limits, FiniteSetTheorems, TLAPS

USE SetsAssumption, BucketAssumption, LoginAssumption, BoundsAssumption

Spent == Cost * Cardinality(Granted)

(* What the bucket held and was refilled until time t pays for all that    *)
(* was granted, but for the slack.                                         *)
Balance(t) ==
    Spent <= slack + (IF level = None \/ last = None THEN t ELSE Capacity - level + last)

AtWork(r) == pc[r] \in {"read", "write"}

BucketInv ==
    /\ TypeOK
    /\ Balance(now)
    /\ last # None => last <= now
    /\ level # None /\ last # None => last + KeyLife <= bucketEnd
    /\ \A r \in Requests : AtWork(r) =>
          /\ at[r] <= now
          /\ fresh[r] => Balance(at[r])
          /\ fresh[r] /\ pc[r] = "write" => found[r] = Refilled(r)

------------------------------------------------------------------------------
(* A refilled bucket is a number of units not above its capacity.          *)
LEMMA RefilledType ==
    ASSUME TypeOK, NEW r \in Requests
    PROVE  Refilled(r) \in Int /\ Refilled(r) <= Capacity
BY DEF TypeOK, Refilled, Lower

(* Every step keeps the types.                                             *)
LEMMA TypeStep == BucketInv /\ [Next]_vars => TypeOK'
<1> SUFFICES ASSUME BucketInv, [Next]_vars PROVE TypeOK'
    OBVIOUS
<1> TypeOK
    BY DEF BucketInv
<1> USE DEF Steps, bucket, counter, limits
<1>1. ASSUME NEW r \in Requests, Arrive(r) PROVE TypeOK'
    BY <1>1 DEF TypeOK, Arrive, Goto
<1>2. ASSUME NEW r \in Requests, ReadBucket(r) PROVE TypeOK'
    BY <1>2, RefilledType DEF TypeOK, ReadBucket, End, Goto
<1>3. ASSUME NEW r \in Requests, WriteBucket(r) PROVE TypeOK'
    <2>1. found[r] \in Cost..Capacity /\ at[r] \in Nat /\ at[r] <= now
        BY <1>3 DEF WriteBucket, TypeOK, BucketInv, AtWork
    <2> QED
        BY <1>3, <2>1 DEF TypeOK, WriteBucket, End, Goto, Outdated
<1>4. ASSUME NEW r \in Requests, Increment(r) \/ SetExpiry(r) PROVE TypeOK'
    BY <1>4 DEF TypeOK, Increment, SetExpiry, Goto
<1>5. ASSUME NEW r \in Requests, Crash(r) PROVE TypeOK'
    BY <1>5 DEF TypeOK, Crash, End, Goto
<1>6. CASE Tick
    <2>1. /\ now' \in Nat
          /\ level' \in 0..(Capacity - Cost) \cup {None} /\ last' \in Nat \cup {None}
          /\ fresh' \in [Requests -> BOOLEAN]
        <3>1. now' = now + 1
            BY <1>6 DEF Tick
        <3>2. CASE bucketEnd = now + 1
            BY <1>6, <3>1, <3>2 DEF TypeOK, Tick, Outdated
        <3>3. CASE bucketEnd # now + 1
            BY <1>6, <3>1, <3>3 DEF TypeOK, Tick
        <3> QED
            BY <3>2, <3>3
    <2>2. count' \in Nat /\ countEnd' \in Nat \cup {None}
        BY <1>6 DEF TypeOK, Tick
    <2>3. UNCHANGED <<bucketEnd, slack, pc, at, found, evictions, crashes>>
        BY <1>6 DEF Tick
    <2> QED
        BY <2>1, <2>2, <2>3 DEF TypeOK
<1>7. CASE EvictBucket
    <2>1. /\ level' \in 0..(Capacity - Cost) \cup {None} /\ last' \in Nat \cup {None}
          /\ fresh' \in [Requests -> BOOLEAN] /\ slack' \in Nat /\ evictions' \in Nat
        BY <1>7 DEF TypeOK, EvictBucket, Outdated
    <2>2. UNCHANGED <<now, bucketEnd, count, countEnd, pc, at, found, crashes>>
        BY <1>7 DEF EvictBucket
    <2> QED
        BY <2>1, <2>2 DEF TypeOK
<1>9. CASE EvictCounter
    BY <1>9 DEF TypeOK, EvictCounter
<1>8. CASE UNCHANGED vars
    BY <1>8 DEF TypeOK, vars
<1> QED
    BY <1>1, <1>2, <1>3, <1>4, <1>5, <1>6, <1>7, <1>8, <1>9 DEF Next

------------------------------------------------------------------------------
(* What was granted.                                                       *)

LEMMA SpentType == Spent \in Nat /\ Cardinality(Granted) \in Nat
<1>1. IsFiniteSet(Granted)
    BY FS_Subset DEF Granted
<1> QED
    BY <1>1, FS_CardinalityType DEF Spent

(* Only a write to the bucket grants a request, and it grants one.         *)
LEMMA SpentStep ==
    ASSUME BucketInv, [Next]_vars
    PROVE  /\ \A r \in Requests : WriteBucket(r) => Spent' = Spent + Cost
           /\ (\A r \in Requests : ~WriteBucket(r)) => Spent' = Spent
<1> TypeOK
    BY DEF BucketInv
<1>1. ASSUME NEW r \in Requests, WriteBucket(r) PROVE Spent' = Spent + Cost
    <2>1. Granted' = Granted \cup {r} /\ r \notin Granted
        BY <1>1 DEF WriteBucket, Granted, End, Goto, TypeOK
    <2>2. IsFiniteSet(Granted)
        BY FS_Subset DEF Granted
    <2>3. Cardinality(Granted \cup {r}) = Cardinality(Granted) + 1
        BY <2>1, <2>2, FS_AddElement, Zenon
    <2>4. Cardinality(Granted)' = Cardinality(Granted')
        OBVIOUS
    <2>5. Cardinality(Granted)' = Cardinality(Granted) + 1
        BY <2>1, <2>3, <2>4
    <2> HIDE DEF Granted
    <2> QED
        BY <2>5, SpentType DEF Spent
<1>2. ASSUME \A r \in Requests : ~WriteBucket(r) PROVE Spent' = Spent
    <2>1. Granted' = Granted
        <3>1. ASSUME NEW r \in Requests,
                     Arrive(r) \/ ReadBucket(r) \/ Increment(r) \/ SetExpiry(r) \/ Crash(r)
              PROVE  Granted' = Granted
            BY <3>1 DEF Granted, TypeOK, Arrive, ReadBucket, Increment, SetExpiry, Crash, End, Goto
        <3>2. CASE Tick \/ EvictBucket \/ EvictCounter \/ UNCHANGED vars
            BY <3>2 DEF Granted, Tick, EvictBucket, EvictCounter, vars
        <3> QED
            BY <1>2, <3>1, <3>2 DEF Next
    <2> QED
        BY <2>1 DEF Spent
<1> QED
    BY <1>1, <1>2

------------------------------------------------------------------------------
(* The bucket.                                                             *)

Requesting(r) ==
    /\ at[r] <= now
    /\ fresh[r] => Balance(at[r])
    /\ fresh[r] /\ pc[r] = "write" => found[r] = Refilled(r)

(* What the invariant says of the keys.                                    *)
Keys ==
    /\ Balance(now)
    /\ last # None => last <= now
    /\ level # None /\ last # None => last + KeyLife <= bucketEnd

(* The overdraft is bounded whenever the keys balance.                     *)
LEMMA Overdraft ==
    ASSUME BucketInv
    PROVE  Spent <= Capacity + now + slack
BY SpentType DEF BucketInv, Balance, TypeOK

(* The write of a request that found the bucket as it still is pays for    *)
(* it; any other write is covered by the slack.                            *)
LEMMA WriteKeys ==
    ASSUME BucketInv, [Next]_vars, NEW r \in Requests, WriteBucket(r)
    PROVE  Keys'
<1>1. /\ pc[r] = "write" /\ level' = found[r] - Cost /\ last' = at[r]
      /\ bucketEnd' = now + KeyLife /\ now' = now
      /\ slack' = IF fresh[r] THEN slack ELSE slack + Capacity + (now - at[r])
    BY DEF WriteBucket
<1>2. /\ found[r] \in Cost..Capacity /\ at[r] \in Nat /\ at[r] <= now
      /\ now \in Nat /\ slack \in Nat
      /\ fresh[r] => Balance(at[r]) /\ found[r] = Refilled(r)
    BY <1>1 DEF BucketInv, AtWork, TypeOK
<1>3. Spent' = Spent + Cost /\ Spent \in Nat /\ Spent <= Capacity + now + slack
    BY SpentStep, SpentType, Overdraft
<1>4. level' # None /\ last' # None
    BY <1>1, <1>2
<1>5. Spent' <= slack' + (Capacity - level' + last')
    <2>1. CASE fresh[r]
        <3>1. Spent <= slack + (IF level = None \/ last = None THEN at[r]
                                                               ELSE Capacity - level + last)
            BY <1>2, <2>1 DEF Balance
        <3>2. found[r] <= Capacity
            BY <1>2
        <3>3. CASE level = None \/ last = None
            BY <1>1, <1>2, <1>3, <2>1, <3>1, <3>2, <3>3
        <3>4. CASE level # None /\ last # None
            <4>1. found[r] <= level + at[r] - last /\ level \in Nat /\ last \in Nat
                BY <1>2, <2>1, <3>4 DEF Refilled, Lower, BucketInv, TypeOK
            <4> QED
                BY <1>1, <1>2, <1>3, <2>1, <3>1, <3>4, <4>1
        <3> QED
            BY <3>3, <3>4
    <2>2. CASE ~fresh[r]
        BY <1>1, <1>2, <1>3, <2>2
    <2> QED
        BY <2>1, <2>2
<1> HIDE DEF Spent
<1> QED
    BY <1>1, <1>2, <1>4, <1>5 DEF Keys, Balance

(* The keys expire when what was refilled since fills the bucket anyway.   *)
LEMMA TickKeys ==
    ASSUME BucketInv, [Next]_vars, Tick
    PROVE  Keys'
<1>1. Spent' = Spent /\ Spent \in Nat
    BY SpentStep, SpentType DEF Tick, WriteBucket, TypeOK, BucketInv
<1>2. now' = now + 1 /\ now \in Nat /\ slack' = slack /\ bucketEnd' = bucketEnd
    BY DEF Tick, BucketInv, TypeOK
<1>3. Spent <= slack + (IF level = None \/ last = None THEN now ELSE Capacity - level + last)
    BY DEF BucketInv, Balance
<1>4. CASE bucketEnd # now + 1
    <2>1. UNCHANGED <<level, last>>
        BY <1>4 DEF Tick
    <2> QED
        BY <1>1, <1>2, <1>3, <2>1 DEF Keys, BucketInv, TypeOK, Balance
<1>5. CASE bucketEnd = now + 1
    <2>1. level' = None /\ last' = None
        BY <1>5 DEF Tick
    <2>2. Spent <= slack + (now + 1)
        <3>1. CASE level = None \/ last = None
            <4> HIDE DEF Spent
            <4> QED
                BY <1>1, <1>2, <1>3, <3>1 DEF BucketInv, TypeOK
        <3>2. CASE level # None /\ last # None
            <4>1. Spent <= slack + (Capacity - level + last)
                BY <1>3, <3>2
            <4>2. level \in Nat /\ last \in Nat /\ last + KeyLife <= now + 1 /\ slack \in Nat
                BY <1>5, <3>2, BucketAssumption DEF BucketInv, TypeOK
            <4> HIDE DEF Spent
            <4> QED
                BY <1>1, <1>2, <4>1, <4>2, BucketAssumption
        <3> QED
            BY <3>1, <3>2
    <2> HIDE DEF Spent
    <2> QED
        BY <1>1, <1>2, <2>1, <2>2 DEF Keys, Balance
<1> QED
    BY <1>4, <1>5

(* An eviction gives back a bucket at most.                                *)
LEMMA EvictKeys ==
    ASSUME BucketInv, [Next]_vars, EvictBucket
    PROVE  Keys'
<1>1. Spent' = Spent /\ Spent \in Nat /\ Spent <= Capacity + now + slack
    <2>1. ASSUME NEW r \in Requests PROVE ~WriteBucket(r)
        <3>1. pc' = pc
            BY DEF EvictBucket
        <3>2. WriteBucket(r) => pc[r] = "write" /\ pc'[r] = "granted"
            BY DEF WriteBucket, End, Goto, BucketInv, TypeOK
        <3> QED
            BY <3>1, <3>2
    <2> QED
        BY <2>1, SpentStep, SpentType, Overdraft
<1>2. /\ level' = None \/ last' = None
      /\ last' \in {last, None}
      /\ slack' = slack + Capacity /\ UNCHANGED <<now, bucketEnd>>
    BY DEF EvictBucket
<1>3. now \in Nat /\ slack \in Nat /\ (last # None => last <= now)
    BY DEF BucketInv, TypeOK
<1> HIDE DEF Spent
<1> QED
    BY <1>1, <1>2, <1>3 DEF Keys, Balance

(* The keys keep their balance, and every request at work its view of them. *)
LEMMA BucketStep == BucketInv /\ [Next]_vars => BucketInv'
<1> SUFFICES ASSUME BucketInv, [Next]_vars PROVE BucketInv'
    OBVIOUS
<1> TypeOK /\ TypeOK'
    BY TypeStep DEF BucketInv
<1>0. ASSUME Keys', \A r \in Requests : AtWork(r)' => Requesting(r)' PROVE BucketInv'
    BY <1>0 DEF BucketInv, Keys, Requesting
<1>1. \A r \in Requests : AtWork(r) => Requesting(r)
    BY DEF BucketInv, Requesting
<1>2. now' >= now
    BY DEF Next, vars, Arrive, ReadBucket, WriteBucket, Increment, SetExpiry, Crash, Tick,
           EvictBucket, EvictCounter, TypeOK
(* A step that changes the bucket leaves no fresh request.                 *)
<1>3. ASSUME Keys', fresh' = Outdated, at' = at \/ (\E q \in Requests : at' = [at EXCEPT ![q] = 0]),
             \A r \in Requests : AtWork(r)' => AtWork(r)
      PROVE  BucketInv'
    <2>1. ASSUME NEW r \in Requests, AtWork(r)' PROVE Requesting(r)'
        <3>1. at[r] <= now /\ at'[r] \in {at[r], 0} /\ ~fresh'[r]
            BY <1>1, <1>3, <2>1 DEF Requesting, TypeOK, Outdated
        <3> QED
            BY <1>2, <3>1 DEF Requesting, TypeOK
    <2> QED
        BY <1>0, <1>3, <2>1
(* A step that leaves the bucket alone.                                    *)
<1>4. ASSUME UNCHANGED <<now, level, last, bucketEnd, slack>>, Spent' = Spent,
             \A r \in Requests : AtWork(r)' =>
                 Requesting(r)' \/ (AtWork(r) /\ UNCHANGED <<at[r], found[r], fresh[r], pc[r]>>)
      PROVE  BucketInv'
    <2>1. Keys'
        BY <1>4 DEF Keys, BucketInv, Balance
    <2>2. ASSUME NEW r \in Requests, AtWork(r), UNCHANGED <<at[r], found[r], fresh[r], pc[r]>>
          PROVE  Requesting(r)'
        <3>1. Requesting(r) /\ Refilled(r)' = Refilled(r)
            BY <1>1, <1>4, <2>2 DEF Refilled
        <3>2. Balance(at[r])' <=> Balance(at[r])
            BY <1>4, <2>2 DEF Balance
        <3> QED
            BY <1>4, <2>2, <3>1, <3>2 DEF Requesting
    <2> QED
        BY <1>0, <1>4, <2>1, <2>2
<1>5. ASSUME NEW r \in Requests, WriteBucket(r) PROVE BucketInv'
    <2>1. /\ fresh' = Outdated /\ at' = [at EXCEPT ![r] = 0]
          /\ pc' = [pc EXCEPT ![r] = "granted"]
        BY <1>5 DEF WriteBucket, End, Goto
    <2> QED
        BY <1>3, <1>5, <2>1, WriteKeys DEF AtWork, TypeOK
<1>6. CASE EvictBucket
    BY <1>3, <1>6, EvictKeys DEF EvictBucket, AtWork
<1>7. CASE Tick
    <2>1. CASE bucketEnd = now + 1
        BY <1>3, <1>7, <2>1, TickKeys DEF Tick, AtWork
    <2>2. CASE bucketEnd # now + 1
        <3>1. UNCHANGED <<level, last, slack, fresh, pc, at, found>> /\ now' = now + 1
            BY <1>7, <2>2 DEF Tick
        <3>2. Spent' = Spent
            BY <3>1 DEF Spent, Granted
        <3>3. ASSUME NEW r \in Requests, AtWork(r)' PROVE Requesting(r)'
            <4>1. Requesting(r) /\ Refilled(r)' = Refilled(r)
                BY <1>1, <3>1, <3>3 DEF AtWork, Refilled
            <4>2. Balance(at[r])' <=> Balance(at[r])
                BY <3>1, <3>2 DEF Balance
            <4> QED
                BY <1>2, <3>1, <4>1, <4>2 DEF Requesting, TypeOK
        <3> QED
            BY <1>0, <1>7, <3>3, TickKeys
    <2> QED
        BY <2>1, <2>2
<1>8. ASSUME \A r \in Requests : ~WriteBucket(r) PROVE Spent' = Spent
    BY <1>8, SpentStep
<1>9. ASSUME NEW r \in Requests, Arrive(r) PROVE BucketInv'
    <2>1. /\ pc' = [pc EXCEPT ![r] = "read"] /\ at' = [at EXCEPT ![r] = now]
          /\ fresh' = [fresh EXCEPT ![r] = TRUE] /\ found' = found
          /\ UNCHANGED <<now, level, last, bucketEnd, slack>>
        BY <1>9 DEF Arrive, Goto
    <2>2. Spent' = Spent
        <3>1. Granted' = Granted
            BY <1>9 DEF Arrive, Goto, Granted, TypeOK
        <3> QED
            BY <3>1 DEF Spent
    <2>3. Requesting(r)'
        <3>1. at'[r] = now /\ pc'[r] = "read" /\ now' = now
            BY <2>1 DEF TypeOK
        <3>2. Balance(now)
            BY DEF BucketInv
        <3>3. Balance(at[r])' <=> Balance(now)
            BY <2>1, <2>2, <3>1 DEF Balance
        <3> QED
            BY <3>1, <3>2, <3>3 DEF Requesting, TypeOK
    <2>4. ASSUME NEW s \in Requests \ {r} PROVE UNCHANGED <<at[s], found[s], fresh[s], pc[s]>>
        BY <2>1 DEF TypeOK
    <2> QED
        BY <1>4, <2>1, <2>2, <2>3, <2>4 DEF AtWork
<1>10. ASSUME NEW r \in Requests, ReadBucket(r) PROVE BucketInv'
    <2>1. UNCHANGED <<now, level, last, bucketEnd, slack, fresh>>
        BY <1>10 DEF ReadBucket, bucket
    <2>2. Spent' = Spent
        <3>1. Granted' = Granted
            BY <1>10 DEF ReadBucket, End, Goto, Granted, TypeOK
        <3> QED
            BY <3>1 DEF Spent
    <2>3. ASSUME AtWork(r)' PROVE Requesting(r)'
        <3>1. /\ pc[r] = "read" /\ at' = at /\ found'[r] = Refilled(r)
            BY <1>10, <2>3 DEF ReadBucket, End, Goto, AtWork, TypeOK
        <3>2. Requesting(r) /\ Refilled(r)' = Refilled(r)
            BY <1>1, <2>1, <3>1 DEF AtWork, Refilled
        <3>3. Balance(at[r])' <=> Balance(at[r])
            BY <2>1, <2>2, <3>1 DEF Balance
        <3> QED
            BY <2>1, <3>1, <3>2, <3>3 DEF Requesting
    <2>4. ASSUME NEW s \in Requests \ {r} PROVE UNCHANGED <<at[s], found[s], fresh[s], pc[s]>>
        BY <1>10, <2>1 DEF ReadBucket, End, Goto, TypeOK
    <2> QED
        BY <1>4, <2>1, <2>2, <2>3, <2>4 DEF AtWork
<1>11. ASSUME NEW r \in Requests, Increment(r) \/ SetExpiry(r) \/ Crash(r) PROVE BucketInv'
    <2>1. UNCHANGED <<now, level, last, bucketEnd, slack, fresh>>
        BY <1>11 DEF Increment, SetExpiry, Crash, bucket
    <2>2. Spent' = Spent
        <3>1. Granted' = Granted
            BY <1>11 DEF Increment, SetExpiry, Crash, End, Goto, Granted, TypeOK
        <3> QED
            BY <3>1 DEF Spent
    <2>3. ~AtWork(r)'
        BY <1>11 DEF Increment, SetExpiry, Crash, End, Goto, AtWork, TypeOK
    <2>4. ASSUME NEW s \in Requests \ {r} PROVE UNCHANGED <<at[s], found[s], fresh[s], pc[s]>>
        BY <1>11, <2>1 DEF Increment, SetExpiry, Crash, End, Goto, TypeOK
    <2> QED
        BY <1>4, <2>1, <2>2, <2>3, <2>4 DEF AtWork
<1>12. CASE EvictCounter \/ UNCHANGED vars
    <2>1. UNCHANGED <<now, level, last, bucketEnd, slack, fresh, pc, at, found>>
        BY <1>12 DEF EvictCounter, vars, bucket
    <2>2. Spent' = Spent
        BY <2>1 DEF Spent, Granted
    <2> QED
        BY <1>4, <2>1, <2>2 DEF AtWork
<1> QED
    BY <1>5, <1>6, <1>7, <1>9, <1>10, <1>11, <1>12 DEF Next

LEMMA BucketInit == Init => BucketInv
<1> SUFFICES ASSUME Init PROVE BucketInv
    OBVIOUS
<1>1. TypeOK
    BY DEF Init, TypeOK, Steps
<1>2. Spent = 0
    <2>1. Granted = {}
        BY DEF Init, Granted
    <2>2. Cardinality(Granted) = 0
        BY <2>1, FS_EmptySet
    <2> HIDE DEF Granted
    <2> QED
        BY <2>2 DEF Spent
<1> QED
    BY <1>1, <1>2 DEF Init, BucketInv, Balance, AtWork

(* The variables keep their types, and no write leaves more in the bucket  *)
(* than a full one less what it paid for.                                  *)
THEOREM TypeCorrect == Spec => []TypeOK
<1>1. BucketInv => TypeOK
    BY DEF BucketInv
<1> QED
    BY <1>1, BucketInit, BucketStep, PTL DEF Spec

(* What is granted is paid for by the bucket and its refill, but for what  *)
(* overlapping requests and evictions may have given back.                 *)
THEOREM OverdraftIsBounded == Spec => []OverdraftBounded
<1>1. BucketInv => OverdraftBounded
    BY Overdraft DEF OverdraftBounded, Spent
<1> QED
    BY <1>1, BucketInit, BucketStep, PTL DEF Spec

(* Only a death between INCR and EXPIRE leaves a counter that never ends.  *)
THEOREM LockoutsComeFromCrashes == Spec => []LockoutOnlyByCrash
<1>1. Init => LockoutOnlyByCrash
    BY DEF Init, LockoutOnlyByCrash
<1>2. TypeOK /\ LockoutOnlyByCrash /\ [Next]_vars => LockoutOnlyByCrash'
    <2> SUFFICES ASSUME TypeOK, LockoutOnlyByCrash, [Next]_vars,
                        count' > 0, countEnd' = None, crashes' = 0
                 PROVE  \E r \in Requests : pc'[r] = "expire"
        BY DEF LockoutOnlyByCrash, TypeOK, Next, vars, limits, Arrive, ReadBucket, WriteBucket,
               Increment, SetExpiry, Crash, Tick, EvictBucket, EvictCounter
    <2>1. ASSUME NEW r \in Requests, Arrive(r) \/ ReadBucket(r) \/ WriteBucket(r)
          PROVE  \E s \in Requests : pc'[s] = "expire"
        BY <2>1 DEF LockoutOnlyByCrash, TypeOK, Arrive, ReadBucket, WriteBucket, End, Goto,
                    counter, limits
    <2>2. ASSUME NEW r \in Requests, Increment(r) PROVE \E s \in Requests : pc'[s] = "expire"
        BY <2>2 DEF LockoutOnlyByCrash, TypeOK, Increment, Goto, limits
    <2>3. ASSUME NEW r \in Requests, SetExpiry(r) PROVE FALSE
        BY <2>3 DEF TypeOK, SetExpiry
    <2>4. ASSUME NEW r \in Requests, Crash(r) PROVE FALSE
        BY <2>4 DEF TypeOK, Crash
    <2>5. CASE Tick \/ EvictBucket \/ EvictCounter \/ UNCHANGED vars
        BY <2>5 DEF LockoutOnlyByCrash, Tick, EvictBucket, EvictCounter, vars, counter, limits
    <2> QED
        BY <2>1, <2>2, <2>3, <2>4, <2>5 DEF Next
<1> QED
    BY <1>1, <1>2, TypeCorrect, PTL DEF Spec

------------------------------------------------------------------------------
(* The login counter.                                                      *)

(* A counter with a lifetime has counted and not expired.  Unless Redis    *)
(* dropped one, the request that is about to set a lifetime is the only    *)
(* such request, and created the counter that is running.                  *)
CounterInv ==
    /\ countEnd # None => count > 0 /\ countEnd > now
    /\ evictions = 0 =>
          /\ \A r \in Requests : pc[r] = "expire" => count > 0 /\ countEnd = None
          /\ \A r, s \in Requests : pc[r] = "expire" /\ pc[s] = "expire" => r = s

(* What the requests for the bucket and their deaths do to the counter.    *)
LEMMA OtherRequests ==
    ASSUME TypeOK, NEW r \in Requests,
           Arrive(r) \/ ReadBucket(r) \/ WriteBucket(r) \/ Crash(r)
    PROVE  /\ UNCHANGED <<now, count, countEnd, evictions>>
           /\ \A s \in Requests : pc'[s] = "expire" => pc[s] = "expire"
           /\ \A s \in Requests : s \in Passed' => s \in Passed /\ at'[s] = at[s]
BY DEF TypeOK, Arrive, ReadBucket, WriteBucket, Crash, End, Goto, counter, limits, Passed, bucket

LEMMA CounterStep == TypeOK /\ CounterInv /\ [Next]_vars => CounterInv'
<1> SUFFICES ASSUME TypeOK, CounterInv, [Next]_vars PROVE CounterInv'
    OBVIOUS
<1>1. ASSUME NEW r \in Requests, Arrive(r) \/ ReadBucket(r) \/ WriteBucket(r) \/ Crash(r)
      PROVE  CounterInv'
    BY <1>1, OtherRequests DEF CounterInv
<1>2. ASSUME NEW r \in Requests, Increment(r) PROVE CounterInv'
    <2>1. /\ UNCHANGED <<now, countEnd, evictions>> /\ count' > 0
          /\ \A s \in Requests \ {r} : pc'[s] = pc[s]
          /\ pc'[r] = "expire" => count = 0
        BY <1>2 DEF TypeOK, Increment, Goto, limits
    <2> QED
        BY <2>1 DEF CounterInv, TypeOK
<1>3. ASSUME NEW r \in Requests, SetExpiry(r) PROVE CounterInv'
    <2>1. /\ UNCHANGED <<now, count, evictions>> /\ pc[r] = "expire" /\ pc'[r] # "expire"
          /\ \A s \in Requests \ {r} : pc'[s] = pc[s]
          /\ countEnd' = IF count = 0 THEN countEnd ELSE now + Window
        BY <1>3 DEF TypeOK, SetExpiry, Goto, limits
    <2> QED
        BY <2>1 DEF CounterInv, TypeOK
<1>4. CASE Tick
    BY <1>4 DEF CounterInv, TypeOK, Tick, counter, limits
<1>5. CASE EvictBucket \/ EvictCounter
    BY <1>5 DEF CounterInv, TypeOK, EvictBucket, EvictCounter, counter
<1>6. CASE UNCHANGED vars
    BY <1>6 DEF CounterInv, vars, counter, limits
<1> QED
    BY <1>1, <1>2, <1>3, <1>4, <1>5, <1>6 DEF Next

LEMMA CounterCorrect == Spec => [](TypeOK /\ CounterInv)
<1>1. Init => CounterInv
    BY DEF Init, CounterInv
<1> QED
    BY <1>1, TypeCorrect, CounterStep, PTL DEF Spec

(* While Redis keeps its keys, a running window is never prolonged.        *)
THEOREM WindowsEnd == Spec => WindowNotExtended
<1>1. TypeOK /\ CounterInv /\ [Next]_vars =>
          [evictions' = 0 /\ countEnd # None /\ countEnd' # None => countEnd' = countEnd]_vars
    <2> SUFFICES ASSUME TypeOK, CounterInv, [Next]_vars,
                        evictions' = 0, countEnd # None, countEnd' # None
                 PROVE  countEnd' = countEnd
        OBVIOUS
    <2>1. ASSUME NEW r \in Requests, SetExpiry(r) PROVE FALSE
        BY <2>1 DEF SetExpiry, limits, CounterInv
    <2>2. ASSUME NEW r \in Requests, Increment(r) PROVE countEnd' = countEnd
        BY <2>2 DEF Increment
    <2>3. CASE Tick \/ EvictBucket \/ EvictCounter \/ UNCHANGED vars
        BY <2>3 DEF Tick, EvictBucket, EvictCounter, vars, counter
    <2> QED
        BY <2>1, <2>2, <2>3, OtherRequests DEF Next
<1> QED
    BY <1>1, CounterCorrect, PTL DEF Spec, WindowNotExtended

------------------------------------------------------------------------------
(* Attempts that pass within a window from t on, and the bound on them: in *)
(* a window that is still open, the counter in force may yet let some      *)
(* pass; and where that counter was created before the window, or Redis    *)
(* dropped those before it, what passed belongs to it.                     *)
Attempts(t) == {r \in Passed : at[r] >= t /\ at[r] < t + Window}

Dropped == evictions * Limit

LoginInv ==
    /\ CounterInv
    /\ \A r \in Passed : at[r] <= now
    /\ \A t \in 0..now :
          /\ Cardinality(Attempts(t)) < 2 * Limit + Dropped
          /\ now < t + Window =>
                Cardinality(Attempts(t)) < Limit + Lower(count, Limit) + Dropped
          /\ countEnd # None /\ countEnd < t + Window =>
                Cardinality(Attempts(t)) < Lower(count, Limit) + Dropped

LEMMA AttemptsType ==
    ASSUME TypeOK, NEW t \in Nat
    PROVE  /\ IsFiniteSet(Attempts(t)) /\ Cardinality(Attempts(t)) \in Nat
           /\ Dropped \in Nat
<1>1. Attempts(t) \subseteq Requests
    BY DEF Attempts, Passed
<1>2. IsFiniteSet(Attempts(t))
    BY <1>1, FS_Subset
<1>3. Dropped \in Nat
    BY DEF Dropped, TypeOK
<1> QED
    BY <1>2, <1>3, FS_CardinalityType

(* Fewer attempts have no more elements.                                   *)
LEMMA FewerAttempts ==
    ASSUME TypeOK, NEW t \in Nat, Attempts(t)' \subseteq Attempts(t)
    PROVE  Cardinality(Attempts(t)') <= Cardinality(Attempts(t)) /\ Cardinality(Attempts(t)') \in Nat
BY AttemptsType, FS_Subset, FS_CardinalityType

(* Where no attempt is added, nor time passes, nor the counter changes.    *)
LEMMA QuietLoginStep ==
    ASSUME TypeOK, LoginInv, CounterInv',
           UNCHANGED <<now, count, countEnd>>, evictions' \in {evictions, evictions + 1},
           \A s \in Requests : s \in Passed' => s \in Passed /\ at'[s] = at[s]
    PROVE  LoginInv'
<1>1. ASSUME NEW t \in Nat
      PROVE  Cardinality(Attempts(t)') <= Cardinality(Attempts(t)) /\ Cardinality(Attempts(t)') \in Nat
    <2>1. Attempts(t)' \subseteq Attempts(t)
        BY DEF Attempts, Passed
    <2> QED
        BY <2>1, FewerAttempts
<1>2. Dropped \in Nat /\ Dropped' \in Nat /\ Dropped' >= Dropped
    <2>1. \A e \in Nat : (e + 1) * Limit = e * Limit + Limit /\ e * Limit \in Nat
        OBVIOUS
    <2>2. evictions \in Nat
        BY DEF TypeOK
    <2>3. evictions * Limit \in Nat /\ (evictions + 1) * Limit = evictions * Limit + Limit
        BY <2>1, <2>2
    <2>4. Dropped' = evictions * Limit \/ Dropped' = (evictions + 1) * Limit
        BY DEF Dropped
    <2> QED
        BY <2>3, <2>4 DEF Dropped
<1>3. \A r \in Passed' : at'[r] <= now'
    BY DEF LoginInv, Passed
<1>4. Lower(count, Limit)' = Lower(count, Limit) /\ Lower(count, Limit) \in Nat
    BY DEF Lower, TypeOK
<1>5. ASSUME NEW t \in 0..now'
      PROVE  /\ Cardinality(Attempts(t)') < 2 * Limit + Dropped'
             /\ now' < t + Window =>
                   Cardinality(Attempts(t)') < Limit + Lower(count, Limit)' + Dropped'
             /\ countEnd' # None /\ countEnd' < t + Window =>
                   Cardinality(Attempts(t)') < Lower(count, Limit)' + Dropped'
    <2>1. t \in 0..now /\ t \in Nat
        BY DEF TypeOK
    <2> HIDE DEF Dropped
    <2> QED
        BY <2>1, <1>1, <1>2, <1>4, AttemptsType DEF LoginInv
<1> QED
    BY <1>3, <1>5 DEF LoginInv

(* One more attempt passes while the counter has not reached its limit.    *)
LEMMA IncrementLoginStep ==
    ASSUME TypeOK, LoginInv, CounterInv', NEW r \in Requests, Increment(r)
    PROVE  LoginInv'
<1>1. /\ UNCHANGED <<now, countEnd, evictions>> /\ count' = count + 1
      /\ at' = [at EXCEPT ![r] = now]
      /\ r \notin Passed
      /\ \A s \in Requests \ {r} : s \in Passed' <=> s \in Passed
      /\ r \in Passed' => count < Limit
    BY DEF Increment, Goto, TypeOK, Passed, limits
<1>2. Dropped' = Dropped
    BY <1>1 DEF Dropped
<1>3. \A s \in Passed' : at'[s] <= now'
    BY <1>1 DEF LoginInv, Passed, TypeOK
<1>4. Lower(count, Limit) \in Nat /\ Lower(count, Limit)' \in Nat
    BY <1>1 DEF Lower, TypeOK
<1>5. ASSUME NEW t \in 0..now'
      PROVE  /\ Cardinality(Attempts(t)') < 2 * Limit + Dropped'
             /\ now' < t + Window =>
                   Cardinality(Attempts(t)') < Limit + Lower(count, Limit)' + Dropped'
             /\ countEnd' # None /\ countEnd' < t + Window =>
                   Cardinality(Attempts(t)') < Lower(count, Limit)' + Dropped'
    <2>1. t \in 0..now /\ t \in Nat /\ now \in Nat
        BY <1>1 DEF TypeOK
    <2>2. CASE r \in Passed' /\ now < t + Window
        <3>1. Attempts(t)' = Attempts(t) \cup {r} /\ r \notin Attempts(t)
            BY <1>1, <2>1, <2>2 DEF Attempts, Passed, TypeOK
        <3>2. Cardinality(Attempts(t)') = Cardinality(Attempts(t)) + 1
            BY <2>1, <3>1, AttemptsType, FS_AddElement
        <3>3. Lower(count, Limit)' = Lower(count, Limit) + 1 /\ Lower(count, Limit)' <= Limit
            BY <1>1, <2>2 DEF Lower, TypeOK
        <3> HIDE DEF Dropped
        <3> QED
            BY <1>1, <1>2, <1>4, <2>1, <2>2, <3>2, <3>3, AttemptsType DEF LoginInv
    <2>3. CASE ~(r \in Passed' /\ now < t + Window)
        <3>1. Attempts(t)' \subseteq Attempts(t)
            BY <1>1, <2>1, <2>3 DEF Attempts, Passed, TypeOK
        <3>2. Lower(count, Limit)' >= Lower(count, Limit)
            BY <1>1 DEF Lower, TypeOK
        <3> HIDE DEF Dropped
        <3> QED
            BY <1>1, <1>2, <1>4, <2>1, <3>1, <3>2, AttemptsType, FewerAttempts DEF LoginInv
    <2> QED
        BY <2>2, <2>3
<1> QED
    BY <1>3, <1>5 DEF LoginInv

(* A lifetime ends after every window that has begun.                      *)
LEMMA SetExpiryLoginStep ==
    ASSUME TypeOK, LoginInv, CounterInv', NEW r \in Requests, SetExpiry(r)
    PROVE  LoginInv'
<1>1. /\ UNCHANGED <<now, count, evictions, at>> /\ Passed' = Passed
      /\ countEnd' = IF count = 0 THEN countEnd ELSE now + Window
    BY DEF SetExpiry, Goto, TypeOK, Passed, limits
<1>2. Dropped' = Dropped /\ Lower(count, Limit)' = Lower(count, Limit)
    BY <1>1 DEF Dropped, Lower
<1>3. \A s \in Passed' : at'[s] <= now'
    BY <1>1 DEF LoginInv
<1>4. ASSUME NEW t \in 0..now'
      PROVE  /\ Cardinality(Attempts(t)') < 2 * Limit + Dropped'
             /\ now' < t + Window =>
                   Cardinality(Attempts(t)') < Limit + Lower(count, Limit)' + Dropped'
             /\ countEnd' # None /\ countEnd' < t + Window =>
                   Cardinality(Attempts(t)') < Lower(count, Limit)' + Dropped'
    <2>1. t \in 0..now /\ now \in Nat
        BY <1>1 DEF TypeOK
    <2>2. Attempts(t)' = Attempts(t)
        BY <1>1 DEF Attempts
    <2>3. count # 0 => ~(countEnd' < t + Window)
        BY <1>1, <2>1
    <2> HIDE DEF Dropped
    <2> QED
        BY <1>1, <1>2, <2>1, <2>2, <2>3 DEF LoginInv
<1> QED
    BY <1>3, <1>4 DEF LoginInv

(* A window that begins now has seen no attempt; one that is open when the *)
(* counter expires has seen only attempts of that counter.                 *)
LEMMA TickLoginStep ==
    ASSUME TypeOK, LoginInv, CounterInv', Tick
    PROVE  LoginInv'
<1>1. /\ now' = now + 1 /\ UNCHANGED <<evictions, at>> /\ Passed' = Passed
      /\ \/ UNCHANGED <<count, countEnd>> /\ countEnd # now + 1
         \/ count' = 0 /\ countEnd' = None /\ countEnd = now + 1
    BY DEF Tick, TypeOK, Passed, limits, counter
<1>2. Dropped' = Dropped /\ Dropped \in Nat
    BY <1>1 DEF Dropped, TypeOK
<1>3. \A s \in Passed' : at'[s] <= now'
    BY <1>1 DEF LoginInv, Passed, TypeOK
<1>4. /\ Lower(count, Limit) \in Nat /\ Lower(count, Limit) <= Limit
      /\ count > 0 => Lower(count, Limit) > 0
      /\ count' = count => Lower(count, Limit)' = Lower(count, Limit)
      /\ count' = 0 => Lower(count, Limit)' = 0
    BY DEF Lower, TypeOK
<1>5. ASSUME NEW t \in 0..now'
      PROVE  /\ Cardinality(Attempts(t)') < 2 * Limit + Dropped'
             /\ now' < t + Window =>
                   Cardinality(Attempts(t)') < Limit + Lower(count, Limit)' + Dropped'
             /\ countEnd' # None /\ countEnd' < t + Window =>
                   Cardinality(Attempts(t)') < Lower(count, Limit)' + Dropped'
    <2>1. t \in Nat /\ now \in Nat
        BY <1>1 DEF TypeOK
    <2>2. Attempts(t)' = Attempts(t)
        BY <1>1 DEF Attempts
    <2>3. CASE t = now + 1
        <3>1. Attempts(t) = {}
            BY <2>1, <2>3 DEF Attempts, LoginInv, Passed, TypeOK
        <3>2. Cardinality(Attempts(t)') = 0
            BY <2>2, <3>1, FS_EmptySet
        <3>3. countEnd' # None => count > 0 /\ count' = count
            BY <1>1 DEF CounterInv, LoginInv, TypeOK
        <3>4. Lower(count, Limit)' \in Nat
            BY <1>1, <1>4
        <3> HIDE DEF Dropped
        <3> QED
            BY <1>2, <1>4, <3>2, <3>3, <3>4
    <2>4. CASE t \in 0..now /\ count' = count /\ countEnd' = countEnd
        <3> HIDE DEF Dropped
        <3> QED
            BY <1>1, <1>2, <1>4, <2>1, <2>2, <2>4 DEF LoginInv
    <2>5. CASE t \in 0..now /\ count' = 0 /\ countEnd' = None /\ countEnd = now + 1
        <3>1. Cardinality(Attempts(t)) \in Nat
            BY <2>1, AttemptsType
        <3>2. countEnd # None
            BY <2>1, <2>5
        <3>3. now + 1 < t + Window => Cardinality(Attempts(t)) < Lower(count, Limit) + Dropped
            BY <2>5, <3>2 DEF LoginInv
        <3>4. Cardinality(Attempts(t)) < 2 * Limit + Dropped
            BY <2>5 DEF LoginInv
        <3> HIDE DEF Dropped
        <3> QED
            BY <1>1, <1>2, <1>4, <2>1, <2>2, <2>5, <3>1, <3>3, <3>4
    <2> QED
        BY <1>1, <2>1, <2>3, <2>4, <2>5
<1> QED
    BY <1>3, <1>5 DEF LoginInv

(* A counter that Redis drops adds a limit.                                *)
LEMMA EvictLoginStep ==
    ASSUME TypeOK, LoginInv, CounterInv', EvictCounter
    PROVE  LoginInv'
<1>1. /\ UNCHANGED <<now, at>> /\ Passed' = Passed /\ evictions' = evictions + 1
      /\ count' = 0 /\ countEnd' = None
    BY DEF EvictCounter, TypeOK, Passed
<1>2. Dropped' = Dropped + Limit /\ Dropped \in Nat
    <2>1. \A e \in Nat : (e + 1) * Limit = e * Limit + Limit /\ e * Limit \in Nat
        OBVIOUS
    <2>2. evictions \in Nat
        BY DEF TypeOK
    <2> QED
        BY <1>1, <2>1, <2>2 DEF Dropped
<1>3. /\ \A s \in Passed' : at'[s] <= now'
      /\ Lower(count, Limit)' = 0 /\ Lower(count, Limit) <= Limit /\ Lower(count, Limit) \in Nat
    BY <1>1 DEF LoginInv, Lower, TypeOK
<1>4. ASSUME NEW t \in 0..now'
      PROVE  /\ Cardinality(Attempts(t)') < 2 * Limit + Dropped'
             /\ now' < t + Window =>
                   Cardinality(Attempts(t)') < Limit + Lower(count, Limit)' + Dropped'
             /\ countEnd' # None /\ countEnd' < t + Window =>
                   Cardinality(Attempts(t)') < Lower(count, Limit)' + Dropped'
    <2>1. t \in 0..now /\ t \in Nat
        BY <1>1 DEF TypeOK
    <2>2. Attempts(t)' = Attempts(t)
        BY <1>1 DEF Attempts
    <2>3. Cardinality(Attempts(t)) \in Nat
        BY <2>1, AttemptsType
    <2> HIDE DEF Dropped
    <2> QED
        BY <1>1, <1>2, <1>3, <2>1, <2>2, <2>3 DEF LoginInv
<1> QED
    BY <1>3, <1>4 DEF LoginInv

LEMMA LoginStep == TypeOK /\ LoginInv /\ [Next]_vars => LoginInv'
<1> SUFFICES ASSUME TypeOK, LoginInv, [Next]_vars PROVE LoginInv'
    OBVIOUS
<1>1. CounterInv'
    BY CounterStep DEF LoginInv
<1>2. ASSUME NEW r \in Requests, Arrive(r) \/ ReadBucket(r) \/ WriteBucket(r) \/ Crash(r)
      PROVE  LoginInv'
    BY <1>1, <1>2, OtherRequests, QuietLoginStep
<1>3. ASSUME EvictBucket \/ UNCHANGED vars PROVE LoginInv'
    <2>1. /\ UNCHANGED <<now, count, countEnd>> /\ evictions' \in {evictions, evictions + 1}
          /\ \A s \in Requests : s \in Passed' => s \in Passed /\ at'[s] = at[s]
        BY <1>3 DEF EvictBucket, vars, counter, limits, Passed
    <2> QED
        BY <1>1, <2>1, QuietLoginStep
<1>4. ASSUME NEW r \in Requests, Increment(r) PROVE LoginInv'
    BY <1>1, <1>4, IncrementLoginStep
<1>5. ASSUME NEW r \in Requests, SetExpiry(r) PROVE LoginInv'
    BY <1>1, <1>5, SetExpiryLoginStep
<1>6. ASSUME Tick PROVE LoginInv'
    BY <1>1, <1>6, TickLoginStep
<1>7. ASSUME EvictCounter PROVE LoginInv'
    BY <1>1, <1>7, EvictLoginStep
<1> QED
    BY <1>2, <1>3, <1>4, <1>5, <1>6, <1>7 DEF Next

LEMMA LoginInit == Init => LoginInv
<1> SUFFICES ASSUME Init PROVE LoginInv
    OBVIOUS
<1>1. Passed = {}
    BY DEF Init, Passed
<1>2. \A t \in 0..now : Cardinality(Attempts(t)) = 0
    <2> SUFFICES ASSUME NEW t \in 0..now PROVE Cardinality(Attempts(t)) = 0
        OBVIOUS
    <2>1. Attempts(t) = {}
        BY <1>1 DEF Attempts
    <2> QED
        BY <2>1, FS_EmptySet
<1>3. Dropped = 0 /\ Lower(count, Limit) = 0
    BY DEF Init, Dropped, Lower
<1> QED
    BY <1>1, <1>2, <1>3 DEF Init, LoginInv, CounterInv

(* In any window, fewer than two limits of attempts pass from an address,  *)
(* and one more limit for each counter that Redis dropped.                 *)
THEOREM AttemptsPerWindow == Spec => []LoginsPerWindow
<1>1. TypeOK /\ LoginInv => LoginsPerWindow
    <2> SUFFICES ASSUME TypeOK, LoginInv, NEW t \in 0..now
                 PROVE  Cardinality(Attempts(t)) < (2 + evictions) * Limit
        BY DEF LoginsPerWindow, Attempts
    <2>1. \A e \in Nat : (2 + e) * Limit = 2 * Limit + e * Limit
        OBVIOUS
    <2>2. (2 + evictions) * Limit = 2 * Limit + Dropped
        BY <2>1 DEF Dropped, TypeOK
    <2>3. Cardinality(Attempts(t)) < 2 * Limit + Dropped
        BY DEF LoginInv
    <2> QED
        BY <2>2, <2>3
<1> QED
    BY <1>1, LoginInit, LoginStep, TypeCorrect, PTL DEF Spec
==============================================================================
