-------------------------------- MODULE Limits --------------------------------
(***************************************************************************)
(* The two rate limiters of app/middleware/auth.py, both kept in Redis:    *)
(* check_rate_limit, a token bucket per tenant read and written by two     *)
(* separate transactions, and check_login_rate_limit, a counter per client *)
(* address that is incremented first and given its lifetime afterwards.    *)
(*                                                                         *)
(* One tenant and one client address.  Tokens are counted in units: a      *)
(* request costs Cost units and one unit is refilled per tick of the       *)
(* clock, so a second is Capacity ticks.                                   *)
(***************************************************************************)
EXTENDS Integers, FiniteSets

CONSTANTS
    Requests,      \* requests that pass one of the limiters
    Cost,          \* units of one request: the precision of the clock
    Capacity,      \* units of a full bucket (the plan's rps times Cost)
    KeyLife,       \* lifetime of the bucket's keys (60 s in the code)
    Limit,         \* LOGIN_RATE_LIMIT_PER_MINUTE (5 in the code)
    Window,        \* lifetime of the login counter (60 s in the code)
    None,          \* a key that does not exist
    MaxTime,       \* bound on the clock
    MaxEvictions,  \* bound on the keys Redis drops before their time
    MaxCrashes     \* bound on the requests that die between two calls

ASSUME SetsAssumption   == IsFiniteSet(Requests) /\ None \notin Int
ASSUME BucketAssumption == /\ Cost \in Nat \ {0} /\ Capacity \in Nat /\ Cost <= Capacity
                           /\ KeyLife \in Nat /\ Capacity <= KeyLife
ASSUME LoginAssumption  == Limit \in Nat \ {0} /\ Window \in Nat \ {0}
ASSUME BoundsAssumption == MaxTime \in Nat /\ MaxEvictions \in Nat /\ MaxCrashes \in Nat

VARIABLES
    now,        \* the clock
    level,      \* ratelimit:<tenant>:tokens, or None
    last,       \* ratelimit:<tenant>:last, or None
    bucketEnd,  \* when both keys expire
    count,      \* login_attempt:<ip>, 0 if it does not exist
    countEnd,   \* when it expires, None if never
    pc,         \* per request: its next step or its outcome
    at,         \* per request: its time.time(), or the time of its INCR
    found,      \* per request: the units it found in the bucket
    fresh,      \* per request: has the bucket not changed since it arrived?
    slack,      \* units that stale writes and evictions may have given back
    evictions,  \* keys dropped so far
    crashes     \* requests that died so far

bucket  == <<level, last, bucketEnd, slack, fresh>>
counter == <<count, countEnd>>
limits  == <<evictions, crashes>>
vars    == <<now, bucket, counter, pc, at, found, limits>>

Init ==
    /\ now = 0
    /\ level = None /\ last = None /\ bucketEnd = 0
    /\ count = 0 /\ countEnd = None
    /\ pc = [r \in Requests |-> "new"]
    /\ at = [r \in Requests |-> 0]
    /\ found = [r \in Requests |-> 0]
    /\ fresh = [r \in Requests |-> TRUE]
    /\ slack = 0
    /\ evictions = 0 /\ crashes = 0

Goto(r, step) == pc' = [pc EXCEPT ![r] = step]

(* The request is over, and its local variables with it.                   *)
End(r, outcome) ==
    /\ Goto(r, outcome)
    /\ at' = [at EXCEPT ![r] = 0]
    /\ found' = [found EXCEPT ![r] = 0]

(* The bucket changes behind the back of every request at work.            *)
Outdated == [r \in Requests |-> FALSE]

Lower(a, b) == IF a < b THEN a ELSE b

------------------------------------------------------------------------------
(* The token bucket of a tenant.                                           *)

(* check_rate_limit takes the time, before it reads the bucket.            *)
Arrive(r) ==
    /\ pc[r] = "new"
    /\ Goto(r, "read")
    /\ at' = [at EXCEPT ![r] = now]
    /\ fresh' = [fresh EXCEPT ![r] = TRUE]
    /\ UNCHANGED <<now, level, last, bucketEnd, slack, counter, found, limits>>

(* Mutant: the refill is not capped.                                       *)
RefilledUncapped(r) ==
    (IF level = None THEN Capacity ELSE level) + (IF last = None THEN 0 ELSE at[r] - last)

(* The units in the bucket, refilled up to the request's time.             *)
Refilled(r) ==
    Lower(Capacity, (IF level = None THEN Capacity ELSE level)
                    + (IF last = None THEN 0 ELSE at[r] - last))

ReadBucket(r) ==
    /\ pc[r] = "read"
    /\ IF Refilled(r) < Cost
       THEN End(r, "limited")
       ELSE Goto(r, "write") /\ found' = [found EXCEPT ![r] = Refilled(r)] /\ UNCHANGED at
    /\ UNCHANGED <<now, bucket, counter, limits>>

(* Mutant: the time of the refill is written only with the first token.    *)
WriteBucketTokens(r) ==
    /\ pc[r] = "write"
    /\ level' = found[r] - Cost
    /\ last' = IF last = None THEN at[r] ELSE last
    /\ bucketEnd' = now + KeyLife
    /\ slack' = IF fresh[r] THEN slack ELSE slack + Capacity + (now - at[r])
    /\ fresh' = Outdated
    /\ End(r, "granted")
    /\ UNCHANGED <<now, counter, limits>>

(* The bucket is written whatever it holds by now.                         *)
WriteBucket(r) ==
    /\ pc[r] = "write"
    /\ level' = found[r] - Cost
    /\ last' = at[r]
    /\ bucketEnd' = now + KeyLife
    /\ slack' = IF fresh[r] THEN slack ELSE slack + Capacity + (now - at[r])
    /\ fresh' = Outdated
    /\ End(r, "granted")
    /\ UNCHANGED <<now, counter, limits>>

------------------------------------------------------------------------------
(* The login counter of a client address.                                  *)

(* Mutant: the counter is read, and written back later.                    *)
IncrementStale(r) ==
    /\ pc[r] = "new"
    /\ at' = [at EXCEPT ![r] = now]
    /\ count' \in {count, count + 1}
    /\ Goto(r, IF count = 0 THEN "expire" ELSE IF count < Limit THEN "passed" ELSE "blocked")
    /\ UNCHANGED <<now, bucket, countEnd, found, limits>>

(* Mutant: every attempt sets the lifetime.                                *)
IncrementExpires(r) ==
    /\ pc[r] = "new"
    /\ at' = [at EXCEPT ![r] = now]
    /\ count' = count + 1
    /\ Goto(r, IF count < Limit THEN "expire" ELSE "blocked")
    /\ UNCHANGED <<now, bucket, countEnd, found, limits>>

(* check_login_rate_limit: INCR; the first attempt goes on to EXPIRE.      *)
Increment(r) ==
    /\ pc[r] = "new"
    /\ at' = [at EXCEPT ![r] = now]
    /\ count' = count + 1
    /\ Goto(r, IF count = 0 THEN "expire" ELSE IF count < Limit THEN "passed" ELSE "blocked")
    /\ UNCHANGED <<now, bucket, countEnd, found, limits>>

(* Mutant: the lifetime is set only while the counter is 1.                *)
SetExpiryOfFirst(r) ==
    /\ pc[r] = "expire"
    /\ countEnd' = IF count = 1 THEN now + Window ELSE countEnd
    /\ Goto(r, "passed")
    /\ UNCHANGED <<now, bucket, count, at, found, limits>>

(* EXPIRE does nothing to a key that is gone.                              *)
SetExpiry(r) ==
    /\ pc[r] = "expire"
    /\ countEnd' = IF count = 0 THEN countEnd ELSE now + Window
    /\ Goto(r, "passed")
    /\ UNCHANGED <<now, bucket, count, at, found, limits>>

------------------------------------------------------------------------------
(* Redis and the clock.                                                    *)

(* A tick deletes the keys whose time has come.                            *)
Tick ==
    /\ now < MaxTime
    /\ now' = now + 1
    /\ IF bucketEnd = now + 1
       THEN level' = None /\ last' = None /\ fresh' = Outdated
       ELSE UNCHANGED <<level, last, fresh>>
    /\ IF countEnd = now + 1
       THEN count' = 0 /\ countEnd' = None
       ELSE UNCHANGED counter
    /\ UNCHANGED <<bucketEnd, slack, pc, at, found, limits>>

(* Redis (allkeys-lru, not persistent) drops keys of the bucket.           *)
EvictBucket ==
    /\ evictions < MaxEvictions
    /\ level' \in {level, None} /\ last' \in {last, None}
    /\ <<level', last'>> # <<level, last>>
    /\ evictions' = evictions + 1
    /\ fresh' = Outdated
    /\ slack' = slack + Capacity
    /\ UNCHANGED <<now, bucketEnd, counter, pc, at, found, crashes>>

EvictCounter ==
    /\ evictions < MaxEvictions
    /\ count > 0
    /\ count' = 0 /\ countEnd' = None
    /\ evictions' = evictions + 1
    /\ UNCHANGED <<now, bucket, pc, at, found, crashes>>

(* A request dies between two calls to Redis.                              *)
Crash(r) ==
    /\ pc[r] \in {"read", "write", "expire"}
    /\ crashes < MaxCrashes
    /\ crashes' = crashes + 1
    /\ End(r, "crashed")
    /\ UNCHANGED <<now, bucket, counter, evictions>>

Next ==
    \/ \E r \in Requests :
          \/ Arrive(r) \/ ReadBucket(r) \/ WriteBucket(r)
          \/ Increment(r) \/ SetExpiry(r) \/ Crash(r)
    \/ Tick \/ EvictBucket \/ EvictCounter

Spec == Init /\ [][Next]_vars

------------------------------------------------------------------------------
(* Properties.                                                             *)

Steps == {"new", "read", "write", "granted", "limited", "expire", "passed", "blocked", "crashed"}

(* The variables keep their types; what is written back is a possible      *)
(* content of the bucket after a request was paid for.                     *)
TypeOK ==
    /\ now \in Nat
    /\ level \in 0..(Capacity - Cost) \cup {None} /\ last \in Nat \cup {None}
    /\ bucketEnd \in Nat /\ slack \in Nat /\ fresh \in [Requests -> BOOLEAN]
    /\ count \in Nat /\ countEnd \in Nat \cup {None}
    /\ pc \in [Requests -> Steps]
    /\ at \in [Requests -> Nat] /\ found \in [Requests -> Nat]
    /\ \A r \in Requests : pc[r] = "write" => found[r] \in Cost..Capacity
    /\ evictions \in Nat /\ crashes \in Nat

Granted == {r \in Requests : pc[r] = "granted"}

(* A tenant is granted at most a full bucket and what was refilled since,  *)
(* plus what writes of requests that overlapped another, or evictions,     *)
(* may have given back: without those, the bucket is exact.                *)
OverdraftBounded == Cost * Cardinality(Granted) <= Capacity + now + slack

Passed == {r \in Requests : pc[r] \in {"expire", "passed"}}

(* "LOGIN_RATE_LIMIT_PER_MINUTE attempts per IP per 60-second window": a   *)
(* counter's window, so that in any such time less than twice the limit    *)
(* pass (the end of one counter and the start of the next), and a limit    *)
(* more for each counter Redis dropped.                                    *)
LoginsPerWindow ==
    \A t \in 0..now :
        Cardinality({r \in Passed : at[r] >= t /\ at[r] < t + Window}) < (2 + evictions) * Limit

(* A counter without a lifetime blocks its client for ever: there is none  *)
(* unless the request that created it is about to set one, or died.        *)
LockoutOnlyByCrash ==
    count > 0 /\ countEnd = None => crashes > 0 \/ \E r \in Requests : pc[r] = "expire"

(* While Redis keeps its keys, no attempt prolongs the window of a counter *)
(* that is already running.                                                *)
WindowNotExtended ==
    [][evictions' = 0 /\ countEnd # None /\ countEnd' # None => countEnd' = countEnd]_vars
==============================================================================
