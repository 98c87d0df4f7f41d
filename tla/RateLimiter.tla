---------------------------- MODULE RateLimiter ----------------------------
(***************************************************************************)
(* The rate limiter of the REST API (internal/middleware/rate_limit.go):   *)
(* the token bucket of one client in two Redis keys, read by two GETs and  *)
(* written by one MULTI/EXEC.  Requests of the same client run             *)
(* concurrently, in one instance of the service or in several.             *)
(*                                                                         *)
(* The clock counts seconds, as time.Now().Unix() does.  A key that is     *)
(* written in second t with a time to live of Window seconds disappears at *)
(* some moment within second t + Window.                                   *)
(***************************************************************************)
EXTENDS Integers, FiniteSets

CONSTANTS
    Requests,     \* requests of the client, each served once
    BucketSize,   \* bucketSize
    RefillRate,   \* refillRate, tokens per second
    Window,       \* windowInSec, the time to live of both keys
    MaxTime,      \* bound: the clock stops here
    RedisErrors   \* may a Redis command fail?

ASSUME RateLimiterAssumption ==
    /\ IsFiniteSet(Requests)
    /\ BucketSize \in Nat \ {0}
    /\ RefillRate \in Nat
    /\ Window \in Nat \ {0}
    /\ MaxTime \in Nat
    /\ RedisErrors \in BOOLEAN

VARIABLES
    clock,       \* the time in seconds
    bucket,      \* key "rate_limit:<client>:bucket"
    lastUpdate,  \* key "rate_limit:<client>:last_update"
    request,     \* where each request is
    plain        \* history: no two requests met and no key expired so far

rlVars == <<clock, bucket, lastUpdate, request, plain>>

NoKey == [set |-> FALSE]

\* A key that is set has its value and the second it was written in.
Value(v) == [set |-> TRUE, val |-> v, at |-> clock]

New == [pc |-> "new"]

Init ==
    /\ clock = 0
    /\ bucket = NoKey
    /\ lastUpdate = NoKey
    /\ request = [q \in Requests |-> New]
    /\ plain = TRUE

Answer(q, status) == request' = [request EXCEPT ![q] = [pc |-> status]]

\* The middleware reads the clock before it reads the bucket.
Arrive(q) ==
    /\ request[q] = New
    /\ request' = [request EXCEPT ![q] = [pc |-> "bucket", now |-> clock]]
    /\ plain' = (plain /\ \A r \in Requests : request[r].pc \notin {"bucket", "last", "exec"})
    /\ UNCHANGED <<clock, bucket, lastUpdate>>

GetBucket(q) ==
    /\ request[q].pc = "bucket"
    /\ \/ request' = [request EXCEPT ![q] =
                        [pc |-> "last", now |-> @.now,
                         tokens |-> IF bucket.set THEN bucket.val ELSE BucketSize]]
       \/ RedisErrors /\ Answer(q, "error")
    /\ UNCHANGED <<clock, bucket, lastUpdate, plain>>

Smaller(a, b) == IF a < b THEN a ELSE b

\* Mutant: the refill is not cut off at the size of the bucket.
RefilledUncapped(tokens, elapsed) == tokens + elapsed * RefillRate

\* The tokens a request counts with, from what it read.
Refilled(tokens, elapsed) == Smaller(tokens + elapsed * RefillRate, BucketSize)

\* Mutant: the last token is handed out twice.
HasToken0(tokens) == tokens >= 0

HasToken(tokens) == tokens > 0

GetLastUpdate(q) ==
    /\ request[q].pc = "last"
    /\ \/ LET last == IF lastUpdate.set THEN lastUpdate.val ELSE request[q].now
              tokens == Refilled(request[q].tokens, request[q].now - last)
          IN \/ HasToken(tokens)
                /\ request' = [request EXCEPT ![q] =
                                 [pc |-> "exec", now |-> @.now, tokens |-> tokens - 1]]
             \/ ~HasToken(tokens) /\ Answer(q, "rejected")
       \/ RedisErrors /\ Answer(q, "error")
    /\ UNCHANGED <<clock, bucket, lastUpdate, plain>>

\* The two SETs of the transaction.  The request passes with its answer; a lost
\* answer spends the token on a request that is refused with status 500.
Exec(q) ==
    /\ request[q].pc = "exec"
    /\ \/ /\ bucket' = Value(request[q].tokens)
          /\ lastUpdate' = Value(request[q].now)
          /\ Answer(q, "admitted") \/ (RedisErrors /\ Answer(q, "error"))
       \/ /\ RedisErrors
          /\ Answer(q, "error")
          /\ UNCHANGED <<bucket, lastUpdate>>
    /\ UNCHANGED <<clock, plain>>

\* Redis expires the keys one by one.
Overdue(key) == key.set /\ clock >= key.at + Window

Expire ==
    /\ \/ Overdue(bucket) /\ bucket' = NoKey /\ UNCHANGED lastUpdate
       \/ Overdue(lastUpdate) /\ lastUpdate' = NoKey /\ UNCHANGED bucket
    /\ plain' = FALSE
    /\ UNCHANGED <<clock, request>>

Tick ==
    /\ clock < MaxTime
    /\ ~Overdue(bucket) /\ ~Overdue(lastUpdate)
    /\ clock' = clock + 1
    /\ UNCHANGED <<bucket, lastUpdate, request, plain>>

Serve(q) == Arrive(q) \/ GetBucket(q) \/ GetLastUpdate(q) \/ Exec(q)

Next == (\E q \in Requests : Serve(q)) \/ Expire \/ Tick

Spec == Init /\ [][Next]_rlVars

-----------------------------------------------------------------------------
(* Properties *)

Key(values) == {NoKey} \cup [set : {TRUE}, val : values, at : 0..clock]

\* The range of what is stored: a bucket never holds a negative number of
\* tokens, and after a request it is not full, also when requests read and
\* write it in any order and count a negative time since the last update
\* (rate_limit.go:107).
BucketInRange ==
    /\ clock \in 0..MaxTime
    /\ bucket \in Key(0..(BucketSize - 1))
    /\ lastUpdate \in Key(0..clock)
    /\ request \in [Requests ->
            [pc : {"new", "admitted", "rejected", "error"}]
            \cup [pc : {"bucket"}, now : 0..clock]
            \cup [pc : {"last"}, now : 0..clock, tokens : 0..BucketSize]
            \cup [pc : {"exec"}, now : 0..clock, tokens : 0..(BucketSize - 1)]]

Admitted == {q \in Requests : request[q].pc = "admitted"}

\* The token bucket's promise: no more requests were admitted than a full
\* bucket and its refill pay for (rate_limit.go:106-122).  It is kept as long as
\* the client waits for each answer and no key expires between its requests:
\* overlapping requests read the same token, and a key that is gone counts as a
\* full bucket.
BurstBounded == plain => Cardinality(Admitted) <= BucketSize + RefillRate * clock
=============================================================================
