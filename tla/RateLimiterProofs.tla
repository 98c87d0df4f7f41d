------------------------- MODULE RateLimiterProofs -------------------------
(***************************************************************************)
(* The token bucket for every number of concurrent requests, every size,   *)
(* refill rate and window: its range, and its promise to a client whose    *)
(* requests come one after the other.                                      *)
(***************************************************************************)
EXTENDS RateLimiter, FiniteSetTheorems, TLAPS

\* A request that finds a token leaves the bucket in its range, whatever it
\* read and however long ago the last update was, or seems to be
\* (rate_limit.go:106-123).
LEMMA TokensInRange ==
    ASSUME NEW tokens \in 0..BucketSize, NEW elapsed \in Int,
           HasToken(Refilled(tokens, elapsed))
    PROVE  Refilled(tokens, elapsed) - 1 \in 0..(BucketSize - 1)
<1>1. elapsed * RefillRate \in Int
  BY RateLimiterAssumption
<1> QED
  BY <1>1, RateLimiterAssumption DEF Refilled, Smaller, HasToken

\* A key that is set holds one of its values.
LEMMA KeyValue ==
    ASSUME NEW V, NEW k \in Key(V)
    PROVE  k.set => k.val \in V
<1>1. CASE k = NoKey
  <2>1. k.set = FALSE
    BY <1>1 DEF NoKey
  <2> QED
    BY <2>1
<1>2. CASE k \in [set : {TRUE}, val : V, at : 0..clock]
  BY <1>2
<1> QED
  BY <1>1, <1>2 DEF Key

\* The inductive step, one case per statement of the middleware.
LEMMA StepKeepsRange ==
    ASSUME BucketInRange, [Next]_rlVars
    PROVE  BucketInRange'
<1> DEFINE Req == [pc : {"new", "admitted", "rejected", "error"}]
                  \cup [pc : {"bucket"}, now : 0..clock]
                  \cup [pc : {"last"}, now : 0..clock, tokens : 0..BucketSize]
                  \cup [pc : {"exec"}, now : 0..clock, tokens : 0..(BucketSize - 1)]
<1> USE RateLimiterAssumption
<1>1. ASSUME NEW q \in Requests, NEW r \in Req, clock' = clock,
             request' = [request EXCEPT ![q] = r],
             bucket' \in Key(0..(BucketSize - 1)), lastUpdate' \in Key(0..clock)
      PROVE  BucketInRange'
  BY <1>1 DEF BucketInRange, Key
<1>2. ASSUME NEW q \in Requests, Arrive(q)
      PROVE  BucketInRange'
  <2>1. [pc |-> "bucket", now |-> clock] \in Req
    BY DEF BucketInRange
  <2> QED
    BY <1>1, <1>2, <2>1 DEF Arrive, BucketInRange
<1>3. ASSUME NEW q \in Requests, GetBucket(q)
      PROVE  BucketInRange'
  <2>1. request[q].now \in 0..clock
    BY <1>3 DEF GetBucket, BucketInRange
  <2>2. (IF bucket.set THEN bucket.val ELSE BucketSize) \in 0..BucketSize
    <3>1. bucket.set => bucket.val \in 0..(BucketSize - 1)
      BY KeyValue DEF BucketInRange
    <3> QED
      BY <3>1
  <2>3. PICK r \in Req : request' = [request EXCEPT ![q] = r]
    BY <1>3, <2>1, <2>2 DEF GetBucket, Answer
  <2> QED
    BY <1>1, <1>3, <2>3 DEF GetBucket, BucketInRange
<1>4. ASSUME NEW q \in Requests, GetLastUpdate(q)
      PROVE  BucketInRange'
  <2> DEFINE last == IF lastUpdate.set THEN lastUpdate.val ELSE request[q].now
             tokens == Refilled(request[q].tokens, request[q].now - last)
  <2>1. request[q].now \in 0..clock /\ request[q].tokens \in 0..BucketSize
    BY <1>4 DEF GetLastUpdate, BucketInRange
  <2>2. last \in Int
    <3>1. lastUpdate.set => lastUpdate.val \in 0..clock
      BY KeyValue DEF BucketInRange
    <3> QED
      BY <2>1, <3>1
  <2>3. HasToken(tokens) => tokens - 1 \in 0..(BucketSize - 1)
    <3>1. request[q].now - last \in Int
      BY <2>1, <2>2
    <3> HIDE DEF last
    <3> QED
      BY <2>1, <3>1, TokensInRange
  <2>4. PICK r \in Req : request' = [request EXCEPT ![q] = r]
    <3>1. CASE Answer(q, "error") \/ Answer(q, "rejected")
      BY <3>1 DEF Answer
    <3>2. CASE HasToken(tokens) /\ request' = [request EXCEPT ![q] =
                  [pc |-> "exec", now |-> request[q].now, tokens |-> tokens - 1]]
      <4> HIDE DEF tokens
      <4> QED
        BY <2>1, <2>3, <3>2
    <3> QED
      BY <1>4, <3>1, <3>2 DEF GetLastUpdate
  <2> QED
    BY <1>1, <1>4, <2>4 DEF GetLastUpdate, BucketInRange
<1>5. ASSUME NEW q \in Requests, Exec(q)
      PROVE  BucketInRange'
  <2>1. request[q].now \in 0..clock /\ request[q].tokens \in 0..(BucketSize - 1)
    BY <1>5 DEF Exec, BucketInRange
  <2>2. clock \in 0..clock
    BY DEF BucketInRange
  <2>3. Value(request[q].tokens) \in Key(0..(BucketSize - 1)) /\ Value(request[q].now) \in Key(0..clock)
    BY <2>1, <2>2 DEF Value, Key
  <2>4. PICK r \in Req : request' = [request EXCEPT ![q] = r]
    BY <1>5 DEF Exec, Answer
  <2> QED
    BY <1>1, <1>5, <2>3, <2>4 DEF Exec, BucketInRange
<1>6. CASE Expire
  BY <1>6 DEF Expire, BucketInRange, Key
<1>7. CASE Tick
  <2>1. clock \in 0..MaxTime /\ clock' \in 0..MaxTime /\ clock <= clock'
    BY <1>7 DEF Tick, BucketInRange
  <2>2. 0..clock \subseteq 0..clock'
    BY <2>1
  <2>3. bucket' \in Key(0..(BucketSize - 1))' /\ lastUpdate' \in Key(0..clock)'
    <3>1. bucket' = bucket /\ lastUpdate' = lastUpdate
      BY <1>7 DEF Tick
    <3> QED
      BY <2>2, <3>1 DEF Key, BucketInRange
  <2>4. request' \in [Requests -> Req']
    BY <1>7, <2>2 DEF Tick, BucketInRange
  <2> QED
    BY <2>1, <2>3, <2>4 DEF BucketInRange
<1>8. CASE UNCHANGED rlVars
  BY <1>8 DEF rlVars, BucketInRange, Key
<1> QED
  BY <1>2, <1>3, <1>4, <1>5, <1>6, <1>7, <1>8 DEF Next, Serve

\* For every number of concurrent requests, bucket size, refill rate and
\* window: the bucket in Redis is never negative and never full
\* (rate_limit.go:87-138), also when requests overwrite each other's updates.
THEOREM BucketStaysInRange == Spec => []BucketInRange
<1>1. Init => BucketInRange
  BY RateLimiterAssumption DEF Init, BucketInRange, Key, New
<1>2. BucketInRange /\ [Next]_rlVars => BucketInRange'
  BY StepKeepsRange
<1> QED
  BY <1>1, <1>2, PTL DEF Spec

-----------------------------------------------------------------------------
(* The bound on what is admitted *)

UnderWay == {q \in Requests : request[q].pc \in {"bucket", "last", "exec"}}

Count == Cardinality(Admitted)

\* The inductive invariant of a plain history.  One request is under way at a
\* time; both keys are there once a request has stored them.  What has been
\* admitted and what is left in the bucket never exceed a full bucket and the
\* refill up to the last update, and the request under way has read the bucket
\* as it is, or has its own token counted as admitted already.
Paid ==
    plain =>
      /\ \A q, r \in UnderWay : q = r
      /\ bucket.set <=> lastUpdate.set
      /\ bucket.set => Count + bucket.val <= BucketSize + RefillRate * lastUpdate.val
      /\ ~bucket.set => Count = 0
      /\ \A q \in Requests :
            /\ request[q].pc = "last" =>
                  request[q].tokens = IF bucket.set THEN bucket.val ELSE BucketSize
            /\ request[q].pc = "exec" =>
                  Count + 1 + request[q].tokens <= BucketSize + RefillRate * request[q].now

LEMMA CountType ==
    /\ IsFiniteSet(Admitted)
    /\ Count \in Nat
<1>1. IsFiniteSet(Admitted)
  BY FS_Subset, RateLimiterAssumption DEF Admitted
<1> QED
  BY <1>1, FS_CardinalityType DEF Count

\* A refilled bucket less one token is paid for by the refill up to now
\* (rate_limit.go:106-122).
LEMMA RefillPays ==
    ASSUME NEW n \in Nat, NEW tokens \in Int, NEW last \in Int, NEW t \in Int,
           n + tokens <= BucketSize + RefillRate * last
    PROVE  n + 1 + (Refilled(tokens, t - last) - 1) <= BucketSize + RefillRate * t
<1> USE RateLimiterAssumption
<1> DEFINE a == RefillRate * last
           b == RefillRate * t
           c == (t - last) * RefillRate
<1>1. a \in Int /\ b \in Int /\ c \in Int
  OBVIOUS
<1>2. c = b - a
  OBVIOUS
<1>3. Refilled(tokens, t - last) \in Int /\ Refilled(tokens, t - last) <= tokens + c
  BY <1>1 DEF Refilled, Smaller
<1> DEFINE new == Refilled(tokens, t - last)
<1>4. n + tokens <= BucketSize + a
  OBVIOUS
<1>5. new \in Int /\ new <= tokens + c
  BY <1>3
<1> HIDE DEF a, b, c, new
<1>6. n + 1 + (new - 1) <= BucketSize + b
  BY <1>1, <1>2, <1>4, <1>5
<1> QED
  BY <1>6 DEF new, b

\* A step of request q that admits nobody changes neither the count nor the
\* other requests.
LEMMA OneRequestMoves ==
    ASSUME BucketInRange, NEW q \in Requests, NEW r, request' = [request EXCEPT ![q] = r],
           request[q].pc # "admitted"
    PROVE  /\ request'[q] = r
           /\ \A x \in Requests \ {q} : request'[x] = request[x]
           /\ r.pc # "admitted" => Count' = Count
           /\ r.pc = "admitted" => Count' = Count + 1
<1>1. request'[q] = r /\ \A x \in Requests \ {q} : request'[x] = request[x]
  BY DEF BucketInRange
<1>2. CASE r.pc # "admitted"
  <2>1. Admitted' = Admitted
    BY <1>1, <1>2 DEF Admitted
  <2> QED
    BY <1>1, <1>2, <2>1 DEF Count
<1>3. CASE r.pc = "admitted"
  <2>1. Admitted' = Admitted \cup {q} /\ q \notin Admitted
    BY <1>1, <1>3 DEF Admitted
  <2> QED
    BY <1>1, <1>3, <2>1, CountType, FS_AddElement DEF Count
<1> QED
  BY <1>1, <1>2, <1>3

\* A request that ends, or is answered early, without a write to the bucket.
LEMMA GivesUp ==
    ASSUME BucketInRange, Paid, NEW q \in UnderWay, NEW status \in {"rejected", "error"},
           Answer(q, status), UNCHANGED <<bucket, lastUpdate, plain>>
    PROVE  Paid'
<1>0. q \in Requests /\ request[q].pc # "admitted"
  BY DEF UnderWay
<1>1. /\ request'[q].pc = status
      /\ \A x \in Requests \ {q} : request'[x] = request[x]
      /\ Count' = Count
  <2> DEFINE answer == [pc |-> status]
  <2>1. request' = [request EXCEPT ![q] = answer] /\ answer.pc = status /\ status # "admitted"
    BY DEF Answer
  <2> HIDE DEF answer
  <2> QED
    BY <1>0, <2>1, OneRequestMoves
<1>2. UnderWay' \subseteq UnderWay
  BY <1>1 DEF UnderWay
<1> QED
  BY <1>0, <1>1, <1>2 DEF Paid

LEMMA ArrivePays ==
    ASSUME BucketInRange, Paid, NEW q \in Requests, Arrive(q)
    PROVE  Paid'
<1>1. SUFFICES ASSUME plain' PROVE Paid'
  BY DEF Paid
<1>2. plain /\ UnderWay = {}
  BY <1>1 DEF Arrive, UnderWay
<1>3. request[q].pc # "admitted"
  BY DEF Arrive, New
<1>4. /\ request'[q].pc = "bucket"
      /\ \A x \in Requests \ {q} : request'[x] = request[x]
      /\ Count' = Count
  BY <1>3, OneRequestMoves DEF Arrive
<1>5. \A x \in UnderWay' : x = q
  BY <1>2, <1>4 DEF UnderWay
<1>6. UNCHANGED <<bucket, lastUpdate>>
  BY DEF Arrive
<1> QED
  BY <1>2, <1>4, <1>5, <1>6 DEF Paid

LEMMA GetBucketPays ==
    ASSUME BucketInRange, Paid, NEW q \in Requests, GetBucket(q)
    PROVE  Paid'
<1>0. q \in UnderWay /\ request[q].pc # "admitted" /\ UNCHANGED <<bucket, lastUpdate, plain>>
  BY DEF GetBucket, UnderWay
<1>1. CASE Answer(q, "error")
  BY <1>0, <1>1, GivesUp
<1>2. CASE request' = [request EXCEPT ![q] =
             [pc |-> "last", now |-> request[q].now,
              tokens |-> IF bucket.set THEN bucket.val ELSE BucketSize]]
  <2>1. /\ request'[q] = [pc |-> "last", now |-> request[q].now,
                          tokens |-> IF bucket.set THEN bucket.val ELSE BucketSize]
        /\ \A x \in Requests \ {q} : request'[x] = request[x]
        /\ Count' = Count
    <3> DEFINE read == [pc |-> "last", now |-> request[q].now,
                        tokens |-> IF bucket.set THEN bucket.val ELSE BucketSize]
    <3>1. request' = [request EXCEPT ![q] = read] /\ read.pc # "admitted"
      BY <1>2
    <3> SUFFICES /\ request'[q] = read
                 /\ \A x \in Requests \ {q} : request'[x] = request[x]
                 /\ Count' = Count
      OBVIOUS
    <3> HIDE DEF read
    <3> QED
      BY <1>0, <3>1, OneRequestMoves
  <2>2. request'[q].pc = "last"
        /\ request'[q].tokens = IF bucket.set THEN bucket.val ELSE BucketSize
    BY <2>1
  <2>3. UnderWay' \subseteq UnderWay
    BY <1>0, <2>1 DEF UnderWay
  <2> QED
    BY <1>0, <2>1, <2>2, <2>3 DEF Paid
<1> QED
  BY <1>1, <1>2 DEF GetBucket

LEMMA GetLastUpdatePays ==
    ASSUME BucketInRange, Paid, NEW q \in Requests, GetLastUpdate(q)
    PROVE  Paid'
<1>0. /\ q \in UnderWay /\ request[q].pc = "last"
      /\ UNCHANGED <<bucket, lastUpdate, plain>>
  BY DEF GetLastUpdate, UnderWay
<1>1. CASE Answer(q, "error") \/ Answer(q, "rejected")
  BY <1>0, <1>1, GivesUp
<1> DEFINE last == IF lastUpdate.set THEN lastUpdate.val ELSE request[q].now
           tokens == Refilled(request[q].tokens, request[q].now - last)
<1>2. CASE request' = [request EXCEPT ![q] =
             [pc |-> "exec", now |-> request[q].now, tokens |-> tokens - 1]]
  <2>1. /\ request'[q] = [pc |-> "exec", now |-> request[q].now, tokens |-> tokens - 1]
        /\ \A x \in Requests \ {q} : request'[x] = request[x]
        /\ Count' = Count
    <3> HIDE DEF tokens
    <3> QED
      BY <1>0, <1>2, OneRequestMoves
  <2>2. request'[q].pc = "exec" /\ request'[q].tokens = tokens - 1 /\ request'[q].now = request[q].now
    BY <2>1
  <2>3. UnderWay' \subseteq UnderWay
    BY <1>0, <2>1 DEF UnderWay
  <2>4. ASSUME plain PROVE Count + 1 + (tokens - 1) <= BucketSize + RefillRate * request[q].now
    <3>1. request[q].now \in 0..clock /\ request[q].tokens \in 0..BucketSize /\ clock \in Nat
      BY <1>0, RateLimiterAssumption DEF BucketInRange
    <3>2. lastUpdate.set => lastUpdate.val \in 0..clock
      BY KeyValue DEF BucketInRange
    <3>3. last \in Int
      BY <3>1, <3>2
    <3>4. Count + request[q].tokens <= BucketSize + RefillRate * last
      <4>1. CASE bucket.set
        BY <1>0, <2>4, <4>1 DEF Paid
      <4>2. CASE ~bucket.set
        <5>1. Count = 0 /\ request[q].tokens = BucketSize /\ last = request[q].now
          BY <1>0, <2>4, <4>2 DEF Paid
        <5>2. RefillRate * request[q].now \in Nat
          BY <3>1, RateLimiterAssumption
        <5> QED
          BY <5>1, <5>2, RateLimiterAssumption
      <4> QED
        BY <4>1, <4>2
    <3> HIDE DEF last
    <3> QED
      BY <3>1, <3>3, <3>4, CountType, RefillPays
  <2> HIDE DEF tokens
  <2> QED
    BY <1>0, <2>1, <2>2, <2>3, <2>4 DEF Paid
<1> QED
  BY <1>1, <1>2 DEF GetLastUpdate

\* The two SETs move the token of the request from the bucket to the count; a
\* lost answer only takes it out of the bucket.
LEMMA ExecPays ==
    ASSUME BucketInRange, Paid, NEW q \in Requests, Exec(q)
    PROVE  Paid'
<1>0. q \in UnderWay /\ request[q].pc = "exec" /\ UNCHANGED <<plain>>
  BY DEF Exec, UnderWay
<1>1. CASE Answer(q, "error") /\ UNCHANGED <<bucket, lastUpdate>>
  BY <1>0, <1>1, GivesUp
<1>2. CASE /\ bucket' = Value(request[q].tokens)
           /\ lastUpdate' = Value(request[q].now)
           /\ Answer(q, "admitted") \/ Answer(q, "error")
  <2>1. PICK status \in {"admitted", "error"} : Answer(q, status)
    BY <1>2
  <2>2. /\ request'[q].pc = status
        /\ \A x \in Requests \ {q} : request'[x] = request[x]
        /\ Count' \in {Count, Count + 1}
    <3> DEFINE answer == [pc |-> status]
    <3>1. request' = [request EXCEPT ![q] = answer] /\ answer.pc = status
      BY <2>1 DEF Answer
    <3> HIDE DEF answer
    <3> QED
      BY <1>0, <3>1, OneRequestMoves
  <2>3. /\ bucket'.set /\ bucket'.val = request[q].tokens
        /\ lastUpdate'.set /\ lastUpdate'.val = request[q].now
    BY <1>2 DEF Value
  <2>4. ASSUME plain
        PROVE  Count' + bucket'.val <= BucketSize + RefillRate * lastUpdate'.val
    <3>1. request[q].now \in Nat /\ request[q].tokens \in Nat
      BY <1>0, RateLimiterAssumption DEF BucketInRange
    <3>2. Count + 1 + request[q].tokens <= BucketSize + RefillRate * request[q].now
      BY <1>0, <2>4 DEF Paid
    <3>3. RefillRate * request[q].now \in Nat
      BY <3>1, RateLimiterAssumption
    <3> QED
      BY <2>2, <2>3, <3>1, <3>2, <3>3, CountType, RateLimiterAssumption
  <2>5. plain => UnderWay' = {}
    BY <1>0, <2>2 DEF UnderWay, Paid
  <2>6. plain => \A x \in Requests : request'[x].pc \notin {"last", "exec"}
    BY <2>5 DEF UnderWay
  <2> QED
    BY <1>0, <2>3, <2>4, <2>5, <2>6 DEF Paid
<1> QED
  BY <1>1, <1>2 DEF Exec

LEMMA StepPays ==
    ASSUME BucketInRange, Paid, [Next]_rlVars
    PROVE  Paid'
<1>1. CASE Expire
  BY <1>1 DEF Expire, Paid
<1>2. CASE Tick \/ UNCHANGED rlVars
  BY <1>2 DEF Tick, rlVars, Paid, UnderWay, Count, Admitted
<1> QED
  BY <1>1, <1>2, ArrivePays, GetBucketPays, GetLastUpdatePays, ExecPays DEF Next, Serve

\* The token bucket keeps its promise, for every size, refill rate and window,
\* to a client that waits for each answer and whose keys do not expire between
\* its requests: what was admitted is never more than a full bucket and the
\* refill since the beginning (rate_limit.go:106-135), also when a Redis error
\* or a lost answer spends a token on a request that is refused.
THEOREM AdmittedIsPaidFor == Spec => []BurstBounded
<1>1. Init => Paid
  <2>1. Init => Admitted = {} /\ UnderWay = {}
    BY DEF Init, New, Admitted, UnderWay
  <2>2. Init => Count = 0
    BY <2>1, FS_EmptySet DEF Count
  <2> QED
    BY <2>1, <2>2 DEF Init, New, NoKey, Paid
<1>2. BucketInRange /\ Paid /\ [Next]_rlVars => Paid'
  BY StepPays
<1>3. BucketInRange /\ Paid => BurstBounded
  <2>1. SUFFICES ASSUME BucketInRange, Paid, plain
                 PROVE  Count <= BucketSize + RefillRate * clock
    BY DEF BurstBounded, Count
  <2> USE RateLimiterAssumption
  <2>2. clock \in Nat /\ RefillRate * clock \in Nat /\ Count \in Nat
    BY <2>1, CountType DEF BucketInRange
  <2>3. CASE ~bucket.set
    BY <2>1, <2>2, <2>3 DEF Paid
  <2>4. CASE bucket.set
    <3>1. bucket.val \in Nat /\ lastUpdate.val \in 0..clock
      BY <2>1, <2>4, KeyValue DEF BucketInRange, Paid
    <3>2. Count + bucket.val <= BucketSize + RefillRate * lastUpdate.val
      BY <2>1, <2>4 DEF Paid
    <3>3. RefillRate * lastUpdate.val <= RefillRate * clock /\ RefillRate * lastUpdate.val \in Nat
      BY <2>2, <3>1
    <3> QED
      BY <2>2, <3>1, <3>2, <3>3
  <2> QED
    BY <2>3, <2>4
<1> QED
  BY <1>1, <1>2, <1>3, BucketStaysInRange, PTL DEF Spec
=============================================================================
