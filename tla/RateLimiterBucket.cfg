\* A bucket of two, and more requests than it pays for.
CONSTANTS
    Requests = {q1, q2, q3, q4}
    BucketSize = 2
    RefillRate = 1
    Window = 2
    MaxTime = 3
    RedisErrors = TRUE
SPECIFICATION Spec
SYMMETRY Symmetry
INVARIANTS BucketInRange BurstBounded
CHECK_DEADLOCK FALSE
