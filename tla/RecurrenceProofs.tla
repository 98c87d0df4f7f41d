-------------------------- MODULE RecurrenceProofs --------------------------
(***************************************************************************)
(* The calendar and the loop over the dates of a recurring event, for      *)
(* every calendar, schedule and instant.                                   *)
(***************************************************************************)
EXTENDS Recurrence, WellFoundedInduction, FiniteSetTheorems, SequenceTheorems, TLAPS

\* Induction over the naturals, for sets.
LEMMA LeastElement ==
    ASSUME NEW T, T \subseteq Nat, T # {}
    PROVE  \E x \in T : \A y \in T : x <= y
<1> DEFINE R == OpToRel(<, Nat)
<1>1. IsWellFoundedOn(R, Nat)
  BY NatLessThanWellFounded
<1>2. \A x, y \in Nat : y < x => <<y, x>> \in R
  BY DEF OpToRel
<1> HIDE DEF R
<1>3. PICK x \in T : \A y \in T : ~(<<y, x>> \in R)
  BY <1>1, WFMin
<1>4. \A y \in T : ~(y < x)
  BY <1>2, <1>3
<1> QED
  BY <1>4

LEMMA SetInduction ==
    ASSUME NEW S, 0 \in S, \A n \in Nat : n \in S => n + 1 \in S
    PROVE  Nat \subseteq S
<1> DEFINE T == {n \in Nat : n \notin S}
<1>1. SUFFICES ASSUME T # {} PROVE FALSE
  OBVIOUS
<1>2. PICK x \in T : \A y \in T : x <= y
  BY <1>1, LeastElement
<1>3. x # 0 /\ x - 1 \in Nat /\ x - 1 \notin T
  BY <1>2
<1> QED
  BY <1>2, <1>3

M == Len(MonthLengths)

LEMMA PrefixDef ==
    Prefix = [m \in 0..M |-> IF m = 0 THEN 0 ELSE Prefix[m - 1] + MonthLengths[m]]
<1> DEFINE Rec(f, n) == f = [m \in 0..n |-> IF m = 0 THEN 0 ELSE f[m - 1] + MonthLengths[m]]
           S == {n \in Nat : \E f : Rec(f, n)}
<1>1. 0 \in S
  <2>1. Rec([m \in 0..0 |-> 0], 0)
    OBVIOUS
  <2> QED
    BY <2>1
<1>2. ASSUME NEW n \in Nat, n \in S
      PROVE  n + 1 \in S
  <2>1. PICK f : Rec(f, n)
    BY <1>2
  <2> DEFINE g == [m \in 0..(n + 1) |-> IF m <= n THEN f[m] ELSE f[n] + MonthLengths[n + 1]]
  <2>2. Rec(g, n + 1)
    <3>1. SUFFICES ASSUME NEW m \in 0..(n + 1)
                   PROVE  g[m] = IF m = 0 THEN 0 ELSE g[m - 1] + MonthLengths[m]
      OBVIOUS
    <3>2. CASE m = n + 1
      BY <3>2
    <3>3. CASE m \in 0..n
      BY <2>1, <3>3
    <3> QED
      BY <3>2, <3>3
  <2> HIDE DEF g
  <2> QED
    BY <2>2
<1>3. M \in S
  <2>1. M \in Nat
    BY RecurrenceAssumption, LenProperties DEF M
  <2> HIDE DEF S
  <2> QED
    BY <1>1, <1>2, <2>1, SetInduction
<1>4. \E f : Rec(f, M)
  BY <1>3
<1>5. Prefix = CHOOSE f : Rec(f, M)
  BY DEF Prefix, M
<1> HIDE DEF Rec
<1>6. Rec(Prefix, M)
  BY <1>4, <1>5
<1> QED
  BY <1>6 DEF Rec

LEMMA Units ==
    /\ Minute \in Nat \ {0} /\ Hour \in Nat \ {0} /\ Day \in Nat \ {0}
    /\ DaysPerWeek \in Nat \ {0} /\ MonthsPerYear \in Nat \ {0}
    /\ MaxDuration \in Nat \ {0} /\ LookAhead \in Nat \ {0} /\ GracePeriod \in Nat
BY RecurrenceAssumption

LEMMA Product ==
    ASSUME NEW a \in Nat \ {0}, NEW b \in Nat \ {0}
    PROVE  a * b \in Nat \ {0}
OBVIOUS

LEMMA LengthsType == M \in Nat \ {0} /\ \A m \in 1..M : MonthLengths[m] \in Nat \ {0}
BY RecurrenceAssumption, LenProperties, EmptySeq, ElementOfSeq DEF M

\* The first day of every month of the cycle lies after the first day of the
\* month before.
LEMMA PrefixGrows ==
    /\ \A m \in 0..M : Prefix[m] \in Nat /\ Prefix[m] >= m
    /\ Prefix[0] = 0
    /\ \A m \in 0..(M - 1) : Prefix[m] < Prefix[m + 1]
<1> USE LengthsType
<1>1. Prefix[0] = 0
  BY PrefixDef
<1>2. \A m \in 1..M : Prefix[m] = Prefix[m - 1] + MonthLengths[m]
  BY PrefixDef
<1> DEFINE S == {n \in Nat : n <= M => Prefix[n] \in Nat /\ Prefix[n] >= n}
<1>3. 0 \in S
  BY <1>1
<1>4. ASSUME NEW n \in Nat, n \in S
      PROVE  n + 1 \in S
  <2>1. SUFFICES ASSUME n + 1 <= M
                 PROVE  Prefix[n + 1] \in Nat /\ Prefix[n + 1] >= n + 1
    OBVIOUS
  <2>2. Prefix[n] \in Nat /\ Prefix[n] >= n
    BY <1>4, <2>1
  <2>3. n + 1 \in 1..M /\ (n + 1) - 1 = n
    BY <2>1
  <2>4. Prefix[n + 1] = Prefix[n] + MonthLengths[n + 1] /\ MonthLengths[n + 1] \in Nat \ {0}
    BY <1>2, <2>3
  <2> QED
    BY <2>2, <2>4
<1> HIDE DEF S
<1>5. Nat \subseteq S
  BY <1>3, <1>4, SetInduction
<1>6. \A m \in 0..M : Prefix[m] \in Nat /\ Prefix[m] >= m
  BY <1>5 DEF S
<1>7. ASSUME NEW m \in 0..(M - 1)
      PROVE  Prefix[m] < Prefix[m + 1]
  <2>1. m + 1 \in 1..M /\ (m + 1) - 1 = m /\ m \in 0..M
    OBVIOUS
  <2>2. Prefix[m + 1] = Prefix[m] + MonthLengths[m + 1] /\ MonthLengths[m + 1] \in Nat \ {0}
    BY <1>2, <2>1
  <2> QED
    BY <1>6, <2>1, <2>2
<1> QED
  BY <1>1, <1>6, <1>7

LEMMA DivMod ==
    ASSUME NEW a \in Int, NEW b \in Nat \ {0}
    PROVE  /\ a \div b \in Int /\ a % b \in 0..(b - 1)
           /\ a = (a \div b) * b + (a % b)
OBVIOUS

LEMMA DivModUnique ==
    ASSUME NEW b \in Nat \ {0}, NEW q \in Int, NEW r \in 0..(b - 1),
           NEW p \in Int, NEW s \in 0..(b - 1), q * b + r = p * b + s
    PROVE  q = p /\ r = s
<1>1. (q - p) * b = s - r
  OBVIOUS
<1> DEFINE d == q - p
<1>2. d \in Int /\ d * b = s - r /\ s - r < b /\ s - r > -b
  BY <1>1
<1> HIDE DEF d
<1>3. ~(d >= 1)
  <2>1. d >= 1 => d * b >= b
    BY <1>2
  <2> QED
    BY <1>2, <2>1
<1>4. ~(d <= -1)
  <2>1. d <= -1 => d * b <= -b
    BY <1>2
  <2> QED
    BY <1>2, <2>1
<1>5. d = 0
  BY <1>2, <1>3, <1>4
<1> QED
  BY <1>2, <1>5 DEF d

\* What the quotient and the remainder of a number in the form q * b + r are.
LEMMA DivModOf ==
    ASSUME NEW b \in Nat \ {0}, NEW q \in Int, NEW r \in 0..(b - 1)
    PROVE  (q * b + r) \div b = q /\ (q * b + r) % b = r
<1> DEFINE a == q * b + r
<1>1. a \in Int
  OBVIOUS
<1>2. a = (a \div b) * b + (a % b) /\ a \div b \in Int /\ a % b \in 0..(b - 1)
  BY <1>1, DivMod
<1>3. a = q * b + r
  OBVIOUS
<1> HIDE DEF a
<1>4. a \div b = q /\ a % b = r
  BY <1>2, <1>3, DivModUnique
<1> QED
  BY <1>4 DEF a

\* The months follow one another, also from one cycle to the next.
LEMMA MonthStartStep ==
    ASSUME NEW m \in Nat
    PROVE  MonthStart(m) \in Nat /\ MonthStart(m) < MonthStart(m + 1)
<1> USE LengthsType
<1> DEFINE q == m \div M
           r == m % M
           P == Prefix[M]
<1>1. q \in Int /\ r \in 0..(M - 1) /\ m = q * M + r
  BY DivMod
<1>2. P \in Nat /\ Prefix[r] \in Nat
  BY <1>1, PrefixGrows
<1>3. MonthStart(m) = q * P + Prefix[r]
  BY DEF MonthStart, M
<1> HIDE DEF q, r
<1>4. q \in Nat
  <2>1. ~(q <= -1)
    <3>1. q <= -1 => q * M <= -M
      BY <1>1
    <3> QED
      BY <1>1, <3>1
  <2> QED
    BY <1>1, <2>1
<1> HIDE DEF P
<1>5. q * P \in Nat
  BY <1>2, <1>4
<1>6. CASE r < M - 1
  <2>1. r + 1 \in 0..(M - 1) /\ m + 1 = q * M + (r + 1)
    BY <1>1, <1>6
  <2>2. (m + 1) \div M = q /\ (m + 1) % M = r + 1
    BY <1>1, <2>1, DivModOf
  <2>3. MonthStart(m + 1) = q * P + Prefix[r + 1]
    BY <2>2 DEF MonthStart, M, P
  <2>4. Prefix[r] < Prefix[r + 1] /\ Prefix[r + 1] \in Nat
    BY <1>1, <2>1, PrefixGrows
  <2> QED
    BY <1>2, <1>3, <1>5, <2>3, <2>4
<1>7. CASE r = M - 1
  <2>1. 0 \in 0..(M - 1) /\ m + 1 = (q + 1) * M + 0 /\ q + 1 \in Int
    BY <1>1, <1>7
  <2>2. (m + 1) \div M = q + 1 /\ (m + 1) % M = 0
    BY <2>1, DivModOf
  <2>3. MonthStart(m + 1) = (q + 1) * P + 0
    BY <2>2, PrefixGrows DEF MonthStart, M, P
  <2>4. (q + 1) * P = q * P + P
    BY <1>2, <1>4
  <2>5. Prefix[r] < P
    <3>1. r \in 0..(M - 1) /\ r + 1 = M
      BY <1>1, <1>7
    <3> QED
      BY <3>1, PrefixGrows DEF P
  <2> QED
    BY <1>2, <1>3, <1>5, <2>3, <2>4, <2>5
<1> QED
  BY <1>1, <1>6, <1>7

LEMMA MonthStartGrows ==
    /\ MonthStart(0) = 0
    /\ \A m \in Nat : MonthStart(m) \in Nat /\ MonthStart(m) >= m
    /\ \A m, n \in Nat : m < n => MonthStart(m) < MonthStart(n)
<1>1. MonthStart(0) = 0
  <2>1. 0 \div M = 0 /\ 0 % M = 0
    <3>1. 0 \in 0..(M - 1) /\ 0 * M + 0 = 0
      BY LengthsType
    <3> QED
      BY <3>1, LengthsType, DivModOf
  <2>2. MonthStart(0) = (0 \div M) * Prefix[M] + Prefix[0 % M]
    BY DEF MonthStart, M
  <2>3. Prefix[M] \in Nat /\ Prefix[0] = 0
    BY PrefixGrows, LengthsType
  <2> QED
    BY <2>1, <2>2, <2>3
<1>2. \A m \in Nat : MonthStart(m) >= m
  <2> DEFINE S == {n \in Nat : MonthStart(n) >= n}
  <2>1. 0 \in S
    BY <1>1
  <2>2. \A n \in Nat : n \in S => n + 1 \in S
    <3>1. SUFFICES ASSUME NEW n \in Nat, MonthStart(n) >= n
                   PROVE  MonthStart(n + 1) >= n + 1
      OBVIOUS
    <3>2. n + 1 \in Nat
      OBVIOUS
    <3>3. MonthStart(n) < MonthStart(n + 1) /\ MonthStart(n) \in Nat /\ MonthStart(n + 1) \in Nat
      BY <3>2, MonthStartStep
    <3> QED
      BY <3>1, <3>3
  <2> HIDE DEF S
  <2>3. Nat \subseteq S
    BY <2>1, <2>2, SetInduction
  <2> QED
    BY <2>3 DEF S
<1>3. ASSUME NEW m \in Nat
      PROVE  \A n \in Nat : m < n => MonthStart(m) < MonthStart(n)
  <2> DEFINE S == {n \in Nat : m < n => MonthStart(m) < MonthStart(n)}
  <2>1. 0 \in S
    OBVIOUS
  <2>2. \A n \in Nat : n \in S => n + 1 \in S
    <3>1. SUFFICES ASSUME NEW n \in Nat, m < n => MonthStart(m) < MonthStart(n), m < n + 1
                   PROVE  MonthStart(m) < MonthStart(n + 1)
      OBVIOUS
    <3>2. n + 1 \in Nat
      OBVIOUS
    <3>3. /\ MonthStart(n) < MonthStart(n + 1) /\ MonthStart(n) \in Nat
          /\ MonthStart(n + 1) \in Nat /\ MonthStart(m) \in Nat
      BY <3>2, MonthStartStep
    <3> QED
      BY <3>1, <3>3
  <2> HIDE DEF S
  <2>3. Nat \subseteq S
    BY <2>1, <2>2, SetInduction
  <2> QED
    BY <2>3 DEF S
<1> QED
  BY <1>1, <1>2, <1>3, MonthStartStep

\* Every day lies in a month.
LEMMA MonthOfDay ==
    ASSUME NEW t \in Nat
    PROVE  /\ DayOf(t) \in Nat /\ MonthOf(t) \in Nat
           /\ MonthStart(MonthOf(t)) <= DayOf(t)
           /\ DayOf(t) < MonthStart(MonthOf(t) + 1)
<1>1. DayOf(t) \in Nat
  <2>1. Day \in Nat \ {0}
    BY Units
  <2> QED
    BY <2>1 DEF DayOf
<1> DEFINE d == DayOf(t)
           T == {m \in Nat : d < MonthStart(m + 1)}
<1> HIDE DEF d
<1>2. d \in Nat
  BY <1>1 DEF d
<1>3. d \in T
  <2>1. MonthStart(d + 1) >= d + 1 /\ MonthStart(d + 1) \in Nat
    BY <1>2, MonthStartGrows
  <2> QED
    BY <1>2, <2>1
<1>4. PICK m \in T : \A n \in T : m <= n
  BY <1>3, LeastElement
<1>5. m \in Nat /\ d < MonthStart(m + 1) /\ MonthStart(m) \in Nat /\ MonthStart(m) >= m
  BY <1>4, MonthStartGrows
<1>6. MonthStart(m) <= d
  <2>1. CASE m = 0
    BY <1>2, <2>1, MonthStartGrows
  <2>2. CASE m # 0
    <3>1. m - 1 \in Nat /\ (m - 1) + 1 = m
      BY <1>5, <2>2
    <3>2. m - 1 \notin T
      BY <1>4, <1>5, <3>1
    <3> QED
      BY <1>2, <1>5, <3>1, <3>2
  <2> QED
    BY <2>1, <2>2
<1>7. m \in 0..d
  BY <1>2, <1>5, <1>6
<1>8. MonthOf(t) = CHOOSE n \in 0..d : MonthStart(n) <= d /\ d < MonthStart(n + 1)
  BY DEF MonthOf, d
<1>9. MonthOf(t) \in 0..d /\ MonthStart(MonthOf(t)) <= d /\ d < MonthStart(MonthOf(t) + 1)
  BY <1>5, <1>6, <1>7, <1>8
<1> QED
  BY <1>2, <1>9 DEF d

-----------------------------------------------------------------------------
(* The loop of expandRecurringEvent *)

LEMMA TimeOfDay ==
    ASSUME NEW t \in Nat
    PROVE  /\ t = DayOf(t) * Day + (t % Day)
           /\ t % Day \in 0..(Day - 1)
           /\ DayOf(t) \in Nat
<1>1. Day \in Nat \ {0}
  BY Units
<1>2. t \in Int
  OBVIOUS
<1>3. t = (t \div Day) * Day + (t % Day) /\ t % Day \in 0..(Day - 1)
  BY <1>1, <1>2, DivMod, Zenon
<1>4. DayOf(t) \in Nat
  BY MonthOfDay
<1> QED
  BY <1>3, <1>4, Zenon DEF DayOf

\* Days are added within the month or over its end alike.
LEMMA AddDays ==
    ASSUME NEW t \in Nat, NEW k \in Int
    PROVE  AddDate(t, 0, k) = t + k * Day
<1>1. Day \in Nat \ {0}
  BY Units
<1> DEFINE m == MonthOf(t)
           s == MonthStart(m)
           d == DayOf(t)
           h == t % Day
<1>2. m \in Nat /\ s \in Nat /\ d \in Nat
  BY MonthOfDay, MonthStartGrows
<1>3. h \in Nat /\ t = d * Day + h
  <2>1. h \in 0..(Day - 1) /\ t = d * Day + h
    BY TimeOfDay, Zenon
  <2> HIDE DEF h, d
  <2> QED
    BY <1>1, <2>1
<1>4. AddDate(t, 0, k) = (MonthStart(m + 0) + ((d - s + 1) + k) - 1) * Day + h
  BY DEF AddDate, Date, DayOfMonth
<1>5. m + 0 = m
  BY <1>2
<1>6. AddDate(t, 0, k) = (s + ((d - s + 1) + k) - 1) * Day + h
  BY <1>4, <1>5
<1> HIDE DEF m, s, d, h
<1>7. s + ((d - s + 1) + k) - 1 = d + k
  BY <1>2
<1>8. (d + k) * Day + h = (d * Day + h) + k * Day
  BY <1>1, <1>2, <1>3
<1> QED
  BY <1>3, <1>6, <1>7, <1>8

\* So many months later is later, however long the months are.
LEMMA AddMonths ==
    ASSUME NEW t \in Nat, NEW k \in Nat \ {0}
    PROVE  AddDate(t, k, 0) \in Nat /\ AddDate(t, k, 0) > t
<1>1. Day \in Nat \ {0}
  BY Units
<1> DEFINE m == MonthOf(t)
           s == MonthStart(m)
           u == MonthStart(m + k)
           d == DayOf(t)
           h == t % Day
<1>2. m \in Nat /\ s \in Nat /\ d \in Nat /\ m + k \in Nat /\ m < m + k
  <2>1. m \in Nat /\ d \in Nat
    BY MonthOfDay
  <2>2. s \in Nat
    BY <2>1, MonthStartGrows
  <2> HIDE DEF m, s, d
  <2> QED
    BY <2>1, <2>2
<1>3. u \in Nat /\ s < u
  BY <1>2, MonthStartGrows
<1>4. h \in Nat /\ t = d * Day + h
  <2>1. h \in 0..(Day - 1) /\ t = d * Day + h
    BY TimeOfDay, Zenon
  <2> HIDE DEF h, d
  <2> QED
    BY <1>1, <2>1
<1>5. AddDate(t, k, 0) = (u + ((d - s + 1) + 0) - 1) * Day + h
  BY DEF AddDate, Date, DayOfMonth
<1> HIDE DEF m, s, u, d, h
<1> DEFINE x == u - s
<1>6. x \in Nat \ {0} /\ u + ((d - s + 1) + 0) - 1 = d + x
  BY <1>2, <1>3
<1> HIDE DEF x
<1>7. (d + x) * Day + h = (d * Day + h) + x * Day
  BY <1>1, <1>2, <1>4, <1>6
<1>8. x * Day \in Nat \ {0}
  BY <1>1, <1>6
<1> QED
  BY <1>4, <1>5, <1>6, <1>7, <1>8

\* Does the step of s, a product of time.Durations, stay within their range?
Fits(s) ==
    /\ s.frequency = "minutely" => s.interval * Minute < MaxDuration
    /\ s.frequency = "hourly" => s.interval * Hour < MaxDuration

LEMMA NotWrapped ==
    ASSUME NEW d \in Nat, d < MaxDuration
    PROVE  Wrapped(d) = d
<1>1. MaxDuration \in Nat \ {0}
  BY RecurrenceAssumption
<1>2. 2 * MaxDuration \in Nat \ {0} /\ d + MaxDuration \in 0..(2 * MaxDuration - 1)
  BY <1>1
<1> DEFINE b == 2 * MaxDuration
           r == d + MaxDuration
<1>3. b \in Nat \ {0} /\ r \in 0..(b - 1)
  BY <1>2
<1> HIDE DEF b, r
<1>4. 0 * b + r = r
  BY <1>3
<1>5. r % b = r
  BY <1>3, <1>4, DivModOf
<1>6. Wrapped(d) = (r % b) - MaxDuration
  BY DEF Wrapped, r, b
<1>7. r - MaxDuration = d
  BY <1>1 DEF r
<1> QED
  BY <1>5, <1>6, <1>7

\* The loop over the dates of a valid schedule goes forward in every calendar
\* (expander.go:139-226), unless its step overflows.
LEMMA AnchorAdvances ==
    ASSUME NEW s, isValidSchedule(s), s.interval \in Int, Fits(s), NEW t \in Nat
    PROVE  NextAnchor(s, t) \in Nat /\ NextAnchor(s, t) > t
<1>1. s.interval \in Nat \ {0} /\ s.frequency \in Frequencies
  BY DEF isValidSchedule
<1> DEFINE n == s.interval
<1>2. n \in Nat \ {0}
  BY <1>1
<1> HIDE DEF n
<1>3. CASE s.frequency = "minutely"
  <2>1. n * Minute < MaxDuration
    BY <1>3 DEF Fits, n
  <2>2. n * Minute \in Nat \ {0}
    BY <1>2, Units, Product
  <2>3. Wrapped(n * Minute) = n * Minute
    BY <2>1, <2>2, NotWrapped
  <2>4. NextAnchor(s, t) = t + Wrapped(n * Minute)
    BY <1>3 DEF NextAnchor, n
  <2> QED
    BY <2>2, <2>3, <2>4
<1>4. CASE s.frequency = "hourly"
  <2>1. n * Hour < MaxDuration
    BY <1>4 DEF Fits, n
  <2>2. n * Hour \in Nat \ {0}
    BY <1>2, Units, Product
  <2>3. Wrapped(n * Hour) = n * Hour
    BY <2>1, <2>2, NotWrapped
  <2>4. NextAnchor(s, t) = t + Wrapped(n * Hour)
    BY <1>4 DEF NextAnchor, n
  <2> QED
    BY <2>2, <2>3, <2>4
<1>5. CASE s.frequency = "daily"
  <2>1. NextAnchor(s, t) = AddDate(t, 0, n)
    BY <1>5 DEF NextAnchor, n
  <2>2. AddDate(t, 0, n) = t + n * Day
    BY <1>2, AddDays
  <2>3. n * Day \in Nat \ {0}
    BY <1>2, Units, Product
  <2> QED
    BY <2>1, <2>2, <2>3
<1>6. CASE s.frequency = "weekly"
  <2> DEFINE k == DaysPerWeek * n
  <2>1. k \in Nat \ {0}
    BY <1>2, Units, Product
  <2>2. NextAnchor(s, t) = AddDate(t, 0, k)
    BY <1>6 DEF NextAnchor, n
  <2> HIDE DEF k
  <2>3. AddDate(t, 0, k) = t + k * Day
    BY <2>1, AddDays
  <2>4. k * Day \in Nat \ {0}
    BY <2>1, Units, Product
  <2> QED
    BY <2>2, <2>3, <2>4
<1>7. CASE s.frequency = "monthly"
  <2>1. NextAnchor(s, t) = AddDate(t, n, 0)
    BY <1>7 DEF NextAnchor, n
  <2> QED
    BY <1>2, <2>1, AddMonths
<1>8. CASE s.frequency = "yearly"
  <2>1. NextAnchor(s, t) = AddDate(t, MonthsPerYear * n, 0)
    BY <1>8 DEF NextAnchor, n
  <2>2. MonthsPerYear * n \in Nat \ {0}
    BY <1>2, Units, Product
  <2> QED
    BY <2>1, <2>2, AddMonths
<1> QED
  BY <1>1, <1>3, <1>4, <1>5, <1>6, <1>7, <1>8 DEF Frequencies

-----------------------------------------------------------------------------
(* The list of dates *)

\* f is what Among computes for the first n dates, one date after the other.
KeptBy(dates, S, N, f) ==
    f = [n \in 0..N |->
           IF n = 0 THEN <<>>
           ELSE IF dates[n] \in S THEN Append(f[n - 1], dates[n]) ELSE f[n - 1]]

LEMMA KeptExists ==
    ASSUME NEW dates, NEW S, NEW N \in Nat
    PROVE  \E f : KeptBy(dates, S, N, f)
<1> DEFINE Step(kept, n) == IF dates[n] \in S THEN Append(kept, dates[n]) ELSE kept
           Rec(f, n) == f = [m \in 0..n |-> IF m = 0 THEN <<>> ELSE Step(f[m - 1], m)]
           Good == {n \in Nat : \E f : Rec(f, n)}
<1> HIDE DEF Step
<1>1. 0 \in Good
  <2>1. Rec([m \in 0..0 |-> <<>>], 0)
    OBVIOUS
  <2> QED
    BY <2>1
<1>2. ASSUME NEW n \in Nat, n \in Good
      PROVE  n + 1 \in Good
  <2>1. PICK f : Rec(f, n)
    BY <1>2
  <2> DEFINE g == [m \in 0..(n + 1) |-> IF m <= n THEN f[m] ELSE Step(f[n], n + 1)]
  <2>2. Rec(g, n + 1)
    <3>1. SUFFICES ASSUME NEW m \in 0..(n + 1)
                   PROVE  g[m] = IF m = 0 THEN <<>> ELSE Step(g[m - 1], m)
      OBVIOUS
    <3>2. CASE m = n + 1
      BY <3>2
    <3>3. CASE m \in 0..n
      BY <2>1, <3>3
    <3> QED
      BY <3>2, <3>3
  <2> HIDE DEF g
  <2> QED
    BY <2>2
<1>3. N \in Good
  <2> HIDE DEF Good
  <2> QED
    BY <1>1, <1>2, SetInduction
<1>4. \E f : Rec(f, N)
  BY <1>3
<1> QED
  BY <1>4, Zenon DEF Step, KeptBy

\* Among keeps what lies in S, all of it and nothing else, and no date twice
\* that is not twice in the list.
LEMMA AmongKeeps ==
    ASSUME NEW X, NEW dates \in Seq(X), NEW S
    PROVE  LET kept == Among(dates, S) IN
           /\ kept \in Seq(X)
           /\ \A i \in 1..Len(kept) :
                 kept[i] \in S /\ \E j \in 1..Len(dates) : dates[j] = kept[i]
           /\ \A j \in 1..Len(dates) :
                 dates[j] \in S => \E i \in 1..Len(kept) : kept[i] = dates[j]
           /\ (\A i, j \in 1..Len(dates) : dates[i] = dates[j] => i = j) =>
                 \A i, j \in 1..Len(kept) : kept[i] = kept[j] => i = j
<1> DEFINE N == Len(dates)
           Step(kept, n) == IF dates[n] \in S THEN Append(kept, dates[n]) ELSE kept
           Rec(f) == f = [n \in 0..N |-> IF n = 0 THEN <<>> ELSE Step(f[n - 1], n)]
           K == CHOOSE f : Rec(f)
<1>1. N \in Nat
  BY LenProperties
<1>2. Among(dates, S) = K[N]
  BY DEF Among
<1>3. \E f : Rec(f)
  <2>1. \E f : KeptBy(dates, S, N, f)
    BY <1>1, KeptExists
  <2>2. \A f : KeptBy(dates, S, N, f) <=> Rec(f)
    BY Zenon DEF KeptBy
  <2> HIDE DEF Rec
  <2> QED
    BY <2>1, <2>2
<1>4. Rec(K)
  <2> HIDE DEF Rec
  <2> QED
    BY <1>3
<1> HIDE DEF K
<1> HIDE DEF Step
<1>5. K[0] = <<>> /\ \A n \in 1..N : K[n] = Step(K[n - 1], n)
  <2> HIDE DEF N
  <2> QED
    BY <1>1, <1>4
<1> DEFINE Sound(n) ==
             \A i \in 1..Len(K[n]) : K[n][i] \in S /\ \E j \in 1..n : dates[j] = K[n][i]
           All(n) ==
             \A j \in 1..n : dates[j] \in S => \E i \in 1..Len(K[n]) : K[n][i] = dates[j]
           Apart(n) ==
             (\A i, j \in 1..n : dates[i] = dates[j] => i = j) =>
                \A i, j \in 1..Len(K[n]) : K[n][i] = K[n][j] => i = j
           Good == {n \in Nat : n <= N => K[n] \in Seq(X) /\ Sound(n) /\ All(n) /\ Apart(n)}
<1>6. 0 \in Good
  <2>1. Len(K[0]) = 0 /\ K[0] \in Seq(X)
    BY <1>5
  <2>2. Sound(0) /\ All(0) /\ Apart(0)
    BY <2>1
  <2> HIDE DEF Sound, All, Apart
  <2> QED
    BY <2>1, <2>2
<1>7. ASSUME NEW n \in Nat, n \in Good
      PROVE  n + 1 \in Good
  <2>1. SUFFICES ASSUME n + 1 <= N
                 PROVE  K[n + 1] \in Seq(X) /\ Sound(n + 1) /\ All(n + 1) /\ Apart(n + 1)
    BY <1>1
  <2>2. K[n] \in Seq(X) /\ Sound(n) /\ All(n) /\ Apart(n)
    BY <1>1, <1>7, <2>1
  <2> DEFINE k == K[n]
             r == K[n + 1]
             d == dates[n + 1]
             l == Len(k)
  <2>3. n + 1 \in 1..N /\ (n + 1) - 1 = n /\ d \in X
    BY <1>1, <2>1, ElementOfSeq
  <2>4. r = IF d \in S THEN Append(k, d) ELSE k
    <3>1. r = Step(k, n + 1)
      BY <1>5, <2>3
    <3> QED
      BY <3>1, Zenon DEF Step
  <2>5. k \in Seq(X) /\ l \in Nat
    BY <2>2, LenProperties
  <2>6. CASE d \in S
    <3>1. r = Append(k, d)
      BY <2>4, <2>6
    <3>2. /\ r \in Seq(X) /\ Len(r) = l + 1
          /\ \A i \in 1..l : r[i] = k[i]
          /\ r[l + 1] = d
      BY <2>3, <2>5, <3>1, AppendProperties
    <3>3. Sound(n + 1)
      <4>1. SUFFICES ASSUME NEW i \in 1..(l + 1)
                     PROVE  r[i] \in S /\ \E j \in 1..(n + 1) : dates[j] = r[i]
        BY <3>2
      <4>2. CASE i = l + 1
        <5>1. n + 1 \in 1..(n + 1)
          OBVIOUS
        <5> QED
          BY <2>6, <3>2, <4>2, <5>1
      <4>3. CASE i \in 1..l
        <5>1. r[i] = k[i] /\ k[i] \in S /\ \E j \in 1..n : dates[j] = k[i]
          BY <2>2, <3>2, <4>3
        <5> QED
          BY <5>1
      <4> HIDE DEF l
      <4> QED
        BY <2>5, <4>2, <4>3
    <3>4. All(n + 1)
      <4>1. SUFFICES ASSUME NEW j \in 1..(n + 1), dates[j] \in S
                     PROVE  \E i \in 1..(l + 1) : r[i] = dates[j]
        BY <3>2
      <4>2. CASE j = n + 1
        <5>1. l + 1 \in 1..(l + 1)
          BY <2>5
        <5> QED
          BY <3>2, <4>2, <5>1
      <4>3. CASE j \in 1..n
        <5>1. PICK i \in 1..l : k[i] = dates[j]
          BY <2>2, <4>1, <4>3
        <5>2. i \in 1..(l + 1) /\ r[i] = k[i]
          BY <2>5, <3>2
        <5> QED
          BY <5>1, <5>2
      <4> QED
        BY <4>2, <4>3
    <3>5. Apart(n + 1)
      <4>1. SUFFICES ASSUME \A i, j \in 1..(n + 1) : dates[i] = dates[j] => i = j,
                            NEW i \in 1..(l + 1), NEW j \in 1..(l + 1), r[i] = r[j]
                     PROVE  i = j
        BY <3>2
      <4>2. \A a, b \in 1..n : dates[a] = dates[b] => a = b
        BY <4>1
      <4>3. \A a, b \in 1..l : k[a] = k[b] => a = b
        BY <2>2, <4>2
      <4>4. \A a \in 1..l : r[a] = k[a] /\ k[a] # d
        <5>1. SUFFICES ASSUME NEW a \in 1..l PROVE r[a] = k[a] /\ k[a] # d
          OBVIOUS
        <5>2. PICK b \in 1..n : dates[b] = k[a]
          BY <2>2
        <5>3. b \in 1..(n + 1) /\ n + 1 \in 1..(n + 1) /\ b # n + 1
          OBVIOUS
        <5>4. dates[b] # d
          BY <4>1, <5>3
        <5> QED
          BY <3>2, <5>2, <5>4
      <4> HIDE DEF l, k, r, d
      <4>5. (i \in 1..l \/ i = l + 1) /\ (j \in 1..l \/ j = l + 1)
        BY <2>5
      <4> QED
        BY <3>2, <4>1, <4>3, <4>4, <4>5
    <3> QED
      BY <3>2, <3>3, <3>4, <3>5
  <2>7. CASE d \notin S
    <3>1. K[n + 1] = K[n]
      BY <2>4, <2>7
    <3>2. Sound(n + 1)
      BY <2>2, <3>1
    <3>3. All(n + 1)
      <4>1. \A j \in 1..(n + 1) : j \in 1..n \/ j = n + 1
        OBVIOUS
      <4> QED
        BY <2>2, <2>7, <3>1, <4>1
    <3>4. Apart(n + 1)
      <4>1. (\A i, j \in 1..(n + 1) : dates[i] = dates[j] => i = j)
              => \A i, j \in 1..n : dates[i] = dates[j] => i = j
        OBVIOUS
      <4> QED
        BY <2>2, <3>1, <4>1
    <3> QED
      BY <2>2, <3>1, <3>2, <3>3, <3>4
  <2> QED
    BY <2>6, <2>7
<1> HIDE DEF Good
<1>8. N \in Good
  BY <1>1, <1>6, <1>7, SetInduction
<1>9. K[N] \in Seq(X) /\ Sound(N) /\ All(N) /\ Apart(N)
  <2> HIDE DEF N, Sound, All, Apart
  <2> QED
    BY <1>1, <1>8 DEF Good
<1> QED
  BY <1>2, <1>9

\* f[k] is the date the loop has reached after k of at most N steps.
SteppedBy(s, start, N, f) ==
    f = [k \in 0..N |-> IF k = 0 THEN start ELSE NextAnchor(s, f[k - 1])]

Anchors(s, start, N) == CHOOSE f : SteppedBy(s, start, N, f)

\* The number of dates before endTime that the loop reaches.
Rounds(s, start, endTime) ==
    Cardinality({k \in 0..(endTime - start - 1) : Anchors(s, start, endTime - start)[k] < endTime})

LEMMA SteppedExists ==
    ASSUME NEW s, NEW start, NEW N \in Nat
    PROVE  \E f : SteppedBy(s, start, N, f)
<1> DEFINE Step(t) == NextAnchor(s, t)
           Rec(f, n) == f = [k \in 0..n |-> IF k = 0 THEN start ELSE Step(f[k - 1])]
           Good == {n \in Nat : \E f : Rec(f, n)}
<1> HIDE DEF Step
<1>1. 0 \in Good
  <2>1. Rec([m \in 0..0 |-> start], 0)
    OBVIOUS
  <2> QED
    BY <2>1
<1>2. ASSUME NEW n \in Nat, n \in Good
      PROVE  n + 1 \in Good
  <2>1. PICK f : Rec(f, n)
    BY <1>2
  <2> DEFINE g == [m \in 0..(n + 1) |-> IF m <= n THEN f[m] ELSE Step(f[n])]
  <2>2. Rec(g, n + 1)
    <3>1. SUFFICES ASSUME NEW m \in 0..(n + 1)
                   PROVE  g[m] = IF m = 0 THEN start ELSE Step(g[m - 1])
      OBVIOUS
    <3>2. CASE m = n + 1
      BY <3>2
    <3>3. CASE m \in 0..n
      BY <2>1, <3>3
    <3> QED
      BY <3>2, <3>3
  <2> HIDE DEF g
  <2> QED
    BY <2>2
<1>3. N \in Good
  <2> HIDE DEF Good
  <2> QED
    BY <1>1, <1>2, SetInduction
<1>4. \E f : Rec(f, N)
  BY <1>3
<1> QED
  BY <1>4, Zenon DEF Step, SteppedBy

\* The loop starts at the start and goes forward at every step.
LEMMA AnchorsGrow ==
    ASSUME NEW s, isValidSchedule(s), s.interval \in Int, Fits(s), NEW start \in Nat, NEW N \in Nat
    PROVE  LET A == Anchors(s, start, N) IN
           /\ A[0] = start
           /\ \A k \in 0..N : A[k] \in Nat /\ A[k] >= start + k
           /\ \A k \in 0..(N - 1) : A[k + 1] = NextAnchor(s, A[k]) /\ A[k] < A[k + 1]
<1> DEFINE A == Anchors(s, start, N)
           Step(t) == NextAnchor(s, t)
<1>1. SteppedBy(s, start, N, A)
  <2>1. \E f : SteppedBy(s, start, N, f)
    BY SteppedExists
  <2> QED
    BY <2>1 DEF Anchors
<1>2. A = [k \in 0..N |-> IF k = 0 THEN start ELSE Step(A[k - 1])]
  BY <1>1, Zenon DEF SteppedBy
<1>3. \A t \in Nat : Step(t) \in Nat /\ Step(t) > t
  BY AnchorAdvances
<1> HIDE DEF A, Step
<1>4. A[0] = start /\ \A k \in 0..(N - 1) : A[k + 1] = Step(A[k])
  BY <1>2
<1> DEFINE Good == {k \in Nat : k <= N => A[k] \in Nat /\ A[k] >= start + k}
<1>5. 0 \in Good
  BY <1>4
<1>6. ASSUME NEW k \in Nat, k \in Good
      PROVE  k + 1 \in Good
  <2>1. SUFFICES ASSUME k + 1 <= N
                 PROVE  A[k + 1] \in Nat /\ A[k + 1] >= start + (k + 1)
    OBVIOUS
  <2>2. A[k] \in Nat /\ A[k] >= start + k /\ k \in 0..(N - 1)
    BY <1>6, <2>1
  <2>3. A[k + 1] = Step(A[k])
    BY <1>4, <2>2
  <2> QED
    BY <1>3, <2>2, <2>3
<1> HIDE DEF Good
<1>7. Nat \subseteq Good
  BY <1>5, <1>6, SetInduction
<1>8. \A k \in 0..N : A[k] \in Nat /\ A[k] >= start + k
  BY <1>7 DEF Good
<1>9. \A k \in 0..(N - 1) : A[k] < A[k + 1]
  BY <1>3, <1>4, <1>8
<1> QED
  BY <1>4, <1>8, <1>9 DEF A, Step

\* A set of numbers below N that has no gap is an interval.
LEMMA NoGap ==
    ASSUME NEW N \in Nat, NEW D \in SUBSET (0..(N - 1)),
           \A k \in Nat : k + 1 \in D => k \in D
    PROVE  Cardinality(D) \in Nat /\ D = 0..(Cardinality(D) - 1)
<1> DEFINE T == {k \in Nat : k \notin D}
<1>1. N \in T
  OBVIOUS
<1>2. PICK m \in T : \A k \in T : m <= k
  BY <1>1, LeastElement
<1>3. m \in Nat /\ m \notin D /\ \A k \in 0..(m - 1) : k \in D
  BY <1>2
<1>4. \A k \in Nat : m + k \notin D
  <2> DEFINE S == {k \in Nat : m + k \notin D}
  <2>1. 0 \in S
    BY <1>3
  <2>2. \A k \in Nat : k \in S => k + 1 \in S
    <3>1. SUFFICES ASSUME NEW k \in Nat, m + k \notin D PROVE m + (k + 1) \notin D
      OBVIOUS
    <3>2. m + k \in Nat /\ (m + k) + 1 = m + (k + 1)
      BY <1>3
    <3> QED
      BY <3>1, <3>2
  <2> HIDE DEF S
  <2>3. Nat \subseteq S
    BY <2>1, <2>2, SetInduction
  <2> QED
    BY <2>3 DEF S
<1>5. \A k \in D : k < m
  <2>1. SUFFICES ASSUME NEW k \in D, ~(k < m) PROVE FALSE
    OBVIOUS
  <2>2. k - m \in Nat /\ m + (k - m) = k
    BY <1>3, <2>1
  <2> QED
    BY <1>4, <2>2
<1>6. D = 0..(m - 1)
  <2>1. D \subseteq Nat
    OBVIOUS
  <2>2. D \subseteq 0..(m - 1)
    BY <1>3, <1>5, <2>1
  <2> QED
    BY <1>3, <2>2
<1>7. Cardinality(D) = m
  <2>1. 0 \in Int /\ m - 1 \in Int /\ (IF 0 > m - 1 THEN 0 ELSE (m - 1) - 0 + 1) = m
    BY <1>3
  <2> QED
    BY <1>6, <2>1, FS_Interval
<1> QED
  BY <1>3, <1>6, <1>7

\* The loop makes exactly the rounds whose date lies before endTime.
LEMMA RoundsExact ==
    ASSUME NEW s, isValidSchedule(s), s.interval \in Int, Fits(s), NEW start \in Nat,
           NEW endTime \in Int, endTime >= start
    PROVE  /\ Rounds(s, start, endTime) \in 0..(endTime - start)
           /\ \A k \in 0..(endTime - start) :
                 Anchors(s, start, endTime - start)[k] < endTime <=> k < Rounds(s, start, endTime)
<1> DEFINE N == endTime - start
           A == Anchors(s, start, N)
           D == {k \in 0..(N - 1) : A[k] < endTime}
           n == Cardinality(D)
<1>1. N \in Nat /\ endTime = start + N
  OBVIOUS
<1>2. /\ \A k \in 0..N : A[k] \in Nat /\ A[k] >= start + k
      /\ \A k \in 0..(N - 1) : A[k] < A[k + 1]
  <2> HIDE DEF N
  <2> QED
    BY <1>1, AnchorsGrow
<1>3. Rounds(s, start, endTime) = n
  BY DEF Rounds
<1> HIDE DEF N, A
<1>4. n \in Nat /\ D = 0..(n - 1)
  <2>1. D \in SUBSET (0..(N - 1))
    OBVIOUS
  <2>2. \A k \in Nat : k + 1 \in D => k \in D
    <3>1. SUFFICES ASSUME NEW k \in Nat, k + 1 \in 0..(N - 1), A[k + 1] < endTime
                   PROVE  k \in 0..(N - 1) /\ A[k] < endTime
      OBVIOUS
    <3>2. k \in 0..(N - 1) /\ k \in 0..N /\ k + 1 \in 0..N
      BY <1>1, <3>1
    <3> QED
      BY <1>1, <1>2, <3>1, <3>2
  <2> HIDE DEF D
  <2> QED
    BY <1>1, <2>1, <2>2, NoGap
<1>5. ASSUME NEW k \in 0..N
      PROVE  A[k] < endTime <=> k \in D
  BY <1>1, <1>2, <1>5
<1> HIDE DEF n
<1>6. n \in 0..N
  <2>1. n = 0 \/ n - 1 \in 0..(n - 1)
    BY <1>4
  <2> QED
    BY <1>1, <1>4, <2>1
<1>7. \A k \in 0..N : A[k] < endTime <=> k < n
  <2> HIDE DEF D
  <2> QED
    BY <1>1, <1>4, <1>5
<1> QED
  BY <1>3, <1>6, <1>7 DEF N, A

\* What the proofs assume of a schedule: it was accepted, its fields are
\* numbers, and its step does not overflow.
Proper(s) ==
    /\ isValidSchedule(s)
    /\ s.interval \in Int
    /\ s.by \in Seq(Int) /\ s.count \in Seq(Int) /\ s.until \in Seq(Int)
    /\ Fits(s)

\* A date is never before the epoch.
LEMMA DateType ==
    ASSUME NEW month \in Nat, NEW day \in Nat \ {0}, NEW t \in Nat
    PROVE  Date(month, day, t) \in Nat
<1> DEFINE m == MonthStart(month)
           h == t % Day
           x == m + day - 1
<1>1. m \in Nat /\ Day \in Nat \ {0}
  BY MonthStartGrows, Units
<1>2. h \in Nat
  <2>1. h \in 0..(Day - 1)
    BY TimeOfDay
  <2> HIDE DEF h
  <2> QED
    BY <1>1, <2>1
<1> HIDE DEF m, h
<1>3. x \in Nat
  BY <1>1
<1> HIDE DEF x
<1>4. x * Day \in Nat
  BY <1>1, <1>3
<1>5. Date(month, day, t) = x * Day + h
  BY DEF Date, x, m, h
<1> QED
  BY <1>2, <1>4, <1>5

LEMMA ByDateType ==
    ASSUME NEW s, NEW t \in Nat, NEW b \in ByRange(s.frequency),
           s.frequency \in {"weekly", "monthly", "yearly"}
    PROVE  ByDate(s, t, b) \in Nat
<1>1. CASE s.frequency = "weekly"
  <2> DEFINE k == (b - Weekday(t)) % DaysPerWeek
  <2>1. b \in Int /\ DaysPerWeek \in Nat \ {0}
    BY <1>1, Units DEF ByRange
  <2>2. Weekday(t) \in Int
    BY <2>1, MonthOfDay DEF Weekday
  <2>3. k \in Nat
    <3>1. b - Weekday(t) \in Int
      BY <2>1, <2>2
    <3>2. k \in 0..(DaysPerWeek - 1)
      BY <2>1, <3>1, DivMod, Zenon
    <3> HIDE DEF k
    <3> QED
      BY <2>1, <3>2
  <2>4. ByDate(s, t, b) = AddDate(t, 0, k)
    BY <1>1 DEF ByDate
  <2> HIDE DEF k
  <2>5. AddDate(t, 0, k) = t + k * Day
    BY <2>3, AddDays
  <2>6. k * Day \in Nat
    BY <2>3, Units
  <2> QED
    BY <2>4, <2>5, <2>6
<1>2. CASE s.frequency = "monthly"
  <2>1. b \in Nat \ {0}
    BY <1>2 DEF ByRange
  <2>2. ByDate(s, t, b) = Date(MonthOf(t), b, t)
    BY <1>2 DEF ByDate
  <2> QED
    BY <2>1, <2>2, MonthOfDay, DateType
<1>3. CASE s.frequency = "yearly"
  <2> DEFINE y == YearOf(t)
             m == y * MonthsPerYear + b - 1
  <2>1. b \in Nat \ {0}
    BY <1>3, Units DEF ByRange
  <2>2. y \in Nat
    <3>1. MonthOf(t) \in Nat /\ MonthsPerYear \in Nat \ {0}
      BY MonthOfDay, Units
    <3> DEFINE a == MonthOf(t)
    <3> HIDE DEF a
    <3>2. a \in Nat /\ MonthsPerYear \in Nat \ {0}
      BY <3>1 DEF a
    <3>3. a \div MonthsPerYear \in Nat
      BY <3>2
    <3> QED
      BY <3>3 DEF YearOf, a
  <2>3. m \in Nat
    <3> HIDE DEF y
    <3>1. y * MonthsPerYear \in Nat
      BY <2>2, Units
    <3> QED
      BY <2>1, <3>1
  <2>4. DayOfMonth(t) \in Nat \ {0}
    <3> DEFINE d == DayOf(t)
               x == MonthStart(MonthOf(t))
    <3>1. d \in Nat /\ x \in Nat /\ x <= d
      BY MonthOfDay, MonthStartGrows
    <3>2. DayOfMonth(t) = d - x + 1
      BY DEF DayOfMonth
    <3> HIDE DEF d, x
    <3> QED
      BY <3>1, <3>2
  <2>5. ByDate(s, t, b) = Date(m, DayOfMonth(t), t)
    BY <1>3 DEF ByDate
  <2> HIDE DEF m
  <2> QED
    BY <2>3, <2>4, <2>5, DateType
<1> QED
  BY <1>1, <1>2, <1>3

LEMMA CandidatesDef ==
    ASSUME NEW s, NEW start, NEW endTime
    PROVE  LET A == Anchors(s, start, endTime - start)
               n == Rounds(s, start, endTime)
               by == ByOf(s)
           IN Candidates(s, start, endTime) =
                IF by = <<>>
                THEN [i \in 1..n |-> A[i - 1]]
                ELSE [i \in 1..(n * Len(by)) |->
                        ByDate(s, A[(i - 1) \div Len(by)], by[((i - 1) % Len(by)) + 1])]
BY Zenon DEF Candidates, Anchors, Rounds, SteppedBy

\* The round and the element of "by" that the i-th of n * l dates comes from.
LEMMA RoundAndElement ==
    ASSUME NEW n \in Nat, NEW l \in Nat \ {0}, NEW i \in 1..(n * l)
    PROVE  (i - 1) \div l \in 0..(n - 1) /\ ((i - 1) % l) + 1 \in 1..l
<1> DEFINE q == (i - 1) \div l
           r == (i - 1) % l
<1>0. n * l \in Nat
  OBVIOUS
<1>1. i - 1 \in Int /\ i - 1 >= 0 /\ i - 1 < n * l
  BY <1>0
<1>2. q \in Int /\ r \in 0..(l - 1) /\ i - 1 = q * l + r
  BY <1>1, DivMod, Zenon
<1> HIDE DEF q, r
<1>3. q >= 0
  <2>1. q <= -1 => q * l <= -l
    BY <1>2
  <2> QED
    BY <1>1, <1>2, <2>1
<1>4. q < n
  <2>1. q >= n => q * l >= n * l
    BY <1>2
  <2> QED
    BY <1>0, <1>1, <1>2, <2>1
<1> QED
  BY <1>2, <1>3, <1>4 DEF q, r

LEMMA CandidatesType ==
    ASSUME NEW s, Proper(s), NEW start \in Nat, NEW endTime \in Int
    PROVE  Candidates(s, start, endTime) \in Seq(Nat)
<1> DEFINE N == endTime - start
           A == Anchors(s, start, N)
           n == Rounds(s, start, endTime)
           by == ByOf(s)
           l == Len(by)
<1>1. n \in Nat /\ \A k \in 0..(n - 1) : A[k] \in Nat
  <2>1. CASE endTime >= start
    <3>1. N \in Nat
      BY <2>1
    <3>2. n \in 0..N
      BY <2>1, RoundsExact DEF Proper
    <3> HIDE DEF N, n
    <3>3. \A k \in 0..N : A[k] \in Nat
      BY <3>1, AnchorsGrow DEF Proper
    <3> QED
      BY <3>1, <3>2, <3>3
  <2>2. CASE endTime < start
    <3>1. {k \in 0..(endTime - start - 1) : A[k] < endTime} = {}
      BY <2>2
    <3>2. n = 0
      BY <3>1, FS_EmptySet DEF Rounds
    <3> HIDE DEF n
    <3> QED
      BY <3>2
  <2> QED
    BY <2>1, <2>2
<1>2. by \in Seq(Int) /\ l \in Nat
  BY LenProperties DEF ByOf, Proper
<1>3. CASE by = <<>>
  <2>1. Candidates(s, start, endTime) = [i \in 1..n |-> A[i - 1]]
    BY <1>3, CandidatesDef
  <2> HIDE DEF A, n
  <2>2. \A i \in 1..n : A[i - 1] \in Nat
    BY <1>1
  <2> QED
    BY <1>1, <2>1, <2>2
<1>4. CASE by # <<>>
  <2>1. l \in Nat \ {0}
    BY <1>2, <1>4, EmptySeq
  <2>2. by = s.by /\ s.frequency \in {"weekly", "monthly", "yearly"}
    BY <1>4 DEF ByOf
  <2>3. \A j \in 1..l : by[j] \in ByRange(s.frequency)
    BY <2>2 DEF Proper, isValidSchedule
  <2> DEFINE F(i) == ByDate(s, A[(i - 1) \div l], by[((i - 1) % l) + 1])
             len == n * l
  <2>4. Candidates(s, start, endTime) = [i \in 1..len |-> F(i)]
    BY <1>4, CandidatesDef
  <2>5. ASSUME NEW i \in 1..len
        PROVE  F(i) \in Nat
    <3> DEFINE q == (i - 1) \div l
               r == ((i - 1) % l) + 1
    <3>1. q \in 0..(n - 1) /\ r \in 1..l
      <4> HIDE DEF n, l
      <4> QED
        BY <1>1, <2>1, RoundAndElement
    <3> HIDE DEF q, r, A, by, n, l
    <3>2. A[q] \in Nat /\ by[r] \in ByRange(s.frequency)
      BY <1>1, <2>3, <3>1
    <3>3. ByDate(s, A[q], by[r]) \in Nat
      BY <2>2, <3>2, ByDateType
    <3> QED
      BY <3>3 DEF q, r
  <2>6. len \in Nat
    <3> HIDE DEF n, l
    <3> QED
      BY <1>1, <2>1
  <2> HIDE DEF F, len
  <2> QED
    BY <2>4, <2>5, <2>6
<1> QED
  BY <1>3, <1>4

\* What is handed to ExistsAtTime and scheduleWithRetry are dates in the window,
\* before until (expander.go:119-235).
LEMMA OccurrencesInWindow ==
    ASSUME NEW s, Proper(s), NEW start \in Nat, NEW now \in Nat
    PROVE  /\ Occurrences(s, start, now) \in Seq(Nat)
           /\ \A i \in 1..Len(Occurrences(s, start, now)) :
                 InWindow(Occurrences(s, start, now)[i], now)
<1> DEFINE W == {t \in Int : InWindow(t, now)}
           U == {t \in Int : s.until # <<>> => t < s.until[1]}
           c == Candidates(s, start, now + LookAhead)
           w == Among(c, W)
           u == Truncate(s, w)
           o == Among(u, U)
<1>1. c \in Seq(Nat)
  <2>1. now + LookAhead \in Int
    BY Units
  <2> QED
    BY <2>1, CandidatesType
<1>2. Occurrences(s, start, now) = o
  BY DEF Occurrences
<1> HIDE DEF c, W, U
<1>3. w \in Seq(Nat) /\ \A i \in 1..Len(w) : w[i] \in W
  BY <1>1, AmongKeeps
<1> HIDE DEF w
<1>4. u \in Seq(Nat) /\ \A i \in 1..Len(u) : u[i] \in W
  <2>1. CASE s.count # <<>> /\ Len(w) > s.count[1]
    <3> DEFINE m == s.count[1]
    <3>1. u = SubSeq(w, 1, m)
      BY <2>1 DEF Truncate
    <3>2. m \in Nat \ {0} /\ m < Len(w) /\ Len(w) \in Nat
      <4>1. s.count[1] \in Int
        BY <2>1, EmptySeq, ElementOfSeq, LenProperties DEF Proper
      <4> QED
        BY <1>3, <2>1, <4>1, LenProperties DEF Proper, isValidSchedule
    <3> HIDE DEF m
    <3>3. \A i \in 1..m : w[i] \in Nat
      BY <1>3, <3>2, ElementOfSeq
    <3>4. u \in Seq(Nat) /\ Len(u) = m /\ \A i \in 1..m : u[i] = w[i]
      BY <1>3, <3>1, <3>2, <3>3, SubSeqProperties
    <3> QED
      BY <1>3, <3>2, <3>4
  <2>2. CASE ~(s.count # <<>> /\ Len(w) > s.count[1])
    BY <1>3, <2>2 DEF Truncate
  <2> QED
    BY <2>1, <2>2
<1> HIDE DEF u
<1>5. o \in Seq(Nat) /\ \A i \in 1..Len(o) : \E j \in 1..Len(u) : u[j] = o[i]
  BY <1>4, AmongKeeps
<1> HIDE DEF o
<1>6. \A i \in 1..Len(o) : o[i] \in W
  BY <1>4, <1>5
<1>7. \A i \in 1..Len(o) : InWindow(o[i], now)
  BY <1>6 DEF W
<1> QED
  BY <1>2, <1>5, <1>7

-----------------------------------------------------------------------------
(* The dates of the loop and the dates of the rule *)

LEMMA AnchorsApart ==
    ASSUME NEW s, Proper(s), NEW start \in Nat, NEW N \in Nat
    PROVE  \A j, k \in 0..N : j < k => Anchors(s, start, N)[j] < Anchors(s, start, N)[k]
<1> DEFINE A == Anchors(s, start, N)
<1>1. /\ \A k \in 0..N : A[k] \in Nat
      /\ \A k \in 0..(N - 1) : A[k] < A[k + 1]
  BY AnchorsGrow DEF Proper
<1> HIDE DEF A
<1>2. SUFFICES ASSUME NEW j \in 0..N PROVE \A k \in 0..N : j < k => A[j] < A[k]
  BY DEF A
<1> DEFINE Good == {k \in Nat : k <= N => (j < k => A[j] < A[k])}
<1>3. 0 \in Good
  OBVIOUS
<1>4. ASSUME NEW k \in Nat, k \in Good
      PROVE  k + 1 \in Good
  <2>1. SUFFICES ASSUME k + 1 <= N, j < k + 1
                 PROVE  A[j] < A[k + 1]
    OBVIOUS
  <2>2. k \in 0..(N - 1) /\ k \in 0..N /\ k + 1 \in 0..N
    BY <2>1
  <2>3. A[k] < A[k + 1] /\ A[k] \in Nat /\ A[k + 1] \in Nat /\ A[j] \in Nat
    BY <1>1, <2>2
  <2>4. CASE j < k
    BY <1>4, <2>2, <2>3, <2>4
  <2>5. CASE j = k
    BY <2>3, <2>5
  <2> QED
    BY <2>1, <2>4, <2>5
<1> HIDE DEF Good
<1>5. Nat \subseteq Good
  BY <1>3, <1>4, SetInduction
<1> QED
  BY <1>5 DEF Good

\* Without a list, the loop finds exactly the anchors before endTime, each once.
LEMMA AnchorsFound ==
    ASSUME NEW s, Proper(s), ByOf(s) = <<>>, NEW start \in Nat, NEW endTime \in Int,
           endTime >= start
    PROVE  LET c == Candidates(s, start, endTime)
               A == Anchors(s, start, endTime - start)
           IN /\ \A t \in Int : t < endTime =>
                    ((\E i \in 1..Len(c) : c[i] = t) <=> \E k \in 0..(endTime - start) : A[k] = t)
              /\ \A i, j \in 1..Len(c) : c[i] = c[j] => i = j
<1> DEFINE N == endTime - start
           A == Anchors(s, start, N)
           n == Rounds(s, start, endTime)
           c == Candidates(s, start, endTime)
<1>1. N \in Nat
  OBVIOUS
<1>2. n \in 0..N /\ \A k \in 0..N : A[k] < endTime <=> k < n
  BY RoundsExact DEF Proper
<1>3. c = [i \in 1..n |-> A[i - 1]]
  BY CandidatesDef
<1>4. \A j, k \in 0..N : j < k => A[j] < A[k]
  <2> HIDE DEF N
  <2> QED
    BY <1>1, AnchorsApart
<1>5. \A k \in 0..N : A[k] \in Nat
  <2> HIDE DEF N
  <2> QED
    BY <1>1, AnchorsGrow DEF Proper
<1>6. SUFFICES /\ \A t \in Int : t < endTime =>
                    ((\E i \in 1..Len(c) : c[i] = t) <=> \E k \in 0..N : A[k] = t)
               /\ \A i, j \in 1..Len(c) : c[i] = c[j] => i = j
  OBVIOUS
<1> HIDE DEF N, A, n, c
<1>7. Len(c) = n /\ \A i \in 1..n : c[i] = A[i - 1] /\ i - 1 \in 0..N
  BY <1>1, <1>2, <1>3
<1>8. ASSUME NEW t \in Int, t < endTime, NEW k \in 0..N, A[k] = t
      PROVE  \E i \in 1..Len(c) : c[i] = t
  <2>1. k < n
    BY <1>2, <1>8
  <2>2. k + 1 \in 1..n /\ (k + 1) - 1 = k
    BY <1>1, <1>2, <2>1
  <2> QED
    BY <1>7, <1>8, <2>2
<1>9. ASSUME NEW i \in 1..Len(c), NEW j \in 1..Len(c), c[i] = c[j]
      PROVE  i = j
  <2>1. A[i - 1] = A[j - 1] /\ i - 1 \in 0..N /\ j - 1 \in 0..N
    BY <1>7, <1>9
  <2>2. A[i - 1] \in Nat /\ A[j - 1] \in Nat
    BY <1>5, <2>1
  <2>3. ~(i - 1 < j - 1) /\ ~(j - 1 < i - 1)
    BY <1>4, <2>1, <2>2
  <2> QED
    BY <1>1, <1>2, <1>7, <2>3
<1> QED
  BY <1>7, <1>8, <1>9

\* Minutes, hours, days and weeks are steps of one length.
LEMMA ConstantStep ==
    ASSUME NEW s, Proper(s), s.frequency \in {"minutely", "hourly", "daily", "weekly"}
    PROVE  /\ Steps(s) \in Nat \ {0}
           /\ \A t \in Nat : NextAnchor(s, t) = t + Steps(s)
<1> DEFINE n == s.interval
<1>1. n \in Nat \ {0}
  BY DEF Proper, isValidSchedule
<1>2. SUFFICES ASSUME NEW t \in Nat
               PROVE  Steps(s) \in Nat \ {0} /\ NextAnchor(s, t) = t + Steps(s)
  <2>1. \E x : x \in Nat
    BY Units
  <2> QED
    BY <2>1
<1> HIDE DEF n
<1>3. CASE s.frequency = "minutely"
  <2>1. n * Minute \in Nat \ {0} /\ n * Minute < MaxDuration
    BY <1>1, <1>3, Units, Product DEF Proper, Fits, n
  <2>2. Wrapped(n * Minute) = n * Minute
    BY <2>1, NotWrapped
  <2>3. NextAnchor(s, t) = t + Wrapped(n * Minute) /\ Steps(s) = n * Minute
    BY <1>3 DEF NextAnchor, Steps, n
  <2> QED
    BY <2>1, <2>2, <2>3
<1>4. CASE s.frequency = "hourly"
  <2>1. n * Hour \in Nat \ {0} /\ n * Hour < MaxDuration
    BY <1>1, <1>4, Units, Product DEF Proper, Fits, n
  <2>2. Wrapped(n * Hour) = n * Hour
    BY <2>1, NotWrapped
  <2>3. NextAnchor(s, t) = t + Wrapped(n * Hour) /\ Steps(s) = n * Hour
    BY <1>4 DEF NextAnchor, Steps, n
  <2> QED
    BY <2>1, <2>2, <2>3
<1>5. CASE s.frequency = "daily"
  <2>1. n * Day \in Nat \ {0}
    BY <1>1, Units, Product
  <2>2. NextAnchor(s, t) = AddDate(t, 0, n) /\ Steps(s) = n * Day
    BY <1>5 DEF NextAnchor, Steps, n
  <2>3. AddDate(t, 0, n) = t + n * Day
    BY <1>1, AddDays
  <2> QED
    BY <2>1, <2>2, <2>3
<1>6. CASE s.frequency = "weekly"
  <2> DEFINE k == DaysPerWeek * n
  <2>1. k \in Nat \ {0}
    BY <1>1, Units, Product
  <2>2. NextAnchor(s, t) = AddDate(t, 0, k) /\ Steps(s) = (n * DaysPerWeek) * Day
    BY <1>6 DEF NextAnchor, Steps, n
  <2>3. n * DaysPerWeek = k
    BY <1>1, Units
  <2> HIDE DEF k
  <2>4. AddDate(t, 0, k) = t + k * Day
    BY <2>1, AddDays
  <2>5. k * Day \in Nat \ {0}
    BY <2>1, Units, Product
  <2> QED
    BY <2>2, <2>3, <2>4, <2>5
<1> QED
  BY <1>3, <1>4, <1>5, <1>6

LEMMA ConstantAnchors ==
    ASSUME NEW s, Proper(s), s.frequency \in {"minutely", "hourly", "daily", "weekly"},
           NEW start \in Nat, NEW N \in Nat
    PROVE  \A k \in 0..N : Anchors(s, start, N)[k] = start + k * Steps(s)
<1> DEFINE A == Anchors(s, start, N)
           S == Steps(s)
<1>1. S \in Nat \ {0} /\ \A t \in Nat : NextAnchor(s, t) = t + S
  BY ConstantStep
<1>2. /\ A[0] = start /\ \A k \in 0..N : A[k] \in Nat
      /\ \A k \in 0..(N - 1) : A[k + 1] = NextAnchor(s, A[k])
  <2>1. isValidSchedule(s) /\ s.interval \in Int /\ Fits(s)
    BY DEF Proper
  <2>2. /\ A[0] = start
        /\ \A k \in 0..N : A[k] \in Nat /\ A[k] >= start + k
        /\ \A k \in 0..(N - 1) : A[k + 1] = NextAnchor(s, A[k]) /\ A[k] < A[k + 1]
    BY <2>1, AnchorsGrow, Zenon
  <2> QED
    BY <2>2, Zenon
<1> HIDE DEF A, S
<1> DEFINE Good == {k \in Nat : k <= N => A[k] = start + k * S}
<1>3. 0 \in Good
  <2>1. 0 * S = 0
    BY <1>1
  <2> QED
    BY <1>2, <2>1
<1>4. ASSUME NEW k \in Nat, k \in Good
      PROVE  k + 1 \in Good
  <2>1. SUFFICES ASSUME k + 1 <= N PROVE A[k + 1] = start + (k + 1) * S
    OBVIOUS
  <2>2. k \in 0..(N - 1) /\ k \in 0..N /\ A[k] = start + k * S
    BY <1>4, <2>1
  <2>3. A[k + 1] = A[k] + S
    BY <1>1, <1>2, <2>2
  <2>4. (k + 1) * S = k * S + S /\ k * S \in Nat
    BY <1>1
  <2> QED
    BY <1>1, <2>2, <2>3, <2>4
<1> HIDE DEF Good
<1>5. Nat \subseteq Good
  BY <1>3, <1>4, SetInduction
<1> QED
  BY <1>5 DEF Good, A, S

\* What the loop takes for a date of the rule: weeks are counted from the start,
\* and until is not one (expander.go:163, 228).
Found(s, start, t) ==
    /\ t >= start
    /\ s.until # <<>> => t < s.until[1]
    /\ CASE s.frequency = "weekly" /\ s.by # <<>> ->
              /\ t % Day = start % Day
              /\ \E i \in 1..Len(s.by) : s.by[i] = Weekday(t)
              /\ ((DayOf(t) - DayOf(start)) \div DaysPerWeek) % s.interval = 0
         [] s.frequency \in {"monthly", "yearly"} ->
              /\ t % Day = start % Day
              /\ IF s.frequency = "monthly" /\ s.by # <<>>
                 THEN \E i \in 1..Len(s.by) : s.by[i] = DayOfMonth(t)
                 ELSE DayOfMonth(t) = DayOfMonth(start)
              /\ IF s.frequency = "yearly" /\ s.by # <<>>
                 THEN /\ \E i \in 1..Len(s.by) : s.by[i] = (MonthOf(t) % MonthsPerYear) + 1
                      /\ (YearOf(t) - YearOf(start)) % s.interval = 0
                 ELSE (MonthOf(t) - MonthOf(start)) % MonthsApart(s) = 0
         [] OTHER -> (t - start) % Steps(s) = 0

LEMMA StepsFound ==
    ASSUME NEW s, Proper(s), s.frequency \in {"minutely", "hourly", "daily", "weekly"},
           ByOf(s) = <<>>, NEW start \in Nat, NEW N \in Nat,
           NEW t \in Nat, t < start + N, s.until # <<>> => t < s.until[1]
    PROVE  (\E k \in 0..N : Anchors(s, start, N)[k] = t) <=> Found(s, start, t)
<1> DEFINE A == Anchors(s, start, N)
           S == Steps(s)
<1>1. S \in Nat \ {0}
  BY ConstantStep
<1>2. \A k \in 0..N : A[k] = start + k * S
  BY ConstantAnchors
<1>3. Found(s, start, t) <=> t >= start /\ (t - start) % S = 0
  <2>1. ~(s.frequency = "weekly" /\ s.by # <<>>) /\ s.frequency \notin {"monthly", "yearly"}
    BY DEF ByOf
  <2> QED
    BY <2>1, Zenon DEF Found
<1> HIDE DEF A, S
<1>4. ASSUME NEW k \in 0..N, A[k] = t
      PROVE  t >= start /\ (t - start) % S = 0
  <2>1. k * S \in Nat /\ t - start = k * S + 0
    BY <1>1, <1>2, <1>4
  <2>2. (k * S + 0) % S = 0
    BY <1>1, DivModOf
  <2> QED
    BY <2>1, <2>2
<1>5. ASSUME t >= start, (t - start) % S = 0
      PROVE  \E k \in 0..N : A[k] = t
  <2> DEFINE d == t - start
             k == d \div S
  <2>1. d \in Nat /\ d < N /\ t = start + d
    BY <1>5
  <2>2. k \in Int /\ d = k * S + (d % S) /\ d % S = 0
    BY <1>1, <1>5, <2>1, DivMod
  <2> HIDE DEF d, k
  <2>3. k \in Int /\ d = k * S
    BY <1>1, <2>2
  <2>4. k \in 0..N
    <3>1. k <= -1 => k * S <= -1
      BY <1>1, <2>3
    <3>2. k >= 0 => k * S >= k
      BY <1>1, <2>3
    <3> QED
      BY <2>1, <2>3, <3>1, <3>2
  <2> QED
    BY <1>2, <2>1, <2>3, <2>4
<1> QED
  BY <1>3, <1>4, <1>5 DEF A

-----------------------------------------------------------------------------
(* Weekdays *)

\* Which of the days from a on is the weekday b.
LEMMA DaysUntil ==
    ASSUME NEW W \in Nat \ {0}, NEW a \in Int, NEW b \in 0..(W - 1), NEW j \in 0..(W - 1)
    PROVE  j = (b - (a % W)) % W <=> (a + j) % W = b
<1> DEFINE q == a \div W
           r == a % W
<1>1. q \in Int /\ r \in 0..(W - 1) /\ a = q * W + r
  BY DivMod
<1> HIDE DEF q, r
<1>2. ASSUME j = (b - r) % W
      PROVE  (a + j) % W = b
  <2> DEFINE x == b - r
             p == x \div W
  <2>1. x \in Int
    BY <1>1
  <2>2. p \in Int /\ x = p * W + j
    <3> HIDE DEF x
    <3> QED
      BY <1>2, <2>1, DivMod DEF x
  <2> HIDE DEF p
  <2>3. a + j = (q - p) * W + b /\ q - p \in Int
    BY <1>1, <2>2
  <2> QED
    BY <2>3, DivModOf
<1>3. ASSUME (a + j) % W = b
      PROVE  j = (b - r) % W
  <2> DEFINE x == a + j
             p == x \div W
  <2>1. x \in Int
    BY <1>1
  <2>2. p \in Int /\ x = p * W + b
    <3> HIDE DEF x
    <3> QED
      BY <1>3, <2>1, DivMod DEF x
  <2> HIDE DEF p
  <2>3. b - r = (q - p) * W + j /\ q - p \in Int
    BY <1>1, <2>2
  <2> QED
    BY <2>3, DivModOf
<1> QED
  BY <1>2, <1>3 DEF r

\* So many days later at the same time of day.
LEMMA DaysLater ==
    ASSUME NEW start \in Nat, NEW t \in Nat, NEW d \in Int
    PROVE  t = start + d * Day <=> t % Day = start % Day /\ DayOf(t) - DayOf(start) = d
<1> DEFINE a == DayOf(start)
           h == start % Day
           b == DayOf(t)
           g == t % Day
<1>1. Day \in Nat \ {0}
  BY Units
<1>2. start = a * Day + h /\ h \in 0..(Day - 1) /\ a \in Nat
  BY TimeOfDay, Zenon
<1>3. t = b * Day + g /\ g \in 0..(Day - 1) /\ b \in Nat
  BY TimeOfDay, Zenon
<1> HIDE DEF a, h, b, g
<1>4. ASSUME t = start + d * Day
      PROVE  g = h /\ b - a = d
  <2>1. b * Day + g = (a + d) * Day + h /\ a + d \in Int
    BY <1>1, <1>2, <1>3, <1>4
  <2>2. b = a + d /\ g = h
    BY <1>1, <1>2, <1>3, <2>1, DivModUnique
  <2> QED
    BY <1>2, <1>3, <2>2
<1>5. ASSUME g = h, b - a = d
      PROVE  t = start + d * Day
  <2>1. b = a + d
    BY <1>2, <1>3, <1>5
  <2>2. (a + d) * Day = a * Day + d * Day
    BY <1>1, <1>2
  <2> QED
    BY <1>1, <1>2, <1>3, <1>5, <2>1, <2>2
<1> QED
  BY <1>4, <1>5 DEF a, h, b, g

\* The date that a weekday of the list makes of the k-th anchor is the one day
\* with this weekday in the week that begins at the anchor.
LEMMA WeekdayDate ==
    ASSUME NEW s, Proper(s), s.frequency = "weekly", NEW start \in Nat, NEW k \in Nat,
           NEW r \in 1..Len(s.by), NEW t \in Nat
    PROVE  ByDate(s, start + k * Steps(s), s.by[r]) = t
              <=> /\ t % Day = start % Day /\ Weekday(t) = s.by[r]
                  /\ \E j \in 0..(DaysPerWeek - 1) :
                        DayOf(t) - DayOf(start) = k * (s.interval * DaysPerWeek) + j
<1> DEFINE W == DaysPerWeek
           w == s.interval * W
           x == k * w
           a == start + k * Steps(s)
           b == s.by[r]
           c == DayOf(a)
           j0 == (b - (c % W)) % W
<1>1. W \in Nat \ {0} /\ Day \in Nat \ {0} /\ s.interval \in Nat \ {0}
  BY Units DEF Proper, isValidSchedule
<1>2. w \in Nat \ {0}
  <2> DEFINE n == s.interval
  <2> HIDE DEF n, W
  <2>1. n * W \in Nat \ {0}
    BY <1>1, Product DEF n
  <2> QED
    BY <2>1 DEF n
<1>3. b \in 0..(W - 1)
  BY DEF Proper, isValidSchedule, ByRange
<1>4. Steps(s) = w * Day
  BY DEF Steps
<1>5. ByDate(s, a, b) = AddDate(a, 0, j0)
  BY DEF ByDate, Weekday
<1> HIDE DEF w
<1>6. x \in Nat /\ a \in Nat /\ a = start + x * Day
  <2>1. x \in Nat
    BY <1>2
  <2>2. k * (w * Day) = (k * w) * Day
    BY <1>1, <1>2
  <2>3. a = start + x * Day
    BY <1>4, <2>2
  <2> HIDE DEF x, a
  <2>4. x * Day \in Nat
    BY <1>1, <2>1
  <2> QED
    BY <2>1, <2>3, <2>4
<1> HIDE DEF x, a
<1>7. c \in Nat /\ c - DayOf(start) = x /\ DayOf(start) \in Nat /\ DayOf(t) \in Nat
  <2>1. c - DayOf(start) = x
    BY <1>6, DaysLater
  <2> QED
    BY <1>6, <2>1, MonthOfDay
<1> HIDE DEF b, c
<1>8. j0 \in 0..(W - 1)
  <2> DEFINE y == b - (c % W)
  <2>1. c % W \in Int /\ b \in Int
    BY <1>1, <1>3, <1>7
  <2>2. y \in Int
    BY <2>1
  <2>3. j0 = y % W
    OBVIOUS
  <2> HIDE DEF y, W, j0
  <2> QED
    BY <1>1, <2>2, <2>3, DivMod
<1>9. \A j \in 0..(W - 1) : j = j0 <=> (c + j) % W = b
  <2> HIDE DEF W
  <2>1. c \in Int /\ W \in Nat \ {0}
    BY <1>1, <1>7
  <2>2. SUFFICES ASSUME NEW j \in 0..(W - 1)
                 PROVE  j = (b - (c % W)) % W <=> (c + j) % W = b
    OBVIOUS
  <2> QED
    BY <1>3, <2>1, DaysUntil, ZenonT(90)
<1>10. Weekday(t) = DayOf(t) % W
  BY DEF Weekday
<1> HIDE DEF W, j0
<1>11. AddDate(a, 0, j0) = start + (x + j0) * Day
  <2>1. j0 \in Int
    BY <1>1, <1>8
  <2>2. AddDate(a, 0, j0) = a + j0 * Day
    BY <1>6, <2>1, AddDays
  <2>3. (x + j0) * Day = x * Day + j0 * Day
    BY <1>1, <1>6, <2>1
  <2> QED
    BY <1>1, <1>6, <2>1, <2>2, <2>3
<1> DEFINE D == DayOf(t) - DayOf(start)
<1>12. \A d \in Int : t = start + d * Day <=> t % Day = start % Day /\ D = d
  BY DaysLater
<1>13. ASSUME AddDate(a, 0, j0) = t
       PROVE  t % Day = start % Day /\ DayOf(t) % W = b /\ D = x + j0
  <2>1. x + j0 \in Int
    BY <1>1, <1>6, <1>8
  <2>2. t % Day = start % Day /\ D = x + j0
    BY <1>11, <1>12, <1>13, <2>1
  <2>3. DayOf(t) = c + j0
    BY <1>1, <1>7, <1>8, <2>2
  <2> QED
    BY <1>8, <1>9, <2>2, <2>3
<1>14. ASSUME t % Day = start % Day, DayOf(t) % W = b, NEW j \in 0..(W - 1), D = x + j
       PROVE  AddDate(a, 0, j0) = t
  <2>0. D = x + j /\ j \in Int /\ x \in Int
    BY <1>1, <1>6, <1>14
  <2>1. DayOf(t) = c + j
    BY <1>7, <2>0
  <2>2. j = j0
    BY <1>9, <1>14, <2>1
  <2>3. x + j0 \in Int
    BY <1>1, <1>6, <1>8
  <2> QED
    BY <1>11, <1>12, <1>14, <2>2, <2>3
<1>15. ByDate(s, a, b) = t <=> /\ t % Day = start % Day /\ DayOf(t) % W = b
                               /\ \E j \in 0..(W - 1) : D = x + j
  BY <1>5, <1>8, <1>13, <1>14
<1> QED
  BY <1>10, <1>15 DEF a, b, x, w, W

\* The i-th of the dates of a list and the round and element it comes from.
LEMMA IndexOf ==
    ASSUME NEW n \in Nat, NEW l \in Nat \ {0}, NEW q \in 0..(n - 1), NEW r \in 1..l
    PROVE  LET i == q * l + r IN
           i \in 1..(n * l) /\ (i - 1) \div l = q /\ ((i - 1) % l) + 1 = r
<1> DEFINE i == q * l + r
<1>1. q \in Nat /\ q * l \in Nat /\ n * l \in Nat
  OBVIOUS
<1>2. (q + 1) * l <= n * l
  <2>1. n - (q + 1) \in Nat
    OBVIOUS
  <2>2. (n - (q + 1)) * l \in Nat
    BY <2>1
  <2>3. n * l = (q + 1) * l + (n - (q + 1)) * l
    BY <1>1
  <2> QED
    BY <1>1, <2>2, <2>3
<1>3. (q + 1) * l = q * l + l
  BY <1>1
<1>4. i \in 1..(n * l)
  BY <1>1, <1>2, <1>3
<1>5. i - 1 = q * l + (r - 1) /\ r - 1 \in 0..(l - 1)
  BY <1>1
<1>6. (i - 1) \div l = q /\ (i - 1) % l = r - 1
  <2> DEFINE p == r - 1
  <2>1. p \in 0..(l - 1) /\ q \in Int /\ i - 1 = q * l + p
    BY <1>1, <1>5
  <2> HIDE DEF i, p
  <2>2. (q * l + p) \div l = q /\ (q * l + p) % l = p
    BY <2>1, DivModOf
  <2> QED
    BY <2>1, <2>2 DEF p
<1> HIDE DEF i
<1>7. ((i - 1) % l) + 1 = r
  BY <1>6
<1> QED
  BY <1>4, <1>6, <1>7 DEF i

\* With a list of weekdays, the loop finds exactly these dates before
\* endTime, whatever the order of the list and the weekday of the start
\* (expander.go:160-174), each once if the list names no weekday twice.
LEMMA WeekdaysFound ==
    ASSUME NEW s, Proper(s), s.frequency = "weekly", s.by # <<>>,
           NEW start \in Nat, NEW endTime \in Int, endTime >= start
    PROVE  LET c == Candidates(s, start, endTime) IN
           /\ \A t \in Nat : t < endTime /\ (s.until # <<>> => t < s.until[1]) =>
                 ((\E i \in 1..Len(c) : c[i] = t) <=> Found(s, start, t))
           /\ (\A i, j \in 1..Len(s.by) : s.by[i] = s.by[j] => i = j) =>
                 \A i, j \in 1..Len(c) : c[i] = c[j] => i = j
<1> DEFINE N == endTime - start
           A == Anchors(s, start, N)
           n == Rounds(s, start, endTime)
           c == Candidates(s, start, endTime)
           by == s.by
           l == Len(by)
           v == s.interval
           W == DaysPerWeek
           w == v * W
           D(t) == DayOf(t) - DayOf(start)
           S == Steps(s)
           Of(k, r, t) ==
             /\ t % Day = start % Day /\ Weekday(t) = by[r]
             /\ \E j \in 0..(W - 1) : D(t) = k * w + j
           F(i) == ByDate(s, A[(i - 1) \div l], by[((i - 1) % l) + 1])
<1>1. N \in Nat /\ endTime = start + N
  OBVIOUS
<1>2. n \in 0..N /\ \A k \in 0..N : A[k] < endTime <=> k < n
  BY RoundsExact DEF Proper
<1>3. by \in Seq(Int) /\ l \in Nat \ {0} /\ \A r \in 1..l : by[r] \in 0..(W - 1)
  <2>1. by \in Seq(Int) /\ \A r \in 1..l : by[r] \in 0..(W - 1)
    BY DEF Proper, isValidSchedule, ByRange
  <2> QED
    BY <2>1, EmptySeq, LenProperties
<1>4. v \in Nat \ {0} /\ W \in Nat \ {0} /\ Day \in Nat \ {0}
  BY Units DEF Proper, isValidSchedule
<1>5. w \in Nat \ {0} /\ W <= w
  <2> HIDE DEF v, W
  <2>1. v * W \in Nat \ {0}
    BY <1>4, Product
  <2>2. v * W >= W
    BY <1>4
  <2> QED
    BY <1>4, <2>1, <2>2
<1>6. S = w * Day /\ S \in Nat \ {0}
  <2>1. S = w * Day
    BY DEF Steps
  <2> QED
    BY <2>1, ConstantStep
<1>7. c = [i \in 1..(n * l) |-> F(i)]
  <2>1. ByOf(s) = by
    BY DEF ByOf
  <2> QED
    BY <2>1, CandidatesDef
<1>8. \A k \in 0..N : A[k] = start + k * S
  <2> HIDE DEF N
  <2> QED
    BY <1>1, ConstantAnchors
<1>9. \A k \in Nat, r \in 1..l, t \in Nat : ByDate(s, start + k * S, by[r]) = t <=> Of(k, r, t)
  BY WeekdayDate
<1>10. c \in Seq(Nat)
  BY CandidatesType
<1> HIDE DEF N, A, n, c, w, S, F
<1>11. \A t \in Nat : D(t) \in Int
  BY MonthOfDay
<1>12. n * l \in Nat /\ Len(c) = n * l /\ \A i \in 1..(n * l) : c[i] = F(i) /\ c[i] \in Nat
  <2>1. n * l \in Nat
    BY <1>1, <1>2, <1>3
  <2>2. Len(c) = n * l
    BY <1>7, <1>10, <2>1, LenProperties
  <2> QED
    BY <1>7, <1>10, <2>1, <2>2, ElementOfSeq
<1> HIDE DEF l
<1>13. ASSUME NEW i \in 1..(n * l)
       PROVE  /\ (i - 1) \div l \in 0..(n - 1) /\ ((i - 1) % l) + 1 \in 1..l
              /\ Of((i - 1) \div l, ((i - 1) % l) + 1, c[i])
  <2> DEFINE q == (i - 1) \div l
             r == ((i - 1) % l) + 1
  <2>1. q \in 0..(n - 1) /\ r \in 1..l
    <3>1. n \in Nat
      BY <1>1, <1>2
    <3> QED
      BY <1>3, <3>1, RoundAndElement
  <2>2. c[i] = ByDate(s, A[q], by[r])
    BY <1>12 DEF F
  <2> HIDE DEF q, r
  <2>3. q \in 0..N /\ q \in Nat
    BY <1>1, <1>2, <2>1
  <2>4. c[i] = ByDate(s, start + q * S, by[r]) /\ c[i] \in Nat
    BY <1>8, <1>12, <2>2, <2>3
  <2> HIDE DEF Of
  <2>5. Of(q, r, c[i])
    BY <1>9, <2>1, <2>3, <2>4
  <2> QED
    BY <2>1, <2>5 DEF q, r
<1> DEFINE OnWeek(t) ==
             /\ t >= start
             /\ t % Day = start % Day
             /\ \E i \in 1..l : by[i] = Weekday(t)
             /\ (D(t) \div W) % v = 0
<1>14. \A t \in Nat : (s.until # <<>> => t < s.until[1]) => (Found(s, start, t) <=> OnWeek(t))
  BY Zenon DEF Found, l
<1> HIDE DEF v, W
<1>15. \A k \in Int : k * w = (k * v) * W
  BY <1>4 DEF w
<1>16. ASSUME NEW k \in Nat, NEW r \in 1..l, NEW t \in Nat, Of(k, r, t)
       PROVE  OnWeek(t)
  <2>1. PICK j \in 0..(W - 1) : D(t) = k * w + j
    BY <1>16
  <2> DEFINE e == k * v
             d == D(t)
  <2>2. e \in Int /\ e = k * v + 0
    BY <1>4
  <2>3. d = e * W + j
    BY <1>15, <2>1
  <2>4. e % v = 0
    <3>1. (k * v + 0) % v = 0
      BY <1>4, DivModOf
    <3> QED
      BY <2>2, <3>1
  <2> HIDE DEF e
  <2>5. (e * W + j) \div W = e
    BY <1>4, <2>2, DivModOf
  <2>6. (D(t) \div W) % v = 0
    BY <2>3, <2>4, <2>5
  <2>7. t >= start
    <3>1. d \in Int /\ d >= 0
      <4>1. k * w \in Nat
        BY <1>5
      <4> HIDE DEF d
      <4>2. d = k * w + j
        BY <2>1 DEF d
      <4> QED
        BY <1>4, <4>1, <4>2
    <3>2. t = start + d * Day
      BY <1>16, <3>1, DaysLater
    <3> HIDE DEF d
    <3>3. d * Day \in Nat
      BY <1>4, <3>1
    <3> QED
      BY <3>2, <3>3
  <2> QED
    BY <1>16, <2>6, <2>7
<1>17. ASSUME NEW t \in Nat, t < endTime, OnWeek(t)
       PROVE  \E k \in 0..(n - 1), r \in 1..l : Of(k, r, t)
  <2>1. PICK r \in 1..l : by[r] = Weekday(t)
    BY <1>17
  <2> DEFINE d == D(t)
             e == d \div W
             j == d % W
             k == e \div v
  <2>2. d \in Int /\ t = start + d * Day
    <3>1. d \in Int
      BY <1>11
    <3> QED
      BY <1>17, <3>1, DaysLater
  <2>3. e \in Int /\ j \in 0..(W - 1) /\ d = e * W + j /\ e % v = 0
    <3>1. e % v = 0
      BY <1>17
    <3> HIDE DEF d
    <3> QED
      BY <1>4, <2>2, <3>1, DivMod
  <2> HIDE DEF d, e, j
  <2>4. k \in Int /\ e = k * v
    BY <1>4, <2>3, DivMod
  <2> HIDE DEF k
  <2>5. d = k * w + j
    BY <1>15, <2>3, <2>4
  <2>6. d >= 0
    <3>1. d <= -1 => d * Day <= -1
      BY <1>4, <2>2
    <3>2. d * Day \in Int /\ t >= start
      BY <1>4, <1>17, <2>2
    <3> QED
      BY <2>2, <3>1, <3>2
  <2>7. k >= 0
    <3>1. k <= -1 => k * w <= -w
      BY <1>5, <2>4
    <3> QED
      BY <1>4, <1>5, <2>3, <2>4, <2>5, <2>6, <3>1
  <2>8. k * S <= d * Day
    <3>1. d * Day = (k * w) * Day + j * Day /\ (k * w) * Day = k * (w * Day) /\ j * Day >= 0
      BY <1>4, <1>5, <2>3, <2>4, <2>5
    <3>2. (k * w) * Day = k * S
      BY <1>6, <3>1
    <3> DEFINE x == (k * w) * Day
               y == j * Day
    <3>3. x \in Int /\ y \in Nat
      <4>1. k * w \in Int /\ j \in Nat
        BY <1>4, <1>5, <2>3, <2>4
      <4> QED
        BY <1>4, <4>1
    <3>4. d * Day = x + y /\ k * S = x
      BY <3>1, <3>2
    <3> HIDE DEF x, y
    <3> QED
      BY <3>3, <3>4
  <2>9. k \in 0..N
    <3>1. k * S >= k
      BY <1>6, <2>4, <2>7
    <3>2. k * S \in Int /\ d * Day \in Int /\ d * Day < N
      BY <1>1, <1>4, <1>6, <1>17, <2>2, <2>4
    <3> QED
      BY <1>1, <2>4, <2>7, <2>8, <3>1, <3>2
  <2>10. k < n
    <3>1. A[k] = start + k * S /\ k * S \in Int /\ d * Day \in Int
      BY <1>4, <1>6, <1>8, <2>2, <2>4, <2>9
    <3>2. A[k] < endTime
      BY <1>17, <2>2, <2>8, <3>1
    <3> QED
      BY <1>2, <2>9, <3>2
  <2>11. k \in 0..(n - 1)
    BY <1>1, <1>2, <2>9, <2>10
  <2>12. Of(k, r, t)
    BY <1>17, <2>1, <2>3, <2>5 DEF d
  <2> QED
    BY <2>11, <2>12
<1>18. ASSUME NEW t \in Nat, NEW k \in 0..(n - 1), NEW r \in 1..l, Of(k, r, t)
       PROVE  \E i \in 1..Len(c) : c[i] = t
  <2> DEFINE i == k * l + r
  <2>1. n \in Nat /\ k \in Nat /\ k \in 0..N
    BY <1>1, <1>2
  <2>2. i \in 1..(n * l) /\ (i - 1) \div l = k /\ ((i - 1) % l) + 1 = r
    BY <1>3, <2>1, IndexOf
  <2> HIDE DEF i, Of
  <2>3. c[i] = ByDate(s, start + k * S, by[r])
    BY <1>8, <1>12, <2>1, <2>2 DEF F
  <2>4. c[i] = t
    BY <1>9, <1>18, <2>1, <2>3
  <2> QED
    BY <1>12, <2>2, <2>4
<1>19. ASSUME \A x, y \in 1..l : by[x] = by[y] => x = y,
              NEW i \in 1..(n * l), NEW j \in 1..(n * l), c[i] = c[j]
       PROVE  i = j
  <2> DEFINE q == (i - 1) \div l
             r == ((i - 1) % l) + 1
             q1 == (j - 1) \div l
             r1 == ((j - 1) % l) + 1
             t == c[i]
  <2>1. /\ q \in 0..(n - 1) /\ r \in 1..l /\ Of(q, r, t)
        /\ q1 \in 0..(n - 1) /\ r1 \in 1..l /\ Of(q1, r1, t)
    <3> HIDE DEF Of
    <3> QED
      BY <1>13, <1>19, Zenon
  <2>2. i - 1 = q * l + (r - 1) /\ j - 1 = q1 * l + (r1 - 1)
    <3>1. i - 1 \in Int /\ j - 1 \in Int
      BY <1>12
    <3>2. i - 1 = q * l + ((i - 1) % l) /\ j - 1 = q1 * l + ((j - 1) % l)
      BY <1>3, <3>1, DivMod
    <3>3. (i - 1) % l = r - 1 /\ (j - 1) % l = r1 - 1
      <4>1. (i - 1) % l \in Int /\ (j - 1) % l \in Int
        BY <1>3, <3>1
      <4> QED
        BY <4>1
    <3> QED
      BY <3>2, <3>3
  <2> HIDE DEF q, r, q1, r1, t
  <2>3. q \in Int /\ q1 \in Int
    BY <1>1, <1>2, <2>1
  <2>4. PICK x \in 0..(W - 1) : D(t) = q * w + x
    BY <2>1
  <2>5. PICK y \in 0..(W - 1) : D(t) = q1 * w + y
    BY <2>1
  <2>6. q = q1
    <3>1. x \in 0..(w - 1) /\ y \in 0..(w - 1) /\ q * w + x = q1 * w + y
      BY <1>4, <1>5, <2>4, <2>5
    <3> QED
      BY <1>5, <2>3, <3>1, DivModUnique
  <2>7. r = r1
    BY <1>19, <2>1
  <2> QED
    BY <1>12, <2>2, <2>6, <2>7
<1>20. ASSUME NEW t \in Nat, t < endTime, s.until # <<>> => t < s.until[1]
       PROVE  (\E i \in 1..Len(c) : c[i] = t) <=> Found(s, start, t)
  <2>1. Found(s, start, t) <=> OnWeek(t)
    BY <1>14, <1>20
  <2>2. ASSUME NEW i \in 1..Len(c), c[i] = t
        PROVE  OnWeek(t)
    <3> DEFINE q == (i - 1) \div l
               r == ((i - 1) % l) + 1
    <3> HIDE DEF Of, OnWeek
    <3>1. q \in 0..(n - 1) /\ r \in 1..l /\ Of(q, r, t)
      BY <1>12, <1>13, <2>2
    <3> HIDE DEF q, r
    <3>2. q \in Nat
      BY <1>1, <1>2, <3>1
    <3> QED
      BY <1>16, <3>1, <3>2
  <2> HIDE DEF OnWeek, Of
  <2> QED
    BY <1>17, <1>18, <1>20, <2>1, <2>2
<1> QED
  BY <1>12, <1>19, <1>20 DEF c, l

-----------------------------------------------------------------------------
(* Months *)

LEMMA MonthLength ==
    ASSUME NEW m \in Nat
    PROVE  \E i \in 1..M : MonthStart(m + 1) = MonthStart(m) + MonthLengths[i]
<1> USE LengthsType
<1> DEFINE q == m \div M
           r == m % M
           P == Prefix[M]
<1>1. q \in Int /\ r \in 0..(M - 1) /\ m = q * M + r
  BY DivMod
<1>2. MonthStart(m) = q * P + Prefix[r]
  BY DEF MonthStart, M
<1>3. r + 1 \in 1..M /\ Prefix[r + 1] = Prefix[r] + MonthLengths[r + 1]
  <2> HIDE DEF r
  <2>1. r + 1 \in 1..M /\ (r + 1) - 1 = r /\ r + 1 \in 0..M /\ r + 1 # 0
    BY <1>1
  <2> QED
    BY <2>1, PrefixDef
<1>4. P \in Nat /\ Prefix[r] \in Nat /\ MonthLengths[r + 1] \in Nat
  <2> HIDE DEF r
  <2> QED
    BY <1>1, <1>3, PrefixGrows
<1> HIDE DEF q, r, P
<1>5. MonthStart(m + 1) = q * P + Prefix[r + 1]
  <2>1. CASE r < M - 1
    <3>1. r + 1 \in 0..(M - 1) /\ m + 1 = q * M + (r + 1)
      BY <1>1, <2>1
    <3>2. (m + 1) \div M = q /\ (m + 1) % M = r + 1
      BY <1>1, <3>1, DivModOf
    <3> QED
      BY <3>2 DEF MonthStart, M, P
  <2>2. CASE r = M - 1
    <3>1. 0 \in 0..(M - 1) /\ m + 1 = (q + 1) * M + 0 /\ q + 1 \in Int
      BY <1>1, <2>2
    <3>2. (m + 1) \div M = q + 1 /\ (m + 1) % M = 0
      BY <3>1, DivModOf
    <3>3. MonthStart(m + 1) = (q + 1) * P + 0
      BY <3>2, PrefixGrows DEF MonthStart, M, P
    <3>4. (q + 1) * P = q * P + P /\ q * P \in Int
      BY <1>1, <1>4
    <3>5. Prefix[r + 1] = P
      BY <2>2 DEF P
    <3> QED
      BY <1>4, <3>3, <3>4, <3>5
  <2> QED
    BY <1>1, <2>1, <2>2
<1>6. q * P \in Int
  BY <1>1, <1>4
<1>7. MonthStart(m + 1) = MonthStart(m) + MonthLengths[r + 1]
  BY <1>2, <1>3, <1>4, <1>5, <1>6
<1> QED
  BY <1>3, <1>7

\* A day lies in one month only.
LEMMA MonthUnique ==
    ASSUME NEW t \in Nat, NEW m \in Nat, MonthStart(m) <= DayOf(t), DayOf(t) < MonthStart(m + 1)
    PROVE  MonthOf(t) = m
<1> DEFINE n == MonthOf(t)
           d == DayOf(t)
<1>1. d \in Nat /\ n \in Nat /\ MonthStart(n) <= d /\ d < MonthStart(n + 1)
  BY MonthOfDay
<1>2. MonthStart(m) <= d /\ d < MonthStart(m + 1)
  OBVIOUS
<1> HIDE DEF n, d
<1>3. ASSUME NEW a \in Nat, NEW b \in Nat, a < b, MonthStart(b) <= d
      PROVE  MonthStart(a + 1) <= d
  <2>1. a + 1 \in Nat /\ (a + 1 = b \/ a + 1 < b)
    BY <1>3
  <2>2. MonthStart(a + 1) \in Nat /\ MonthStart(b) \in Nat
    BY <2>1, MonthStartGrows
  <2>3. MonthStart(a + 1) <= MonthStart(b)
    BY <2>1, <2>2, MonthStartGrows
  <2> QED
    BY <1>1, <1>3, <2>2, <2>3
<1>4. MonthStart(m + 1) \in Nat /\ MonthStart(n + 1) \in Nat
  BY <1>1, MonthStartGrows
<1>5. ~(m < n) /\ ~(n < m)
  BY <1>1, <1>2, <1>3, <1>4
<1> QED
  BY <1>1, <1>5 DEF n

LEMMA MonthOrder ==
    ASSUME NEW t \in Nat, NEW u \in Nat, t <= u
    PROVE  DayOf(t) <= DayOf(u) /\ MonthOf(t) <= MonthOf(u)
<1> DEFINE a == DayOf(t)
           b == DayOf(u)
           m == MonthOf(t)
           n == MonthOf(u)
           g == t % Day
           h == u % Day
<1>1. Day \in Nat \ {0}
  BY Units
<1>2. /\ t = a * Day + g /\ g \in 0..(Day - 1) /\ a \in Nat
      /\ u = b * Day + h /\ h \in 0..(Day - 1) /\ b \in Nat
  BY TimeOfDay, Zenon
<1>3. m \in Nat /\ n \in Nat /\ MonthStart(m) <= a /\ b < MonthStart(n + 1)
  BY MonthOfDay
<1> HIDE DEF a, b, m, n, g, h
<1>4. a <= b
  <2>1. SUFFICES ASSUME a >= b + 1 PROVE FALSE
    BY <1>2
  <2>2. (a - b) * Day >= Day
    <3> DEFINE x == a - b
    <3>1. x \in Nat \ {0}
      BY <1>2, <2>1
    <3> HIDE DEF x
    <3>2. x * Day >= Day
      BY <1>1, <3>1
    <3> QED
      BY <3>2 DEF x
  <2>3. a * Day = (a - b) * Day + b * Day /\ b * Day \in Int /\ (a - b) * Day \in Int
    BY <1>1, <1>2
  <2> QED
    BY <1>1, <1>2, <2>2, <2>3
<1>5. m <= n
  <2>1. SUFFICES ASSUME n + 1 <= m PROVE FALSE
    BY <1>3
  <2>2. MonthStart(n + 1) \in Nat /\ MonthStart(m) \in Nat /\ MonthStart(n + 1) <= MonthStart(m)
    <3>1. n + 1 \in Nat /\ (n + 1 = m \/ n + 1 < m)
      BY <1>3, <2>1
    <3>2. MonthStart(n + 1) \in Nat /\ MonthStart(m) \in Nat
      BY <1>3, <3>1, MonthStartGrows
    <3> QED
      BY <1>3, <3>1, <3>2, MonthStartGrows
  <2> QED
    BY <1>2, <1>3, <1>4, <2>2
<1> QED
  BY <1>4, <1>5 DEF a, b, m, n

\* An instant is given by its month, its day of the month and its time of day.
LEMMA SameDate ==
    ASSUME NEW t \in Nat, NEW u \in Nat, MonthOf(t) = MonthOf(u),
           DayOfMonth(t) = DayOfMonth(u), t % Day = u % Day
    PROVE  t = u
<1> DEFINE a == DayOf(t)
           b == DayOf(u)
           m == MonthStart(MonthOf(t))
<1>1. a \in Nat /\ b \in Nat /\ m \in Nat
  BY MonthOfDay, MonthStartGrows
<1>2. a - m + 1 = b - m + 1
  BY DEF DayOfMonth
<1>3. t = a * Day + (t % Day) /\ u = b * Day + (u % Day)
  BY TimeOfDay, Zenon
<1> HIDE DEF a, b, m
<1>4. a = b
  BY <1>1, <1>2
<1> QED
  BY <1>3, <1>4

\* A day that every month has is in the month it was asked for.
LEMMA DateParts ==
    ASSUME NEW m \in Nat, NEW d \in Nat \ {0}, \A i \in 1..M : d <= MonthLengths[i],
           NEW t \in Nat
    PROVE  LET x == Date(m, d, t) IN
           /\ x \in Nat /\ MonthOf(x) = m /\ DayOfMonth(x) = d /\ x % Day = t % Day
<1> DEFINE x == Date(m, d, t)
           h == t % Day
           b == MonthStart(m)
           y == b + d - 1
<1>1. x \in Nat
  BY DateType
<1>2. b \in Nat /\ MonthStart(m + 1) \in Nat
  BY MonthStartGrows
<1>3. h \in 0..(Day - 1) /\ Day \in Nat \ {0}
  BY TimeOfDay, Units
<1>4. x = y * Day + h
  BY DEF Date
<1> HIDE DEF x, h, b
<1>5. y \in Nat /\ b <= y /\ y < MonthStart(m + 1)
  <2>1. PICK i \in 1..M : MonthStart(m + 1) = b + MonthLengths[i]
    BY MonthLength DEF b
  <2>2. MonthLengths[i] \in Nat /\ d <= MonthLengths[i]
    BY LengthsType
  <2> QED
    BY <1>2, <2>1, <2>2
<1> HIDE DEF y
<1>6. x \div Day = y /\ x % Day = h
  BY <1>3, <1>4, <1>5, DivModOf
<1>7. DayOf(x) = y
  BY <1>6 DEF DayOf
<1>8. MonthOf(x) = m
  BY <1>1, <1>5, <1>7, MonthUnique DEF b
<1>9. DayOfMonth(x) = y - b + 1
  BY <1>7, <1>8 DEF DayOfMonth, b
<1>10. DayOfMonth(x) = d
  BY <1>2, <1>9 DEF y
<1> QED
  BY <1>1, <1>6, <1>8, <1>10 DEF x, h

\* From a day that every month has, the loop does not drift.
LEMMA MonthAnchors ==
    ASSUME NEW s, Proper(s), s.frequency \in {"monthly", "yearly"}, NEW start \in Nat,
           CalendarSafe(s, start), NEW N \in Nat
    PROVE  /\ MonthsApart(s) \in Nat \ {0}
           /\ \A k \in 0..N :
                 /\ Anchors(s, start, N)[k] \in Nat /\ Anchors(s, start, N)[k] >= start + k
                 /\ MonthOf(Anchors(s, start, N)[k]) = MonthOf(start) + k * MonthsApart(s)
                 /\ DayOfMonth(Anchors(s, start, N)[k]) = DayOfMonth(start)
                 /\ Anchors(s, start, N)[k] % Day = start % Day
<1> DEFINE A == Anchors(s, start, N)
           X == MonthsApart(s)
           m == MonthOf(start)
           d == DayOfMonth(start)
           h == start % Day
<1>1. X \in Nat \ {0} /\ \A t : NextAnchor(s, t) = AddDate(t, X, 0)
  <2> DEFINE n == s.interval
  <2>1. n \in Nat \ {0} /\ MonthsPerYear \in Nat \ {0}
    BY Units DEF Proper, isValidSchedule
  <2> HIDE DEF n
  <2>2. n * MonthsPerYear \in Nat \ {0} /\ n * MonthsPerYear = MonthsPerYear * n
    BY <2>1, Product
  <2>3. CASE s.frequency = "monthly"
    BY <2>1, <2>3 DEF MonthsApart, NextAnchor, n
  <2>4. CASE s.frequency = "yearly"
    BY <2>2, <2>4 DEF MonthsApart, NextAnchor, n
  <2> QED
    BY <2>3, <2>4
<1>2. /\ A[0] = start
      /\ \A k \in 0..N : A[k] \in Nat /\ A[k] >= start + k
      /\ \A k \in 0..(N - 1) : A[k + 1] = NextAnchor(s, A[k])
  <2>1. isValidSchedule(s) /\ s.interval \in Int /\ Fits(s)
    BY DEF Proper
  <2>2. /\ A[0] = start
        /\ \A k \in 0..N : A[k] \in Nat /\ A[k] >= start + k
        /\ \A k \in 0..(N - 1) : A[k + 1] = NextAnchor(s, A[k]) /\ A[k] < A[k + 1]
    BY <2>1, AnchorsGrow, Zenon
  <2> QED
    BY <2>2, Zenon
<1>3. m \in Nat /\ d \in Nat \ {0} /\ \A i \in 1..M : d <= MonthLengths[i]
  <2> DEFINE a == DayOf(start)
             b == MonthStart(m)
  <2>1. m \in Nat /\ a \in Nat /\ b \in Nat /\ b <= a
    BY MonthOfDay, MonthStartGrows
  <2>2. d = a - b + 1
    BY DEF DayOfMonth
  <2>3. \A i \in 1..M : d <= MonthLengths[i]
    BY DEF CalendarSafe, M
  <2> HIDE DEF a, b
  <2> QED
    BY <2>1, <2>2, <2>3
<1> DEFINE Part(k) == /\ MonthOf(A[k]) = m + k * X
                      /\ DayOfMonth(A[k]) = d /\ A[k] % Day = h
           Good == {k \in Nat : k <= N => Part(k)}
<1> HIDE DEF A, X, m, d, h
<1>4. 0 \in Good
  <2>1. MonthOf(A[0]) = m /\ DayOfMonth(A[0]) = d /\ A[0] % Day = h
    BY <1>2 DEF m, d, h
  <2>2. 0 * X = 0 /\ m + 0 = m
    BY <1>1, <1>3
  <2> QED
    BY <2>1, <2>2
<1>5. ASSUME NEW k \in Nat, k \in Good
      PROVE  k + 1 \in Good
  <2>1. SUFFICES ASSUME k + 1 <= N PROVE Part(k + 1)
    OBVIOUS
  <2>2. k \in 0..(N - 1) /\ k \in 0..N /\ Part(k)
    BY <1>5, <2>1
  <2> DEFINE t == A[k]
             j == m + (k + 1) * X
  <2>3. t \in Nat /\ MonthOf(t) = m + k * X /\ DayOfMonth(t) = d /\ t % Day = h
    BY <1>2, <2>2
  <2>4. A[k + 1] = AddDate(t, X, 0)
    BY <1>1, <1>2, <2>2
  <2> HIDE DEF t
  <2>5. AddDate(t, X, 0) = Date(MonthOf(t) + X, DayOfMonth(t) + 0, t)
    BY DEF AddDate
  <2>6. MonthOf(t) + X = j /\ DayOfMonth(t) + 0 = d /\ j \in Nat
    <3>1. k * X \in Nat /\ (k + 1) * X = k * X + X
      BY <1>1
    <3> QED
      BY <1>1, <1>3, <2>3, <3>1
  <2>7. A[k + 1] = Date(j, d, t)
    BY <2>4, <2>5, <2>6
  <2> HIDE DEF j
  <2>8. LET x == Date(j, d, t) IN MonthOf(x) = j /\ DayOfMonth(x) = d /\ x % Day = t % Day
    BY <1>3, <2>3, <2>6, DateParts
  <2>9. MonthOf(A[k + 1]) = j /\ DayOfMonth(A[k + 1]) = d /\ A[k + 1] % Day = h
    BY <2>3, <2>7, <2>8
  <2> QED
    BY <2>9 DEF j
<1> HIDE DEF Good
<1>6. Nat \subseteq Good
  BY <1>4, <1>5, SetInduction
<1>7. \A k \in 0..N : Part(k)
  <2> HIDE DEF Part
  <2> QED
    BY <1>6 DEF Good
<1> QED
  BY <1>1, <1>2, <1>7 DEF A, X, m, d, h

LEMMA MonthsFound ==
    ASSUME NEW s, Proper(s), s.frequency \in {"monthly", "yearly"}, NEW start \in Nat,
           CalendarSafe(s, start), NEW N \in Nat,
           NEW t \in Nat, t < start + N, s.until # <<>> => t < s.until[1]
    PROVE  (\E k \in 0..N : Anchors(s, start, N)[k] = t) <=> Found(s, start, t)
<1> DEFINE A == Anchors(s, start, N)
           X == MonthsApart(s)
           m == MonthOf(start)
           Rule == /\ t >= start /\ t % Day = start % Day
                   /\ DayOfMonth(t) = DayOfMonth(start)
                   /\ (MonthOf(t) - m) % X = 0
<1>1. X \in Nat \ {0}
  BY MonthAnchors
<1>2. \A k \in 0..N : /\ A[k] \in Nat /\ A[k] >= start + k
                      /\ MonthOf(A[k]) = m + k * X
                      /\ DayOfMonth(A[k]) = DayOfMonth(start)
                      /\ A[k] % Day = start % Day
  BY MonthAnchors, ZenonT(90)
<1>3. Found(s, start, t) <=> Rule
  <2>1. s.by = <<>> /\ ~(s.frequency = "weekly" /\ s.by # <<>>)
    BY DEF CalendarSafe
  <2> QED
    BY <2>1, Zenon DEF Found
<1> HIDE DEF A, X
<1>4. m \in Nat /\ MonthOf(t) \in Nat
  BY MonthOfDay
<1> HIDE DEF m
<1>5. ASSUME NEW k \in 0..N, A[k] = t
      PROVE  Rule
  <2>1. t >= start /\ MonthOf(t) = m + k * X
    BY <1>2, <1>5
  <2>2. k * X \in Int /\ MonthOf(t) - m = k * X + 0
    BY <1>1, <1>4, <2>1
  <2>3. (k * X + 0) % X = 0
    BY <1>1, DivModOf
  <2> QED
    BY <1>2, <1>5, <2>1, <2>2, <2>3
<1>6. ASSUME Rule
      PROVE  \E k \in 0..N : A[k] = t
  <2> DEFINE d == MonthOf(t) - m
             k == d \div X
  <2>1. d \in Nat
    <3>1. MonthOf(t) >= m
      BY <1>6, MonthOrder DEF m
    <3> QED
      BY <1>4, <3>1
  <2>2. k \in Int /\ d = k * X + (d % X) /\ d % X = 0
    <3>1. d % X = 0
      BY <1>6
    <3> HIDE DEF d
    <3> QED
      BY <1>1, <2>1, <3>1, DivMod
  <2>3. MonthOf(t) = m + d
    BY <1>4
  <2> HIDE DEF d, k
  <2>4. d = k * X
    BY <1>1, <2>2
  <2>5. k >= 0
    <3>1. k <= -1 => k * X <= -1
      BY <1>1, <2>2
    <3> QED
      BY <2>1, <2>2, <2>4, <3>1
  <2>6. k <= N
    <3>1. SUFFICES ASSUME k > N PROVE FALSE
      BY <2>2
    <3>2. N \in 0..N
      OBVIOUS
    <3>3. A[N] \in Nat /\ t <= A[N] /\ MonthOf(A[N]) = m + N * X
      BY <1>2, <3>2
    <3>4. m + d <= m + N * X
      BY <2>3, <3>3, MonthOrder
    <3>5. k * X > N * X
      <4> DEFINE x == k - N
      <4>1. x \in Nat \ {0} /\ k = N + x
        BY <2>2, <3>1
      <4> HIDE DEF x
      <4>2. (N + x) * X = N * X + x * X /\ N * X \in Nat /\ x * X \in Nat \ {0}
        BY <1>1, <4>1
      <4> QED
        BY <4>1, <4>2
    <3>6. N * X \in Int /\ k * X \in Int
      BY <1>1, <2>2
    <3> QED
      BY <1>4, <2>1, <2>4, <3>4, <3>5, <3>6
  <2>7. k \in 0..N
    BY <2>2, <2>5, <2>6
  <2>8. /\ A[k] \in Nat /\ MonthOf(A[k]) = MonthOf(t)
        /\ DayOfMonth(A[k]) = DayOfMonth(t) /\ A[k] % Day = t % Day
    BY <1>2, <1>6, <2>3, <2>4, <2>7
  <2>9. A[k] = t
    BY <2>8, SameDate
  <2> QED
    BY <2>7, <2>9
<1> HIDE DEF Rule
<1> QED
  BY <1>3, <1>5, <1>6 DEF A

\* Does s name no weekday twice?  isValidSchedule does not ask.
ListDistinct(s) ==
    s.frequency = "weekly" => \A i, j \in 1..Len(s.by) : s.by[i] = s.by[j] => i = j

\* The loop finds exactly these dates before endTime.
LEMMA CandidatesFound ==
    ASSUME NEW s, Proper(s), NEW start \in Nat, CalendarSafe(s, start), NEW endTime \in Int
    PROVE  LET c == Candidates(s, start, endTime) IN
           /\ \A t \in Nat : t < endTime /\ (s.until # <<>> => t < s.until[1]) =>
                 ((\E i \in 1..Len(c) : c[i] = t) <=> Found(s, start, t))
           /\ ListDistinct(s) => \A i, j \in 1..Len(c) : c[i] = c[j] => i = j
<1> DEFINE N == endTime - start
           A == Anchors(s, start, N)
           c == Candidates(s, start, endTime)
<1>1. CASE endTime < start
  <2> DEFINE n == Rounds(s, start, endTime)
             l == Len(ByOf(s))
  <2>1. n = 0
    <3>1. {k \in 0..(endTime - start - 1) : A[k] < endTime} = {}
      BY <1>1
    <3> QED
      BY <3>1, FS_EmptySet DEF Rounds
  <2>2. l \in Nat
    <3>1. ByOf(s) \in Seq(Int)
      BY DEF ByOf, Proper
    <3> QED
      BY <3>1, LenProperties
  <2>3. n * l = 0
    <3> HIDE DEF n, l
    <3> QED
      BY <2>1, <2>2
  <2>4. c \in Seq(Nat) /\ DOMAIN c = 1..0
    <3>1. CASE ByOf(s) = <<>>
      <4>1. c = [i \in 1..n |-> A[i - 1]]
        BY <3>1, CandidatesDef
      <4> HIDE DEF n, c, A
      <4> QED
        BY <2>1, <4>1
    <3>2. CASE ByOf(s) # <<>>
      <4> DEFINE F(i) == ByDate(s, A[(i - 1) \div l], ByOf(s)[((i - 1) % l) + 1])
      <4>1. c = [i \in 1..(n * l) |-> F(i)]
        BY <3>2, CandidatesDef
      <4> HIDE DEF n, l, c, F
      <4> QED
        BY <2>3, <4>1
    <3> QED
      BY <3>1, <3>2
  <2> HIDE DEF c
  <2>5. Len(c) = 0
    BY <2>4, LenProperties
  <2>6. \A t \in Nat : t < endTime => ~Found(s, start, t)
    BY <1>1 DEF Found
  <2> QED
    BY <2>5, <2>6 DEF c
<1>2. CASE endTime >= start
  <2>1. N \in Nat /\ endTime = start + N
    BY <1>2
  <2>2. CASE s.frequency = "weekly" /\ s.by # <<>>
    BY <1>2, <2>2, WeekdaysFound DEF ListDistinct
  <2>3. CASE ~(s.frequency = "weekly" /\ s.by # <<>>)
    <3>1. ByOf(s) = <<>>
      BY <2>3 DEF ByOf, CalendarSafe
    <3>2. /\ \A t \in Int : t < endTime =>
                ((\E i \in 1..Len(c) : c[i] = t) <=> \E k \in 0..N : A[k] = t)
          /\ \A i, j \in 1..Len(c) : c[i] = c[j] => i = j
      BY <1>2, <3>1, AnchorsFound
    <3>3. s.frequency \in Frequencies
      BY DEF Proper, isValidSchedule
    <3> HIDE DEF N
    <3>4. ASSUME NEW t \in Nat, t < endTime, s.until # <<>> => t < s.until[1]
          PROVE  (\E k \in 0..N : A[k] = t) <=> Found(s, start, t)
      <4>1. CASE s.frequency \in {"monthly", "yearly"}
        BY <2>1, <3>4, <4>1, MonthsFound
      <4>2. CASE s.frequency \in {"minutely", "hourly", "daily", "weekly"}
        BY <2>1, <3>1, <3>4, <4>2, StepsFound
      <4> QED
        BY <3>3, <4>1, <4>2 DEF Frequencies
    <3> HIDE DEF A, c
    <3>5. \A t \in Nat : t \in Int
      OBVIOUS
    <3>6. /\ \A t \in Nat : t < endTime /\ (s.until # <<>> => t < s.until[1]) =>
                 ((\E i \in 1..Len(c) : c[i] = t) <=> Found(s, start, t))
          /\ \A i, j \in 1..Len(c) : c[i] = c[j] => i = j
      BY <3>2, <3>4, <3>5, Zenon
    <3> QED
      BY <3>6, Zenon DEF c
  <2> QED
    BY <2>2, <2>3
<1> QED
  BY <1>1, <1>2

\* Without a count, expandRecurringEvent hands on exactly these dates of the window,
\* each once.
LEMMA OccurrencesFound ==
    ASSUME NEW s, Proper(s), NEW start \in Nat, CalendarSafe(s, start), s.count = <<>>,
           NEW now \in Nat
    PROVE  LET dates == Occurrences(s, start, now) IN
           /\ \A t \in Nat : (\E i \in 1..Len(dates) : dates[i] = t)
                                 <=> InWindow(t, now) /\ Found(s, start, t)
           /\ ListDistinct(s) => \A i, j \in 1..Len(dates) : dates[i] = dates[j] => i = j
<1> DEFINE W == {t \in Int : InWindow(t, now)}
           U == {t \in Int : s.until # <<>> => t < s.until[1]}
           c == Candidates(s, start, now + LookAhead)
           w == Among(c, W)
           o == Among(w, U)
<1>1. now + LookAhead \in Int
  BY Units
<1>2. Occurrences(s, start, now) = o
  BY DEF Occurrences, Truncate
<1>3. c \in Seq(Nat)
  BY <1>1, CandidatesType
<1>4. /\ \A t \in Nat : t < now + LookAhead /\ (s.until # <<>> => t < s.until[1]) =>
            ((\E i \in 1..Len(c) : c[i] = t) <=> Found(s, start, t))
      /\ ListDistinct(s) => \A i, j \in 1..Len(c) : c[i] = c[j] => i = j
  BY <1>1, CandidatesFound
<1>5. \A t \in Nat : /\ t \in W <=> InWindow(t, now)
                     /\ t \in U <=> (s.until # <<>> => t < s.until[1])
  OBVIOUS
<1>6. \A t \in Nat : InWindow(t, now) => t < now + LookAhead
  BY DEF InWindow
<1>7. \A t \in Nat : Found(s, start, t) => (s.until # <<>> => t < s.until[1])
  BY DEF Found
<1> HIDE DEF c, W, U
<1>8. /\ w \in Seq(Nat)
      /\ \A i \in 1..Len(w) : w[i] \in W /\ \E j \in 1..Len(c) : c[j] = w[i]
      /\ \A j \in 1..Len(c) : c[j] \in W => \E i \in 1..Len(w) : w[i] = c[j]
      /\ (\A i, j \in 1..Len(c) : c[i] = c[j] => i = j) =>
            \A i, j \in 1..Len(w) : w[i] = w[j] => i = j
  BY <1>3, AmongKeeps
<1> HIDE DEF w
<1>9. /\ \A i \in 1..Len(o) : o[i] \in U /\ \E j \in 1..Len(w) : w[j] = o[i]
      /\ \A j \in 1..Len(w) : w[j] \in U => \E i \in 1..Len(o) : o[i] = w[j]
      /\ (\A i, j \in 1..Len(w) : w[i] = w[j] => i = j) =>
            \A i, j \in 1..Len(o) : o[i] = o[j] => i = j
  <2>1. w \in Seq(Nat)
    BY <1>8
  <2> QED
    BY <2>1, AmongKeeps
<1> HIDE DEF o
<1>10. ASSUME NEW t
       PROVE  (\E i \in 1..Len(o) : o[i] = t)
                 <=> t \in W /\ t \in U /\ \E j \in 1..Len(c) : c[j] = t
  <2>1. ASSUME NEW i \in 1..Len(o), o[i] = t
        PROVE  t \in W /\ t \in U /\ \E j \in 1..Len(c) : c[j] = t
    <3>1. PICK k \in 1..Len(w) : w[k] = t
      BY <1>9, <2>1, Zenon
    <3>2. t \in W /\ \E j \in 1..Len(c) : c[j] = t
      BY <1>8, <3>1
    <3> QED
      BY <1>9, <2>1, <3>2
  <2>2. ASSUME t \in W, t \in U, NEW j \in 1..Len(c), c[j] = t
        PROVE  \E i \in 1..Len(o) : o[i] = t
    <3>1. PICK k \in 1..Len(w) : w[k] = t
      BY <1>8, <2>2, Zenon
    <3> QED
      BY <1>9, <2>2, <3>1
  <2> QED
    BY <2>1, <2>2, Zenon
<1>11. ASSUME NEW t \in Nat
       PROVE  (\E i \in 1..Len(o) : o[i] = t) <=> InWindow(t, now) /\ Found(s, start, t)
  BY <1>4, <1>5, <1>6, <1>7, <1>10
<1> QED
  BY <1>2, <1>4, <1>8, <1>9, <1>11

-----------------------------------------------------------------------------
(* The dates of the rule *)

\* A weekday lies as far into its week as the days that have it.
LEMMA IntoWeekOfWeekday ==
    ASSUME NEW d \in Nat
    PROVE  IntoWeek(d % DaysPerWeek) = IntoWeek(d)
<1> DEFINE W == DaysPerWeek
           o == W - Monday
           q == d \div W
           r == d % W
           x == r + o
           p == x \div W
           y == x % W
<1>1. W \in Nat \ {0} /\ o \in Int /\ o = W - Monday /\ Monday \in Int
  BY RecurrenceAssumption
<1>2. d = q * W + r /\ q \in Int /\ r \in Int
  <2> HIDE DEF W
  <2> QED
    BY <1>1, DivMod
<1> HIDE DEF q, r
<1>3. x \in Int /\ x = p * W + y /\ p \in Int /\ y \in 0..(W - 1)
  <2>1. x \in Int
    BY <1>1, <1>2
  <2> HIDE DEF W, x
  <2> QED
    BY <1>1, <2>1, DivMod
<1>4. IntoWeek(r) = y
  <2>1. r + W - Monday = x
    BY <1>1, <1>2
  <2> QED
    BY <2>1 DEF IntoWeek
<1>5. d + W - Monday = q * W + x
  <2> HIDE DEF W
  <2>1. q * W \in Int
    BY <1>1, <1>2
  <2> QED
    BY <1>1, <1>2, <2>1
<1> HIDE DEF x, p, y
<1>6. d + W - Monday = (q + p) * W + y /\ q + p \in Int
  <2> HIDE DEF W, o
  <2>1. (q + p) * W = q * W + p * W
    BY <1>1, <1>2, <1>3
  <2>2. q * W \in Int /\ p * W \in Int
    BY <1>1, <1>2, <1>3
  <2> QED
    BY <1>2, <1>3, <1>5, <2>1, <2>2
<1>7. ((q + p) * W + y) % W = y
  <2> HIDE DEF W
  <2> QED
    BY <1>1, <1>3, <1>6, DivModOf
<1>8. IntoWeek(d) = y
  BY <1>6, <1>7 DEF IntoWeek
<1> QED
  BY <1>4, <1>8 DEF r

\* Weeks counted from day a and weeks of the rule are the same, as long as d lies
\* no less far into its week than a into its own.
LEMMA WeeksFromStart ==
    ASSUME NEW a \in Nat, NEW d \in Nat, NEW v \in Nat \ {0},
           v > 1 => IntoWeek(d) >= IntoWeek(a)
    PROVE  (Week(d) - Week(a)) % v = 0 <=> ((d - a) \div DaysPerWeek) % v = 0
<1> DEFINE W == DaysPerWeek
           x == a + W - Monday
           y == d + W - Monday
<1>0. W \in Nat \ {0} /\ Monday \in Int
  BY RecurrenceAssumption
<1>1. W \in Nat \ {0} /\ x \in Int /\ y \in Int /\ y - x = d - a
  <2> HIDE DEF W
  <2> QED
    BY <1>0
<1>2. Week(a) \in Int /\ IntoWeek(a) \in 0..(W - 1) /\ x = Week(a) * W + IntoWeek(a)
  <2> HIDE DEF W, x
  <2>1. x \div W \in Int /\ x % W \in 0..(W - 1) /\ x = (x \div W) * W + (x % W)
    BY <1>1, DivMod
  <2> QED
    BY <2>1 DEF Week, IntoWeek, W, x
<1>3. Week(d) \in Int /\ IntoWeek(d) \in 0..(W - 1) /\ y = Week(d) * W + IntoWeek(d)
  <2> HIDE DEF W, y
  <2>1. y \div W \in Int /\ y % W \in 0..(W - 1) /\ y = (y \div W) * W + (y % W)
    BY <1>1, DivMod
  <2> QED
    BY <2>1 DEF Week, IntoWeek, W, y
<1>4. CASE v = 1
  <2>1. \A k \in Int : k % 1 = 0
    OBVIOUS
  <2>2. (d - a) \div W \in Int
    <3> HIDE DEF W
    <3> QED
      BY <1>1
  <2>3. Week(d) - Week(a) \in Int
    BY <1>2, <1>3
  <2> QED
    BY <1>4, <2>1, <2>2, <2>3
<1>5. CASE v > 1
  <2> DEFINE q == Week(d) - Week(a)
             r == IntoWeek(d) - IntoWeek(a)
  <2>1. q \in Int /\ r \in 0..(W - 1)
    BY <1>1, <1>2, <1>3, <1>5
  <2>2. d - a = q * W + r
    <3> DEFINE wd == Week(d)
               wa == Week(a)
               id == IntoWeek(d)
               ia == IntoWeek(a)
    <3> HIDE DEF W, x, y, wd, wa, id, ia
    <3>1. /\ wd \in Int /\ wa \in Int /\ id \in Int /\ ia \in Int
          /\ y = wd * W + id /\ x = wa * W + ia
      BY <1>1, <1>2, <1>3 DEF wd, wa, id, ia
    <3>2. (wd - wa) * W = wd * W - wa * W /\ wd * W \in Int /\ wa * W \in Int
      BY <1>1, <3>1
    <3>3. y - x = (wd - wa) * W + (id - ia)
      BY <3>1, <3>2
    <3> QED
      BY <1>1, <3>3 DEF wd, wa, id, ia
  <2>3. (q * W + r) \div W = q
    <3> HIDE DEF W, q, r
    <3> QED
      BY <1>1, <2>1, DivModOf
  <2> QED
    BY <2>2, <2>3
<1> QED
  BY <1>4, <1>5

\* Where the loop and RFC 5545 do not part, the loop's dates are the rule's.
LEMMA FoundOnRule ==
    ASSUME NEW s, Proper(s), NEW start \in Nat, FollowsRule(s, start), NEW t \in Nat
    PROVE  OnRule(s, start, t) <=> Found(s, start, t)
<1> DEFINE Before == s.until # <<>> => t < s.until[1]
<1>1. OnRule(s, start, t) <=> Named(s, start, t) /\ Before
  <2>1. s.count = <<>>
    BY DEF FollowsRule
  <2>2. CASE s.until = <<>>
    BY <2>1, <2>2 DEF OnRule
  <2>3. CASE s.until # <<>>
    <3> DEFINE u == s.until[1]
    <3>1. u \in Int
      BY <2>3, EmptySeq, LenProperties, ElementOfSeq DEF Proper
    <3>2. ~Named(s, start, u)
      BY <2>3 DEF FollowsRule
    <3> HIDE DEF u
    <3>3. OnRule(s, start, t) <=> Named(s, start, t) /\ t <= u
      BY <2>1, <2>3 DEF OnRule, u
    <3>4. Before <=> t < u
      BY <2>3 DEF u
    <3>5. t = u \/ (t <= u <=> t < u)
      BY <3>1
    <3> QED
      BY <3>2, <3>3, <3>4, <3>5
  <2> QED
    BY <2>2, <2>3
<1>2. Named(s, start, t) /\ Before <=> Found(s, start, t)
  <2>1. CASE ~(s.frequency = "weekly" /\ s.by # <<>>)
    BY <2>1, Zenon DEF Named, Found
  <2>2. CASE s.frequency = "weekly" /\ s.by # <<>>
    <3> DEFINE On == /\ t >= start /\ t % Day = start % Day
                     /\ \E i \in 1..Len(s.by) : s.by[i] = Weekday(t)
    <3>1. DayOf(start) \in Nat /\ DayOf(t) \in Nat
      BY MonthOfDay
    <3>2. s.interval \in Nat \ {0}
      BY DEF Proper, isValidSchedule
    <3>3. ASSUME On
          PROVE  (Week(DayOf(t)) - Week(DayOf(start))) % s.interval = 0
                 <=> ((DayOf(t) - DayOf(start)) \div DaysPerWeek) % s.interval = 0
      <4>1. PICK i \in 1..Len(s.by) : s.by[i] = Weekday(t)
        BY <3>3
      <4>2. IntoWeek(s.by[i]) = IntoWeek(DayOf(t))
        BY <3>1, <4>1, IntoWeekOfWeekday DEF Weekday
      <4>3. s.interval > 1 => IntoWeek(DayOf(t)) >= IntoWeek(DayOf(start))
        BY <2>2, <4>2 DEF FollowsRule
      <4> QED
        BY <3>1, <3>2, <4>3, WeeksFromStart
    <3>4. Named(s, start, t)
          <=> On /\ (Week(DayOf(t)) - Week(DayOf(start))) % s.interval = 0
      BY <2>2, Zenon DEF Named
    <3>5. Found(s, start, t)
          <=> On /\ Before /\ ((DayOf(t) - DayOf(start)) \div DaysPerWeek) % s.interval = 0
      BY <2>2, Zenon DEF Found
    <3> QED
      BY <3>3, <3>4, <3>5, Zenon
  <2> QED
    BY <2>1, <2>2
<1> QED
  BY <1>1, <1>2

\* expandRecurringEvent hands on exactly the dates of the rule that lie in the
\* window (expander.go:119-235), each once.
LEMMA OccurrencesExact ==
    ASSUME NEW s, Proper(s), NEW start \in Nat, FollowsRule(s, start), NEW now \in Nat
    PROVE  LET dates == Occurrences(s, start, now) IN
           /\ \A t \in Nat : (\E i \in 1..Len(dates) : dates[i] = t)
                                 <=> InWindow(t, now) /\ OnRule(s, start, t)
           /\ ListDistinct(s) => \A i, j \in 1..Len(dates) : dates[i] = dates[j] => i = j
<1> DEFINE dates == Occurrences(s, start, now)
<1>1. CalendarSafe(s, start) /\ s.count = <<>>
  BY DEF FollowsRule
<1>2. /\ \A t \in Nat : (\E i \in 1..Len(dates) : dates[i] = t)
                            <=> InWindow(t, now) /\ Found(s, start, t)
      /\ ListDistinct(s) => \A i, j \in 1..Len(dates) : dates[i] = dates[j] => i = j
  BY <1>1, OccurrencesFound
<1>3. \A t \in Nat : OnRule(s, start, t) <=> Found(s, start, t)
  BY FoundOnRule
<1> HIDE DEF dates
<1>4. /\ \A t \in Nat : (\E i \in 1..Len(dates) : dates[i] = t)
                            <=> InWindow(t, now) /\ OnRule(s, start, t)
      /\ ListDistinct(s) => \A i, j \in 1..Len(dates) : dates[i] = dates[j] => i = j
  BY <1>2, <1>3, Zenon
<1> QED
  BY <1>4, Zenon DEF dates
=============================================================================
