----------------------------- MODULE Recurrence -----------------------------
(***************************************************************************)
(* The dates of a recurring event: what isValidSchedule accepts            *)
(* (internal/handlers/event_handler.go) and which dates                    *)
(* expandRecurringEvent (internal/scheduler/expander.go) finds in the      *)
(* window around the current time.                                         *)
(*                                                                         *)
(* An instant is a number of ticks since the epoch.  The calendar is a     *)
(* parameter: time.Date and Time.AddDate only need the lengths of the      *)
(* months, and carry a day past the end of a month over into the next one. *)
(***************************************************************************)
EXTENDS Integers, Sequences, FiniteSets

CONSTANTS
    Minute, Hour, Day,  \* in ticks
    DaysPerWeek,        \* 7, or fewer to keep instances small
    Monday,             \* the weekday with which a week of a rule begins
    MonthsPerYear,      \* 12, or fewer
    MonthLengths,       \* days of each month, over a cycle of whole years
    MaxDuration,        \* time.Duration is an integer in -MaxDuration..MaxDuration-1
    LookAhead,          \* scheduler.look_ahead_duration
    GracePeriod         \* scheduler.grace_period

ASSUME RecurrenceAssumption ==
    /\ {Minute, Hour, Day, DaysPerWeek, MonthsPerYear, MaxDuration, LookAhead}
          \subseteq Nat \ {0}
    /\ GracePeriod \in Nat
    /\ Monday \in 0..(DaysPerWeek - 1)
    /\ MonthLengths \in Seq(Nat \ {0})
    /\ MonthLengths # <<>> /\ Len(MonthLengths) % MonthsPerYear = 0

-----------------------------------------------------------------------------
(* The calendar: months are numbered from 0, days of a month from 1 *)

Prefix[m \in 0..Len(MonthLengths)] ==
    IF m = 0 THEN 0 ELSE Prefix[m - 1] + MonthLengths[m]

\* The number of the first day of month m.
MonthStart(m) ==
    (m \div Len(MonthLengths)) * Prefix[Len(MonthLengths)] + Prefix[m % Len(MonthLengths)]

DayOf(t) == t \div Day
Weekday(t) == DayOf(t) % DaysPerWeek
MonthOf(t) ==
    CHOOSE m \in 0..DayOf(t) : MonthStart(m) <= DayOf(t) /\ DayOf(t) < MonthStart(m + 1)
DayOfMonth(t) == DayOf(t) - MonthStart(MonthOf(t)) + 1
YearOf(t) == MonthOf(t) \div MonthsPerYear

\* time.Date(year, month, day, <time of day of t>)
Date(month, day, t) == (MonthStart(month) + day - 1) * Day + (t % Day)

\* t.AddDate(0, months, days)
AddDate(t, months, days) == Date(MonthOf(t) + months, DayOfMonth(t) + days, t)

-----------------------------------------------------------------------------
(* models.ScheduleConfig.  "by" is the one of by_day, by_month_day and        *)
(* by_month that the frequency reads; the optional count and until are        *)
(* sequences of at most one element; Unparsable is an until that is no date.  *)

Frequencies == {"minutely", "hourly", "daily", "weekly", "monthly", "yearly"}
Unparsable == -1

ByRange(frequency) ==
    CASE frequency = "weekly"  -> 0..(DaysPerWeek - 1)
      [] frequency = "monthly" -> 1..31
      [] frequency = "yearly"  -> 1..MonthsPerYear
      [] OTHER -> Int

\* Mutant: the interval is not looked at.
isValidScheduleAnyInterval(s) ==
    /\ s.frequency \in Frequencies
    /\ \A i \in 1..Len(s.by) : s.by[i] \in ByRange(s.frequency)

isValidSchedule(s) ==
    /\ s.frequency \in Frequencies
    /\ s.interval >= 1
    /\ \A i \in 1..Len(s.by) : s.by[i] \in ByRange(s.frequency)
    /\ s.count # <<>> => s.count[1] >= 1
    /\ s.until # <<Unparsable>>

-----------------------------------------------------------------------------
(* expandRecurringEvent *)

\* A product of time.Durations wraps around.
Wrapped(d) == ((d + MaxDuration) % (2 * MaxDuration)) - MaxDuration

\* The step of the loop over t.
NextAnchor(s, t) ==
    CASE s.frequency = "minutely" -> t + Wrapped(s.interval * Minute)
      [] s.frequency = "hourly"   -> t + Wrapped(s.interval * Hour)
      [] s.frequency = "daily"    -> AddDate(t, 0, s.interval)
      [] s.frequency = "weekly"   -> AddDate(t, 0, DaysPerWeek * s.interval)
      [] s.frequency = "monthly"  -> AddDate(t, s.interval, 0)
      [] s.frequency = "yearly"   -> AddDate(t, MonthsPerYear * s.interval, 0)

\* Mutant: the difference of the weekdays is not brought into 0..6.
ByDateSigned(s, t, b) ==
    CASE s.frequency = "weekly"  -> AddDate(t, 0, b - Weekday(t))
      [] s.frequency = "monthly" -> Date(MonthOf(t), b, t)
      [] s.frequency = "yearly"  ->
            Date(YearOf(t) * MonthsPerYear + b - 1, DayOfMonth(t), t)
      [] OTHER -> t

\* The date that element b of "by" makes of t.
ByDate(s, t, b) ==
    CASE s.frequency = "weekly"  -> AddDate(t, 0, (b - Weekday(t)) % DaysPerWeek)
      [] s.frequency = "monthly" -> Date(MonthOf(t), b, t)
      [] s.frequency = "yearly"  ->
            Date(YearOf(t) * MonthsPerYear + b - 1, DayOfMonth(t), t)
      [] OTHER -> t

\* Only these frequencies have a "by" at all.
ByOf(s) == IF s.frequency \in {"weekly", "monthly", "yearly"} THEN s.by ELSE <<>>

\* The dates in the order of the two loops, before the window is looked at.
\* While the loop advances, endTime - start steps are more than it takes.
Candidates(s, start, endTime) ==
    LET Anchor[k \in 0..(endTime - start)] ==
            IF k = 0 THEN start ELSE NextAnchor(s, Anchor[k - 1])
        by == ByOf(s)
        n == Cardinality({k \in 0..(endTime - start - 1) : Anchor[k] < endTime})
    IN IF by = <<>>
       THEN [i \in 1..n |-> Anchor[i - 1]]
       ELSE [i \in 1..(n * Len(by)) |->
               ByDate(s, Anchor[(i - 1) \div Len(by)], by[((i - 1) % Len(by)) + 1])]

\* Mutant: a date that is due now is expanded again.
InWindowWide(t, now) == now - GracePeriod <= t /\ t < now + LookAhead

\* Both bounds are strict.
InWindow(t, now) == now - GracePeriod < t /\ t < now + LookAhead

\* The first count dates of this window.
Truncate(s, dates) ==
    IF s.count # <<>> /\ Len(dates) > s.count[1] THEN SubSeq(dates, 1, s.count[1]) ELSE dates

\* The dates that lie in S, in their order: the others are passed over.
Among(dates, S) ==
    LET Kept[n \in 0..Len(dates)] ==
            IF n = 0 THEN <<>>
            ELSE IF dates[n] \in S THEN Append(Kept[n - 1], dates[n]) ELSE Kept[n - 1]
    IN Kept[Len(dates)]

\* What expandRecurringEvent hands to ExistsAtTime and scheduleWithRetry.
Occurrences(s, start, now) ==
    LET inWindow == Among(Candidates(s, start, now + LookAhead),
                          {t \in Int : InWindow(t, now)})
    IN Among(Truncate(s, inWindow), {t \in Int : s.until # <<>> => t < s.until[1]})

-----------------------------------------------------------------------------
(* Reference: the dates a rule means by RFC 5545, which design.md names.  Weeks *)
(* begin on Monday, a date that some month does not have is left out, until is  *)
(* itself a date, and count counts from the start.                              *)

Steps(s) ==
    CASE s.frequency = "minutely" -> s.interval * Minute
      [] s.frequency = "hourly"   -> s.interval * Hour
      [] s.frequency = "daily"    -> s.interval * Day
      [] s.frequency = "weekly"   -> s.interval * DaysPerWeek * Day

MonthsApart(s) == IF s.frequency = "monthly" THEN s.interval ELSE s.interval * MonthsPerYear

\* The week that day d, counted from the epoch, lies in, and how far into it.
Week(d) == (d + DaysPerWeek - Monday) \div DaysPerWeek
IntoWeek(d) == (d + DaysPerWeek - Monday) % DaysPerWeek

\* Is t among the dates of the rule of an event that starts at "start", its end
\* aside?
Named(s, start, t) ==
    /\ t >= start
    /\ CASE s.frequency = "weekly" /\ s.by # <<>> ->
              /\ t % Day = start % Day
              /\ \E i \in 1..Len(s.by) : s.by[i] = Weekday(t)
              /\ (Week(DayOf(t)) - Week(DayOf(start))) % s.interval = 0
         [] s.frequency \in {"monthly", "yearly"} ->
              /\ t % Day = start % Day
              /\ IF s.frequency = "monthly" /\ s.by # <<>>
                 THEN \E i \in 1..Len(s.by) : s.by[i] = DayOfMonth(t)
                 ELSE DayOfMonth(t) = DayOfMonth(start)
              /\ IF s.frequency = "yearly" /\ s.by # <<>>
                 THEN /\ \E i \in 1..Len(s.by) : s.by[i] = (MonthOf(t) % MonthsPerYear) + 1
                      /\ (YearOf(t) - YearOf(start)) % s.interval = 0
                 ELSE (MonthOf(t) - MonthOf(start)) % MonthsApart(s) = 0
         [] OTHER -> (t - start) % Steps(s) = 0

\* Does the rule name t?
OnRule(s, start, t) ==
    /\ Named(s, start, t)
    /\ s.until # <<>> => t <= s.until[1]
    /\ s.count # <<>> => Cardinality({u \in start..t : Named(s, start, u)}) <= s.count[1]

\* No by_month_day and no by_month, whose dates the loop may miss or find before
\* the start, and no day that some month does not have, from which it drifts.
CalendarSafe(s, start) ==
    s.frequency \in {"monthly", "yearly"} =>
        /\ s.by = <<>>
        /\ \A i \in 1..Len(MonthLengths) : DayOfMonth(start) <= MonthLengths[i]

\* The rules for which the loop finds the dates of the rule: in addition no
\* count, which is counted anew in every window, no until that is itself a date,
\* and weeks of the start that are weeks of the rule.
FollowsRule(s, start) ==
    /\ CalendarSafe(s, start)
    /\ s.count = <<>>
    /\ s.until # <<>> => ~Named(s, start, s.until[1])
    /\ s.frequency = "weekly" /\ s.interval > 1 =>
          \A i \in 1..Len(s.by) : IntoWeek(s.by[i]) >= IntoWeek(DayOf(start))
=============================================================================
