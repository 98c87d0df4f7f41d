----------------------------- MODULE MCExpander -----------------------------
(* Instances of module Expander for TLC: a calendar with weeks of three days *)
(* and years of two months, the second year a leap year.                     *)
EXTENDS Expander, TLC

Months == <<3, 2, 3, 3>>

Rule(frequency, interval, by) ==
    [frequency |-> frequency, interval |-> interval, by |-> by, count |-> <<>>,
     until |-> <<>>]

Def(start, schedule) == [start |-> start, schedule |-> schedule]

\* Weekdays out of order and around the end of the week, months of different
\* lengths, years, lists the loop may miss, an until, and an interval that
\* isValidSchedule must refuse.
Defs ==
    {Def(1, <<r>>) : r \in
       {Rule("weekly", 2, <<2, 0>>), Rule("monthly", 1, <<>>), Rule("monthly", 1, <<3, 1>>),
        Rule("yearly", 1, <<>>), Rule("yearly", 1, <<2>>), Rule("hourly", 0, <<>>),
        [Rule("minutely", 2, <<>>) EXCEPT !.until = <<4>>]}}

NoEdit == [start |-> <<>>, schedule |-> <<>>, status |-> <<>>]
SomeEdits == {[NoEdit EXCEPT !.start = <<3>>, !.status = <<"paused">>]}

\* Events that end: a one-time event, and a count that several dates reach.
Ending ==
    {Def(1, <<>>), Def(1, <<[Rule("daily", 1, <<>>) EXCEPT !.count = <<1>>]>>)}
Rescheduled == {[NoEdit EXCEPT !.start = <<2>>, !.status = <<"active">>]}
=============================================================================
