------------------------------ MODULE Expander ------------------------------
(***************************************************************************)
(* From event rows to deliveries: the expander loop                        *)
(* (internal/scheduler/expander.go), the requests that create, update and  *)
(* delete events and the expansions they start in goroutines               *)
(* (internal/handlers/event_handler.go), and the archival of old data      *)
(* (archive_old_data), against one events table, one occurrences table and *)
(* Redis.                                                                  *)
(*                                                                         *)
(* A row travels: an expansion works on the rows it read, a request writes *)
(* back the row it read, a worker inactivates the row it read.  The Redis  *)
(* commands of one ScheduleEvent, and the statements of one dispatch, are  *)
(* taken apart, and fail, in modules Scheduler and Dispatcher; here each   *)
(* is one step, and the dispatch queue and the retry queue are one set.    *)
(* What can fail here is what the expansions and the requests do.          *)
(* Instants are whole seconds.                                             *)
(***************************************************************************)
EXTENDS Recurrence

CONSTANTS
    Events,             \* event ids
    Definitions,        \* what POST may ask for: start and schedule
    Edits,              \* what PUT may ask for: start, schedule and status
    Loops,              \* Expander.Run, one per instance of the service
    Goroutines,         \* bound: expansions that run for requests
    Requests,           \* bound: PUT and DELETE requests
    Workers,            \* workers of the dispatcher
    MaxRetries,         \* dispatcher.max_retries
    ExpansionInterval,  \* scheduler.expansion_interval
    Retention,          \* the retention period given to archive_old_data
    Archives,           \* does the archival run?
    Prompt,             \* do expansions start and end within their second?
    MaxFaults,          \* bound: database and Redis errors
    MaxNow              \* bound: the last second in which an expansion starts

\* Optional fields are sequences of at most one element.
ASSUME ExpanderAssumption ==
    /\ \A d \in Definitions : d.start \in Nat
    /\ \A d \in Edits : d.start # <<>> => d.start[1] \in Nat
    /\ \A d \in Definitions \cup Edits : d.schedule # <<>> =>
          /\ d.schedule[1].interval \in Int
          /\ {d.schedule[1].by, d.schedule[1].count, d.schedule[1].until} \subseteq Seq(Int)
    /\ {MaxRetries, MaxFaults, MaxNow, Retention} \subseteq Nat
    /\ ExpansionInterval \in Nat \ {0}
    /\ {Prompt, Archives} \subseteq BOOLEAN

VARIABLES
    now,
    events,       \* table events
    occurrences,  \* table occurrences; n numbers equal rows
    stored,       \* Redis: the event and time of every schedule
    queue,        \* what was due and waits for a worker or for its retry
    proc,         \* expansions in progress
    nextRun,      \* the next tick of each loop's ticker
    request,      \* PUT and DELETE requests in progress
    worker,       \* dispatches in progress
    faults,       \* how many statements and commands have failed
    edited        \* history: events that a PUT has read

expVars == <<now, events, occurrences, stored, queue, proc, nextRun, request,
             worker, faults, edited>>

-----------------------------------------------------------------------------
(* Data *)

NoRow == {[status |-> "unborn"], [status |-> "deleted"], [status |-> "archived"]}
Exists(e) == events[e] \notin NoRow

Idle == [pc |-> "idle"]

Fault == faults < MaxFaults /\ faults' = faults + 1

Recurring(row) == row.schedule # <<>>

\* occurrences with one more row.
Logged(i, status) ==
    occurrences \cup
      {[event |-> i.event, at |-> i.at, status |-> status,
        n |-> Cardinality({o \in occurrences : o.event = i.event /\ o.at = i.at
                                               /\ o.status = status}) + 1]}

ExistsAtTime(e, t) == \E o \in occurrences : o.event = e /\ o.at = t

Completed(e) == {o \in occurrences : o.event = e /\ o.status = "completed"}

InFlight == queue \cup {worker[w].item : w \in {v \in Workers : worker[v] # Idle}}

-----------------------------------------------------------------------------
(* Expansion *)

RowOf(e) == [event |-> e, row |-> events[e]]

\* On to the next event, or done.
Continue(list) == IF list # {} THEN [pc |-> "next", list |-> list] ELSE Idle

\* On to the next date of this event.
Resume(list, e, dates) ==
    IF dates = <<>> THEN Continue(list)
    ELSE [pc |-> "exists", list |-> list, event |-> e, dates |-> dates]

\* Run, between two expansions.
TickerFires(l) == proc[l] = Idle /\ now >= nextRun[l] /\ now <= MaxNow

\* Mutant: Run returns with the first error of ExpandEvents.
ListActiveOrStop(l) ==
    /\ TickerFires(l)
    /\ LET active == {e \in Events : Exists(e) /\ events[e].status = "active"} IN
       \/ /\ proc' = [proc EXCEPT ![l] = Continue({RowOf(e) : e \in active})]
          /\ nextRun' = [nextRun EXCEPT ![l] = now + ExpansionInterval]
          /\ UNCHANGED faults
       \/ /\ Fault /\ UNCHANGED proc
          /\ nextRun' = [nextRun EXCEPT ![l] = MaxNow + 1]
    /\ UNCHANGED <<now, events, occurrences, stored, queue, request, worker, edited>>

\* ExpandEvents reads the active rows when the ticker ticks.
ListActive(l) ==
    /\ TickerFires(l)
    /\ nextRun' = [nextRun EXCEPT ![l] = now + ExpansionInterval]
    /\ LET active == {e \in Events : Exists(e) /\ events[e].status = "active"} IN
       \/ /\ proc' = [proc EXCEPT ![l] = Continue({RowOf(e) : e \in active})]
          /\ UNCHANGED faults
       \/ Fault /\ UNCHANGED proc
    /\ UNCHANGED <<now, events, occurrences, stored, queue, request, worker, edited>>

\* A one-time event's start, both bounds included.
StartInWindow(row) ==
    now - GracePeriod <= row.start /\ row.start <= now + LookAhead

\* expandRecurringEvent and expandNonRecurringEvent up to their first lookup.
\* The one-time event is scheduled without a look at its occurrences.
ExpandEvent(p) ==
    /\ proc[p].pc = "next"
    /\ \E x \in proc[p].list :
          LET rest == proc[p].list \ {x} IN
          proc' = [proc EXCEPT ![p] =
             IF Recurring(x.row)
             THEN Resume(rest, x.event, Occurrences(x.row.schedule[1], x.row.start, now))
             ELSE IF StartInWindow(x.row)
             THEN [pc |-> "schedule", list |-> rest, event |-> x.event,
                   dates |-> <<x.row.start>>]
             ELSE Continue(rest)]
    /\ UNCHANGED <<now, events, occurrences, stored, queue, nextRun, request, worker,
                   faults, edited>>

\* A date that has a row, or whose row cannot be looked up, is skipped.
CheckExists(p) ==
    /\ proc[p].pc = "exists"
    /\ LET skip == Resume(proc[p].list, proc[p].event, Tail(proc[p].dates)) IN
       \/ /\ proc' = [proc EXCEPT ![p] =
                        IF ExistsAtTime(@.event, Head(@.dates)) THEN skip
                        ELSE [@ EXCEPT !.pc = "schedule"]]
          /\ UNCHANGED faults
       \/ Fault /\ proc' = [proc EXCEPT ![p] = skip]
    /\ UNCHANGED <<now, events, occurrences, stored, queue, nextRun, request, worker,
                   edited>>

\* scheduleWithRetry: does nothing when the key is there, and gives up in the end.
Schedule(p) ==
    /\ proc[p].pc = "schedule"
    /\ \/ /\ stored' = stored \cup {[event |-> proc[p].event, at |-> Head(proc[p].dates)]}
          /\ UNCHANGED faults
       \/ Fault /\ UNCHANGED stored
    /\ proc' = [proc EXCEPT ![p] = Resume(@.list, @.event, Tail(@.dates))]
    /\ UNCHANGED <<now, events, occurrences, queue, nextRun, request, worker, edited>>

ExpansionStep(p) == ExpandEvent(p) \/ CheckExists(p) \/ Schedule(p)

\* "go func() { ... }" with the row in hand.
Go(e, row) ==
    \E g \in Goroutines :
        /\ proc[g] = Idle
        /\ proc' = [proc EXCEPT ![g] = [pc |-> "next", list |-> {[event |-> e, row |-> row]}]]

-----------------------------------------------------------------------------
(* Requests *)

\* POST: the start must not have passed, the schedule must be valid; an event
\* within the window is expanded at once.
CreateEvent(e, d) ==
    /\ events[e] = [status |-> "unborn"]
    /\ d.start >= now
    /\ d.schedule # <<>> => isValidSchedule(d.schedule[1])
    /\ LET row == [start |-> d.start, schedule |-> d.schedule, status |-> "active",
                   created |-> now]
       IN /\ events' = [events EXCEPT ![e] = row]
          /\ IF now - GracePeriod < d.start /\ d.start < now + LookAhead
             THEN Go(e, row) ELSE UNCHANGED proc
    /\ UNCHANGED <<now, occurrences, stored, queue, nextRun, request, worker, faults, edited>>

\* PUT, up to repo.Update: the fields of the request replace those of the row
\* that was read.  A start in the past is not refused.
ReadForUpdate(r, e, edit) ==
    /\ request[r].pc = "new"
    /\ Exists(e)
    /\ edit.schedule # <<>> => isValidSchedule(edit.schedule[1])
    /\ request' = [request EXCEPT ![r] =
          [pc |-> "write", event |-> e,
           row |-> [events[e] EXCEPT
                      !.start = IF edit.start # <<>> THEN edit.start[1] ELSE @,
                      !.schedule = IF edit.schedule # <<>> THEN edit.schedule ELSE @,
                      !.status = IF edit.status # <<>> THEN edit.status[1] ELSE @]]]
    /\ edited' = edited \cup {e}
    /\ UNCHANGED <<now, events, occurrences, stored, queue, proc, nextRun, worker, faults>>

\* Mutant: the row is inserted when it is not there.
WriteUpsert(r) ==
    /\ request[r].pc = "write"
    /\ events' = [events EXCEPT ![request[r].event] = request[r].row]
    /\ request' = [request EXCEPT ![r].pc = "remove"]
    /\ UNCHANGED <<now, occurrences, stored, queue, proc, nextRun, worker, faults, edited>>

\* repo.Update: every column, of a row that is still there.
WriteUpdate(r) ==
    /\ request[r].pc = "write"
    /\ LET e == request[r].event IN
       IF Exists(e)
       THEN /\ events' = [events EXCEPT ![e] = request[r].row]
            /\ request' = [request EXCEPT ![r].pc = "remove"]
       ELSE /\ request' = [request EXCEPT ![r] = [pc |-> "done"]]
            /\ UNCHANGED events
    /\ UNCHANGED <<now, occurrences, stored, queue, proc, nextRun, worker, faults, edited>>

StoredWithout(e) == {s \in stored : s.event # e}

\* Its schedules are removed from Redis, and the row as written is expanded
\* whatever its status is.
RemoveAndExpand(r) ==
    /\ request[r].pc = "remove"
    /\ \/ stored' = StoredWithout(request[r].event) /\ UNCHANGED faults
       \/ Fault /\ UNCHANGED stored
    /\ Go(request[r].event, request[r].row)
    /\ request' = [request EXCEPT ![r] = [pc |-> "done"]]
    /\ UNCHANGED <<now, events, occurrences, queue, nextRun, worker, edited>>

\* DELETE: the row and, by cascade, its occurrences; then Redis.
DeleteEvent(r, e) ==
    /\ request[r].pc = "new"
    /\ Exists(e)
    /\ events' = [events EXCEPT ![e] = [status |-> "deleted"]]
    /\ occurrences' = {o \in occurrences : o.event # e}
    /\ request' = [request EXCEPT ![r] = [pc |-> "purge", event |-> e]]
    /\ UNCHANGED <<now, stored, queue, proc, nextRun, worker, faults, edited>>

Purge(r) ==
    /\ request[r].pc = "purge"
    /\ \/ stored' = StoredWithout(request[r].event) /\ UNCHANGED faults
       \/ Fault /\ UNCHANGED stored
    /\ request' = [request EXCEPT ![r] = [pc |-> "done"]]
    /\ UNCHANGED <<now, events, occurrences, queue, proc, nextRun, worker, edited>>

RequestStep(r) == WriteUpdate(r) \/ RemoveAndExpand(r) \/ Purge(r)

-----------------------------------------------------------------------------
(* The poller and the workers *)

Due == {s \in stored : s.at <= now}

\* Items of the same event and time have different occurrence ids.
WithId(s) ==
    [event |-> s.event, at |-> s.at, attempt |-> 0,
     copy |-> CHOOSE c \in 0..Cardinality(InFlight) :
                 \A i \in InFlight : i.event = s.event /\ i.at = s.at => i.copy # c]

GetDueSchedules ==
    /\ Due # {}
    /\ stored' = stored \ Due
    /\ queue' = queue \cup {WithId(s) : s \in Due}
    /\ UNCHANGED <<now, events, occurrences, proc, nextRun, request, worker, faults, edited>>

\* Mutant: the number of attempts is not looked at.
RetryOfForever(i) == {i}

\* Mutant: one attempt too many.
RetryOfOnceMore(i) == IF i.attempt < MaxRetries THEN {[i EXCEPT !.attempt = @ + 1]} ELSE {}

\* A failed item is put back, up to MaxRetries attempts.
RetryOf(i) == IF i.attempt + 1 < MaxRetries THEN {[i EXCEPT !.attempt = @ + 1]} ELSE {}

\* A worker pops an item and reads the event; without an event the attempt fails.
Fetch(w, i) ==
    /\ worker[w] = Idle
    /\ IF Exists(i.event)
       THEN /\ worker' = [worker EXCEPT ![w] = [pc |-> "execute", item |-> i,
                                                row |-> events[i.event]]]
            /\ queue' = queue \ {i}
       ELSE /\ queue' = (queue \ {i}) \cup RetryOf(i)
            /\ UNCHANGED worker
    /\ UNCHANGED <<now, events, occurrences, stored, proc, nextRun, request, faults, edited>>

\* The action is executed, and the occurrence logged if its event is there.  An
\* active event that ran may be over: a one-time event is.
Execute(w, ok) ==
    /\ worker[w].pc = "execute"
    /\ LET i == worker[w].item IN
       /\ occurrences' = IF Exists(i.event) THEN Logged(i, IF ok THEN "completed" ELSE "failed")
                         ELSE occurrences
       /\ queue' = IF ok THEN queue ELSE queue \cup RetryOf(i)
    /\ worker' = [worker EXCEPT ![w] =
         IF ok /\ @.row.status = "active"
         THEN [@ EXCEPT !.pc = IF Recurring(worker[w].row) THEN "count" ELSE "update"]
         ELSE Idle]
    /\ UNCHANGED <<now, events, stored, proc, nextRun, request, faults, edited>>

\* Mutant: one more than count.
EndsOneLater(s, completed) == s.count # <<>> /\ completed > s.count[1]

\* Is a recurring event over once it has this many completed occurrences?
Ends(s, completed) ==
    \/ s.count # <<>> /\ completed >= s.count[1]
    \/ s.until # <<>> /\ now > s.until[1]

\* CountCompletedByEventID, and the schedule of the row the worker read.
CountCompleted(w) ==
    /\ worker[w].pc = "count"
    /\ worker' = [worker EXCEPT ![w] =
         IF Ends(@.row.schedule[1], Cardinality(Completed(@.item.event)))
         THEN [@ EXCEPT !.pc = "update"] ELSE Idle]
    /\ UNCHANGED <<now, events, occurrences, stored, queue, proc, nextRun, request, faults,
                   edited>>

\* The row the worker read is written back with status inactive.
Inactivate(w) ==
    /\ worker[w].pc = "update"
    /\ events' = [e \in Events |-> IF e = worker[w].item.event /\ Exists(e)
                                   THEN [worker[w].row EXCEPT !.status = "inactive"]
                                   ELSE events[e]]
    /\ worker' = [worker EXCEPT ![w] = Idle]
    /\ UNCHANGED <<now, occurrences, stored, queue, proc, nextRun, request, faults, edited>>

WorkerStep(w) ==
    \/ \E i \in queue : Fetch(w, i)
    \/ \E ok \in BOOLEAN : Execute(w, ok)
    \/ CountCompleted(w) \/ Inactivate(w)

-----------------------------------------------------------------------------
(* Archival and time *)

\* archive_old_data, one transaction: occurrences before the cutoff, then the
\* events without an occurrence after it.
ArchiveOldData ==
    /\ Archives
    /\ occurrences' = {o \in occurrences : o.at >= now - Retention}
    /\ events' = [e \in Events |->
                    IF Exists(e) /\ \A o \in occurrences' : o.event # e
                    THEN [status |-> "archived"] ELSE events[e]]
    /\ UNCHANGED <<now, stored, queue, proc, nextRun, request, worker, faults, edited>>

\* A second in which nobody is late.
OnTime ==
    /\ \A p \in Loops \cup Goroutines : proc[p] = Idle
    /\ \A l \in Loops : now < nextRun[l] \/ now > MaxNow

\* Time passes while there may be an expansion or a schedule is to come.
Tick ==
    /\ now <= MaxNow \/ \E s \in stored : s.at > now
    /\ Prompt => OnTime
    /\ now' = now + 1
    /\ UNCHANGED <<events, occurrences, stored, queue, proc, nextRun, request, worker,
                   faults, edited>>

Init ==
    /\ now = 0
    /\ events = [e \in Events |-> [status |-> "unborn"]]
    /\ occurrences = {}
    /\ stored = {}
    /\ queue = {}
    /\ proc = [p \in Loops \cup Goroutines |-> Idle]
    /\ nextRun = [l \in Loops |-> 0]
    /\ request = [r \in Requests |-> [pc |-> "new"]]
    /\ worker = [w \in Workers |-> Idle]
    /\ faults = 0
    /\ edited = {}

Next ==
    \/ \E l \in Loops : ListActive(l)
    \/ \E p \in Loops \cup Goroutines : ExpansionStep(p)
    \/ \E e \in Events, d \in Definitions : CreateEvent(e, d)
    \/ \E r \in Requests :
          \/ RequestStep(r)
          \/ \E e \in Events :
                DeleteEvent(r, e) \/ \E edit \in Edits : ReadForUpdate(r, e, edit)
    \/ GetDueSchedules
    \/ \E w \in Workers : WorkerStep(w)
    \/ ArchiveOldData
    \/ Tick

Spec == Init /\ [][Next]_expVars

\* Goroutines that can go on do so, the pollers tick, time passes.
FairSpec ==
    /\ Spec
    /\ \A l \in Loops : WF_expVars(ListActive(l))
    /\ \A p \in Loops \cup Goroutines : WF_expVars(ExpansionStep(p))
    /\ \A r \in Requests : WF_expVars(RequestStep(r))
    /\ \A w \in Workers : WF_expVars(WorkerStep(w))
    /\ WF_expVars(GetDueSchedules)
    /\ WF_expVars(Tick)

-----------------------------------------------------------------------------
(* Properties *)

Gone(e) == events[e] \in {[status |-> "deleted"], [status |-> "archived"]}

Trace(e, t) ==
    \/ [event |-> e, at |-> t] \in stored
    \/ \E i \in InFlight : i.event = e /\ i.at = t
    \/ ExistsAtTime(e, t)

NoTrace(e) == \A x \in stored \cup InFlight : x.event # e

\* Somebody works on a row of e that was read or written earlier.
Held(e) ==
    \/ \E p \in Loops \cup Goroutines :
          \/ proc[p].pc # "idle" /\ \E x \in proc[p].list : x.event = e
          \/ proc[p].pc \in {"exists", "schedule"} /\ proc[p].event = e
    \/ \E r \in Requests : request[r].pc \in {"write", "remove"} /\ request[r].event = e

\* What PUT writes into the status is not looked at.
Statuses ==
    {"active", "inactive"} \cup {d.status[1] : d \in {x \in Edits : x.status # <<>>}}

\* Types.
ETypeOK ==
    /\ now \in Nat
    /\ \A e \in Events : Exists(e) =>
          /\ events[e].start \in Nat
          /\ events[e].status \in Statuses
    /\ \A o \in occurrences : o.event \in Events /\ o.at \in Nat /\ o.n \in Nat \ {0}
    /\ \A s \in stored : s.event \in Events /\ s.at \in Nat
    /\ \A i \in InFlight : i.attempt = 0 \/ i.attempt < MaxRetries
    /\ faults \in 0..MaxFaults

\* The dates expandRecurringEvent finds for an event are those of its rule that
\* lie in the window, each once.
Exact(e) ==
    LET s == events[e].schedule[1]
        start == events[e].start
        dates == Occurrences(s, start, now)
    IN /\ \A t \in 0..(now + LookAhead) :
             (\E i \in 1..Len(dates) : dates[i] = t)
                 <=> InWindow(t, now) /\ OnRule(s, start, t)
       /\ \A i, j \in 1..Len(dates) : dates[i] = dates[j] => i = j

\* expandRecurringEvent finds exactly the dates that RFC 5545 gives the rule in
\* the window, whatever the window: weekdays in the list's order, weeks that wrap
\* around, intervals, months of different lengths, an until between two dates.
\* The rules on which the loop and the RFC part (FollowsRule) are left out.
WindowExact ==
    \A e \in Events : Exists(e) /\ Recurring(events[e])
                      /\ FollowsRule(events[e].schedule[1], events[e].start) => Exact(e)

\* The loop over the dates of an event in the table goes forward, or it would
\* never end: what isValidSchedule accepts has a step.
LoopAdvances ==
    \A e \in Events : Exists(e) /\ Recurring(events[e]) =>
        \A t \in events[e].start..(now + LookAhead) : NextAnchor(events[e].schedule[1], t) > t

\* No date of an active event goes by unnoticed: each that lies far enough from
\* the event's creation for one expansion more than can fail has a schedule, a
\* delivery under way or a row, because the next expansion comes in time.
NothingMissed ==
    \A e \in Events \ edited :
        Exists(e) /\ events[e].status = "active" /\ Recurring(events[e]) =>
            LET s == events[e].schedule[1]
                start == events[e].start
                first == events[e].created + 1 + (MaxFaults + 1) * ExpansionInterval
            IN FollowsRule(s, start) =>
                 \A t \in first..now :
                     t >= now - Retention /\ t <= MaxNow /\ OnRule(s, start, t) => Trace(e, t)

\* "Prevent duplicate occurrences" (expander.go:238): no date of a recurring
\* event is delivered twice, although its row is written only after its
\* delivery and its schedule leaves Redis before.
DeliveredOnce ==
    \A o \in occurrences :
        /\ o.event \notin edited
        /\ Exists(o.event) /\ Recurring(events[o.event])
        /\ o.status = "completed"
        => o.n = 1

\* A deleted or archived event stays away, whoever still writes back a row of
\* it, and once no expansion and no request holds a row of it, nothing is
\* scheduled for it any more.
GoneForGood ==
    [][\A e \in Events : Gone(e) =>
          /\ Gone(e)'
          /\ ~Held(e) => \A s \in stored' : s.event = e => s \in stored]_expVars

\* What expansions that outlived a delete, or an inactivation, have left in
\* Redis leaves it and is dropped in the end.
EndedEventsDrain ==
    \A e \in Events :
        /\ Gone(e) ~> []NoTrace(e)
        /\ (events[e].status = "inactive" /\ e \notin edited) ~> [](NoTrace(e) \/ e \in edited)

\* An event whose count is reached is inactivated, although each dispatch counts
\* by itself and works on the row it read before.
CountInactivates ==
    \A e \in Events :
        /\ Exists(e) /\ e \notin edited /\ Recurring(events[e])
        /\ events[e].schedule[1].count # <<>>
        /\ Cardinality(Completed(e)) >= events[e].schedule[1].count[1]
        ~> ~Exists(e) \/ e \in edited \/ events[e].status = "inactive"
=============================================================================
