# Qhronos in TLA+

A verification project for Qhronos (`src/`), a service that stores events,
expands them into occurrences, keeps the occurrences in Redis until they are
due, and dispatches them as webhooks, websocket messages or API calls. The TLA+
modules model the parts that carry this logic, TLC checks them on small
instances, and TLAPS proves the most important invariants for every instance.

## 1. Inventory

### Components

| Component | State | Operations | Talks to |
|---|---|---|---|
| Scheduler core (`internal/scheduler/scheduler.go`) | Redis: ZSET `schedules`, HASH `schedule:data`, LIST `dispatch:queue` | `ScheduleEvent` (HEXISTS, ZADD, HSET), `GetDueSchedules` (a Lua script), `PopDispatchQueue`, `RemoveScheduledEvent` | called by the expander, the handlers' goroutines, the poller in `main.go` |
| Expander (`expander.go`) | none of its own | every interval: `ListActive`, expand each event into the occurrences of its window, `scheduleWithRetry` | event and occurrence repositories, scheduler core |
| Dispatcher (`dispatcher.go`) | Redis ZSET `retry:queue`; the workers' stacks | `Run` (workers: BRPOP, `DispatchAction`, retry), retry poller, auto-inactivation | dispatch queue, repositories, actions |
| Actions (`internal/actions`) | none | `Execute` per action type | HTTP, websocket handler |
| Event repository | table `events`; removes from Redis on `Delete` | `Create`, `GetByID`, `Update`, `Delete`, `ListActive`, `RemoveEventOccurrencesFromRedis` | PostgreSQL, Redis |
| Occurrence repository | table `occurrences` | `Create`, `ExistsAtTime`, `CountCompletedByEventID`, listings | PostgreSQL |
| Event handlers (REST) | none | POST, PUT, DELETE; start an expansion in a goroutine | event repository, expander |
| Archival scheduler (`archiver.go`, `archive_old_data`) | PostgreSQL advisory lock, Redis key `archiver:last_archival_time`, archive tables | one cycle per tick: lock, check, archive, update, unlock | PostgreSQL, Redis, the other instances |
| Rate limiter (`middleware/rate_limit.go`) | two Redis keys per client | one check per request | Redis, concurrent requests |
| WebSocket handler | maps of connections, round-robin index, a mutex | handshake, register, read loop, clean-up, `DispatchToClient` | dispatcher's websocket action |
| Tokens, HMAC, auth | none | stateless checks | |
| Occurrence handlers, status, configuration, logging, start-up | none | read-only or wiring | |

### What is hard here

Several goroutines, and in a deployment several instances of the service, share
Redis and PostgreSQL without transactions across them:

* `ScheduleEvent` is three commands. Two callers, the poller and a removal
  interleave between them, each command can fail or lose its reply, the caller
  retries with the same occurrence, and the process can die in between.
* A worker pops an item, reads the event, waits for an HTTP request, logs,
  perhaps writes the event's row back, perhaps puts the item into the retry
  queue. Users edit and delete the event meanwhile; every statement can fail.
* The archiver's lock belongs to a database session, its statements to a pool.
* The rate limiter reads outside the transaction it writes in.
* An expansion works on rows it read before and looks for duplicates in a table
  that is written only after the delivery; requests start expansions of their
  own, and PUT writes back a whole row. All of it repeats every interval, over a
  window that moves with the clock and over the calendar.
* The websocket handler writes to the network under the mutex that every
  registration and clean-up needs.

`PROJECT.json` lists each of these hazards at its line, with the properties that
would catch it going wrong.

### What makes each component correct

* Scheduler core: an occurrence is never in two places, none is dropped by
  anything but its own removal, what is stored is visible to the poller, and it
  is eventually moved on.
* Dispatcher: one holder per occurrence, a bounded number of executions, none
  after a success, never early, a truthful log, and eventually an end.
* Archiver: one instance at a time, once per period, and it goes on after crashes
  and failures.
* Rate limiter: a bucket in its range, and no more requests than it pays for.
* Expander: the window holds exactly the dates of the rule as RFC 5545 means it, no
  date is missed or delivered twice, a count ends the event, nothing
  stays scheduled for an event that has gone.
* WebSocket handler and routing: messages go to registered connections of the
  client the event names and to no others, no connection stays registered after
  its clean-up, nobody keeps the mutex, the two columns that hold the target of an
  event agree whoever writes the row.

## 2. Modules

| Module | Models | |
|---|---|---|
| `Scheduler` | scheduler core, `scheduleWithRetry`, removals | base of `Dispatcher` |
| `Dispatcher` | workers, retry poller, `DispatchAction`, edits of events | composes `Scheduler` |
| `Delivery` | abstract: the life of one occurrence | implemented by `Dispatcher` |
| `Recurrence` | `isValidSchedule`, the dates `expandRecurringEvent` finds, over a calendar that is a parameter | base of `Expander` |
| `Expander` | expander loop, POST, PUT and DELETE, what they start, dispatch in large steps, `archive_old_data` | composes the above |
| `Routing` | action and webhook of requests and rows | base of `WebSocket` |
| `WebSocket` | connections, registry, executors | composes handler, repository and dispatcher |
| `Archiver` | archival scheduler in several instances | |
| `RateLimiter` | the token bucket of one client | |
| `MC*` | symmetry and definitions for TLC | |
| `SchedulerProofs`, `ArchiverProofs`, `RateLimiterProofs`, `WebSocketProofs` | theorems of the module they are named after | |
| `DispatcherProofs` | types, one holder, nothing early | base of `DeliveryProofs` |
| `DeliveryProofs` | what happens to an occurrence, and the refinement of `Delivery` | |
| `RecurrenceProofs` | lemmas on the calendar, the loop over the dates and the window | base of `ExpanderProofs` |
| `ExpanderProofs` | theorems of `Expander` | |

### Scheduler

State: `schedules` is the set of members of the ZSET (a member's score is the
time in its key), `data` the values of the HASH (at most one per key),
`dispatchQueue` the LIST, left end first. `caller[c]` is a call of
`ScheduleEvent` in progress, by the command it is about to send; `remover[r]` a
removal in progress. A payload is reduced to occurrence id, event, time and
attempt. Times are whole seconds, as in the code.

| Action | Code |
|---|---|
| `ScheduleEvent`, `HExists`, `ZAdd`, `HSet` | `scheduler.go:35-77`, one action per command; `Failed` is `scheduleWithRetry` (`expander.go:81-117`) |
| `GetDueSchedules` | the Lua script, atomic; the orders it may produce are `ScoreOrders` |
| `PopDispatchQueue` | `scheduler.go:108-121` |
| `StartRemoval`, `RemoveEventOccurrencesFromRedis`, `RemZRange`, `RemHGet`, `RemZRem`, `RemHDel`, `RemoveScheduledEvent` | `event_repository.go:241-275`, `scheduler.go:123-135`, one action per command |
| `CallerCrash`, `RemoverCrash`, `Tick` | a process dies; time passes |

A command that returns an error may have taken effect: with `LostReplies` in
`ScheduleEvent`, always in the removals, whose callers ignore or only log it.

### Dispatcher

Adds `events` (rows or `NoRow`), `occurrences`, `retryQueue` and `worker[w]`
(the statement the worker is at, the item, the row it read). The history
variables `calls` and `delivered` count executions and successes. One action per
statement that reads or writes shared state: `BRPop`, `GetByID`,
`LogErrOccurrence`, `CleanZRem`, `CleanHDel`, `Execute`, `LogOccurrence`,
`CountCompleted`, `Update`, `Finish`; `RetryPoller` is the second Lua script;
`UpdateEvent` and `DeleteEvent` are the user; `WorkerCrash` loses what the
worker holds. The refinement maps an occurrence to `unborn`, `waiting` (caller,
hash, dispatch queue or retry queue), `running` (a worker) or `out`.

### Archiver

`lock[i][c]` is how often the session of connection `c` of instance `i` holds
the advisory lock. PostgreSQL lets a session take its own lock again and ignores
an unlock by another session. Every statement picks a connection of the pool
(`database/postgres.go` sets 25, without a lifetime). Time is cyclic: the clock
is kept modulo the period and the Redis key as the time that is left, so that
the state space is finite without a bound on time and liveness can be checked. A
tick of the clock is a fraction of a second; the RFC 3339 format cuts the
fraction off (`NextTime`). The history variable `smooth` says that nothing has failed
so far: every statement, command, session and process. What `archive_old_data` deletes
is in `Expander`.

### Recurrence

An instant is a number of ticks. `MonthLengths` is a cycle of whole years, so
`Date` and `AddDate` can carry a day past the end of a month over as Go's `time`
package does; weeks and years may be shorter than ours. `Candidates` are the
dates in the order of the code's two loops, `InWindow` has the strict bounds of
`After` and `Before`, `Truncate` is Count, and `Occurrences` what is left to look
up and schedule (`Among` passes the other dates over). A product of durations wraps
(`Wrapped`).

`OnRule` is the reference, and not taken from the code: the dates the rule means by
RFC 5545, which `README.md:36` and `design.md:83` name. Weeks begin on Monday, until
is itself a date, count counts from the start, and a date that some month does not
have is left out. The loop differs in each of these points. `FollowsRule` is the
class of rules on which the two agree, and `WindowExact` and `NothingMissed` are
stated for it; where they part is listed at the end of section 3.

### Expander

`events` is the table (a row, or why there is none), `occurrences` the other
table, `stored` the keys in Redis, `queue` what is due and not with a worker.
`proc[p]` is an expansion: the loop's (`TickerFires`, `ListActive`) or a
request's (`Go`), with the rows it read and the dates it has left. `request[r]`
holds the row PUT is about to write, `worker[w]` the row the dispatcher read. The
status of a row is whatever a PUT says (`Statuses`): nobody looks at it.

| Action | Code |
|---|---|
| `ListActive`, `ExpandEvent`, `CheckExists`, `Schedule` | `Run`, `ExpandEvents`, `expandRecurringEvent`, `expandNonRecurringEvent`, `scheduleWithRetry` |
| `CreateEvent` | POST, with the expansion it starts |
| `ReadForUpdate`, `WriteUpdate`, `RemoveAndExpand` | PUT; its start time check compares the value with itself and does not return, so there is no guard for it |
| `DeleteEvent`, `Purge` | DELETE |
| `GetDueSchedules`, `Fetch`, `Execute`, `CountCompleted`, `Inactivate` | poller and worker, in the steps that matter to rows: the read of the row, the action with its log row, the count of the completed rows, the write-back |
| `ArchiveOldData` | the SQL function, one transaction |

### Routing and WebSocket

A string is a sequence of tokens (the constant `Tokens`), so that "`q:` and more" is
visible.
`deriveActionFromRequest`, `Apply`, `deriveAndSetAction` and
`populateWebhookFromAction` are the four conversions. `conn[c]` is the handler
goroutine of a connection, `hooks` and `listeners` the two registries, `mu` the
mutex. A worker holds it from `WriteTo` to `Written`; a map is iterated in any
order, so any connection of the client may be the one at the index. The peer dies
at any time (`PeerDies`), and the handler notices when it reads; a peer may also stop
reading (`PeerStalls`) and begin again (`PeerReads`).

A row has three writers: POST (`CreateEvent`), PUT (`ReadForUpdate`, `WriteUpdate`)
and the dispatcher, which after a delivery that ends the event writes back the row
it had read (`Finish`, `Inactivate`). Which deliveries end an event depends on
columns that are in `Expander`; here any may. The history variable `asked` holds what
the last writer asked for, or what it had found when it asked for nothing.

### RateLimiter

Each key is unset or has a value and the second it was written in, and expires
within the second its time to live ends. A request goes through `Arrive` (reads
the clock), `GetBucket`, `GetLastUpdate` (refill and decision) and `Exec`.

## 3. Runs

Passing runs:

| Run | Instance | Shows |
|---|---|---|
| `sched_safety` | 2 callers, 1 remover, 2 times, 3 ids, errors, retries, crashes | `OidInOnePlace`, `NothingDropped` |
| `sched_single` | 1 caller, 3 tries, errors, lost replies, crashes, fair | `StoredIsScheduled`, `EventuallyQueued` |
| `disp_safety` | 2 workers, 2 ids, 2 attempts, 4 kinds of event, all errors but lost replies, crashes | `HeldOnce`, `AttemptsBounded`, `NeverEarly`, `LogConsistent`, `NoCallAfterSuccess`, `ImplementsDelivery` |
| `disp_users` | 2 workers, 1 remover, users edit and delete, fair | `ImplementsDelivery`; without edits `DeliveredOrExhausted`, `EventuallySettled`, `OneTimeInactivated` |
| `exp_window` | 1 event with one of 6 rules (a seventh is refused), loop, 1 request goroutine, 1 PUT or DELETE, 1 worker, 1 fault, archival, 5 seconds | `WindowExact`, `LoopAdvances`, `NothingMissed`, `DeliveredOnce`, `GoneForGood` |
| `exp_ending` | a one-time event or a count of one, 2 workers, PUT or DELETE, archival, fair | `EndedEventsDrain`, `CountInactivates` |
| `ws_delivery` | 2 connections, 4 handshakes, 2 workers that may write rows back, 1 PUT, peers that die or stop reading, fair | `RegistryExact`, `OnlyItsClient`, `PickInRange`, `RoutedAsAsked`; `DeadLeave`, `NobodyBlocks` |
| `arch_failures` | 2 instances, 2 connections, failing statements and sessions, crashes, restarts, fair | `OneArchiver`, `OncePerPeriod`, `ArchivalGoesOn` |
| `rl_bucket` | 4 requests, errors, expiry | `BucketInRange`, `BurstBounded` |

Runs that show a disagreement between the code and what it says of itself (the
quotes are in `PROJECT.json`, "findings"):

| Run | What the counterexample shows |
|---|---|
| `sched_stranded` | Two callers of the same key and a poll between their HSETs leave a value that is never dispatched and blocks its key ("Already scheduled, skip"). |
| `exp_duplicate` | With a grace period, a date whose first copy waits for a worker is expanded and delivered again ("Prevent duplicate occurrences"). |
| `ws_blocked` | A write under the mutex to a peer that is there and does not read never returns; the connection of a peer that died is never cleaned up ("The server handles disconnects and cleans up registries"). |

Limits of the properties that hold, each of them a behaviour of the code:

* `OidInOnePlace` needs `LostReplies = FALSE`. A retry after a lost reply to HSET
  stores the same occurrence again once the poller has moved the first copy.
* `StoredIsScheduled` needs a single scheduling process and no removal: a ZREM
  between a caller's ZADD and HSET strands the value as a second caller does.
* `BurstBounded` speaks of behaviours in which requests do not overlap and no key
  has expired (the history variable `plain`). Overlapping requests read the same
  token; a key that has expired counts as a full bucket, whatever the refill rate.
* `OneArchiver` excepts an instance that lost the session it took the lock with
  (the history variable `lost`); it works on without the lock.
* The liveness properties of the dispatcher speak of events nobody edits: a
  removal between ZADD and HSET strands a value.
* `DeliveredOnce` needs `GracePeriod = 0` and expansions that start and end within
  their second (`Prompt`). A slow expansion that computed its dates before they
  were due schedules them again after they were delivered. It is about recurring
  events that were not edited: PUT expands what is still without a row again, and
  a one-time event is scheduled without any lookup.
* `NothingMissed` needs a date at least `MaxFaults + 1` expansions away from the
  creation of its event. It holds with `Prompt` only.
* `WindowExact` and `NothingMissed` speak of the rules of `FollowsRule`: no
  `by_month_day` and no `by_month` (the code finds such dates before the start and
  misses those whose anchor is past the window), a start day that every month has,
  no count, no until that is itself a date, and with an interval of several weeks no
  weekday before that of the start.
* `DeadLeave` and `NobodyBlocks` speak of behaviours in which no peer that is there
  stops reading for good (`PeersRead`); `ws_blocked` is the other case.
* `ArchivalGoesOn` speaks of behaviours in which failures stop costing cycles in the
  end, some instance stays up, and no session keeps the lock between two cycles
  (`Abandoned`). TLC finds a counterexample without any one of the three.
* `OncePerPeriod` speaks of behaviours up to the first failure: an archival whose
  write of the key fails is repeated in the next cycle.
* `RoutedAsAsked` is about one writer: the row says what its last writer asked for
  or had read. It does not say that the edit of an earlier one survives.
* `LoopAdvances` holds for intervals whose product with the unit fits into a
  `time.Duration`; `isValidSchedule` has no upper bound.
* `CountInactivates` does not say that no more than Count occurrences run.
* `RoutedAsAsked` leaves out webhook actions whose url begins with `q:`; the
  repository turns them into websocket actions.

Behaviours met while modelling that no run is kept for. The first five are
what TLC's counterexamples to the obvious stronger properties show:

* `README.md:36` and `design.md:83` name RFC 5545, and the loop differs from it. A
  date that is exactly until is left out (`Before`, `expander.go:228`). Weeks are
  counted from the start, not from Monday, so that every second week from the middle
  of a week finds a weekday before that of the start in a week that the rule leaves
  out (`:171`). A day that the next month does not have is carried over by `AddDate`
  (`:181`), where the rule has no date.
* Count is "number of occurrences" (`models/event.go:31`), but truncates each window
  by itself (`expander.go:217`), and the dispatcher looks at no status: a count of one
  may be delivered twice.
* Two PUTs that read the same row: the one that names no target writes the old one
  back over the other's (`event_handler.go:293`).
* A PUT during a delivery that ends its event: the inactivation writes back the row
  the worker had read, target included (`dispatcher.go:162`, `:184`,
  `event_repository.go:172-197`).
* The advisory lock is released on any connection of the pool (`archiver.go:25`,
  `postgres.go:33`). An unlock on another session than the one that took the lock
  leaves the lock with an idle session, and every later cycle is skipped without any
  failure, until that session is handed out again or ends.
* The clean-up of "orphaned" schedules (`dispatcher.go:93-97`) runs only when the
  database fails; a missing event takes the other branch. It then deletes the
  schedule of an event that may exist.
* `archive_old_data` (`001_initial_schema.sql:209-235`) deletes every event without
  a recent occurrence row, also an active one whose first occurrence is still to
  come; its schedules then fail and are dropped (`EndedEventsDrain`).
* PUT expands the row whatever its status is: a paused event is scheduled once
  more (`event_handler.go:306`).
* `README.md:208` says an omitted interval defaults to 1; `isValidSchedule` refuses
  it. `README.md:180` and `design.md:371` offer `apicall`; `deriveActionFromRequest`
  refuses it. `design.md:309` says a message goes to all connections of a client;
  `DispatchToClient` writes to one. `hmac_secret` is accepted by POST and PUT but in
  no column list of `Create`, `Update` and `GetByID`.

### Bounds

Every bound is a constant. `MaxNow`, `MaxTime` stop the clock; `MaxOid` bounds
the occurrences; `MaxTries` and `MaxRetries` are the code's own limits, made
small; `MaxLevel` bounds how often one session takes the lock. Two callers of
one key, one poll and one removal are enough for every race on a key, because
the commands on different keys commute; two times make one schedule due before
the other; two attempts are enough for "first", "retry" and "last". Two workers
meet on one dispatch queue. In the dispatcher runs the clock does not stop while
an item waits for its retry (`DTick`), so the liveness results do not come from
the bound.

In `Expander`, `MaxNow` is the last second in which an expansion starts; the clock
then goes on while something is scheduled. `MaxFaults` bounds the failing
statements, `Goroutines` and `Requests` what users start. The calendar of the runs
has weeks of three days and years of two months of 3, 2, 3 and 3 days: dates wrap
around a week, cross months of different lengths and a leap year within five days.
The look-ahead of `exp_window` is three seconds with an expansion every second, the
smallest in which a date survives one failed expansion. One event is enough: the
code never relates two. Two connections and two dispatches in `ws_delivery` are
what it takes to shrink the list under an advanced index; with a PUT the two workers
are three writers of one row at once, each with a row it read before. The pools of
the archiver have two connections: one with the lock and one that an unlock may go to
instead. Workers and requests are interchangeable and symmetric in `disp_safety` and
`rl_bucket`, which check no liveness.

`CHECK_DEADLOCK FALSE` is used in the rate limiter, the expander and the websocket
runs: their requests and connections are served once and then the system stops.

### Fairness

Goroutines that are not blocked run: weak fairness of each caller, remover,
worker and archival cycle. Calls return, since the HTTP client has a timeout.
The pollers tick every second and time passes: weak fairness of the polls and of
the clock. No fairness on errors, crashes, users or the arrival of new
occurrences, and none on which connection a pool hands out.

The websocket handler's goroutines and the workers need a mutex that others keep
taking: strong fairness of each handler and of each worker, since Go's mutex hands
over to a waiter after a millisecond. There is no write deadline, so a write to a
peer that is there and does not read need not return, and of the writes only
`Unhindered` is among the worker's fair steps: the peer reads, or is gone so that the
kernel gives up. Strong here too, because the peer may pause again and again.
`DeadLeave` and `NobodyBlocks` add the
hypothesis that no peer stays stalled for ever, and `CleanedUp` (`ws_blocked`) is the
same without it.

No fairness the code guarantees makes an abandoned archiver lock come free, so
`ArchivalGoesOn` has its absence as a hypothesis, and failures and crashes are
bounded by a hypothesis too, never by the specification.

## 4. Proofs

Every theorem holds for all values of the constants that satisfy the assumptions
of their module (`SchedulerAssumption`, `DispatcherAssumption`, ...), and under
the hypotheses it names. TLC checked what the inductive invariants say on the
instances of section 3 before they were proved.

### Scheduler core

* `TypeCorrect`: `[]TypeOK`. The bound on the tries of `scheduleWithRetry` is part
  of it.
* `OneCopyOfEveryOccurrence`: `[]OidInOnePlace` if no reply is lost, for any number
  of callers, removers, keys and ids, with errors and crashes. The inductive
  invariant `OneCopy` adds the types and `OidsIssued`: a fresh id must be different
  from every id in use. The poll is the step that matters: the values it appends
  to the queue are distinct, were in the hash and leave it.
* `SingleCallerStrandsNothing`: `[]StoredIsScheduled` if there is one scheduling
  process and no removal, with errors, lost replies and crashes. The inductive
  invariant `NoStrand` adds `CallsUndisturbed`: between its check and its HSET a
  caller finds its key free, and its member in the sorted set once it has added
  it. Two callers falsify exactly this conjunct (`sched_stranded`).
* `NoOccurrenceIsDropped`: the action property `NothingDropped`, with every failure.
  Only types are needed; the argument is about the poll, which moves every value
  whose key it takes.

### Dispatcher

* `DispatcherTypeCorrect`, `NothingRunsEarly`: `[]DTypeOK` and `[]NeverEarly`,
  whatever fails.
* `OneHolderOfEveryOccurrence`: `[]HeldOnce` if no reply is lost. The inductive
  invariant `OneHolder` carries `OneCopy` of the scheduler over to the retry queue
  and the workers and says that their ids were issued.
* `ExecutionsBounded`, `LogIsTrue`, `NoExecutionAfterSuccess`: `AttemptsBounded`,
  `LogConsistent` and `NoCallAfterSuccess`, if no reply is lost. The three need one
  invariant, `Story`: what is known of an occurrence depends on where it is. One that
  waits has its executions bounded by the attempt it carries and none of them
  succeeded; one with a worker, by the statement the worker is at; and nobody has
  executed an id that was not issued. None of the three is inductive alone, and
  without `OneHolder` a second copy would execute on its own.
* `DeliveryImplemented`: `DSpec => ImplementsDelivery`, if no reply is lost. Every
  step is a step of `Delivery` or leaves its variables alone. `KeyedOnce` (a key
  has one value in the hash) is what the removals need: the value that goes is the
  one of the occurrence that ends.

### Archiver and rate limiter

* `AtMostOneArchiver`: `[]OneArchiver` for any number of instances and connections
  and every failure of the model. The inductive invariant `Exclusion` says that
  one session holds the lock and every working instance has a session that does,
  or lost it. `LocalStep` carries it: a step that touches only its own sessions
  and raises none disturbs nobody.
* `ArchiverTypeCorrect`: `[]ATypeOK`.
* `ArchivedOncePerPeriod`: `OncePerPeriod`, without hypotheses; the property itself
  speaks of the time until something fails. The inductive invariant is `Exclusion`
  and, while `smooth` holds, `Pace`, which relates what is left of the key's time to
  the time since the last archival, for an instance between its check and its update
  too; `Exclusion` is why there is only one.
* `BucketStaysInRange`: `[]BucketInRange` for any number of concurrent requests and
  any sizes. It is inductive as it stands; a request that finds a token leaves the
  bucket in its range whatever it read, also with a negative time since the last
  update.
* `AdmittedIsPaidFor`: `[]BurstBounded`. The invariant `Paid` is the account: what
  was admitted and what the bucket holds together are at most a full bucket and
  the refill up to the bucket's own time, and the one request under way has read
  the present values.

### WebSocket handler and routing

* `WebSocketTypeCorrect`, `PickAlwaysInRange`, `RegistryIsExact`: `[]WTypeOK`,
  `[]PickInRange` and `[]RegistryExact` for any number of connections and workers.
* `RowsRoutedAsAsked`, `WrittenToItsClientOnly`: `[]RoutedAsAsked` and
  `[]OnlyItsClient` under `UrlsAreUrls`: the url of a webhook action does not begin
  with `q:`. The code does not check this. The first is about the last writer of a
  row, be it POST, PUT or the dispatcher's write-back: the columns agree and name
  what it asked for or had read, however many others are under way. It is not about
  updates that stay, which is false. `Routed` says it of every row in the table, in a
  request's and in a worker's hand, up to the write-back; it needs that a row in a
  worker's hand is one as the repository stores it (`StoredRows`), because the
  repository derives the action from the webhook again. `Writing` says that a worker
  between `WriteTo` and `Written` holds the mutex and its connection is registered,
  which the clean-up could otherwise falsify.

### Recurrence and Expander

`RecurrenceProofs` is about the calendar and the loop, for every sequence of month
lengths. The library's induction theorems cannot be used (they take an operator);
induction is done on sets of numbers (`LeastElement`, `SetInduction`), and
recursive functions are shown to exist by it. The results: months partition the
days (`MonthOfDay`), adding months or days goes forward (`AddMonths`, `AddDays`),
the loop advances for what `isValidSchedule` accepts (`AnchorAdvances`), makes the
number of rounds the model gives it (`RoundsExact`), and `Occurrences` returns
dates of the window (`OccurrencesInWindow`).

* `ExpanderTypeCorrect`, `ExpansionAdvances`: `[]ETypeOK` and `[]LoopAdvances` under
  `StepsFit`: no accepted interval overflows a `time.Duration`. `isValidSchedule`
  does not bound the interval. The invariant `EType` types the rows and dates that
  expansions, requests and workers hold.
* `DeletedStaysDeleted`: the action property `GoneForGood`, without hypotheses: every
  write is guarded by the row's presence, and only a holder of a row schedules.
* `NoDateDeliveredTwice`: `[]DeliveredOnce` under `StepsFit`, `GracePeriod = 0` and
  `Prompt`, for any number of instances, goroutines, requests, workers and faults.
  The inductive invariant has four parts beyond `EType`. `Unheard`: nobody knows an
  event before it is created. `SameRule`: every row in hand of an event that was
  not edited has the event's schedule, so that it is expanded as a recurring one.
  `Ahead`: the dates an expansion holds lie ahead, what was delivered or waits has
  come. `AllInOnePlace`: a date is stored, queued, with a worker or completed, one
  of these and once. A grace period falsifies `Ahead` (`exp_duplicate`).
* `ExpansionFindsTheRule`: `[]WindowExact` under `StepsFit` and `ListDistinct` for
  every accepted schedule: no weekly list names a weekday twice. The code does not
  check that, and finds such a date twice. The proof has two halves. The loop against
  what it computes (`Found`): for minutes, hours, days and weeks without a list the
  anchors are `start + k * step` (`ConstantAnchors`), so an anchor is a date and each
  date is an anchor (`StepsFound`). A list of weekdays: every anchor's week holds each
  weekday on one day (`DaysUntil`, `WeekdayDate`), so the list, in any order, gives
  each date from one anchor and one entry (`WeekdaysFound`). Months and years: from a
  day that every month has the anchors keep their day, the month index grows by a
  constant step (`MonthAnchors`), and a month and a day are one date (`MonthUnique`,
  `MonthsFound`). No date beyond the last round matters, because anchors grow
  (`AnchorsApart`, `AnchorsFound`), and the selection by window and until keeps what
  it should (`OccurrencesFound`). Then `Found` against the rule (`FoundOnRule`): under
  `FollowsRule` a date before until is one up to until, and weeks counted from the
  start are weeks counted from Monday (`IntoWeekOfWeekday`, `WeeksFromStart`), since
  each weekday of the list comes no earlier in its week than the start does.
* `NoDateMissed`: `[]NothingMissed` under `StepsFit`, `Prompt`, at least one loop and
  `LookAhead > (MaxFaults + 1) * ExpansionInterval`: an expansion must see a date
  while it is further away than the expansions that may still fail. The last
  condition is sharp: with both sides equal TLC finds a missed date. The invariant
  has three parts beyond `EType`. `TickersTick`: no tick of a loop is further away
  than the interval or overdue. `Owned`: whoever is about to remove schedules of an
  event has edited or deleted it. `NoneLost`: a date `Expected` of an active event
  has a `Trace`, or it lies ahead and each loop starts one expansion more before it
  than can still fail, the one it is at included while the date is `Pending` in it.
  A fault uses up one of these expansions, a tick begins the next, and an expansion
  without a fault leaves a trace. A date keeps its trace while it goes from the
  schedule to the queue, a worker and its row (`TraceKept`), until the archival
  takes the row, which `Retention` allows for.

### Only model-checked

* All liveness properties: fairness and ENABLED are out of the prover's reach.
  These are `EventuallyQueued`, `DeliveredOrExhausted`, `OneTimeInactivated`,
  `EventuallySettled`, `EndedEventsDrain`, `CountInactivates`, `DeadLeave`,
  `NobodyBlocks` and `ArchivalGoesOn`.
* The violations: they are counterexamples.

Every invariant and every action property that a passing run checks is stated by a
theorem above.

## 5. Not modelled

* Payloads, templates, headers, signatures, SQL text, logging, configuration.
* Tokens and authentication: stateless. The websocket handshake only looks whether
  a token is there, and so does the model.
* Read-only endpoints and queries (GET, listings, statistics).
* `AddEvent` and `calculateNextOccurrence` of the scheduler and `schedule.go`:
  not called by the program. The API call executor: no request can ask for it.
* Starvation in the dispatch queue (both pollers push on the right, where the
  workers pop): needs an unbounded stream of items.
* The answers of the websocket read loop, and with them two writers on one
  connection; fractions of a second in start times, which the keys in Redis cut off.
* A failing worker statement together with an expansion: `Dispatcher` has the
  former, `Expander` the latter. Action and log row are one step of `Expander`, since
  the action itself changes nothing there.

## 6. Plan

The planned modules, runs and proofs are done: every safety property that a passing
run checks is also proved. What could follow, in this order:

1. Bursts of items in the dispatch queue, for the starvation named in section 5.
2. The read loop of the websocket handler with its writes outside the mutex.
3. A failing worker statement in `Expander`.
