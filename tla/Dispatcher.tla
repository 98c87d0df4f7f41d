----------------------------- MODULE Dispatcher -----------------------------
(***************************************************************************)
(* The dispatcher of Qhronos (internal/scheduler/dispatcher.go) on top of  *)
(* the scheduler core: workers pop the dispatch queue, run DispatchAction  *)
(* against the events and occurrences tables of PostgreSQL, and put a      *)
(* failed item on the retry queue, from which the retry poller moves it    *)
(* back.  Every statement and every Redis command of a worker is a step of *)
(* its own, so that edits and deletes of the event, the other workers,     *)
(* the pollers and crashes come in between.                                *)
(***************************************************************************)
EXTENDS Scheduler

CONSTANTS
    Workers,      \* the dispatcher's worker goroutines, of all instances
    Definitions,  \* what a user can put in an event row, its status aside
    MaxRetries,   \* dispatcher.max_retries
    RetryDelay,   \* dispatcher.retry_backoff, in seconds
    DbErrors      \* may a PostgreSQL statement fail?

\* The fields of a definition that DispatchAction looks at.  0 stands for a
\* missing count or until.
ASSUME DispatcherAssumption ==
    /\ Definitions # {}
    /\ \A d \in Definitions :
          /\ d.recurring \in BOOLEAN   \* Schedule # nil
          /\ d.count \in Nat           \* Schedule.Count
          /\ d.until \in Nat           \* Schedule.Until
          /\ d.action \in BOOLEAN      \* Action # nil
    /\ MaxRetries \in Nat
    /\ RetryDelay \in Nat
    /\ DbErrors \in BOOLEAN

VARIABLES
    events,       \* table events
    occurrences,  \* table occurrences, insert-only but for cascading deletes
    nextRow,      \* its SERIAL id
    retryQueue,   \* ZSET "retry:queue": members with their score
    worker,       \* the item a worker has popped and where it is with it
    calls,        \* history: executions of the action, per occurrence id
    delivered     \* history: successful executions, per occurrence id

dispVars == <<events, occurrences, nextRow, retryQueue, worker, calls, delivered>>
vars == <<schedVars, dispVars>>

-----------------------------------------------------------------------------
(* Data *)

NoRow == [status |-> "none"]

Row == [def : Definitions, status : {"active", "inactive"}]

OccurrenceRow ==
    [id : Nat, oid : 1..MaxOid, event : Events, at : Times,
     status : {"completed", "failed"}, attempt : Nat]

RetryItem == [sched : Schedule, due : Nat]

Label == {"getbyid", "logorphan", "logerr", "zrem", "hdel", "execute", "log",
          "count", "update", "finish"}

WorkerState ==
    {Idle} \cup [pc : Label, sched : Schedule, row : Row \cup {NoRow}, ok : BOOLEAN]

Completed(e) == {o \in occurrences : o.event = e /\ o.status = "completed"}

\* The orders in which the retry script may find the items S.
RetryOrders(S) ==
    {b \in [1..Cardinality(S) -> S] :
        /\ \A i, j \in 1..Cardinality(S) :
               i < j => b[i] # b[j] /\ b[i].due <= b[j].due
        /\ \A r \in S : \E i \in 1..Cardinality(S) : b[i] = r}

-----------------------------------------------------------------------------
(* The worker: Dispatcher.Run and DispatchAction *)

WGoto(w, label) == worker' = [worker EXCEPT ![w].pc = label]

\* Mutant: the item is read but not removed from the list.
BRPeek(w) ==
    /\ worker[w] = Idle
    /\ dispatchQueue # <<>>
    /\ worker' = [worker EXCEPT ![w] =
                    [pc |-> "getbyid", sched |-> dispatchQueue[Len(dispatchQueue)],
                     row |-> NoRow, ok |-> FALSE]]
    /\ UNCHANGED schedVars
    /\ UNCHANGED <<events, occurrences, nextRow, retryQueue, calls, delivered>>

\* BRPOP takes the right end, where the pollers push.
BRPop(w) ==
    /\ worker[w] = Idle
    /\ dispatchQueue # <<>>
    /\ worker' = [worker EXCEPT ![w] =
                    [pc |-> "getbyid", sched |-> dispatchQueue[Len(dispatchQueue)],
                     row |-> NoRow, ok |-> FALSE]]
    /\ dispatchQueue' = SubSeq(dispatchQueue, 1, Len(dispatchQueue) - 1)
    /\ UNCHANGED <<now, nextOid, schedules, data, caller, remover>>
    /\ UNCHANGED <<events, occurrences, nextRow, retryQueue, calls, delivered>>

\* A missing row is (nil, nil), not an error.
GetByID(w) ==
    /\ worker[w].pc = "getbyid"
    /\ LET row == events[worker[w].sched.event] IN
       \/ DbErrors /\ WGoto(w, "logorphan")
       \/ row = NoRow /\ WGoto(w, "logerr")
       \/ row # NoRow /\ ~row.def.action /\ WGoto(w, "logerr")
       \/ /\ row # NoRow
          /\ row.def.action
          /\ worker' = [worker EXCEPT ![w].pc = "execute", ![w].row = row]
    /\ UNCHANGED schedVars
    /\ UNCHANGED <<events, occurrences, nextRow, retryQueue, calls, delivered>>

\* OccurrenceRepository.Create: the foreign key needs the event's row.  An
\* error is logged or ignored by both callers.
Create(s, status, attempt) ==
    \/ /\ events[s.event] # NoRow
       /\ occurrences' = occurrences \cup
             {[id |-> nextRow, oid |-> s.oid, event |-> s.event, at |-> s.at,
               status |-> status, attempt |-> attempt]}
       /\ nextRow' = nextRow + 1
    \/ /\ events[s.event] = NoRow \/ DbErrors
       /\ UNCHANGED <<occurrences, nextRow>>

LogErrOccurrence(w) ==
    /\ worker[w].pc \in {"logorphan", "logerr"}
    /\ Create(worker[w].sched, "failed", 0)
    /\ WGoto(w, IF worker[w].pc = "logorphan" THEN "zrem" ELSE "finish")
    /\ UNCHANGED schedVars
    /\ UNCHANGED <<events, retryQueue, calls, delivered>>

\* The best-effort clean-up after a failed GetByID.
CleanZRem(w) ==
    /\ worker[w].pc = "zrem"
    /\ \/ schedules' = schedules \ {KeyOf(worker[w].sched)}
       \/ RedisErrors /\ UNCHANGED schedules
    /\ WGoto(w, "hdel")
    /\ UNCHANGED <<now, nextOid, data, dispatchQueue, caller, remover>>
    /\ UNCHANGED <<events, occurrences, nextRow, retryQueue, calls, delivered>>

CleanHDel(w) ==
    /\ worker[w].pc = "hdel"
    /\ \/ data' = DataWithout(KeyOf(worker[w].sched))
       \/ RedisErrors /\ UNCHANGED data
    /\ WGoto(w, "finish")
    /\ UNCHANGED <<now, nextOid, schedules, dispatchQueue, caller, remover>>
    /\ UNCHANGED <<events, occurrences, nextRow, retryQueue, calls, delivered>>

\* The webhook request, the websocket message or the API call.  The event's
\* status is not looked at.
Execute(w, ok) ==
    /\ worker[w].pc = "execute"
    /\ calls' = [calls EXCEPT ![worker[w].sched.oid] = @ + 1]
    /\ delivered' = [delivered EXCEPT ![worker[w].sched.oid] = IF ok THEN @ + 1 ELSE @]
    /\ worker' = [worker EXCEPT ![w].pc = "log", ![w].ok = ok]
    /\ UNCHANGED schedVars
    /\ UNCHANGED <<events, occurrences, nextRow, retryQueue>>

\* Mutant: only recurring events are auto-inactivated.
AfterLogRecurringOnly(w) ==
    IF worker[w].ok /\ worker[w].row.status = "active" /\ worker[w].row.def.recurring
    THEN "count" ELSE "finish"

\* Which of the two auto-inactivation blocks runs after the occurrence is logged.
AfterLog(w) ==
    LET row == worker[w].row IN
    IF ~worker[w].ok \/ row.status # "active" THEN "finish"
    ELSE IF row.def.recurring THEN "count" ELSE "update"

LogOccurrence(w) ==
    /\ worker[w].pc = "log"
    /\ Create(worker[w].sched, IF worker[w].ok THEN "completed" ELSE "failed",
              worker[w].sched.attempt + 1)
    /\ WGoto(w, AfterLog(w))
    /\ UNCHANGED schedVars
    /\ UNCHANGED <<events, retryQueue, calls, delivered>>

\* CountCompletedByEventID and the comparison with Count and Until.
CountCompleted(w) ==
    /\ worker[w].pc = "count"
    /\ LET def == worker[w].row.def
           counted == /\ def.count # 0
                      /\ Cardinality(Completed(worker[w].sched.event)) >= def.count
           expired == def.until # 0 /\ now > def.until
       IN \/ WGoto(w, IF counted \/ expired THEN "update" ELSE "finish")
          \/ DbErrors /\ def.count # 0
                      /\ WGoto(w, IF expired THEN "update" ELSE "finish")
    /\ UNCHANGED schedVars
    /\ UNCHANGED <<events, occurrences, nextRow, retryQueue, calls, delivered>>

\* Mutant: the occurrence's status is written to the event.
UpdateWithOccurrenceStatus(w) ==
    /\ worker[w].pc = "update"
    /\ events' = [events EXCEPT ![worker[w].sched.event] =
                    [def |-> worker[w].row.def, status |-> "completed"]]
    /\ WGoto(w, "finish")
    /\ UNCHANGED schedVars
    /\ UNCHANGED <<occurrences, nextRow, retryQueue, calls, delivered>>

\* EventRepository.Update writes every column, from the row GetByID returned.
Update(w) ==
    /\ worker[w].pc = "update"
    /\ LET e == worker[w].sched.event IN
       \/ /\ events[e] # NoRow
          /\ events' = [events EXCEPT ![e] =
                          [def |-> worker[w].row.def, status |-> "inactive"]]
       \/ /\ events[e] = NoRow \/ DbErrors
          /\ UNCHANGED events
    /\ WGoto(w, "finish")
    /\ UNCHANGED schedVars
    /\ UNCHANGED <<occurrences, nextRow, retryQueue, calls, delivered>>

\* ZADD of the item with its attempt counter incremented; the member is the
\* whole JSON value.
RetryQueueWith(s) ==
    {r \in retryQueue : r.sched # s} \cup {[sched |-> s, due |-> now + RetryDelay]}

\* Mutant: one attempt too many.
FinishOneMore(w) ==
    /\ worker[w].pc = "finish"
    /\ LET s == worker[w].sched IN
       retryQueue' = IF ~worker[w].ok /\ s.attempt < MaxRetries
                     THEN RetryQueueWith([s EXCEPT !.attempt = @ + 1])
                     ELSE retryQueue
    /\ worker' = [worker EXCEPT ![w] = Idle]
    /\ UNCHANGED schedVars
    /\ UNCHANGED <<events, occurrences, nextRow, calls, delivered>>

\* Mutant: the attempt counter is not incremented.
FinishSameAttempt(w) ==
    /\ worker[w].pc = "finish"
    /\ LET s == worker[w].sched IN
       retryQueue' = IF ~worker[w].ok /\ s.attempt + 1 < MaxRetries
                     THEN RetryQueueWith(s)
                     ELSE retryQueue
    /\ worker' = [worker EXCEPT ![w] = Idle]
    /\ UNCHANGED schedVars
    /\ UNCHANGED <<events, occurrences, nextRow, calls, delivered>>

\* Mutant: the result is not looked at.
FinishAnyway(w) ==
    /\ worker[w].pc = "finish"
    /\ LET s == worker[w].sched IN
       retryQueue' = IF s.attempt + 1 < MaxRetries
                     THEN RetryQueueWith([s EXCEPT !.attempt = @ + 1])
                     ELSE retryQueue
    /\ worker' = [worker EXCEPT ![w] = Idle]
    /\ UNCHANGED schedVars
    /\ UNCHANGED <<events, occurrences, nextRow, calls, delivered>>

\* Back in Run: done, dropped after the last attempt, or queued for a retry.
Finish(w) ==
    /\ worker[w].pc = "finish"
    /\ LET s == worker[w].sched IN
       \/ /\ worker[w].ok \/ s.attempt + 1 >= MaxRetries
          /\ UNCHANGED retryQueue
       \/ /\ ~worker[w].ok
          /\ s.attempt + 1 < MaxRetries
          /\ \/ retryQueue' = RetryQueueWith([s EXCEPT !.attempt = @ + 1])
             \/ RedisErrors /\ UNCHANGED retryQueue
    /\ worker' = [worker EXCEPT ![w] = Idle]
    /\ UNCHANGED schedVars
    /\ UNCHANGED <<events, occurrences, nextRow, calls, delivered>>

\* The process dies, or the reply to BRPOP is lost.
WorkerCrash(w) ==
    /\ Crashes
    /\ worker[w] # Idle
    /\ worker' = [worker EXCEPT ![w] = Idle]
    /\ UNCHANGED schedVars
    /\ UNCHANGED <<events, occurrences, nextRow, retryQueue, calls, delivered>>

WorkerStep(w) ==
    \/ BRPop(w)
    \/ GetByID(w)
    \/ LogErrOccurrence(w)
    \/ CleanZRem(w)
    \/ CleanHDel(w)
    \/ \E ok \in BOOLEAN : Execute(w, ok)
    \/ LogOccurrence(w)
    \/ CountCompleted(w)
    \/ Update(w)
    \/ Finish(w)

-----------------------------------------------------------------------------
(* The retry poller, the users and the clock *)

\* Mutant: the current second is not due yet.
DueRetriesBefore == {r \in retryQueue : r.due < now}

DueRetries == {r \in retryQueue : r.due <= now}

\* Mutant: the item is not removed from the retry queue.
RetryPollerNoZRem ==
    /\ \E batch \in RetryOrders(DueRetries) :
          dispatchQueue' = dispatchQueue
                           \o [i \in 1..Cardinality(DueRetries) |-> batch[i].sched]
    /\ UNCHANGED <<now, nextOid, schedules, data, caller, remover>>
    /\ UNCHANGED <<events, occurrences, nextRow, retryQueue, worker, calls, delivered>>

\* One run of the Lua script.
RetryPoller ==
    /\ \E batch \in RetryOrders(DueRetries) :
          dispatchQueue' = dispatchQueue
                           \o [i \in 1..Cardinality(DueRetries) |-> batch[i].sched]
    /\ retryQueue' = retryQueue \ DueRetries
    /\ UNCHANGED <<now, nextOid, schedules, data, caller, remover>>
    /\ UNCHANGED <<events, occurrences, nextRow, worker, calls, delivered>>

\* PUT /events/:id: the row, then the removal from Redis.  The expansion that
\* follows is a ScheduleEvent of some caller.
UpdateEvent(r, e, row) ==
    /\ events[e] # NoRow
    /\ events' = [events EXCEPT ![e] = row]
    /\ StartRemoval(r, e)
    /\ UNCHANGED <<now, nextOid, schedules, data, dispatchQueue, caller>>
    /\ UNCHANGED <<occurrences, nextRow, retryQueue, worker, calls, delivered>>

\* DELETE /events/:id: the row, its occurrences (ON DELETE CASCADE), then the
\* removal from Redis.
DeleteEvent(r, e) ==
    /\ events[e] # NoRow
    /\ events' = [events EXCEPT ![e] = NoRow]
    /\ occurrences' = {o \in occurrences : o.event # e}
    /\ StartRemoval(r, e)
    /\ UNCHANGED <<now, nextOid, schedules, data, dispatchQueue, caller>>
    /\ UNCHANGED <<nextRow, retryQueue, worker, calls, delivered>>

\* The clock runs to MaxNow, and on while a retry is still to come.
DTick ==
    /\ now < MaxNow \/ \E r \in retryQueue : r.due > now
    /\ now' = now + 1
    /\ UNCHANGED <<nextOid, schedules, data, dispatchQueue, caller, remover>>
    /\ UNCHANGED dispVars

DInit ==
    /\ Init
    /\ events \in [Events -> [def : Definitions, status : {"active"}]]
    /\ occurrences = {}
    /\ nextRow = 1
    /\ retryQueue = {}
    /\ worker = [w \in Workers |-> Idle]
    /\ calls = [o \in 1..MaxOid |-> 0]
    /\ delivered = [o \in 1..MaxOid |-> 0]

DNext ==
    \/ ServiceStep /\ UNCHANGED dispVars
    \/ \E w \in Workers : WorkerStep(w) \/ WorkerCrash(w)
    \/ RetryPoller
    \/ \E r \in Removers, e \in Events :
          DeleteEvent(r, e) \/ \E row \in Row : UpdateEvent(r, e, row)
    \/ DTick

DSpec == DInit /\ [][DNext]_vars

\* A worker that has popped an item runs on: the statements return, and the
\* HTTP client gives up after its timeout of 10 seconds.  The two pollers run
\* every second, time passes.
DFairSpec ==
    /\ DSpec
    /\ \A c \in Callers : WF_vars(CallerStep(c) /\ UNCHANGED dispVars)
    /\ \A r \in Removers : WF_vars(RemoverStep(r) /\ UNCHANGED dispVars)
    /\ \A w \in Workers : WF_vars(WorkerStep(w))
    /\ WF_vars(GetDueSchedules /\ UNCHANGED dispVars)
    /\ WF_vars(RetryPoller)
    /\ WF_vars(DTick)

-----------------------------------------------------------------------------
(* Properties *)

\* Types of the dispatcher's state.
DTypeOK ==
    /\ TypeOK
    /\ events \in [Events -> Row \cup {NoRow}]
    /\ occurrences \subseteq OccurrenceRow
    /\ nextRow \in Nat \ {0}
    /\ retryQueue \subseteq RetryItem
    /\ IsFiniteSet(retryQueue)
    /\ worker \in [Workers -> WorkerState]
    /\ calls \in [1..MaxOid -> Nat]
    /\ delivered \in [1..MaxOid -> Nat]

WorkersDistinct ==
    \A v, w \in Workers :
        worker[v] # Idle /\ worker[w] # Idle /\ v # w =>
            worker[v].sched.oid # worker[w].sched.oid

RetriesDistinct == \A p, q \in retryQueue : p.sched.oid = q.sched.oid => p = q

WorkersNotElsewhere ==
    \A w \in Workers : worker[w] # Idle =>
        LET o == worker[w].sched.oid IN
        /\ \A s \in data : s.oid # o
        /\ \A i \in 1..Len(dispatchQueue) : dispatchQueue[i].oid # o
        /\ \A c \in Callers : caller[c] # Idle => caller[c].sched.oid # o
        /\ \A q \in retryQueue : q.sched.oid # o

RetriesNotElsewhere ==
    \A q \in retryQueue :
        LET o == q.sched.oid IN
        /\ \A s \in data : s.oid # o
        /\ \A i \in 1..Len(dispatchQueue) : dispatchQueue[i].oid # o
        /\ \A c \in Callers : caller[c] # Idle => caller[c].sched.oid # o

\* Through the whole pipeline an occurrence is in one place: with a caller, in
\* the hash, in the dispatch queue, with one worker or in the retry queue.  No
\* two workers ever run the same occurrence, and a retry never runs next to
\* the attempt it repeats.
HeldOnce ==
    /\ OidInOnePlace
    /\ WorkersDistinct
    /\ RetriesDistinct
    /\ WorkersNotElsewhere
    /\ RetriesNotElsewhere

\* The action of an occurrence is executed at most max(1, MaxRetries) times,
\* whatever fails, crashes or is edited on the way.
AttemptsBounded ==
    \A o \in 1..MaxOid : calls[o] <= IF MaxRetries = 0 THEN 1 ELSE MaxRetries

\* After a successful execution the occurrence is never executed again, even
\* when logging it or inactivating its event fails.
NoCallAfterSuccess ==
    [][\A o \in 1..MaxOid : delivered[o] > 0 => calls'[o] = calls[o]]_vars

\* Nothing is popped, executed or retried before the time it is scheduled for.
NeverEarly ==
    /\ \A i \in 1..Len(dispatchQueue) : dispatchQueue[i].at <= now
    /\ \A w \in Workers : worker[w] # Idle => worker[w].sched.at <= now
    /\ \A q \in retryQueue : q.sched.at <= now

\* The occurrences table tells the true story of an occurrence: no attempt is
\* logged twice, a completed row is a real delivery, and no attempt comes after
\* a completed one (the rows with attempt 0 are those of logErrOccurrence).
LogConsistent ==
    \A p, q \in occurrences : p.oid = q.oid =>
        /\ p.attempt = q.attempt /\ p.attempt > 0 => p = q
        /\ p.status = "completed" => /\ delivered[p.oid] > 0
                                     /\ q.attempt <= p.attempt

InPipeline(o) ==
    \/ \E c \in Callers : caller[c] # Idle /\ caller[c].sched.oid = o
    \/ \E s \in data : s.oid = o
    \/ \E i \in 1..Len(dispatchQueue) : dispatchQueue[i].oid = o
    \/ \E w \in Workers : worker[w] # Idle /\ worker[w].sched.oid = o
    \/ \E q \in retryQueue : q.sched.oid = o

-----------------------------------------------------------------------------
(* Refinement *)

RunningStage(o) ==
    IF o >= nextOid THEN "unborn"
    ELSE IF \E w \in Workers : worker[w] # Idle /\ worker[w].sched.oid = o
         THEN "running"
    ELSE IF InPipeline(o) THEN "waiting" ELSE "out"

D == INSTANCE Delivery WITH
        Oids <- 1..MaxOid,
        MaxAttempts <- IF MaxRetries = 0 THEN 1 ELSE MaxRetries,
        stage <- [o \in 1..MaxOid |-> RunningStage(o)],
        attempts <- calls,
        succeeded <- [o \in 1..MaxOid |-> delivered[o] > 0]

\* The dispatcher on top of the scheduler core implements the delivery of
\* single occurrences: every step of a worker, a poller, a caller, a removal,
\* a user or a crash is a step of one occurrence or none.
ImplementsDelivery == D!AbstractSpec

-----------------------------------------------------------------------------
(* Liveness.  A removal between the ZADD and the HSET of a call strands its   *)
(* value (see StoredIsScheduled), so these speak of events nobody edits.      *)

\* Every occurrence that enters the pipeline leaves it: none waits for ever in
\* a queue or with a worker while its event is left alone.
EventuallySettled ==
    [](\A r \in Removers : remover[r] = Idle) =>
    \A o \in 1..MaxOid : InPipeline(o) ~> ~InPipeline(o)

\* Without failures of the infrastructure, every occurrence that reaches the
\* hash is delivered or has had all its attempts, while its event is left alone.
DeliveredOrExhausted ==
    [](\A r \in Removers : remover[r] = Idle) =>
    \A o \in 1..MaxOid :
        (\E s \in data : s.oid = o) ~> (delivered[o] = 1 \/ calls[o] = MaxRetries)

\* A one-time event with a completed occurrence does not stay active, if no
\* user changes it.
OneTimeInactivated ==
    [](\A r \in Removers : remover[r] = Idle) =>
    \A e \in Events :
        (events[e] # NoRow /\ ~events[e].def.recurring /\ Completed(e) # {})
            ~> (events[e] = NoRow \/ events[e].status = "inactive")
=============================================================================
