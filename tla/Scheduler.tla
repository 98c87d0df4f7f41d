------------------------------ MODULE Scheduler ------------------------------
(***************************************************************************)
(* The scheduler core of Qhronos (internal/scheduler/scheduler.go): future *)
(* occurrences kept in the Redis sorted set "schedules" and in the Redis   *)
(* hash "schedule:data", and moved to the list "dispatch:queue" once they  *)
(* are due.                                                                *)
(*                                                                         *)
(* ScheduleEvent is three separate Redis commands, so its callers (the     *)
(* expander loop, the goroutines the event handlers start, and the same in *)
(* every other instance of the service) interleave with each other, with   *)
(* the poller that moves due schedules and with the removals that an       *)
(* update or a delete of an event performs.  The poller is a Lua script,   *)
(* which Redis runs atomically.                                            *)
(*                                                                         *)
(* Time is counted in whole seconds (the code uses Unix()).  A payload is  *)
(* what the properties tell apart: the occurrence id, the event, the time  *)
(* it is scheduled for and the attempt counter.                            *)
(***************************************************************************)
EXTENDS Integers, Sequences, FiniteSets

CONSTANTS
    Events,       \* event ids
    Times,        \* the instants an occurrence may be scheduled at
    Callers,      \* goroutines that call scheduleWithRetry
    Removers,     \* goroutines that remove schedules from Redis
    MaxTries,     \* maxRetries of scheduleWithRetry (3 in the code)
    MaxNow,       \* bound: the clock stops here
    MaxOid,       \* bound: number of occurrence ids handed out
    RedisErrors,  \* may a Redis command fail without taking effect?
    LostReplies,  \* may a Redis command take effect and its reply be lost?
    Crashes       \* may a process die between two commands?

ASSUME SchedulerAssumption ==
    /\ Times \subseteq Nat
    /\ MaxTries \in Nat \ {0}
    /\ MaxNow \in Nat
    /\ MaxOid \in Nat
    /\ RedisErrors \in BOOLEAN
    /\ LostReplies \in BOOLEAN
    /\ Crashes \in BOOLEAN

VARIABLES
    now,            \* the clock shared by all instances
    nextOid,        \* the next fresh occurrence id (uuid.New)
    schedules,      \* ZSET "schedules": its members, the score is the key's "at"
    data,           \* HASH "schedule:data": its values, at most one per key
    dispatchQueue,  \* LIST "dispatch:queue", left end first
    caller,         \* a ScheduleEvent call in progress, per caller
    remover         \* a removal in progress, per remover

redisVars == <<schedules, data, dispatchQueue>>
schedVars == <<now, nextOid, schedules, data, dispatchQueue, caller, remover>>

-----------------------------------------------------------------------------
(* Data *)

\* The deterministic key "schedule:<event id>:<unix time>".
Key == [event : Events, at : Times]

\* models.Schedule: the JSON value kept in Redis.
Schedule == [oid : 1..MaxOid, event : Events, at : Times, attempt : Nat]

KeyOf(s) == [event |-> s.event, at |-> s.at]

Idle == [pc |-> "idle"]

CallerState ==
    {Idle} \cup [pc : {"hexists", "zadd", "hset"}, tries : 0..(MaxTries - 1),
                 sched : Schedule]

RemoverState ==
    {Idle} \cup [pc : {"zrange"}, event : Events]
           \cup [op : {"event", "one"}, pc : {"hget", "zrem", "hdel"},
                 event : Events, todo : SUBSET Key, key : Key]

HasData(k) == \E s \in data : KeyOf(s) = k

\* HSET key <s>: the value stored under the same key is replaced.
DataWith(s) == {d \in data : KeyOf(d) # KeyOf(s)} \cup {s}

\* Mutant: HDEL of every key of the event.
DataWithoutEvent(k) == {d \in data : d.event # k.event}

\* HDEL key
DataWithout(k) == {d \in data : KeyOf(d) # k}

\* Mutant: the current second is not due yet.
DueBefore == {s \in data : KeyOf(s) \in schedules /\ s.at < now}

\* Mutant: the score is not looked at.
DueAnyTime == {s \in data : KeyOf(s) \in schedules}

\* The members ZRANGEBYSCORE 0..now returns that have a value in the hash.
Due == {s \in data : KeyOf(s) \in schedules /\ s.at <= now}

\* The orders in which ZRANGEBYSCORE may return S: by score, members with the
\* same score by their key, that is by random event ids.
ScoreOrders(S) ==
    {b \in [1..Cardinality(S) -> S] :
        /\ \A i, j \in 1..Cardinality(S) :
               i < j => b[i] # b[j] /\ b[i].at <= b[j].at
        /\ \A s \in S : \E i \in 1..Cardinality(S) : b[i] = s}

-----------------------------------------------------------------------------
(* ScheduleEvent, one action per Redis command *)

\* The expander hands a new occurrence to scheduleWithRetry.
ScheduleEvent(c, k) ==
    /\ caller[c] = Idle
    /\ nextOid <= MaxOid
    /\ nextOid' = nextOid + 1
    /\ caller' = [caller EXCEPT ![c] =
                     [pc |-> "hexists", tries |-> 0,
                      sched |-> [oid |-> nextOid, event |-> k.event,
                                 at |-> k.at, attempt |-> 0]]]
    /\ UNCHANGED <<now, schedules, data, dispatchQueue, remover>>

Goto(c, label) == caller' = [caller EXCEPT ![c].pc = label]

Return(c) == caller' = [caller EXCEPT ![c] = Idle]

\* Mutant: the number of tries is not bounded.
FailedForever(c) ==
    \/ Return(c)
    \/ caller' = [caller EXCEPT ![c].pc = "hexists", ![c].tries = @ + 1]

\* scheduleWithRetry after an error: a timeout or a connection error starts
\* ScheduleEvent again with the same occurrence, up to MaxTries calls; the last
\* one, or any other error, gives up.
Failed(c) ==
    \/ Return(c)
    \/ /\ caller[c].tries + 1 < MaxTries
       /\ caller' = [caller EXCEPT ![c].pc = "hexists", ![c].tries = @ + 1]

HExists(c) ==
    /\ caller[c].pc = "hexists"
    /\ \/ HasData(KeyOf(caller[c].sched)) /\ Return(c)   \* already scheduled, skip
       \/ ~HasData(KeyOf(caller[c].sched)) /\ Goto(c, "zadd")
       \/ RedisErrors /\ Failed(c)
    /\ UNCHANGED <<now, nextOid, schedules, data, dispatchQueue, remover>>

ZAdd(c) ==
    /\ caller[c].pc = "zadd"
    /\ \/ /\ schedules' = schedules \cup {KeyOf(caller[c].sched)}
          /\ Goto(c, "hset") \/ (LostReplies /\ Failed(c))
       \/ /\ RedisErrors
          /\ Failed(c)
          /\ UNCHANGED schedules
    /\ UNCHANGED <<now, nextOid, data, dispatchQueue, remover>>

HSet(c) ==
    /\ caller[c].pc = "hset"
    /\ \/ /\ data' = DataWith(caller[c].sched)
          /\ Return(c) \/ (LostReplies /\ Failed(c))
       \/ /\ RedisErrors
          /\ Failed(c)
          /\ UNCHANGED data
    /\ UNCHANGED <<now, nextOid, schedules, dispatchQueue, remover>>

\* The process dies between two commands.
CallerCrash(c) ==
    /\ Crashes
    /\ caller[c] # Idle
    /\ Return(c)
    /\ UNCHANGED <<now, nextOid, schedules, data, dispatchQueue, remover>>

CallerStep(c) == HExists(c) \/ ZAdd(c) \/ HSet(c)

-----------------------------------------------------------------------------
(* The poller and the consumer of the dispatch queue *)

\* Mutant: the value is not deleted from the hash.
GetDueSchedulesNoHDel ==
    /\ \E batch \in ScoreOrders(Due) : dispatchQueue' = dispatchQueue \o batch
    /\ schedules' = schedules \ {KeyOf(s) : s \in Due}
    /\ UNCHANGED <<now, nextOid, data, caller, remover>>

\* Mutant: members without a value are cleaned out of the sorted set.
GetDueSchedulesZRemAll ==
    /\ \E batch \in ScoreOrders(Due) : dispatchQueue' = dispatchQueue \o batch
    /\ schedules' = {k \in schedules : k.at > now}
    /\ data' = data \ Due
    /\ UNCHANGED <<now, nextOid, caller, remover>>

\* One run of the Lua script.  Members of the sorted set without a value in
\* the hash are skipped and stay in the sorted set.
GetDueSchedules ==
    /\ \E batch \in ScoreOrders(Due) : dispatchQueue' = dispatchQueue \o batch
    /\ schedules' = schedules \ {KeyOf(s) : s \in Due}
    /\ data' = data \ Due
    /\ UNCHANGED <<now, nextOid, caller, remover>>

\* LPOP, the consumer interface of the scheduler (the dispatcher's workers use
\* BRPOP instead, see module Dispatcher).
PopDispatchQueue ==
    /\ dispatchQueue # <<>>
    /\ dispatchQueue' = Tail(dispatchQueue)
    /\ UNCHANGED <<now, nextOid, schedules, data, caller, remover>>

-----------------------------------------------------------------------------
(* Removals *)

\* The next key of a ZRANGE snapshot.
First(keys) == {k \in keys : \A j \in keys : k.at <= j.at}

StartRemoval(r, e) ==
    /\ remover[r] = Idle
    /\ remover' = [remover EXCEPT ![r] = [pc |-> "zrange", event |-> e]]

\* EventRepository.RemoveEventOccurrencesFromRedis, called by the update and
\* the delete of an event, walks a snapshot of the sorted set key by key.
RemoveEventOccurrencesFromRedis(r, e) ==
    /\ StartRemoval(r, e)
    /\ UNCHANGED <<now, nextOid, schedules, data, dispatchQueue, caller>>

RemZRange(r) ==
    /\ remover[r].pc = "zrange"
    /\ \/ \E k \in First(schedules) :
             remover' = [remover EXCEPT ![r] =
                           [op |-> "event", pc |-> "hget", event |-> @.event,
                            todo |-> schedules \ {k}, key |-> k]]
       \/ /\ schedules = {} \/ RedisErrors
          /\ remover' = [remover EXCEPT ![r] = Idle]
    /\ UNCHANGED <<now, nextOid, schedules, data, dispatchQueue, caller>>

\* Scheduler.RemoveScheduledEvent removes one key.
RemoveScheduledEvent(r, k) ==
    /\ remover[r] = Idle
    /\ remover' = [remover EXCEPT ![r] =
                     [op |-> "one", pc |-> "zrem", event |-> k.event,
                      todo |-> {}, key |-> k]]
    /\ UNCHANGED <<now, nextOid, schedules, data, dispatchQueue, caller>>

\* On to the next key of the snapshot, or done.
Advance(r) ==
    \/ /\ remover[r].todo = {}
       /\ remover' = [remover EXCEPT ![r] = Idle]
    \/ \E k \in First(remover[r].todo) :
          remover' = [remover EXCEPT ![r].pc = "hget", ![r].todo = @ \ {k},
                                     ![r].key = k]

\* A key without a value, with the value of another event, or that cannot be
\* read is skipped.
RemHGet(r) ==
    /\ remover[r].pc = "hget"
    /\ \/ /\ HasData(remover[r].key)
          /\ remover[r].key.event = remover[r].event
          /\ remover' = [remover EXCEPT ![r].pc = "zrem"]
       \/ /\ \/ ~HasData(remover[r].key)
             \/ remover[r].key.event # remover[r].event
             \/ RedisErrors
          /\ Advance(r)
    /\ UNCHANGED <<now, nextOid, schedules, data, dispatchQueue, caller>>

\* RemoveScheduledEvent stops at an error, RemoveEventOccurrencesFromRedis
\* ignores it.  The command may have taken effect all the same: its reply was
\* lost.
RemZRem(r) ==
    /\ remover[r].pc = "zrem"
    /\ \/ /\ schedules' = schedules \ {remover[r].key}
          /\ remover' = [remover EXCEPT ![r].pc = "hdel"]
       \/ /\ RedisErrors
          /\ schedules' \in {schedules, schedules \ {remover[r].key}}
          /\ remover' = [remover EXCEPT ![r] =
                           IF @.op = "one" THEN Idle ELSE [@ EXCEPT !.pc = "hdel"]]
    /\ UNCHANGED <<now, nextOid, data, dispatchQueue, caller>>

RemHDel(r) ==
    /\ remover[r].pc = "hdel"
    /\ \/ data' = DataWithout(remover[r].key)
       \/ RedisErrors /\ UNCHANGED data
    /\ Advance(r)
    /\ UNCHANGED <<now, nextOid, schedules, dispatchQueue, caller>>

RemoverCrash(r) ==
    /\ Crashes
    /\ remover[r] # Idle
    /\ remover' = [remover EXCEPT ![r] = Idle]
    /\ UNCHANGED <<now, nextOid, schedules, data, dispatchQueue, caller>>

RemoverStep(r) == RemZRange(r) \/ RemHGet(r) \/ RemZRem(r) \/ RemHDel(r)

-----------------------------------------------------------------------------
Tick ==
    /\ now < MaxNow
    /\ now' = now + 1
    /\ UNCHANGED <<nextOid, schedules, data, dispatchQueue, caller, remover>>

Init ==
    /\ now = 0
    /\ nextOid = 1
    /\ schedules = {}
    /\ data = {}
    /\ dispatchQueue = <<>>
    /\ caller = [c \in Callers |-> Idle]
    /\ remover = [r \in Removers |-> Idle]

\* What runs inside the service: the calls of ScheduleEvent, the removals and
\* the poller.
ServiceStep ==
    \/ \E c \in Callers :
          (\E k \in Key : ScheduleEvent(c, k)) \/ CallerStep(c) \/ CallerCrash(c)
    \/ \E r \in Removers : RemoverStep(r) \/ RemoverCrash(r)
    \/ GetDueSchedules

Next ==
    \/ ServiceStep
    \/ \E r \in Removers :
          \/ \E e \in Events : RemoveEventOccurrencesFromRedis(r, e)
          \/ \E k \in Key : RemoveScheduledEvent(r, k)
    \/ PopDispatchQueue
    \/ Tick

Spec == Init /\ [][Next]_schedVars

\* The poller runs every second, a started call is run to its end by the Go
\* scheduler, and time passes.
FairSpec ==
    /\ Spec
    /\ \A c \in Callers : WF_schedVars(CallerStep(c))
    /\ \A r \in Removers : WF_schedVars(RemoverStep(r))
    /\ WF_schedVars(GetDueSchedules)
    /\ WF_schedVars(Tick)
-----------------------------------------------------------------------------
(* Properties *)

\* Types: in particular scheduleWithRetry never starts more than MaxTries calls
\* of ScheduleEvent.
TypeOK ==
    /\ now \in Nat
    /\ nextOid \in 1..(MaxOid + 1)
    /\ schedules \subseteq Key
    /\ data \subseteq Schedule
    /\ IsFiniteSet(data)
    /\ dispatchQueue \in Seq(Schedule)
    /\ caller \in [Callers -> CallerState]
    /\ remover \in [Removers -> RemoverState]

CallersDistinct ==
    \A c, d \in Callers :
        caller[c] # Idle /\ caller[d] # Idle /\ c # d =>
            caller[c].sched.oid # caller[d].sched.oid

DataDistinct == \A s, t \in data : s.oid = t.oid => s = t

QueueDistinct ==
    \A i, j \in 1..Len(dispatchQueue) :
        dispatchQueue[i].oid = dispatchQueue[j].oid => i = j

CallersNotStored ==
    \A c \in Callers : caller[c] # Idle =>
        /\ \A s \in data : s.oid # caller[c].sched.oid
        /\ \A i \in 1..Len(dispatchQueue) :
               dispatchQueue[i].oid # caller[c].sched.oid

DataNotQueued ==
    \A s \in data : \A i \in 1..Len(dispatchQueue) : dispatchQueue[i].oid # s.oid

\* Every occurrence id in use was handed out before.
OidsIssued ==
    /\ \A c \in Callers : caller[c] # Idle => caller[c].sched.oid < nextOid
    /\ \A s \in data : s.oid < nextOid
    /\ \A i \in 1..Len(dispatchQueue) : dispatchQueue[i].oid < nextOid

\* An occurrence is stored at most once in Redis: ScheduleEvent is called again
\* with the same occurrence after an error, and must not store it next to the
\* copy the first call left behind.
StoredOnce == DataDistinct /\ QueueDistinct /\ DataNotQueued

\* An occurrence is in one place at a time: in the hands of one caller, or
\* once in the hash, or once in the dispatch queue.  A caller that retries after
\* an error, a second caller on the same key, a crash and a removal in between
\* never make two copies of it (ScheduleEvent, GetDueSchedules).
OidInOnePlace == CallersDistinct /\ CallersNotStored /\ StoredOnce

\* A value in the hash has its member in the sorted set, so the poller will
\* find it.  HExists answers "already scheduled" from the hash alone: a value
\* without its member is never dispatched and keeps its key from being
\* scheduled again.
StoredIsScheduled == \A s \in data : KeyOf(s) \in schedules

\* A caller between its check and its HSET still finds no value for its key,
\* and from its ZADD on the member is there.
CallsUndisturbed ==
    \A c \in Callers : caller[c].pc \in {"zadd", "hset"} =>
        /\ ~HasData(KeyOf(caller[c].sched))
        /\ caller[c].pc = "hset" => KeyOf(caller[c].sched) \in schedules

\* A stored occurrence leaves the hash only into the dispatch queue, by a newer
\* value for the same event and time, or by a removal of exactly that event and
\* time; the dispatch queue loses nothing but the element a consumer takes from
\* its left end.
NothingDropped ==
    [][/\ \A s \in data : s \notin data' =>
             \/ \E i \in 1..Len(dispatchQueue') : dispatchQueue'[i] = s
             \/ \E t \in data' : KeyOf(t) = KeyOf(s)
             \/ \E r \in Removers :
                    remover[r].pc = "hdel" /\ remover[r].key = KeyOf(s)
       /\ \A i \in 2..Len(dispatchQueue) :
             \E j \in {i - 1, i} :
                 j <= Len(dispatchQueue') /\ dispatchQueue'[j] = dispatchQueue[i]
      ]_schedVars

\* Every value ScheduleEvent stores is eventually moved on, whatever errors,
\* lost replies and crashes its caller met: none stays in the hash for ever.
EventuallyQueued == \A k \in Key : HasData(k) ~> ~HasData(k)
=============================================================================
