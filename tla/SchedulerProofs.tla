-------------------------- MODULE SchedulerProofs --------------------------
(***************************************************************************)
(* Proofs about module Scheduler, for every number of callers, removers,   *)
(* events, instants, tries and occurrences.                                *)
(***************************************************************************)
EXTENDS Scheduler, FiniteSetTheorems, SequenceTheorems, TLAPS

\* A caller that is not idle has a schedule and a number of tries in range.
LEMMA BusyCaller ==
    ASSUME TypeOK, NEW c \in Callers, caller[c] # Idle
    PROVE  /\ caller[c] \in [pc : {"hexists", "zadd", "hset"},
                             tries : 0..(MaxTries - 1), sched : Schedule]
           /\ caller[c].sched \in Schedule
           /\ KeyOf(caller[c].sched) \in Key
BY DEF TypeOK, CallerState, KeyOf, Key, Schedule

\* What the poller appends to the dispatch queue: due values, each one once.
LEMMA PolledBatch ==
    ASSUME TypeOK, NEW batch \in ScoreOrders(Due)
    PROVE  /\ Cardinality(Due) \in Nat
           /\ batch \in Seq(Schedule)
           /\ Len(batch) = Cardinality(Due)
           /\ \A i \in 1..Len(batch) : batch[i] \in Due
           /\ \A i, j \in 1..Len(batch) : i < j => batch[i] # batch[j]
<1>1. IsFiniteSet(Due)
  BY FS_Subset DEF TypeOK, Due
<1>2. Cardinality(Due) \in Nat
  BY <1>1, FS_CardinalityType
<1>3. batch \in [1..Cardinality(Due) -> Due]
  BY DEF ScoreOrders
<1>4. Due \subseteq Schedule
  BY DEF TypeOK, Due
<1>5. batch \in [1..Cardinality(Due) -> Schedule]
  BY <1>3, <1>4
<1>6. batch \in Seq(Schedule) /\ Len(batch) = Cardinality(Due)
  BY <1>2, <1>5
<1> QED
  BY <1>2, <1>3, <1>6 DEF ScoreOrders

\* scheduleWithRetry keeps a call well-formed after an error.
LEMMA FailedType ==
    ASSUME TypeOK, NEW c \in Callers, caller[c] # Idle, Failed(c)
    PROVE  caller' \in [Callers -> CallerState]
<1>1. CASE Return(c)
  BY <1>1 DEF TypeOK, Return, CallerState
<1>2. CASE /\ caller[c].tries + 1 < MaxTries
           /\ caller' = [caller EXCEPT ![c].pc = "hexists", ![c].tries = @ + 1]
  <2>1. caller[c].tries + 1 \in 0..(MaxTries - 1)
    BY <1>2, BusyCaller, SchedulerAssumption
  <2>2. caller'[c] = [pc |-> "hexists", tries |-> caller[c].tries + 1,
                      sched |-> caller[c].sched]
    BY <1>2, BusyCaller DEF TypeOK
  <2> QED
    BY <1>2, <2>1, <2>2, BusyCaller DEF TypeOK, CallerState
<1> QED
  BY <1>1, <1>2 DEF Failed

\* A step to the next Redis command keeps a call well-formed.
LEMMA GotoType ==
    ASSUME TypeOK, NEW c \in Callers, caller[c] # Idle,
           NEW label \in {"hexists", "zadd", "hset"}, Goto(c, label)
    PROVE  caller' \in [Callers -> CallerState]
<1>1. caller'[c] = [pc |-> label, tries |-> caller[c].tries, sched |-> caller[c].sched]
  BY BusyCaller DEF TypeOK, Goto
<1> QED
  BY <1>1, BusyCaller DEF TypeOK, CallerState, Goto

\* HSET and HDEL keep the hash a finite set of schedules.
LEMMA DataWithType ==
    ASSUME TypeOK, NEW s \in Schedule
    PROVE  DataWith(s) \subseteq Schedule /\ IsFiniteSet(DataWith(s))
<1>1. IsFiniteSet({d \in data : KeyOf(d) # KeyOf(s)})
  BY FS_Subset DEF TypeOK
<1> QED
  BY <1>1, FS_AddElement DEF TypeOK, DataWith

LEMMA DataWithoutType ==
    ASSUME TypeOK, NEW k
    PROVE  DataWithout(k) \subseteq Schedule /\ IsFiniteSet(DataWithout(k))
BY FS_Subset DEF TypeOK, DataWithout

\* A removal that is past its ZRANGE has a key and a snapshot.
LEMMA BusyRemover ==
    ASSUME TypeOK, NEW r \in Removers, remover[r].pc \in {"hget", "zrem", "hdel"}
    PROVE  /\ remover[r] \in [op : {"event", "one"}, pc : {"hget", "zrem", "hdel"},
                              event : Events, todo : SUBSET Key, key : Key]
           /\ remover[r].key \in Key
BY DEF TypeOK, RemoverState, Idle

LEMMA AdvanceType ==
    ASSUME TypeOK, NEW r \in Removers, remover[r].pc \in {"hget", "zrem", "hdel"},
           Advance(r)
    PROVE  remover' \in [Removers -> RemoverState]
<1>1. CASE remover' = [remover EXCEPT ![r] = Idle]
  BY <1>1 DEF TypeOK, RemoverState
<1>2. ASSUME NEW k \in First(remover[r].todo),
             remover' = [remover EXCEPT ![r].pc = "hget", ![r].todo = @ \ {k},
                                        ![r].key = k]
      PROVE  remover' \in [Removers -> RemoverState]
  <2>1. k \in Key /\ remover[r].todo \ {k} \in SUBSET Key
    BY BusyRemover DEF First
  <2>2. remover'[r] = [op |-> remover[r].op, pc |-> "hget",
                       event |-> remover[r].event,
                       todo |-> remover[r].todo \ {k}, key |-> k]
    BY <1>2, BusyRemover DEF TypeOK
  <2> QED
    BY <1>2, <2>1, <2>2, BusyRemover DEF TypeOK, RemoverState
<1> QED
  BY <1>1, <1>2 DEF Advance

-----------------------------------------------------------------------------
(* Type correctness *)

LEMMA CallerStepType ==
    ASSUME TypeOK, NEW c \in Callers, CallerStep(c)
    PROVE  TypeOK'
<1> USE SchedulerAssumption
<1>1. caller[c] # Idle
  BY DEF CallerStep, HExists, ZAdd, HSet, Idle
<1>2. Return(c) => caller' \in [Callers -> CallerState]
  BY DEF TypeOK, Return, CallerState
<1>3. CASE HExists(c)
  <2>1. caller' \in [Callers -> CallerState]
    BY <1>1, <1>2, <1>3, FailedType, GotoType DEF HExists
  <2> QED
    BY <1>3, <2>1 DEF HExists, TypeOK
<1>4. CASE ZAdd(c)
  <2>1. caller' \in [Callers -> CallerState]
    BY <1>1, <1>4, FailedType, GotoType DEF ZAdd
  <2>2. schedules' \subseteq Key
    BY <1>1, <1>4, BusyCaller DEF ZAdd, TypeOK
  <2> QED
    BY <1>4, <2>1, <2>2 DEF ZAdd, TypeOK
<1>5. CASE HSet(c)
  <2>1. caller' \in [Callers -> CallerState]
    BY <1>1, <1>2, <1>5, FailedType DEF HSet
  <2>2. data' \subseteq Schedule /\ IsFiniteSet(data')
    BY <1>1, <1>5, BusyCaller, DataWithType DEF HSet, TypeOK
  <2> QED
    BY <1>5, <2>1, <2>2 DEF HSet, TypeOK
<1> QED
  BY <1>3, <1>4, <1>5 DEF CallerStep

LEMMA RemoverStepType ==
    ASSUME TypeOK, NEW r \in Removers, RemoverStep(r)
    PROVE  TypeOK'
<1>1. CASE RemZRange(r)
  <2>1. remover[r] \in [pc : {"zrange"}, event : Events]
    BY <1>1 DEF TypeOK, RemoverState, RemZRange, Idle
  <2>2. ASSUME NEW k \in First(schedules),
               remover' = [remover EXCEPT ![r] =
                             [op |-> "event", pc |-> "hget", event |-> @.event,
                              todo |-> schedules \ {k}, key |-> k]]
        PROVE  remover' \in [Removers -> RemoverState]
    BY <2>1, <2>2 DEF TypeOK, RemoverState, First
  <2>3. remover' = [remover EXCEPT ![r] = Idle]
        => remover' \in [Removers -> RemoverState]
    BY DEF TypeOK, RemoverState
  <2> QED
    BY <1>1, <2>2, <2>3 DEF RemZRange, TypeOK
<1>2. CASE RemHGet(r)
  <2>1. remover' = [remover EXCEPT ![r].pc = "zrem"]
        => remover' \in [Removers -> RemoverState]
    BY <1>2, BusyRemover DEF RemHGet, TypeOK, RemoverState
  <2>2. remover' \in [Removers -> RemoverState]
    BY <1>2, <2>1, AdvanceType DEF RemHGet
  <2> QED
    BY <1>2, <2>2 DEF RemHGet, TypeOK
<1>3. CASE RemZRem(r)
  <2>1. remover[r] \in [op : {"event", "one"}, pc : {"hget", "zrem", "hdel"},
                        event : Events, todo : SUBSET Key, key : Key]
    BY <1>3, BusyRemover DEF RemZRem
  <2>2. \/ remover' = [remover EXCEPT ![r] = Idle]
        \/ remover' = [remover EXCEPT ![r] = [remover[r] EXCEPT !.pc = "hdel"]]
    BY <1>3 DEF RemZRem, TypeOK
  <2>3. [remover[r] EXCEPT !.pc = "hdel"] \in RemoverState
    BY <2>1 DEF RemoverState
  <2>4. remover' \in [Removers -> RemoverState]
    BY <2>2, <2>3 DEF TypeOK, RemoverState
  <2> QED
    BY <1>3, <2>4 DEF RemZRem, TypeOK
<1>4. CASE RemHDel(r)
  <2>1. remover' \in [Removers -> RemoverState]
    BY <1>4, AdvanceType DEF RemHDel
  <2>2. data' \subseteq Schedule /\ IsFiniteSet(data')
    BY <1>4, DataWithoutType DEF RemHDel, TypeOK
  <2> QED
    BY <1>4, <2>1, <2>2 DEF RemHDel, TypeOK
<1> QED
  BY <1>1, <1>2, <1>3, <1>4 DEF RemoverStep

LEMMA PollType ==
    ASSUME TypeOK, GetDueSchedules
    PROVE  TypeOK'
<1>1. PICK batch \in ScoreOrders(Due) : dispatchQueue' = dispatchQueue \o batch
  BY DEF GetDueSchedules
<1>2. dispatchQueue' \in Seq(Schedule)
  BY <1>1, PolledBatch, ConcatProperties DEF TypeOK
<1>3. IsFiniteSet(data')
  BY FS_Difference DEF GetDueSchedules, TypeOK
<1> QED
  BY <1>2, <1>3 DEF GetDueSchedules, TypeOK

\* A step of the service keeps the types, whatever else runs beside it.
LEMMA ServiceStepType ==
    ASSUME TypeOK, ServiceStep
    PROVE  TypeOK'
<1> USE SchedulerAssumption
<1>1. ASSUME NEW c \in Callers, NEW k \in Key, ScheduleEvent(c, k)
      PROVE  TypeOK'
  <2>1. nextOid \in 1..MaxOid /\ nextOid' \in 1..(MaxOid + 1)
    BY <1>1 DEF ScheduleEvent, TypeOK
  <2>2. [pc |-> "hexists", tries |-> 0,
         sched |-> [oid |-> nextOid, event |-> k.event, at |-> k.at, attempt |-> 0]]
        \in CallerState
    BY <2>1 DEF CallerState, Schedule, Key
  <2>3. caller' \in [Callers -> CallerState]
    BY <1>1, <2>2 DEF ScheduleEvent, TypeOK
  <2> QED
    BY <1>1, <2>1, <2>3 DEF ScheduleEvent, TypeOK
<1>2. ASSUME NEW c \in Callers, CallerCrash(c)
      PROVE  TypeOK'
  BY <1>2 DEF CallerCrash, Return, TypeOK, CallerState
<1>3. ASSUME NEW r \in Removers, RemoverCrash(r)
      PROVE  TypeOK'
  BY <1>3 DEF RemoverCrash, TypeOK, RemoverState
<1> QED
  BY <1>1, <1>2, <1>3, CallerStepType, RemoverStepType, PollType DEF ServiceStep

LEMMA NextType ==
    ASSUME TypeOK, [Next]_schedVars
    PROVE  TypeOK'
<1>1. CASE ServiceStep
  BY <1>1, ServiceStepType
<1>2. ASSUME NEW r \in Removers, NEW e \in Events,
             RemoveEventOccurrencesFromRedis(r, e)
      PROVE  TypeOK'
  BY <1>2 DEF RemoveEventOccurrencesFromRedis, StartRemoval, TypeOK, RemoverState
<1>3. ASSUME NEW r \in Removers, NEW k \in Key, RemoveScheduledEvent(r, k)
      PROVE  TypeOK'
  <2>1. [op |-> "one", pc |-> "zrem", event |-> k.event, todo |-> {}, key |-> k]
        \in RemoverState
    BY DEF RemoverState, Key
  <2> QED
    BY <1>3, <2>1 DEF RemoveScheduledEvent, TypeOK
<1>4. CASE PopDispatchQueue
  <2>1. dispatchQueue' \in Seq(Schedule)
    BY <1>4, HeadTailProperties DEF PopDispatchQueue, TypeOK
  <2> QED
    BY <1>4, <2>1 DEF PopDispatchQueue, TypeOK
<1>5. CASE Tick
  BY <1>5 DEF Tick, TypeOK
<1>6. CASE UNCHANGED schedVars
  BY <1>6 DEF schedVars, TypeOK
<1> QED
  BY <1>1, <1>2, <1>3, <1>4, <1>5, <1>6 DEF Next

LEMMA InitType == Init => TypeOK
<1> USE SchedulerAssumption
<1>1. IsFiniteSet({})
  BY FS_EmptySet
<1>2. Idle \in CallerState /\ Idle \in RemoverState
  BY DEF CallerState, RemoverState
<1> QED
  BY <1>1, <1>2 DEF Init, TypeOK

\* The scheduler core is type correct; in particular no call of ScheduleEvent
\* is started more than MaxTries times.
THEOREM TypeCorrect == Spec => []TypeOK
BY InitType, NextType, PTL DEF Spec

-----------------------------------------------------------------------------
(* One copy of every occurrence *)

\* The inductive invariant: OidInOnePlace says nothing of an id that is in no
\* place, so that a fresh id could collide; OidsIssued excludes it.
OneCopy == TypeOK /\ OidsIssued /\ OidInOnePlace

\* The calls in progress after the step are calls in progress before it, with
\* the same schedules.
KeepsCalls ==
    \A d \in Callers : caller'[d] # Idle =>
        caller[d] # Idle /\ caller'[d].sched = caller[d].sched

LEMMA CallerMoves ==
    ASSUME TypeOK, NEW c \in Callers, caller[c] # Idle,
           \/ Return(c)
           \/ Failed(c)
           \/ \E label \in {"zadd", "hset"} : Goto(c, label)
    PROVE  KeepsCalls
<1>1. CASE Return(c)
  BY <1>1 DEF Return, KeepsCalls, TypeOK
<1>2. CASE caller' = [caller EXCEPT ![c].pc = "hexists", ![c].tries = @ + 1]
  <2>1. caller'[c].sched = caller[c].sched
    BY <1>2, BusyCaller DEF TypeOK
  <2> QED
    BY <1>2, <2>1 DEF KeepsCalls, TypeOK
<1>3. ASSUME NEW label \in {"zadd", "hset"}, Goto(c, label)
      PROVE  KeepsCalls
  <2>1. caller'[c].sched = caller[c].sched
    BY <1>3, BusyCaller DEF Goto, TypeOK
  <2> QED
    BY <1>3, <2>1 DEF Goto, KeepsCalls, TypeOK
<1> QED
  BY <1>1, <1>2, <1>3 DEF Failed

\* A step that hands out no id and only takes copies away keeps the invariant.
LEMMA TakingAway ==
    ASSUME OneCopy, TypeOK', KeepsCalls, data' \subseteq data,
           UNCHANGED <<nextOid, dispatchQueue>>
    PROVE  OneCopy'
<1>1. OidsIssued'
  BY DEF OneCopy, OidsIssued, KeepsCalls
<1>2. CallersDistinct' /\ CallersNotStored'
  BY DEF OneCopy, OidInOnePlace, CallersDistinct, CallersNotStored, KeepsCalls
<1>3. StoredOnce'
  BY DEF OneCopy, OidInOnePlace, StoredOnce, DataDistinct, QueueDistinct, DataNotQueued
<1> QED
  BY <1>1, <1>2, <1>3 DEF OneCopy, OidInOnePlace

LEMMA ScheduleEventOneCopy ==
    ASSUME OneCopy, TypeOK', NEW c \in Callers, NEW k \in Key, ScheduleEvent(c, k)
    PROVE  OneCopy'
<1>1. /\ nextOid \in Nat
      /\ nextOid' = nextOid + 1
      /\ \A s \in data : s.oid \in Nat
      /\ \A d \in Callers : caller[d] # Idle => caller[d].sched.oid \in Nat
      /\ \A i \in 1..Len(dispatchQueue) : dispatchQueue[i].oid \in Nat
  <2>1. nextOid \in Nat /\ nextOid' = nextOid + 1 /\ TypeOK
    BY DEF OneCopy, ScheduleEvent, TypeOK
  <2>2. \A s \in Schedule : s.oid \in Nat
    BY DEF Schedule
  <2>3. \A d \in Callers : caller[d] # Idle => caller[d].sched \in Schedule
    BY <2>1, BusyCaller
  <2>4. \A i \in 1..Len(dispatchQueue) : dispatchQueue[i] \in Schedule
    BY <2>1, ElementOfSeq DEF TypeOK
  <2> QED
    BY <2>1, <2>2, <2>3, <2>4 DEF TypeOK
<1>2. caller'[c].sched.oid = nextOid
  BY DEF OneCopy, TypeOK, ScheduleEvent
<1>3. \A d \in Callers \ {c} : caller'[d] = caller[d]
  BY DEF OneCopy, TypeOK, ScheduleEvent
<1>4. UNCHANGED <<data, dispatchQueue>>
  BY DEF ScheduleEvent
<1>5. OidsIssued'
  BY <1>1, <1>2, <1>3, <1>4 DEF OneCopy, OidsIssued
<1>6. CallersDistinct'
  BY <1>1, <1>2, <1>3
  DEF OneCopy, OidInOnePlace, CallersDistinct, OidsIssued
<1>7. CallersNotStored'
  BY <1>1, <1>2, <1>3, <1>4
  DEF OneCopy, OidInOnePlace, CallersNotStored, OidsIssued
<1>8. StoredOnce'
  BY <1>4
  DEF OneCopy, OidInOnePlace, StoredOnce, DataDistinct, QueueDistinct, DataNotQueued
<1> QED
  BY <1>5, <1>6, <1>7, <1>8 DEF OneCopy, OidInOnePlace

\* HSET: the copy moves from the caller to the hash.
LEMMA HSetOneCopy ==
    ASSUME OneCopy, TypeOK', NEW c \in Callers, caller[c] # Idle,
           data' = DataWith(caller[c].sched), Return(c),
           UNCHANGED <<nextOid, dispatchQueue>>
    PROVE  OneCopy'
<1> DEFINE s == caller[c].sched
<1>1. caller'[c] = Idle /\ \A d \in Callers \ {c} : caller'[d] = caller[d]
  BY DEF OneCopy, TypeOK, Return
<1>2. \A t \in data' : t \in data \/ t = s
  BY DEF DataWith
<1>3. /\ s.oid < nextOid
      /\ \A t \in data : t.oid # s.oid
      /\ \A i \in 1..Len(dispatchQueue) : dispatchQueue[i].oid # s.oid
      /\ \A d \in Callers \ {c} : caller[d] # Idle => caller[d].sched.oid # s.oid
  BY DEF OneCopy, OidsIssued, OidInOnePlace, CallersDistinct, CallersNotStored
<1> HIDE DEF s
<1>4. OidsIssued'
  BY <1>1, <1>2, <1>3 DEF OneCopy, OidsIssued
<1>5. CallersDistinct'
  BY <1>1 DEF OneCopy, OidInOnePlace, CallersDistinct
<1>6. CallersNotStored'
  BY <1>1, <1>2, <1>3 DEF OneCopy, OidInOnePlace, CallersNotStored
<1>7. DataDistinct' /\ DataNotQueued'
  BY <1>2, <1>3
  DEF OneCopy, OidInOnePlace, StoredOnce, DataDistinct, DataNotQueued
<1>8. QueueDistinct'
  BY DEF OneCopy, OidInOnePlace, StoredOnce, QueueDistinct
<1> QED
  BY <1>4, <1>5, <1>6, <1>7, <1>8 DEF OneCopy, OidInOnePlace, StoredOnce

LEMMA CallerStepOneCopy ==
    ASSUME LostReplies = FALSE, OneCopy, TypeOK', NEW c \in Callers, CallerStep(c)
    PROVE  OneCopy'
<1>1. caller[c] # Idle /\ TypeOK
  BY DEF CallerStep, HExists, ZAdd, HSet, Idle, OneCopy
<1>2. CASE HExists(c)
  <2>1. KeepsCalls
    BY <1>1, <1>2, CallerMoves DEF HExists
  <2> QED
    BY <1>2, <2>1, TakingAway DEF HExists
<1>3. CASE ZAdd(c)
  <2>1. KeepsCalls
    BY <1>1, <1>3, CallerMoves DEF ZAdd
  <2> QED
    BY <1>3, <2>1, TakingAway DEF ZAdd
<1>4. CASE HSet(c)
  <2>1. CASE data' = DataWith(caller[c].sched) /\ Return(c)
    BY <1>1, <1>4, <2>1, HSetOneCopy DEF HSet
  <2>2. CASE Failed(c) /\ UNCHANGED data
    <3>1. KeepsCalls
      BY <1>1, <2>2, CallerMoves
    <3> QED
      BY <1>4, <2>2, <3>1, TakingAway DEF HSet
  <2> QED
    BY <1>4, <2>1, <2>2 DEF HSet
<1> QED
  BY <1>2, <1>3, <1>4 DEF CallerStep

\* The poller: copies move from the hash to the dispatch queue.
LEMMA PollOneCopy ==
    ASSUME OneCopy, TypeOK', GetDueSchedules
    PROVE  OneCopy'
<1>1. PICK batch \in ScoreOrders(Due) : dispatchQueue' = dispatchQueue \o batch
  BY DEF GetDueSchedules
<1> DEFINE m == Len(dispatchQueue)
           n == Len(batch)
<1>2. /\ batch \in Seq(Schedule)
      /\ \A i \in 1..n : batch[i] \in Due
      /\ \A i, j \in 1..n : i < j => batch[i] # batch[j]
  BY PolledBatch DEF OneCopy
<1>3. dispatchQueue \in Seq(Schedule) /\ m \in Nat /\ n \in Nat
  BY <1>2, LenProperties DEF OneCopy, TypeOK
<1>4. /\ Len(dispatchQueue') = m + n
      /\ \A i \in 1..(m + n) :
            dispatchQueue'[i] = IF i <= m THEN dispatchQueue[i] ELSE batch[i - m]
  BY <1>1, <1>2, <1>3, ConcatProperties
<1>5. UNCHANGED <<nextOid, caller>> /\ data' = data \ Due /\ Due \subseteq data
  BY DEF GetDueSchedules, Due
<1> HIDE DEF m, n
<1>6. \A i \in 1..(m + n) :
          \/ i \in 1..m /\ dispatchQueue'[i] = dispatchQueue[i]
          \/ i - m \in 1..n /\ dispatchQueue'[i] = batch[i - m]
  BY <1>3, <1>4
<1>7. \A i \in 1..n : batch[i] \in data /\ batch[i] \notin data'
  BY <1>2, <1>5
<1>8. OidsIssued'
  BY <1>4, <1>5, <1>6, <1>7 DEF OneCopy, OidsIssued, m
<1>9. CallersDistinct'
  BY <1>5 DEF OneCopy, OidInOnePlace, CallersDistinct
<1>10. CallersNotStored'
  BY <1>4, <1>5, <1>6, <1>7 DEF OneCopy, OidInOnePlace, CallersNotStored, m
<1>11. DataDistinct'
  BY <1>5 DEF OneCopy, OidInOnePlace, StoredOnce, DataDistinct
<1>12. DataNotQueued'
  BY <1>4, <1>5, <1>6, <1>7
  DEF OneCopy, OidInOnePlace, StoredOnce, DataDistinct, DataNotQueued, m
<1>13. QueueDistinct'
  <2> SUFFICES ASSUME NEW i \in 1..(m + n), NEW j \in 1..(m + n), i < j,
                      dispatchQueue'[i].oid = dispatchQueue'[j].oid
               PROVE  FALSE
    BY <1>3, <1>4 DEF QueueDistinct
  <2>1. CASE i \in 1..m /\ j \in 1..m
    BY <1>4, <2>1 DEF OneCopy, OidInOnePlace, StoredOnce, QueueDistinct, m
  <2>2. CASE i \in 1..m /\ j - m \in 1..n
    BY <1>3, <1>4, <1>7, <2>2
    DEF OneCopy, OidInOnePlace, StoredOnce, DataNotQueued, m
  <2>3. CASE i - m \in 1..n /\ j - m \in 1..n
    <3>1. batch[i - m].oid = batch[j - m].oid
      BY <1>3, <1>4, <2>3
    <3>2. batch[i - m] = batch[j - m]
      BY <1>7, <2>3, <3>1 DEF OneCopy, OidInOnePlace, StoredOnce, DataDistinct
    <3> QED
      BY <1>2, <1>3, <2>3, <3>2 DEF n
  <2> QED
    BY <1>3, <2>1, <2>2, <2>3
<1> QED
  BY <1>8, <1>9, <1>10, <1>11, <1>12, <1>13 DEF OneCopy, OidInOnePlace, StoredOnce

LEMMA PopOneCopy ==
    ASSUME OneCopy, TypeOK', PopDispatchQueue
    PROVE  OneCopy'
<1>1. /\ dispatchQueue \in Seq(Schedule)
      /\ Len(dispatchQueue) \in Nat \ {0}
      /\ Len(dispatchQueue') = Len(dispatchQueue) - 1
      /\ \A i \in 1..Len(dispatchQueue') : dispatchQueue'[i] = dispatchQueue[i + 1]
  BY HeadTailProperties, LenProperties, EmptySeq DEF OneCopy, TypeOK, PopDispatchQueue
<1>2. \A i \in 1..Len(dispatchQueue') : i + 1 \in 1..Len(dispatchQueue)
  BY <1>1
<1>3. UNCHANGED <<nextOid, caller, data>>
  BY DEF PopDispatchQueue
<1>4. OidsIssued'
  BY <1>1, <1>2, <1>3 DEF OneCopy, OidsIssued
<1>5. CallersDistinct' /\ CallersNotStored'
  BY <1>1, <1>2, <1>3
  DEF OneCopy, OidInOnePlace, CallersDistinct, CallersNotStored
<1>6. DataDistinct' /\ DataNotQueued'
  BY <1>1, <1>2, <1>3
  DEF OneCopy, OidInOnePlace, StoredOnce, DataDistinct, DataNotQueued
<1>7. QueueDistinct'
  BY <1>1, <1>2 DEF OneCopy, OidInOnePlace, StoredOnce, QueueDistinct
<1> QED
  BY <1>4, <1>5, <1>6, <1>7 DEF OneCopy, OidInOnePlace, StoredOnce

LEMMA NextOneCopy ==
    ASSUME LostReplies = FALSE, OneCopy, [Next]_schedVars
    PROVE  OneCopy'
<1>1. TypeOK'
  BY NextType DEF OneCopy
<1>2. ASSUME NEW c \in Callers, CallerCrash(c)
      PROVE  OneCopy'
  <2>1. KeepsCalls
    BY <1>2, CallerMoves DEF CallerCrash, OneCopy
  <2> QED
    BY <1>1, <1>2, <2>1, TakingAway DEF CallerCrash
<1>3. (UNCHANGED caller) => KeepsCalls
  BY DEF KeepsCalls
<1>4. ASSUME NEW r \in Removers,
             \/ RemoverStep(r)
             \/ RemoverCrash(r)
             \/ \E e \in Events : RemoveEventOccurrencesFromRedis(r, e)
             \/ \E k \in Key : RemoveScheduledEvent(r, k)
      PROVE  OneCopy'
  <2>1. UNCHANGED <<nextOid, dispatchQueue, caller>> /\ data' \subseteq data
    BY <1>4 DEF RemoverStep, RemZRange, RemHGet, RemZRem, RemHDel, RemoverCrash,
         RemoveEventOccurrencesFromRedis, RemoveScheduledEvent, DataWithout
  <2> QED
    BY <1>1, <1>3, <2>1, TakingAway
<1>5. CASE Tick
  BY <1>1, <1>3, <1>5, TakingAway DEF Tick
<1>6. CASE UNCHANGED schedVars
  BY <1>1, <1>3, <1>6, TakingAway DEF schedVars
<1> QED
  BY <1>1, <1>2, <1>4, <1>5, <1>6, ScheduleEventOneCopy, CallerStepOneCopy,
     PollOneCopy, PopOneCopy DEF Next, ServiceStep

LEMMA InitOneCopy == Init => OneCopy
<1>1. Init => OidsIssued
  BY EmptySeq DEF Init, OidsIssued
<1>2. Init => OidInOnePlace
  BY EmptySeq DEF Init, OidInOnePlace, CallersDistinct, CallersNotStored, StoredOnce,
     DataDistinct, QueueDistinct, DataNotQueued
<1> QED
  BY <1>1, <1>2, InitType DEF OneCopy

\* With replies that are never lost, an occurrence is in one place at a time,
\* for any number of callers and removers, with errors and crashes.
THEOREM OneCopyOfEveryOccurrence ==
    ASSUME LostReplies = FALSE
    PROVE  Spec => []OidInOnePlace
<1>1. OneCopy /\ [Next]_schedVars => OneCopy'
  BY NextOneCopy
<1>2. OneCopy => OidInOnePlace
  BY DEF OneCopy
<1> QED
  BY <1>1, <1>2, InitOneCopy, PTL DEF Spec

-----------------------------------------------------------------------------
(* A single scheduling process strands nothing *)

\* The inductive invariant: StoredIsScheduled survives HSET only because the
\* member ZADD wrote is still there, and it is there because the poller removes
\* a member only together with a value of the same key.
NoStrand == TypeOK /\ StoredIsScheduled /\ CallsUndisturbed

LEMMA CallerStepNoStrand ==
    ASSUME \A c, d \in Callers : c = d,
           NoStrand, TypeOK', NEW c \in Callers, CallerStep(c)
    PROVE  NoStrand'
<1>1. caller[c] # Idle /\ TypeOK
  BY DEF CallerStep, HExists, ZAdd, HSet, Idle, NoStrand
<1>2. ASSUME NEW d \in Callers
      PROVE  d = c
  OBVIOUS
<1>3. Return(c) \/ Failed(c) => caller'[c].pc \in {"idle", "hexists"}
  <2>1. Return(c) => caller'[c].pc \in {"idle", "hexists"}
    BY <1>1 DEF Return, TypeOK, Idle
  <2>2. caller' = [caller EXCEPT ![c].pc = "hexists", ![c].tries = @ + 1]
        => caller'[c].pc \in {"idle", "hexists"}
    BY <1>1, BusyCaller DEF TypeOK
  <2> QED
    BY <2>1, <2>2 DEF Failed
<1>4. ASSUME Return(c) \/ Failed(c)
      PROVE  CallsUndisturbed'
  BY <1>2, <1>3, <1>4 DEF CallsUndisturbed
<1>5. \A label \in {"zadd", "hset"} :
          Goto(c, label) => caller'[c].pc = label /\ caller'[c].sched = caller[c].sched
  BY <1>1, BusyCaller DEF Goto, TypeOK
<1>6. CASE HExists(c)
  <2>1. StoredIsScheduled'
    BY <1>6 DEF HExists, StoredIsScheduled, NoStrand
  <2>2. ASSUME ~HasData(KeyOf(caller[c].sched)), Goto(c, "zadd")
        PROVE  CallsUndisturbed'
    BY <1>2, <1>5, <1>6, <2>2 DEF HExists, CallsUndisturbed, HasData
  <2> QED
    BY <1>4, <1>6, <2>1, <2>2 DEF HExists, NoStrand
<1>7. CASE ZAdd(c)
  <2>1. StoredIsScheduled'
    BY <1>7 DEF ZAdd, StoredIsScheduled, NoStrand
  <2>2. ASSUME schedules' = schedules \cup {KeyOf(caller[c].sched)}, Goto(c, "hset")
        PROVE  CallsUndisturbed'
    BY <1>2, <1>5, <1>7, <2>2 DEF ZAdd, CallsUndisturbed, HasData, NoStrand
  <2> QED
    BY <1>4, <1>7, <2>1, <2>2 DEF ZAdd, NoStrand
<1>8. CASE HSet(c)
  <2>1. KeyOf(caller[c].sched) \in schedules
    BY <1>8 DEF HSet, NoStrand, CallsUndisturbed
  <2>2. StoredIsScheduled'
    BY <1>8, <2>1 DEF HSet, StoredIsScheduled, NoStrand, DataWith
  <2>3. CallsUndisturbed'
    BY <1>4, <1>8 DEF HSet
  <2> QED
    BY <2>2, <2>3 DEF NoStrand
<1> QED
  BY <1>6, <1>7, <1>8 DEF CallerStep

LEMMA PollNoStrand ==
    ASSUME NoStrand, TypeOK', GetDueSchedules
    PROVE  NoStrand'
<1>1. \A s \in data' : s \in data /\ s \notin Due
  BY DEF GetDueSchedules
<1>2. StoredIsScheduled'
  <2> SUFFICES ASSUME NEW s \in data', NEW t \in Due, KeyOf(t) = KeyOf(s)
               PROVE  FALSE
    BY <1>1 DEF StoredIsScheduled, GetDueSchedules, NoStrand
  <2>1. s.at = t.at
    BY DEF KeyOf
  <2> QED
    BY <1>1, <2>1 DEF Due
<1>3. CallsUndisturbed'
  <2> SUFFICES ASSUME NEW c \in Callers, caller[c].pc \in {"zadd", "hset"}
               PROVE  /\ ~HasData(KeyOf(caller[c].sched))'
                      /\ caller[c].pc = "hset" => KeyOf(caller[c].sched) \in schedules'
    BY DEF CallsUndisturbed, GetDueSchedules
  <2>1. ~HasData(KeyOf(caller[c].sched))
    BY DEF NoStrand, CallsUndisturbed
  <2>2. ~HasData(KeyOf(caller[c].sched))'
    BY <1>1, <2>1 DEF HasData, GetDueSchedules
  <2>3. caller[c].pc = "hset" => KeyOf(caller[c].sched) \in schedules'
    BY <2>1 DEF NoStrand, CallsUndisturbed, GetDueSchedules, Due, HasData
  <2> QED
    BY <2>2, <2>3
<1> QED
  BY <1>2, <1>3 DEF NoStrand

LEMMA NextNoStrand ==
    ASSUME Removers = {}, \A c, d \in Callers : c = d, NoStrand, [Next]_schedVars
    PROVE  NoStrand'
<1>1. TypeOK'
  BY NextType DEF NoStrand
<1>2. ASSUME NEW c \in Callers, NEW k \in Key, ScheduleEvent(c, k)
      PROVE  NoStrand'
  <2>1. \A d \in Callers : caller'[d].pc = "hexists"
    BY <1>2 DEF ScheduleEvent, NoStrand, TypeOK
  <2> QED
    BY <1>1, <1>2, <2>1 DEF ScheduleEvent, NoStrand, StoredIsScheduled, CallsUndisturbed
<1>3. ASSUME NEW c \in Callers, CallerCrash(c)
      PROVE  NoStrand'
  <2>1. \A d \in Callers : caller'[d].pc = "idle"
    BY <1>3 DEF CallerCrash, Return, NoStrand, TypeOK, Idle
  <2> QED
    BY <1>1, <1>3, <2>1 DEF CallerCrash, NoStrand, StoredIsScheduled, CallsUndisturbed
<1>4. (UNCHANGED <<schedules, data, caller>>) => NoStrand'
  BY <1>1 DEF NoStrand, StoredIsScheduled, CallsUndisturbed, HasData
<1>5. CASE PopDispatchQueue \/ Tick \/ UNCHANGED schedVars
  BY <1>4, <1>5 DEF PopDispatchQueue, Tick, schedVars
<1> QED
  BY <1>1, <1>2, <1>3, <1>5, CallerStepNoStrand, PollNoStrand DEF Next, ServiceStep

\* With one scheduling process and no removals, every value in the hash has its
\* member in the sorted set, whatever errors, lost replies and crashes happen.
THEOREM SingleCallerStrandsNothing ==
    ASSUME Removers = {}, \A c, d \in Callers : c = d
    PROVE  Spec => []StoredIsScheduled
<1>1. Init => NoStrand
  BY InitType DEF NoStrand, Init, StoredIsScheduled, CallsUndisturbed, Idle
<1>2. NoStrand /\ [Next]_schedVars => NoStrand'
  BY NextNoStrand
<1>3. NoStrand => StoredIsScheduled
  BY DEF NoStrand
<1> QED
  BY <1>1, <1>2, <1>3, PTL DEF Spec

-----------------------------------------------------------------------------
(* Nothing is dropped *)

\* A step that takes s out of the hash says where it went.
HashLosesNothing ==
    \A s \in data : s \notin data' =>
        \/ \E i \in 1..Len(dispatchQueue') : dispatchQueue'[i] = s
        \/ \E t \in data' : KeyOf(t) = KeyOf(s)
        \/ \E r \in Removers : remover[r].pc = "hdel" /\ remover[r].key = KeyOf(s)

\* A step leaves every element of the queue but the first, where it was or one
\* place further to the left.
QueueLosesNothing ==
    \A i \in 2..Len(dispatchQueue) :
        \E j \in {i - 1, i} :
            j <= Len(dispatchQueue') /\ dispatchQueue'[j] = dispatchQueue[i]

\* The Lua script appends every value it deletes (scheduler.go:80-106).
LEMMA PollLosesNothing ==
    ASSUME TypeOK, GetDueSchedules
    PROVE  HashLosesNothing /\ QueueLosesNothing
<1>1. PICK batch \in ScoreOrders(Due) : dispatchQueue' = dispatchQueue \o batch
  BY DEF GetDueSchedules
<1>2. /\ batch \in Seq(Schedule)
      /\ dispatchQueue \in Seq(Schedule)
      /\ Len(batch) = Cardinality(Due)
  BY PolledBatch DEF TypeOK
<1> DEFINE m == Len(dispatchQueue)
           n == Len(batch)
<1>3. m \in Nat /\ n \in Nat
  BY <1>2, LenProperties
<1>4. Len(dispatchQueue') = m + n
  BY <1>1, <1>2, ConcatProperties, Zenon
<1>5. \A i \in 1..(m + n) :
        dispatchQueue'[i] = IF i <= m THEN dispatchQueue[i] ELSE batch[i - m]
  BY <1>1, <1>2, ConcatProperties, Zenon
<1>6. ASSUME NEW s \in data, s \notin data'
      PROVE  \E i \in 1..Len(dispatchQueue') : dispatchQueue'[i] = s
  <2>1. s \in Due
    BY <1>6 DEF GetDueSchedules
  <2>2. PICK k \in 1..n : batch[k] = s
    BY <1>2, <2>1 DEF ScoreOrders
  <2> HIDE DEF m, n
  <2>3. m + k \in 1..(m + n) /\ ~(m + k <= m) /\ (m + k) - m = k
    BY <1>3
  <2>4. dispatchQueue'[m + k] = batch[k]
    BY <1>5, <2>3
  <2> QED
    BY <1>4, <2>2, <2>3, <2>4
<1>7. QueueLosesNothing
  <2>1. SUFFICES ASSUME NEW i \in 2..m
                 PROVE  i <= Len(dispatchQueue') /\ dispatchQueue'[i] = dispatchQueue[i]
    BY DEF QueueLosesNothing
  <2> HIDE DEF m, n
  <2> QED
    BY <1>3, <1>4, <1>5
<1> QED
  BY <1>6, <1>7 DEF HashLosesNothing

\* Only HSET, HDEL and the Lua script change the hash, and only the Lua script
\* and LPOP the queue.
LEMMA NextLosesNothing ==
    ASSUME TypeOK, [Next]_schedVars
    PROVE  HashLosesNothing /\ QueueLosesNothing
<1>0. dispatchQueue \in Seq(Schedule) /\ Len(dispatchQueue) \in Nat
  BY LenProperties DEF TypeOK
<1>1. (UNCHANGED data) => HashLosesNothing
  BY DEF HashLosesNothing
<1>2. (UNCHANGED dispatchQueue) => QueueLosesNothing
  BY <1>0 DEF QueueLosesNothing
<1>3. ASSUME NEW c \in Callers, HSet(c)
      PROVE  HashLosesNothing /\ QueueLosesNothing
  <2>1. data' = DataWith(caller[c].sched) \/ UNCHANGED data
    BY <1>3 DEF HSet
  <2>2. data' = DataWith(caller[c].sched) => HashLosesNothing
    BY DEF HashLosesNothing, DataWith
  <2> QED
    BY <1>1, <1>2, <1>3, <2>1, <2>2 DEF HSet
<1>4. ASSUME NEW r \in Removers, RemHDel(r)
      PROVE  HashLosesNothing /\ QueueLosesNothing
  <2>1. HashLosesNothing
    BY <1>1, <1>4 DEF RemHDel, DataWithout, HashLosesNothing
  <2> QED
    BY <1>2, <1>4, <2>1 DEF RemHDel
<1>5. ASSUME NEW c \in Callers,
             HExists(c) \/ ZAdd(c) \/ CallerCrash(c) \/ \E k \in Key : ScheduleEvent(c, k)
      PROVE  HashLosesNothing /\ QueueLosesNothing
  BY <1>1, <1>2, <1>5 DEF HExists, ZAdd, CallerCrash, ScheduleEvent
<1>6. ASSUME NEW r \in Removers, RemZRange(r) \/ RemHGet(r) \/ RemZRem(r) \/ RemoverCrash(r)
      PROVE  HashLosesNothing /\ QueueLosesNothing
  BY <1>1, <1>2, <1>6 DEF RemZRange, RemHGet, RemZRem, RemoverCrash
<1>7. ASSUME NEW r \in Removers,
             \/ \E e \in Events : RemoveEventOccurrencesFromRedis(r, e)
             \/ \E k \in Key : RemoveScheduledEvent(r, k)
      PROVE  HashLosesNothing /\ QueueLosesNothing
  BY <1>1, <1>2, <1>7 DEF RemoveEventOccurrencesFromRedis, RemoveScheduledEvent
<1>8. CASE PopDispatchQueue
  <2>1. /\ Len(dispatchQueue') = Len(dispatchQueue) - 1
        /\ \A i \in 1..Len(dispatchQueue') : dispatchQueue'[i] = dispatchQueue[i + 1]
    BY <1>0, <1>8, HeadTailProperties, EmptySeq DEF PopDispatchQueue
  <2>2. QueueLosesNothing
    <3>1. SUFFICES ASSUME NEW i \in 2..Len(dispatchQueue)
                   PROVE  i - 1 <= Len(dispatchQueue') /\ dispatchQueue'[i - 1] = dispatchQueue[i]
      BY DEF QueueLosesNothing
    <3>2. i - 1 \in 1..Len(dispatchQueue') /\ (i - 1) + 1 = i
      BY <1>0, <2>1
    <3> QED
      BY <1>0, <2>1, <3>2
  <2> QED
    BY <1>1, <1>8, <2>2 DEF PopDispatchQueue
<1>9. CASE Tick \/ UNCHANGED schedVars
  BY <1>1, <1>2, <1>9 DEF Tick, schedVars
<1> QED
  BY <1>3, <1>4, <1>5, <1>6, <1>7, <1>8, <1>9, PollLosesNothing
  DEF Next, ServiceStep, CallerStep, RemoverStep

\* For any number of callers, removers and pollers, with errors, lost replies
\* and crashes: no step makes a stored occurrence disappear other than into the
\* dispatch queue, under a newer value of its own key or by a removal of exactly
\* its key (scheduler.go:36-133, event_repository.go:251-277), and no step but
\* a pop shortens the queue.
THEOREM NoOccurrenceIsDropped == Spec => NothingDropped
<1>1. TypeOK /\ [Next]_schedVars =>
        [/\ \A s \in data : s \notin data' =>
               \/ \E i \in 1..Len(dispatchQueue') : dispatchQueue'[i] = s
               \/ \E t \in data' : KeyOf(t) = KeyOf(s)
               \/ \E r \in Removers :
                      remover[r].pc = "hdel" /\ remover[r].key = KeyOf(s)
         /\ \A i \in 2..Len(dispatchQueue) :
               \E j \in {i - 1, i} :
                   j <= Len(dispatchQueue') /\ dispatchQueue'[j] = dispatchQueue[i]
        ]_schedVars
  BY NextLosesNothing DEF HashLosesNothing, QueueLosesNothing
<1> QED
  BY <1>1, TypeCorrect, PTL DEF Spec, NothingDropped
=============================================================================
