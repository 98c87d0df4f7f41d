-------------------------- MODULE DispatcherProofs --------------------------
(***************************************************************************)
(* Proofs about module Dispatcher, for every number of workers, callers,   *)
(* removers, events and occurrences, every retry limit and every failure   *)
(* but a lost reply: its types, one copy of every occurrence through the   *)
(* whole pipeline, the bound on executions, and the log of occurrences.    *)
(***************************************************************************)
EXTENDS Dispatcher, SchedulerProofs

\* A worker that goes on after GetByID has a row of the table in its hands.
RowsRead ==
    \A w \in Workers :
        worker[w].pc \in {"execute", "log", "count", "update"} => worker[w].row \in Row

DType == DTypeOK /\ RowsRead

-----------------------------------------------------------------------------
(* Types *)

LEMMA BusyWorker ==
    ASSUME DTypeOK, NEW w \in Workers, worker[w] # Idle
    PROVE  /\ worker[w] \in [pc : Label, sched : Schedule, row : Row \cup {NoRow},
                             ok : BOOLEAN]
           /\ worker[w].sched \in Schedule
BY DEF DTypeOK, WorkerState

LEMMA LabelIsBusy ==
    ASSUME NEW w \in Workers, worker[w].pc \in Label
    PROVE  worker[w] # Idle
BY DEF Label, Idle

\* A worker's step from one statement to the next.
LEMMA WGotoType ==
    ASSUME DTypeOK, NEW w \in Workers, worker[w] # Idle, NEW label \in Label, WGoto(w, label)
    PROVE  /\ worker' \in [Workers -> WorkerState]
           /\ worker'[w].pc = label
           /\ worker'[w].sched = worker[w].sched
           /\ worker'[w].row = worker[w].row
           /\ worker'[w].ok = worker[w].ok
           /\ worker'[w] # Idle
           /\ \A v \in Workers \ {w} : worker'[v] = worker[v]
<1>1. worker'[w] = [pc |-> label, sched |-> worker[w].sched, row |-> worker[w].row,
                    ok |-> worker[w].ok]
  BY BusyWorker DEF WGoto, DTypeOK
<1>2. \A v \in Workers \ {w} : worker'[v] = worker[v]
  BY DEF WGoto, DTypeOK
<1>3. worker'[w] \in WorkerState
  BY <1>1, BusyWorker DEF WorkerState
<1>4. worker' \in [Workers -> WorkerState]
  BY <1>3 DEF WGoto, DTypeOK
<1>5. worker'[w] # Idle
  BY <1>1 DEF Idle, Label
<1> QED
  BY <1>1, <1>2, <1>4, <1>5

LEMMA CreateType ==
    ASSUME DTypeOK, NEW s \in Schedule, NEW status \in {"completed", "failed"},
           NEW attempt \in Nat, Create(s, status, attempt)
    PROVE  occurrences' \subseteq OccurrenceRow /\ nextRow' \in Nat \ {0}
<1>1. CASE UNCHANGED <<occurrences, nextRow>>
  BY <1>1 DEF DTypeOK
<1>2. CASE /\ occurrences' = occurrences \cup
                {[id |-> nextRow, oid |-> s.oid, event |-> s.event, at |-> s.at,
                  status |-> status, attempt |-> attempt]}
           /\ nextRow' = nextRow + 1
  BY <1>2 DEF DTypeOK, OccurrenceRow, Schedule
<1> QED
  BY <1>1, <1>2 DEF Create

\* What the steps of a worker that only move it keep.
LEMMA WorkerMovesType ==
    ASSUME DType, TypeOK', NEW w \in Workers,
           worker' \in [Workers -> WorkerState],
           \A v \in Workers \ {w} : worker'[v] = worker[v],
           worker'[w].pc \in {"execute", "log", "count", "update"} => worker'[w].row \in Row,
           events' \in [Events -> Row \cup {NoRow}],
           occurrences' \subseteq OccurrenceRow, nextRow' \in Nat \ {0},
           retryQueue' \subseteq RetryItem, IsFiniteSet(retryQueue'),
           calls' \in [1..MaxOid -> Nat], delivered' \in [1..MaxOid -> Nat]
    PROVE  DType'
<1>1. RowsRead'
  BY DEF DType, RowsRead
<1> QED
  BY <1>1 DEF DType, DTypeOK

LEMMA BRPopType ==
    ASSUME DType, NEW w \in Workers, BRPop(w)
    PROVE  DType'
<1> DEFINE n == Len(dispatchQueue)
<1>1. dispatchQueue \in Seq(Schedule) /\ n \in Nat /\ n # 0
  BY EmptySeq, LenProperties DEF BRPop, DType, DTypeOK, TypeOK
<1>2. dispatchQueue[n] \in Schedule /\ SubSeq(dispatchQueue, 1, n - 1) \in Seq(Schedule)
  <2>1. dispatchQueue[n] \in Schedule
    BY <1>1, ElementOfSeq
  <2>2. \A i \in 1..(n - 1) : dispatchQueue[i] \in Schedule
    BY <1>1, ElementOfSeq
  <2>3. SubSeq(dispatchQueue, 1, n - 1) \in Seq(Schedule)
    BY <1>1, <2>2
  <2> QED
    BY <2>1, <2>3
<1>3. TypeOK'
  BY <1>2 DEF BRPop, DType, DTypeOK, TypeOK
<1> HIDE DEF n
<1>4. [pc |-> "getbyid", sched |-> dispatchQueue[n], row |-> NoRow, ok |-> FALSE]
      \in WorkerState
  BY <1>2 DEF WorkerState, Label
<1>5. worker' = [worker EXCEPT ![w] =
                   [pc |-> "getbyid", sched |-> dispatchQueue[n], row |-> NoRow, ok |-> FALSE]]
  BY DEF BRPop, n
<1>6. /\ worker' \in [Workers -> WorkerState]
      /\ worker'[w].pc = "getbyid"
      /\ \A v \in Workers \ {w} : worker'[v] = worker[v]
  BY <1>4, <1>5 DEF DType, DTypeOK
<1> QED
  BY <1>3, <1>6, WorkerMovesType DEF BRPop, DType, DTypeOK

LEMMA GetByIDType ==
    ASSUME DType, NEW w \in Workers, GetByID(w)
    PROVE  DType'
<1>1. worker[w] # Idle /\ DTypeOK
  BY LabelIsBusy DEF GetByID, Label, DType
<1>2. TypeOK'
  BY DEF GetByID, DType, DTypeOK, TypeOK, schedVars
<1>3. /\ worker' \in [Workers -> WorkerState]
      /\ worker'[w].pc \in {"execute", "log", "count", "update"} => worker'[w].row \in Row
      /\ \A v \in Workers \ {w} : worker'[v] = worker[v]
  <2>1. CASE \E label \in {"logorphan", "logerr"} : WGoto(w, label)
    BY <1>1, <2>1, WGotoType DEF Label
  <2>2. ASSUME NEW row \in Row,
               worker' = [worker EXCEPT ![w].pc = "execute", ![w].row = row]
        PROVE  <1>3!:
    <3>1. worker'[w] = [pc |-> "execute", sched |-> worker[w].sched, row |-> row,
                        ok |-> worker[w].ok]
      BY <1>1, <2>2, BusyWorker DEF DTypeOK
    <3>2. worker'[w] \in WorkerState
      BY <1>1, <3>1, BusyWorker DEF WorkerState, Label
    <3> QED
      BY <2>2, <3>1, <3>2 DEF DType, DTypeOK
  <2>3. events[worker[w].sched.event] \in Row \cup {NoRow}
    BY <1>1, BusyWorker DEF DTypeOK, Schedule
  <2> QED
    BY <2>1, <2>2, <2>3 DEF GetByID
<1> QED
  BY <1>2, <1>3, WorkerMovesType DEF GetByID, DType, DTypeOK

LEMMA LogType ==
    ASSUME DType, NEW w \in Workers, LogErrOccurrence(w) \/ LogOccurrence(w)
    PROVE  DType'
<1>1. worker[w] # Idle /\ DTypeOK /\ worker[w].sched \in Schedule
  BY LabelIsBusy, BusyWorker DEF LogErrOccurrence, LogOccurrence, Label, DType
<1>2. worker[w].sched.attempt \in Nat
  BY <1>1 DEF Schedule
<1>3. TypeOK'
  BY DEF LogErrOccurrence, LogOccurrence, DType, DTypeOK, TypeOK, schedVars
<1>4. occurrences' \subseteq OccurrenceRow /\ nextRow' \in Nat \ {0}
  BY <1>1, <1>2, CreateType DEF LogErrOccurrence, LogOccurrence
<1>5. PICK label \in {"zrem", "finish", "count", "update"} :
        WGoto(w, label) /\ (label \in {"count", "update"} => worker[w].pc = "log")
  BY DEF LogErrOccurrence, LogOccurrence, AfterLog
<1>6. /\ worker' \in [Workers -> WorkerState]
      /\ worker'[w].pc = label
      /\ worker'[w].row = worker[w].row
      /\ \A v \in Workers \ {w} : worker'[v] = worker[v]
  BY <1>1, <1>5, WGotoType DEF Label
<1>7. worker'[w].pc \in {"execute", "log", "count", "update"} => worker'[w].row \in Row
  BY <1>5, <1>6 DEF DType, RowsRead
<1> QED
  BY <1>3, <1>4, <1>6, <1>7, WorkerMovesType
  DEF LogErrOccurrence, LogOccurrence, DType, DTypeOK

LEMMA CleanType ==
    ASSUME DType, NEW w \in Workers, CleanZRem(w) \/ CleanHDel(w)
    PROVE  DType'
<1>1. worker[w] # Idle /\ DTypeOK
  BY LabelIsBusy DEF CleanZRem, CleanHDel, Label, DType
<1>2. TypeOK'
  BY DataWithoutType DEF CleanZRem, CleanHDel, DType, DTypeOK, TypeOK
<1>3. PICK label \in {"hdel", "finish"} : WGoto(w, label)
  BY DEF CleanZRem, CleanHDel
<1>4. /\ worker' \in [Workers -> WorkerState]
      /\ worker'[w].pc = label
      /\ \A v \in Workers \ {w} : worker'[v] = worker[v]
  BY <1>1, <1>3, WGotoType DEF Label
<1> QED
  BY <1>2, <1>4, WorkerMovesType DEF CleanZRem, CleanHDel, DType, DTypeOK

LEMMA ExecuteType ==
    ASSUME DType, NEW w \in Workers, NEW ok \in BOOLEAN, Execute(w, ok)
    PROVE  DType'
<1>1. worker[w] # Idle /\ DTypeOK /\ worker[w].row \in Row
  BY LabelIsBusy DEF Execute, Label, DType, RowsRead
<1>2. worker[w].sched.oid \in 1..MaxOid
  BY <1>1, BusyWorker DEF Schedule
<1>3. TypeOK'
  BY DEF Execute, DType, DTypeOK, TypeOK, schedVars
<1>4. worker'[w] = [pc |-> "log", sched |-> worker[w].sched, row |-> worker[w].row, ok |-> ok]
  BY <1>1, BusyWorker DEF Execute, DTypeOK
<1>5. worker'[w] \in WorkerState
  BY <1>1, <1>4, BusyWorker DEF WorkerState, Label
<1>6. /\ worker' \in [Workers -> WorkerState]
      /\ \A v \in Workers \ {w} : worker'[v] = worker[v]
  BY <1>1, <1>5 DEF Execute, DTypeOK
<1>7. calls' \in [1..MaxOid -> Nat] /\ delivered' \in [1..MaxOid -> Nat]
  BY <1>1, <1>2 DEF Execute, DTypeOK
<1> QED
  BY <1>1, <1>3, <1>4, <1>6, <1>7, WorkerMovesType DEF Execute, DTypeOK

LEMMA InactivationType ==
    ASSUME DType, NEW w \in Workers, CountCompleted(w) \/ Update(w)
    PROVE  DType'
<1>1. worker[w] # Idle /\ DTypeOK /\ worker[w].row \in Row
  BY LabelIsBusy DEF CountCompleted, Update, Label, DType, RowsRead
<1>2. TypeOK'
  BY DEF CountCompleted, Update, DType, DTypeOK, TypeOK, schedVars
<1>3. PICK label \in {"update", "finish"} : WGoto(w, label)
  BY DEF CountCompleted, Update
<1>4. /\ worker' \in [Workers -> WorkerState]
      /\ worker'[w].row = worker[w].row
      /\ \A v \in Workers \ {w} : worker'[v] = worker[v]
  BY <1>1, <1>3, WGotoType DEF Label
<1>5. events' \in [Events -> Row \cup {NoRow}]
  BY <1>1 DEF CountCompleted, Update, DTypeOK, Row
<1> QED
  BY <1>1, <1>2, <1>4, <1>5, WorkerMovesType DEF CountCompleted, Update, DTypeOK

\* The item that goes back to the retry queue.
LEMMA RetryQueueWithType ==
    ASSUME DTypeOK, NEW s \in Schedule
    PROVE  /\ RetryQueueWith([s EXCEPT !.attempt = @ + 1]) \subseteq RetryItem
           /\ IsFiniteSet(RetryQueueWith([s EXCEPT !.attempt = @ + 1]))
<1> DEFINE t == [s EXCEPT !.attempt = @ + 1]
<1>1. t \in Schedule
  BY DEF Schedule
<1>2. now + RetryDelay \in Nat
  BY DispatcherAssumption DEF DTypeOK, TypeOK
<1>3. IsFiniteSet({r \in retryQueue : r.sched # t})
  BY FS_Subset DEF DTypeOK
<1> HIDE DEF t
<1>4. RetryQueueWith(t) \subseteq RetryItem
  BY <1>1, <1>2 DEF RetryQueueWith, DTypeOK, RetryItem
<1>5. IsFiniteSet(RetryQueueWith(t))
  BY <1>3, FS_AddElement DEF RetryQueueWith
<1> QED
  BY <1>4, <1>5 DEF t

LEMMA FinishType ==
    ASSUME DType, NEW w \in Workers, Finish(w) \/ WorkerCrash(w)
    PROVE  DType'
<1>1. worker[w] # Idle /\ DTypeOK
  BY LabelIsBusy DEF Finish, WorkerCrash, Label, DType
<1>2. TypeOK'
  BY DEF Finish, WorkerCrash, DType, DTypeOK, TypeOK, schedVars
<1>3. /\ worker' \in [Workers -> WorkerState]
      /\ worker'[w].pc = "idle"
      /\ \A v \in Workers \ {w} : worker'[v] = worker[v]
  BY <1>1 DEF Finish, WorkerCrash, DTypeOK, WorkerState, Idle
<1>4. retryQueue' \subseteq RetryItem /\ IsFiniteSet(retryQueue')
  BY <1>1, BusyWorker, RetryQueueWithType DEF Finish, WorkerCrash, DTypeOK
<1> QED
  BY <1>1, <1>2, <1>3, <1>4, WorkerMovesType DEF Finish, WorkerCrash, DTypeOK

\* What the retry poller appends to the dispatch queue: the items that are due,
\* each one once.
LEMMA RetriedBatch ==
    ASSUME DTypeOK, NEW batch \in RetryOrders(DueRetries)
    PROVE  LET n == Cardinality(DueRetries)
               scheds == [i \in 1..n |-> batch[i].sched]
           IN /\ n \in Nat
              /\ scheds \in Seq(Schedule)
              /\ Len(scheds) = n
              /\ \A i \in 1..n : batch[i] \in DueRetries /\ scheds[i] = batch[i].sched
              /\ \A i, j \in 1..n : i < j => batch[i] # batch[j]
              /\ \A r \in DueRetries : \E i \in 1..n : batch[i] = r
<1> DEFINE n == Cardinality(DueRetries)
           scheds == [i \in 1..n |-> batch[i].sched]
<1>1. IsFiniteSet(DueRetries)
  BY FS_Subset DEF DTypeOK, DueRetries
<1>2. n \in Nat
  BY <1>1, FS_CardinalityType
<1>3. batch \in [1..n -> DueRetries]
  BY DEF RetryOrders
<1> HIDE DEF n
<1>4. \A i \in 1..n : batch[i].sched \in Schedule
  BY <1>3 DEF DTypeOK, DueRetries, RetryItem
<1>5. scheds \in [1..n -> Schedule]
  BY <1>4
<1>6. scheds \in Seq(Schedule) /\ Len(scheds) = n
  BY <1>2, <1>5
<1>7. \A i \in 1..n : scheds[i] = batch[i].sched
  OBVIOUS
<1>8. /\ \A i, j \in 1..n : i < j => batch[i] # batch[j]
      /\ \A r \in DueRetries : \E i \in 1..n : batch[i] = r
  BY DEF RetryOrders, n
<1> QED
  BY <1>2, <1>3, <1>6, <1>7, <1>8 DEF n

LEMMA RetryPollerType ==
    ASSUME DType, RetryPoller
    PROVE  DType'
<1>1. PICK batch \in RetryOrders(DueRetries) :
        dispatchQueue' = dispatchQueue
                         \o [i \in 1..Cardinality(DueRetries) |-> batch[i].sched]
  BY DEF RetryPoller
<1>2. [i \in 1..Cardinality(DueRetries) |-> batch[i].sched] \in Seq(Schedule)
  BY RetriedBatch DEF DType
<1>3. dispatchQueue' \in Seq(Schedule)
  BY <1>1, <1>2, ConcatProperties DEF DType, DTypeOK, TypeOK
<1>4. TypeOK'
  BY <1>3 DEF RetryPoller, DType, DTypeOK, TypeOK
<1>5. retryQueue' \subseteq RetryItem /\ IsFiniteSet(retryQueue')
  BY FS_Difference DEF RetryPoller, DType, DTypeOK
<1> QED
  BY <1>4, <1>5 DEF RetryPoller, DType, DTypeOK, RowsRead

LEMMA UserType ==
    ASSUME DType, NEW r \in Removers, NEW e \in Events,
           DeleteEvent(r, e) \/ \E row \in Row : UpdateEvent(r, e, row)
    PROVE  DType'
<1>1. TypeOK'
  BY DEF DeleteEvent, UpdateEvent, StartRemoval, DType, DTypeOK, TypeOK, RemoverState
<1>2. events' \in [Events -> Row \cup {NoRow}] /\ occurrences' \subseteq OccurrenceRow
  BY DEF DeleteEvent, UpdateEvent, DType, DTypeOK
<1> QED
  BY <1>1, <1>2 DEF DeleteEvent, UpdateEvent, DType, DTypeOK, RowsRead

LEMMA DNextType ==
    ASSUME DType, [DNext]_vars
    PROVE  DType'
<1>1. (TypeOK' /\ UNCHANGED dispVars) => DType'
  BY DEF dispVars, DType, DTypeOK, RowsRead
<1>2. CASE ServiceStep /\ UNCHANGED dispVars
  BY <1>1, <1>2, ServiceStepType DEF DType, DTypeOK
<1>3. CASE DTick \/ UNCHANGED vars
  <2>1. TypeOK'
    BY <1>3 DEF DTick, vars, schedVars, DType, DTypeOK, TypeOK
  <2> QED
    BY <1>1, <1>3, <2>1 DEF DTick, vars
<1>4. ASSUME NEW w \in Workers, WorkerStep(w) \/ WorkerCrash(w)
      PROVE  DType'
  BY <1>4, BRPopType, GetByIDType, LogType, CleanType, ExecuteType, InactivationType,
     FinishType DEF WorkerStep
<1> QED
  BY <1>2, <1>3, <1>4, RetryPollerType, UserType DEF DNext

LEMMA DInitType == DInit => DType
<1>1. IsFiniteSet({})
  BY FS_EmptySet
<1>2. DInit => TypeOK
  BY InitType DEF DInit
<1>3. DInit => worker \in [Workers -> WorkerState] /\ RowsRead
  BY DEF DInit, WorkerState, RowsRead, Idle
<1>4. DInit => events \in [Events -> Row \cup {NoRow}]
  BY DEF DInit, Row
<1> QED
  BY <1>1, <1>2, <1>3, <1>4 DEF DInit, DType, DTypeOK

\* The dispatcher is type correct on top of the scheduler core, with errors,
\* crashes and edits of the events: what a worker writes back to the events table
\* is a row it has read (dispatcher.go:60-301).
THEOREM DispatcherTypeCorrect == DSpec => []DTypeOK
<1>1. DType /\ [DNext]_vars => DType'
  BY DNextType
<1>2. DType => DTypeOK
  BY DEF DType
<1> QED
  BY <1>1, <1>2, DInitType, PTL DEF DSpec

-----------------------------------------------------------------------------
(* The kinds of steps: where an occurrence can move *)

\* The workers keep what they have, or drop it.
WorkersKeep ==
    \A v \in Workers : worker'[v] # Idle =>
        worker[v] # Idle /\ worker'[v].sched = worker[v].sched

\* Nothing is moved from one place to another.
Quiet ==
    /\ WorkersKeep
    /\ data' \subseteq data
    /\ UNCHANGED <<nextOid, dispatchQueue, caller, retryQueue>>

\* A failed attempt goes to the retry queue.
Requeued(w) ==
    /\ worker[w].pc = "finish"
    /\ ~worker[w].ok
    /\ worker[w].sched.attempt + 1 < MaxRetries
    /\ retryQueue' = RetryQueueWith([worker[w].sched EXCEPT !.attempt = @ + 1])
    /\ worker' = [worker EXCEPT ![w] = Idle]
    /\ UNCHANGED schedVars
    /\ UNCHANGED <<events, occurrences, nextRow, calls, delivered>>

LEMMA QuietWorker ==
    ASSUME DType, NEW w \in Workers,
           \/ GetByID(w) \/ LogErrOccurrence(w) \/ CleanZRem(w) \/ CleanHDel(w)
           \/ (\E ok \in BOOLEAN : Execute(w, ok))
           \/ LogOccurrence(w) \/ CountCompleted(w) \/ Update(w) \/ WorkerCrash(w)
    PROVE  Quiet
<1> DEFINE Keeps == /\ worker'[w] # Idle => worker'[w].sched = worker[w].sched
                    /\ \A v \in Workers \ {w} : worker'[v] = worker[v]
<1>1. DTypeOK /\ worker[w] # Idle
  BY LabelIsBusy DEF DType, GetByID, LogErrOccurrence, CleanZRem, CleanHDel, Execute,
     LogOccurrence, CountCompleted, Update, WorkerCrash, Label
<1>2. ASSUME NEW label \in Label, WGoto(w, label)
      PROVE  Keeps
  BY <1>1, <1>2, WGotoType
<1>3. ASSUME NEW row, worker' = [worker EXCEPT ![w].pc = "execute", ![w].row = row]
      PROVE  Keeps
  BY <1>1, <1>3, BusyWorker DEF DTypeOK
<1>4. ASSUME NEW ok \in BOOLEAN, worker' = [worker EXCEPT ![w].pc = "log", ![w].ok = ok]
      PROVE  Keeps
  BY <1>1, <1>4, BusyWorker DEF DTypeOK
<1>5. worker' = [worker EXCEPT ![w] = Idle] => Keeps
  BY <1>1 DEF DTypeOK
<1>6. Keeps
  <2>1. CASE GetByID(w)
    BY <1>2, <1>3, <2>1 DEF GetByID, Label
  <2>2. CASE LogErrOccurrence(w) \/ CleanZRem(w) \/ CleanHDel(w) \/ LogOccurrence(w)
             \/ CountCompleted(w) \/ Update(w)
    <3>1. PICK label \in Label : WGoto(w, label)
      BY <2>2 DEF LogErrOccurrence, CleanZRem, CleanHDel, LogOccurrence, AfterLog,
         CountCompleted, Update, Label
    <3> QED
      BY <1>2, <3>1
  <2>3. ASSUME NEW ok \in BOOLEAN, Execute(w, ok)
        PROVE  Keeps
    BY <1>4, <2>3 DEF Execute
  <2>4. CASE WorkerCrash(w)
    BY <1>5, <2>4 DEF WorkerCrash
  <2> QED
    BY <2>1, <2>2, <2>3, <2>4
<1>7. WorkersKeep
  BY <1>1, <1>6 DEF WorkersKeep
<1>8. data' \subseteq data /\ UNCHANGED <<nextOid, dispatchQueue, caller, retryQueue>>
  BY DEF GetByID, LogErrOccurrence, CleanZRem, CleanHDel, Execute, LogOccurrence,
     CountCompleted, Update, WorkerCrash, schedVars, DataWithout
<1> QED
  BY <1>7, <1>8 DEF Quiet

\* Every step of the dispatcher is one of five kinds.
LEMMA StepKinds ==
    ASSUME DType, [DNext]_vars
    PROVE  \/ ServiceStep /\ UNCHANGED dispVars
           \/ \E w \in Workers : BRPop(w)
           \/ \E w \in Workers : Requeued(w)
           \/ RetryPoller
           \/ Quiet
<1>1. ASSUME NEW w \in Workers, Finish(w)
      PROVE  Requeued(w) \/ Quiet
  <2>1. CASE UNCHANGED retryQueue
    <3>1. WorkersKeep
      BY <1>1 DEF Finish, WorkersKeep, DType, DTypeOK
    <3> QED
      BY <1>1, <2>1, <3>1 DEF Finish, Quiet, schedVars
  <2>2. CASE retryQueue' = RetryQueueWith([worker[w].sched EXCEPT !.attempt = @ + 1])
             /\ ~worker[w].ok /\ worker[w].sched.attempt + 1 < MaxRetries
    BY <1>1, <2>2 DEF Finish, Requeued
  <2> QED
    BY <1>1, <2>1, <2>2 DEF Finish
<1>2. UNCHANGED worker => WorkersKeep
  BY DEF WorkersKeep
<1>3. ASSUME NEW r \in Removers, NEW e \in Events,
             DeleteEvent(r, e) \/ \E row \in Row : UpdateEvent(r, e, row)
      PROVE  Quiet
  BY <1>2, <1>3 DEF DeleteEvent, UpdateEvent, Quiet
<1>4. CASE DTick \/ UNCHANGED vars
  BY <1>2, <1>4 DEF DTick, vars, schedVars, dispVars, Quiet
<1>5. ASSUME NEW w \in Workers, WorkerStep(w) \/ WorkerCrash(w)
      PROVE  BRPop(w) \/ Requeued(w) \/ Quiet
  BY <1>1, <1>5, QuietWorker DEF WorkerStep
<1> QED
  BY <1>3, <1>4, <1>5 DEF DNext

-----------------------------------------------------------------------------
(* One holder of every occurrence *)

\* The scheduler core has the occurrence o: with a caller, in the hash or in
\* the dispatch queue.
CoreHas(o) ==
    \/ \E c \in Callers : caller[c] # Idle /\ caller[c].sched.oid = o
    \/ \E s \in data : s.oid = o
    \/ \E i \in 1..Len(dispatchQueue) : dispatchQueue[i].oid = o

OidsHanded ==
    /\ \A w \in Workers : worker[w] # Idle => worker[w].sched.oid < nextOid
    /\ \A q \in retryQueue : q.sched.oid < nextOid

\* The inductive invariant: as in the scheduler core, HeldOnce says nothing of
\* an id in no place, so that a fresh one could collide with a worker's or with
\* one of the retry queue.
OneHolder == DType /\ OneCopy /\ OidsHanded /\ HeldOnce

LEMMA CoreApart ==
    /\ WorkersNotElsewhere <=>
          \A w \in Workers : worker[w] # Idle =>
              /\ ~CoreHas(worker[w].sched.oid)
              /\ \A q \in retryQueue : q.sched.oid # worker[w].sched.oid
    /\ RetriesNotElsewhere <=> \A q \in retryQueue : ~CoreHas(q.sched.oid)
BY DEF WorkersNotElsewhere, RetriesNotElsewhere, CoreHas

\* The ids the workers and the retry queue hold are integers.
LEMMA HolderTypes ==
    ASSUME DType
    PROVE  /\ nextOid \in Nat
           /\ \A w \in Workers : worker[w] # Idle => worker[w].sched.oid \in Nat
           /\ \A q \in retryQueue : q.sched.oid \in Nat
<1>1. \A w \in Workers : worker[w] # Idle => worker[w].sched \in Schedule
  BY BusyWorker DEF DType
<1>2. \A q \in retryQueue : q.sched \in Schedule
  BY DEF DType, DTypeOK, RetryItem
<1>3. \A s \in Schedule : s.oid \in Nat
  BY DEF Schedule
<1>4. nextOid \in Nat
  BY SchedulerAssumption DEF DType, DTypeOK, TypeOK
<1> QED
  BY <1>1, <1>2, <1>3, <1>4

\* The dispatch queue after a run of the poller's script: what was there, then
\* values that were due.
LEMMA PolledQueue ==
    ASSUME TypeOK, GetDueSchedules
    PROVE  \A i \in 1..Len(dispatchQueue') :
               \/ i \in 1..Len(dispatchQueue) /\ dispatchQueue'[i] = dispatchQueue[i]
               \/ dispatchQueue'[i] \in Due /\ dispatchQueue'[i] \in data
<1>1. PICK batch \in ScoreOrders(Due) : dispatchQueue' = dispatchQueue \o batch
  BY DEF GetDueSchedules
<1>2. batch \in Seq(Schedule) /\ \A i \in 1..Len(batch) : batch[i] \in Due
  BY PolledBatch
<1>3. /\ Len(dispatchQueue') = Len(dispatchQueue) + Len(batch)
      /\ \A i \in 1..Len(dispatchQueue') :
            dispatchQueue'[i] = IF i <= Len(dispatchQueue) THEN dispatchQueue[i]
                                ELSE batch[i - Len(dispatchQueue)]
  BY <1>1, <1>2, ConcatProperties DEF TypeOK
<1>4. Len(dispatchQueue) \in Nat /\ Len(batch) \in Nat
  BY <1>2, LenProperties DEF TypeOK
<1>5. Due \subseteq data
  BY DEF Due
<1> QED
  BY <1>2, <1>3, <1>4, <1>5

\* The core has the schedule s.
InCore(s) ==
    \/ \E c \in Callers : caller[c] # Idle /\ caller[c].sched = s
    \/ s \in data
    \/ \E i \in 1..Len(dispatchQueue) : dispatchQueue[i] = s

\* The schedule of a new occurrence.
Fresh(s) == s.oid = nextOid /\ s.attempt = 0

\* A step of the service gives the core no schedule but a fresh one.
LEMMA CoreKept ==
    ASSUME TypeOK, ServiceStep
    PROVE  \/ nextOid' = nextOid /\ \A s : InCore(s)' => InCore(s)
           \/ /\ nextOid \in 1..MaxOid
              /\ nextOid' = nextOid + 1
              /\ \A s : InCore(s)' => InCore(s) \/ Fresh(s)
<1>1. ASSUME NEW c \in Callers, NEW k \in Key, ScheduleEvent(c, k)
      PROVE  /\ nextOid \in 1..MaxOid
             /\ nextOid' = nextOid + 1
             /\ \A s : InCore(s)' => InCore(s) \/ Fresh(s)
  <2>1. /\ caller'[c].sched.oid = nextOid /\ caller'[c].sched.attempt = 0
        /\ \A d \in Callers \ {c} : caller'[d] = caller[d]
    BY <1>1 DEF ScheduleEvent, TypeOK
  <2>2. nextOid \in 1..MaxOid
    BY <1>1, SchedulerAssumption DEF ScheduleEvent, TypeOK
  <2> QED
    BY <1>1, <2>1, <2>2 DEF ScheduleEvent, InCore, Fresh
<1>2. ASSUME KeepsCalls, UNCHANGED <<nextOid, dispatchQueue>>, \A s \in data' : InCore(s)
      PROVE  nextOid' = nextOid /\ \A s : InCore(s)' => InCore(s)
  BY <1>2 DEF InCore, KeepsCalls
<1>3. ASSUME NEW c \in Callers, CallerStep(c) \/ CallerCrash(c)
      PROVE  nextOid' = nextOid /\ \A s : InCore(s)' => InCore(s)
  <2>1. caller[c] # Idle
    BY <1>3 DEF CallerStep, CallerCrash, HExists, ZAdd, HSet, Idle
  <2>2. KeepsCalls
    BY <1>3, <2>1, CallerMoves DEF CallerStep, CallerCrash, HExists, ZAdd, HSet
  <2>3. \A s \in data' : s \in data \/ s = caller[c].sched
    BY <1>3 DEF CallerStep, CallerCrash, HExists, ZAdd, HSet, DataWith
  <2>4. \A s \in data' : InCore(s)
    BY <2>1, <2>3 DEF InCore
  <2>5. UNCHANGED <<nextOid, dispatchQueue>>
    BY <1>3 DEF CallerStep, CallerCrash, HExists, ZAdd, HSet
  <2> QED
    BY <1>2, <2>2, <2>4, <2>5
<1>4. ASSUME NEW r \in Removers, RemoverStep(r) \/ RemoverCrash(r)
      PROVE  nextOid' = nextOid /\ \A s : InCore(s)' => InCore(s)
  <2>1. UNCHANGED <<nextOid, dispatchQueue, caller>> /\ data' \subseteq data
    BY <1>4 DEF RemoverStep, RemZRange, RemHGet, RemZRem, RemHDel, RemoverCrash, DataWithout
  <2> QED
    BY <1>2, <2>1 DEF KeepsCalls, InCore
<1>5. CASE GetDueSchedules
  <2>1. \A i \in 1..Len(dispatchQueue') :
            \/ i \in 1..Len(dispatchQueue) /\ dispatchQueue'[i] = dispatchQueue[i]
            \/ dispatchQueue'[i] \in data
    BY <1>5, PolledQueue
  <2> QED
    BY <1>5, <2>1 DEF GetDueSchedules, InCore
<1> QED
  BY <1>1, <1>3, <1>4, <1>5 DEF ServiceStep

LEMMA CoreOids ==
    ASSUME TypeOK, ServiceStep
    PROVE  \/ nextOid' = nextOid /\ \A o : CoreHas(o)' => CoreHas(o)
           \/ nextOid' = nextOid + 1 /\ \A o : CoreHas(o)' => CoreHas(o) \/ o = nextOid
<1>1. \A o : CoreHas(o)' => \E s : InCore(s)' /\ s.oid = o
  BY DEF CoreHas, InCore
<1>2. \A s : InCore(s) => CoreHas(s.oid)
  BY DEF CoreHas, InCore
<1> QED
  BY <1>1, <1>2, CoreKept DEF Fresh

LEMMA ServiceOneHolder ==
    ASSUME LostReplies = FALSE, OneHolder, DType', ServiceStep, UNCHANGED dispVars
    PROVE  OneHolder'
<1>1. OneCopy'
  BY NextOneCopy DEF OneHolder, Next
<1>2. \/ nextOid' = nextOid /\ \A o : CoreHas(o)' => CoreHas(o)
      \/ nextOid' = nextOid + 1 /\ \A o : CoreHas(o)' => CoreHas(o) \/ o = nextOid
  BY CoreOids DEF OneHolder, OneCopy
<1>3. UNCHANGED <<worker, retryQueue>>
  BY DEF dispVars
<1>4. OidsHanded'
  BY <1>2, <1>3, HolderTypes DEF OneHolder, OidsHanded
<1>5. WorkersDistinct' /\ RetriesDistinct'
  BY <1>3 DEF OneHolder, HeldOnce, WorkersDistinct, RetriesDistinct
<1>6. \A w \in Workers : worker[w] # Idle =>
          /\ ~CoreHas(worker[w].sched.oid)
          /\ worker[w].sched.oid # nextOid
          /\ \A q \in retryQueue : q.sched.oid # worker[w].sched.oid
  BY CoreApart, HolderTypes DEF OneHolder, HeldOnce, OidsHanded
<1>7. \A q \in retryQueue : ~CoreHas(q.sched.oid) /\ q.sched.oid # nextOid
  BY CoreApart, HolderTypes DEF OneHolder, HeldOnce, OidsHanded
<1>8. /\ \A w \in Workers : worker'[w] # Idle =>
             ~CoreHas(worker[w].sched.oid)' /\ \A q \in retryQueue' : q.sched.oid # worker'[w].sched.oid
      /\ \A q \in retryQueue' : ~CoreHas(q.sched.oid)'
  BY <1>2, <1>3, <1>6, <1>7
<1>9. WorkersNotElsewhere' /\ RetriesNotElsewhere'
  BY <1>8 DEF WorkersNotElsewhere, RetriesNotElsewhere, CoreHas
<1> QED
  BY <1>1, <1>4, <1>5, <1>9 DEF OneHolder, OneCopy, HeldOnce

LEMMA QuietOneHolder ==
    ASSUME OneHolder, DType', Quiet
    PROVE  OneHolder'
<1>1. OneCopy'
  <2>1. KeepsCalls
    BY DEF Quiet, KeepsCalls
  <2> QED
    BY <2>1, TakingAway DEF OneHolder, Quiet, DType, DTypeOK
<1>2. OidsHanded'
  BY DEF OneHolder, OidsHanded, Quiet, WorkersKeep
<1>3. WorkersDistinct' /\ RetriesDistinct'
  BY DEF OneHolder, HeldOnce, WorkersDistinct, RetriesDistinct, Quiet, WorkersKeep
<1>4. WorkersNotElsewhere'
  BY DEF OneHolder, HeldOnce, WorkersNotElsewhere, Quiet, WorkersKeep
<1>5. RetriesNotElsewhere'
  BY DEF OneHolder, HeldOnce, RetriesNotElsewhere, Quiet
<1> QED
  BY <1>1, <1>2, <1>3, <1>4, <1>5 DEF OneHolder, OneCopy, HeldOnce

\* What BRPOP leaves in the list, and what it takes.
LEMMA PoppedQueue ==
    ASSUME TypeOK, NEW w \in Workers, BRPop(w)
    PROVE  LET n == Len(dispatchQueue) IN
           /\ n \in Nat \ {0}
           /\ n \in 1..n
           /\ dispatchQueue[n] \in Schedule
           /\ Len(dispatchQueue') = n - 1
           /\ \A i \in 1..(n - 1) : i \in 1..n /\ i # n /\ dispatchQueue'[i] = dispatchQueue[i]
           /\ \A i \in 1..n : i = n \/ i \in 1..(n - 1)
<1> DEFINE n == Len(dispatchQueue)
<1>1. dispatchQueue \in Seq(Schedule) /\ n \in Nat /\ n # 0
  BY EmptySeq, LenProperties DEF BRPop, TypeOK
<1>2. dispatchQueue[n] \in Schedule
  BY <1>1, ElementOfSeq
<1>3. dispatchQueue' = SubSeq(dispatchQueue, 1, n - 1)
  BY DEF BRPop
<1>4. Len(dispatchQueue') = n - 1 /\ \A i \in 1..(n - 1) : dispatchQueue'[i] = dispatchQueue[i]
  <2>1. n - 1 \in Int /\ \A i \in 1..(n - 1) : dispatchQueue[i] \in Schedule
    BY <1>1, ElementOfSeq
  <2>2. /\ Len(SubSeq(dispatchQueue, 1, n - 1)) = IF 1 <= n - 1 THEN n - 1 - 1 + 1 ELSE 0
        /\ \A i \in 1..(n - 1 - 1 + 1) :
              SubSeq(dispatchQueue, 1, n - 1)[i] = dispatchQueue[1 + i - 1]
    BY <1>1, <2>1, SubSeqProperties
  <2>3. /\ (IF 1 <= n - 1 THEN n - 1 - 1 + 1 ELSE 0) = n - 1
        /\ n - 1 - 1 + 1 = n - 1
        /\ \A i \in 1..(n - 1) : 1 + i - 1 = i
    <3>1. n \in Nat /\ n # 0
      BY <1>1
    <3> HIDE DEF n
    <3> QED
      BY <3>1
  <2> QED
    BY <1>3, <2>2, <2>3
<1> HIDE DEF n
<1>5. /\ n \in 1..n
      /\ \A i \in 1..(n - 1) : i \in 1..n /\ i # n
      /\ \A i \in 1..n : i = n \/ i \in 1..(n - 1)
  BY <1>1
<1> QED
  BY <1>1, <1>2, <1>4, <1>5 DEF n

LEMMA PopOneHolder ==
    ASSUME OneHolder, DType', NEW w \in Workers, BRPop(w)
    PROVE  OneHolder'
<1> DEFINE n == Len(dispatchQueue)
           s == dispatchQueue[n]
<1>1. /\ n \in Nat \ {0}
      /\ n \in 1..n
      /\ Len(dispatchQueue') = n - 1
      /\ \A i \in 1..(n - 1) : i \in 1..n /\ i # n /\ dispatchQueue'[i] = dispatchQueue[i]
  BY PoppedQueue DEF OneHolder, DType, DTypeOK
<1>2. /\ worker[w] = Idle
      /\ worker'[w].sched = s
      /\ \A v \in Workers \ {w} : worker'[v] = worker[v]
  BY DEF BRPop, OneHolder, DType, DTypeOK
<1>3. UNCHANGED <<nextOid, caller, data, retryQueue>>
  BY DEF BRPop
<1>4. /\ s.oid < nextOid
      /\ \A t \in data : t.oid # s.oid
      /\ \A i \in 1..(n - 1) : dispatchQueue[i].oid # s.oid
      /\ \A c \in Callers : caller[c] # Idle => caller[c].sched.oid # s.oid
      /\ \A q \in retryQueue : q.sched.oid # s.oid
      /\ \A v \in Workers : worker[v] # Idle => worker[v].sched.oid # s.oid
  BY <1>1 DEF OneHolder, OneCopy, OidsIssued, HeldOnce, OidInOnePlace, StoredOnce,
     QueueDistinct, DataNotQueued, CallersNotStored, WorkersNotElsewhere,
     RetriesNotElsewhere
<1>5. OneCopy'
  <2>1. OidsIssued'
    BY <1>1, <1>3 DEF OneHolder, OneCopy, OidsIssued
  <2>2. CallersDistinct' /\ CallersNotStored'
    BY <1>1, <1>3 DEF OneHolder, OneCopy, OidInOnePlace, CallersDistinct, CallersNotStored
  <2>3. DataDistinct' /\ DataNotQueued'
    BY <1>1, <1>3
    DEF OneHolder, OneCopy, OidInOnePlace, StoredOnce, DataDistinct, DataNotQueued
  <2>4. QueueDistinct'
    BY <1>1 DEF OneHolder, OneCopy, OidInOnePlace, StoredOnce, QueueDistinct
  <2> QED
    BY <2>1, <2>2, <2>3, <2>4 DEF OneCopy, OidInOnePlace, StoredOnce, DType, DTypeOK
<1> HIDE DEF n, s
<1>6. OidsHanded'
  BY <1>2, <1>3, <1>4 DEF OneHolder, OidsHanded
<1>7. WorkersDistinct' /\ RetriesDistinct'
  BY <1>2, <1>3, <1>4 DEF OneHolder, HeldOnce, WorkersDistinct, RetriesDistinct
<1>8. WorkersNotElsewhere'
  <2> SUFFICES ASSUME NEW v \in Workers, worker'[v] # Idle
               PROVE  /\ \A t \in data' : t.oid # worker'[v].sched.oid
                      /\ \A i \in 1..Len(dispatchQueue') :
                            dispatchQueue'[i].oid # worker'[v].sched.oid
                      /\ \A c \in Callers : caller'[c] # Idle =>
                            caller'[c].sched.oid # worker'[v].sched.oid
                      /\ \A q \in retryQueue' : q.sched.oid # worker'[v].sched.oid
    BY DEF WorkersNotElsewhere
  <2>1. CASE v = w
    BY <1>1, <1>2, <1>3, <1>4, <2>1
  <2>2. CASE v # w
    BY <1>1, <1>2, <1>3, <2>2 DEF OneHolder, HeldOnce, WorkersNotElsewhere, n
  <2> QED
    BY <2>1, <2>2
<1>9. RetriesNotElsewhere'
  BY <1>1, <1>3 DEF OneHolder, HeldOnce, RetriesNotElsewhere, n
<1> QED
  BY <1>5, <1>6, <1>7, <1>8, <1>9 DEF OneHolder, OneCopy, HeldOnce

LEMMA RequeueOneHolder ==
    ASSUME OneHolder, DType', NEW w \in Workers, Requeued(w)
    PROVE  OneHolder'
<1> DEFINE s == [worker[w].sched EXCEPT !.attempt = @ + 1]
<1>1. worker[w] # Idle /\ worker[w].sched \in Schedule
  BY LabelIsBusy, BusyWorker DEF Requeued, Label, OneHolder, DType
<1>2. s.oid = worker[w].sched.oid
  BY <1>1 DEF Schedule
<1>3. UNCHANGED <<nextOid, caller, data, dispatchQueue>>
  BY DEF Requeued, schedVars
<1>4. worker'[w] = Idle /\ \A v \in Workers \ {w} : worker'[v] = worker[v]
  BY DEF Requeued, OneHolder, DType, DTypeOK
<1> HIDE DEF s
<1>5. \A q \in retryQueue' : q \in retryQueue \/ q = [sched |-> s, due |-> now + RetryDelay]
  BY DEF Requeued, RetryQueueWith, s
<1>6. /\ s.oid < nextOid
      /\ \A t \in data : t.oid # s.oid
      /\ \A i \in 1..Len(dispatchQueue) : dispatchQueue[i].oid # s.oid
      /\ \A c \in Callers : caller[c] # Idle => caller[c].sched.oid # s.oid
      /\ \A q \in retryQueue : q.sched.oid # s.oid
      /\ \A v \in Workers \ {w} : worker[v] # Idle => worker[v].sched.oid # s.oid
  BY <1>1, <1>2 DEF OneHolder, OidsHanded, HeldOnce, WorkersNotElsewhere, WorkersDistinct
<1>7. OneCopy'
  <2>1. KeepsCalls
    BY <1>3 DEF KeepsCalls
  <2> QED
    BY <1>3, <2>1, TakingAway DEF OneHolder, DType, DTypeOK
<1>8. OidsHanded'
  BY <1>3, <1>4, <1>5, <1>6 DEF OneHolder, OidsHanded
<1>9. WorkersDistinct' /\ RetriesDistinct'
  BY <1>4, <1>5, <1>6 DEF OneHolder, HeldOnce, WorkersDistinct, RetriesDistinct
<1>10. WorkersNotElsewhere'
  BY <1>3, <1>4, <1>5, <1>6 DEF OneHolder, HeldOnce, WorkersNotElsewhere
<1>11. RetriesNotElsewhere'
  BY <1>3, <1>5, <1>6 DEF OneHolder, HeldOnce, RetriesNotElsewhere
<1> QED
  BY <1>7, <1>8, <1>9, <1>10, <1>11 DEF OneHolder, OneCopy, HeldOnce

\* The dispatch queue after a run of the retry script: what was there, then the
\* items that were due, each once.
LEMMA RetriedQueue ==
    ASSUME DTypeOK, RetryPoller
    PROVE  \E batch \in RetryOrders(DueRetries) :
               LET m == Len(dispatchQueue)
                   n == Cardinality(DueRetries)
               IN /\ m \in Nat /\ n \in Nat
                  /\ Len(dispatchQueue') = m + n
                  /\ \A i \in 1..(m + n) :
                        \/ i \in 1..m /\ dispatchQueue'[i] = dispatchQueue[i]
                        \/ i - m \in 1..n /\ dispatchQueue'[i] = batch[i - m].sched
                  /\ \A i \in 1..m : i \in 1..(m + n) /\ dispatchQueue'[i] = dispatchQueue[i]
                  /\ \A i \in 1..n : /\ batch[i] \in DueRetries
                                     /\ m + i \in 1..(m + n)
                                     /\ dispatchQueue'[m + i] = batch[i].sched
                  /\ \A i, j \in 1..n : i < j => batch[i] # batch[j]
                  /\ \A r \in DueRetries : \E i \in 1..n : batch[i] = r
<1>1. PICK batch \in RetryOrders(DueRetries) :
        dispatchQueue' = dispatchQueue
                         \o [i \in 1..Cardinality(DueRetries) |-> batch[i].sched]
  BY DEF RetryPoller
<1> DEFINE m == Len(dispatchQueue)
           n == Cardinality(DueRetries)
           scheds == [i \in 1..n |-> batch[i].sched]
<1>2. /\ n \in Nat
      /\ scheds \in Seq(Schedule)
      /\ Len(scheds) = n
      /\ \A i \in 1..n : batch[i] \in DueRetries /\ scheds[i] = batch[i].sched
      /\ \A i, j \in 1..n : i < j => batch[i] # batch[j]
      /\ \A r \in DueRetries : \E i \in 1..n : batch[i] = r
  BY RetriedBatch
<1>3. dispatchQueue \in Seq(Schedule) /\ m \in Nat
  BY LenProperties DEF DTypeOK, TypeOK
<1> HIDE DEF scheds, n, m
<1>4. /\ Len(dispatchQueue') = m + n
      /\ \A i \in 1..(m + n) :
            dispatchQueue'[i] = IF i <= m THEN dispatchQueue[i] ELSE scheds[i - m]
  <2>1. dispatchQueue' = dispatchQueue \o scheds
    BY <1>1 DEF scheds, n
  <2>2. /\ Len(dispatchQueue \o scheds) = Len(dispatchQueue) + Len(scheds)
        /\ \A i \in 1..(Len(dispatchQueue) + Len(scheds)) :
              (dispatchQueue \o scheds)[i] = IF i <= Len(dispatchQueue) THEN dispatchQueue[i]
                                             ELSE scheds[i - Len(dispatchQueue)]
    <3>1. dispatchQueue \in Seq(Schedule) /\ scheds \in Seq(Schedule)
      BY <1>2, <1>3
    <3> QED
      BY <3>1, ConcatProperties, Zenon
  <2> QED
    BY <1>2, <2>1, <2>2 DEF m
<1>5. \A i \in 1..(m + n) : i \in 1..m \/ (~(i <= m) /\ i - m \in 1..n)
  BY <1>2, <1>3
<1>6. /\ \A i \in 1..m : i \in 1..(m + n) /\ i <= m
      /\ \A i \in 1..n : m + i \in 1..(m + n) /\ ~(m + i <= m) /\ (m + i) - m = i
  BY <1>2, <1>3
<1>7. \A i \in 1..(m + n) : \/ i \in 1..m /\ dispatchQueue'[i] = dispatchQueue[i]
                            \/ i - m \in 1..n /\ dispatchQueue'[i] = batch[i - m].sched
  BY <1>2, <1>4, <1>5, <1>6
<1>8. \A i \in 1..m : i \in 1..(m + n) /\ dispatchQueue'[i] = dispatchQueue[i]
  BY <1>4, <1>6
<1>9. \A i \in 1..n : m + i \in 1..(m + n) /\ dispatchQueue'[m + i] = batch[i].sched
  BY <1>2, <1>4, <1>6
<1> QED
  BY <1>2, <1>3, <1>4, <1>7, <1>8, <1>9 DEF m, n

LEMMA RetryOneHolder ==
    ASSUME OneHolder, DType', RetryPoller
    PROVE  OneHolder'
<1> DEFINE m == Len(dispatchQueue)
           n == Cardinality(DueRetries)
<1>1. PICK batch \in RetryOrders(DueRetries) :
        /\ m \in Nat /\ n \in Nat
        /\ Len(dispatchQueue') = m + n
        /\ \A i \in 1..(m + n) :
              \/ i \in 1..m /\ dispatchQueue'[i] = dispatchQueue[i]
              \/ i - m \in 1..n /\ dispatchQueue'[i] = batch[i - m].sched
        /\ \A i \in 1..n : batch[i] \in DueRetries
        /\ \A i, j \in 1..n : i < j => batch[i] # batch[j]
  BY RetriedQueue DEF OneHolder, DType
<1>2. UNCHANGED <<nextOid, caller, data, worker>>
  BY DEF RetryPoller
<1>3. \A i \in 1..n : batch[i] \in retryQueue /\ batch[i] \notin retryQueue'
  BY <1>1 DEF RetryPoller, DueRetries
<1>4. retryQueue' \subseteq retryQueue
  BY DEF RetryPoller
<1> HIDE DEF n
<1>5. OidsIssued' /\ OidsHanded'
  BY <1>1, <1>2, <1>3, <1>4 DEF OneHolder, OneCopy, OidsIssued, OidsHanded
<1>6. CallersDistinct' /\ DataDistinct'
  BY <1>2 DEF OneHolder, OneCopy, OidInOnePlace, StoredOnce, CallersDistinct, DataDistinct
<1>7. CallersNotStored'
  <2>1. \A c \in Callers : caller[c] # Idle =>
          /\ \A i \in 1..n : batch[i].sched.oid # caller[c].sched.oid
          /\ \A i \in 1..m : dispatchQueue[i].oid # caller[c].sched.oid
          /\ \A s \in data : s.oid # caller[c].sched.oid
    BY <1>3 DEF OneHolder, OneCopy, OidInOnePlace, CallersNotStored, HeldOnce,
       RetriesNotElsewhere
  <2> QED
    BY <1>1, <1>2, <2>1 DEF CallersNotStored
<1>8. DataNotQueued'
  BY <1>1, <1>2, <1>3
  DEF OneHolder, OneCopy, OidInOnePlace, StoredOnce, DataNotQueued, HeldOnce,
      RetriesNotElsewhere
<1>9. QueueDistinct'
  <2> SUFFICES ASSUME NEW i \in 1..(m + n), NEW j \in 1..(m + n), i < j,
                      dispatchQueue'[i].oid = dispatchQueue'[j].oid
               PROVE  FALSE
    <3>1. \A i, j \in 1..(m + n) : i < j \/ j < i \/ i = j
      BY <1>1
    <3> QED
      BY <1>1, <3>1 DEF QueueDistinct
  <2>1. CASE /\ i \in 1..m /\ dispatchQueue'[i] = dispatchQueue[i]
             /\ j \in 1..m /\ dispatchQueue'[j] = dispatchQueue[j]
    BY <2>1 DEF OneHolder, OneCopy, OidInOnePlace, StoredOnce, QueueDistinct
  <2>2. CASE /\ i \in 1..m /\ dispatchQueue'[i] = dispatchQueue[i]
             /\ j - m \in 1..n /\ dispatchQueue'[j] = batch[j - m].sched
    BY <1>3, <2>2 DEF OneHolder, HeldOnce, RetriesNotElsewhere
  <2>3. CASE /\ i - m \in 1..n /\ dispatchQueue'[i] = batch[i - m].sched
             /\ j - m \in 1..n /\ dispatchQueue'[j] = batch[j - m].sched
    <3>1. batch[i - m] = batch[j - m]
      BY <1>3, <2>3 DEF OneHolder, HeldOnce, RetriesDistinct
    <3>2. i - m < j - m
      BY <1>1
    <3> QED
      BY <1>1, <2>3, <3>1, <3>2
  <2>4. ~(i - m \in 1..n /\ j \in 1..m)
    BY <1>1
  <2> QED
    BY <1>1, <2>1, <2>2, <2>3, <2>4
<1>10. WorkersDistinct' /\ RetriesDistinct'
  BY <1>2, <1>4 DEF OneHolder, HeldOnce, WorkersDistinct, RetriesDistinct
<1>11. WorkersNotElsewhere'
  BY <1>1, <1>2, <1>3, <1>4 DEF OneHolder, HeldOnce, WorkersNotElsewhere
<1>12. RetriesNotElsewhere'
  BY <1>1, <1>2, <1>3, <1>4 DEF OneHolder, HeldOnce, RetriesNotElsewhere, RetriesDistinct
<1> QED
  BY <1>5, <1>6, <1>7, <1>8, <1>9, <1>10, <1>11, <1>12
  DEF OneHolder, OneCopy, OidInOnePlace, StoredOnce, HeldOnce, DType, DTypeOK

LEMMA DNextOneHolder ==
    ASSUME LostReplies = FALSE, OneHolder, [DNext]_vars
    PROVE  OneHolder'
<1>1. DType'
  BY DNextType DEF OneHolder
<1> QED
  BY <1>1, StepKinds, ServiceOneHolder, PopOneHolder, RequeueOneHolder, RetryOneHolder,
     QuietOneHolder DEF OneHolder

LEMMA DInitOneHolder == DInit => OneHolder
<1>1. DInit => OneCopy
  BY InitOneCopy DEF DInit
<1>2. DInit => OidsHanded /\ WorkersDistinct /\ RetriesDistinct
  BY DEF DInit, OidsHanded, WorkersDistinct, RetriesDistinct
<1>3. DInit => WorkersNotElsewhere /\ RetriesNotElsewhere
  BY DEF DInit, WorkersNotElsewhere, RetriesNotElsewhere
<1> QED
  BY <1>1, <1>2, <1>3, DInitType DEF OneHolder, OneCopy, HeldOnce

\* With replies that are never lost, an occurrence is in one place of the whole
\* pipeline at a time, for any number of workers, callers, removers and
\* instances, and through every error, crash, retry, edit and delete
\* (scheduler.go:38-233, dispatcher.go:184-301): no two workers ever run it, and
\* no retry runs next to the attempt it repeats.
THEOREM OneHolderOfEveryOccurrence ==
    ASSUME LostReplies = FALSE
    PROVE  DSpec => []HeldOnce
<1>1. OneHolder /\ [DNext]_vars => OneHolder'
  BY DNextOneHolder
<1>2. OneHolder => HeldOnce
  BY DEF OneHolder
<1> QED
  BY <1>1, <1>2, DInitOneHolder, PTL DEF DSpec

-----------------------------------------------------------------------------
(* Nothing runs before its time *)

\* The clock does not go back, and stands still while anything is moved.
LEMMA ClockMoves ==
    ASSUME DType, [DNext]_vars
    PROVE  /\ now \in Nat /\ now' \in Nat
           /\ now' = now \/ now' = now + 1
<1>1. CASE ServiceStep
  BY <1>1 DEF ServiceStep, ScheduleEvent, CallerStep, CallerCrash, HExists, ZAdd, HSet,
     RemoverStep, RemoverCrash, RemZRange, RemHGet, RemZRem, RemHDel, GetDueSchedules,
     DType, DTypeOK, TypeOK
<1>2. ASSUME NEW w \in Workers, WorkerStep(w) \/ WorkerCrash(w)
      PROVE  now' = now
  BY <1>2 DEF WorkerStep, WorkerCrash, BRPop, GetByID, LogErrOccurrence, CleanZRem, CleanHDel,
     Execute, LogOccurrence, CountCompleted, Update, Finish, schedVars
<1>3. CASE RetryPoller \/ DTick \/ UNCHANGED vars
  BY <1>3 DEF RetryPoller, DTick, vars, schedVars, DType, DTypeOK, TypeOK
<1>4. ASSUME NEW r \in Removers, NEW e \in Events,
             DeleteEvent(r, e) \/ \E row \in Row : UpdateEvent(r, e, row)
      PROVE  now' = now
  BY <1>4 DEF DeleteEvent, UpdateEvent
<1> QED
  BY <1>1, <1>2, <1>3, <1>4 DEF DNext, DType, DTypeOK, TypeOK

\* What a step of the service does to the dispatch queue: nothing, or what the
\* poller appends.
LEMMA ServiceQueue ==
    ASSUME TypeOK, ServiceStep
    PROVE  \/ UNCHANGED dispatchQueue
           \/ /\ GetDueSchedules
              /\ \A i \in 1..Len(dispatchQueue') :
                    \/ i \in 1..Len(dispatchQueue) /\ dispatchQueue'[i] = dispatchQueue[i]
                    \/ dispatchQueue'[i] \in Due
<1>1. CASE GetDueSchedules
  BY <1>1, PolledQueue
<1>2. CASE ~GetDueSchedules
  BY <1>2 DEF ServiceStep, ScheduleEvent, CallerStep, CallerCrash, HExists, ZAdd, HSet,
     RemoverStep, RemoverCrash, RemZRange, RemHGet, RemZRem, RemHDel
<1> QED
  BY <1>1, <1>2

LEMMA DNextNeverEarly ==
    ASSUME DType, NeverEarly, [DNext]_vars
    PROVE  NeverEarly'
<1>1. /\ now \in Nat /\ now' \in Nat
      /\ now' = now \/ now' = now + 1
  BY ClockMoves
<1>2. \A s \in Schedule : s.at \in Nat
  BY SchedulerAssumption DEF Schedule
<1>3. \A s \in Schedule : s.at <= now => s.at <= now'
  BY <1>1, <1>2
<1>4. /\ \A i \in 1..Len(dispatchQueue) : dispatchQueue[i] \in Schedule /\ dispatchQueue[i].at <= now'
      /\ \A w \in Workers : worker[w] # Idle =>
             worker[w].sched \in Schedule /\ worker[w].sched.at <= now'
      /\ \A q \in retryQueue : q.sched \in Schedule /\ q.sched.at <= now'
  <2>1. \A i \in 1..Len(dispatchQueue) : dispatchQueue[i] \in Schedule
    BY ElementOfSeq DEF DType, DTypeOK, TypeOK
  <2>2. \A w \in Workers : worker[w] # Idle => worker[w].sched \in Schedule
    BY BusyWorker DEF DType
  <2>3. \A q \in retryQueue : q.sched \in Schedule
    BY DEF DType, DTypeOK, RetryItem
  <2> QED
    BY <1>3, <2>1, <2>2, <2>3 DEF NeverEarly
<1>5. CASE ServiceStep /\ UNCHANGED dispVars
  <2>1. \A s \in Due : s.at <= now'
    BY <1>3 DEF Due, DType, DTypeOK, TypeOK
  <2>2. \A i \in 1..Len(dispatchQueue') : dispatchQueue'[i].at <= now'
    BY <1>4, <1>5, <2>1, ServiceQueue DEF DType, DTypeOK
  <2> QED
    BY <1>4, <1>5, <2>2 DEF dispVars, NeverEarly
<1>6. ASSUME NEW w \in Workers, BRPop(w)
      PROVE  NeverEarly'
  <2>1. /\ \A i \in 1..Len(dispatchQueue') : \E j \in 1..Len(dispatchQueue) :
              dispatchQueue'[i] = dispatchQueue[j]
        /\ Len(dispatchQueue) \in 1..Len(dispatchQueue)
    BY <1>6, PoppedQueue DEF DType, DTypeOK
  <2>2. /\ worker'[w].sched = dispatchQueue[Len(dispatchQueue)]
        /\ \A v \in Workers \ {w} : worker'[v] = worker[v]
        /\ retryQueue' = retryQueue
    BY <1>6 DEF BRPop, DType, DTypeOK
  <2> QED
    BY <1>4, <2>1, <2>2 DEF NeverEarly
<1>7. ASSUME NEW w \in Workers, Requeued(w)
      PROVE  NeverEarly'
  <2>1. worker[w] # Idle /\ worker'[w] = Idle /\ \A v \in Workers \ {w} : worker'[v] = worker[v]
    BY <1>7, LabelIsBusy DEF Requeued, Label, DType, DTypeOK
  <2>2. \A q \in retryQueue' : q \in retryQueue \/ q.sched.at = worker[w].sched.at
    BY <1>4, <1>7, <2>1 DEF Requeued, RetryQueueWith, Schedule
  <2>3. dispatchQueue' = dispatchQueue
    BY <1>7 DEF Requeued, schedVars
  <2> QED
    BY <1>4, <2>1, <2>2, <2>3 DEF NeverEarly
<1>8. CASE RetryPoller
  <2>1. \A i \in 1..Len(dispatchQueue') :
            \/ \E j \in 1..Len(dispatchQueue) : dispatchQueue'[i] = dispatchQueue[j]
            \/ \E q \in retryQueue : dispatchQueue'[i] = q.sched
    BY <1>8, RetriedQueue DEF DueRetries, DType
  <2>2. retryQueue' \subseteq retryQueue /\ worker' = worker
    BY <1>8 DEF RetryPoller
  <2> QED
    BY <1>4, <2>1, <2>2 DEF NeverEarly
<1>9. CASE Quiet
  BY <1>4, <1>9 DEF Quiet, WorkersKeep, NeverEarly
<1> QED
  BY <1>5, <1>6, <1>7, <1>8, <1>9, StepKinds

\* Nothing is queued for a worker, executed or retried before the second it is
\* scheduled for (scheduler.go:104-150, dispatcher.go:184-301), whatever fails.
THEOREM NothingRunsEarly == DSpec => []NeverEarly
<1>1. DInit => NeverEarly
  BY DEF DInit, Init, NeverEarly
<1>2. DType /\ NeverEarly /\ [DNext]_vars => DType' /\ NeverEarly'
  BY DNextType, DNextNeverEarly
<1> QED
  BY <1>1, <1>2, DInitType, PTL DEF DSpec
=============================================================================
