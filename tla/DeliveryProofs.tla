--------------------------- MODULE DeliveryProofs ---------------------------
(***************************************************************************)
(* What a delivery promises, proved of module Dispatcher: the bound on the *)
(* executions of an occurrence, none of them after a success, an           *)
(* occurrences table that tells the truth, and the refinement of module    *)
(* Delivery.                                                               *)
(***************************************************************************)
EXTENDS DispatcherProofs

\* A schedule that waits: with a caller, in the hash, or in one of the queues.
Waits(s) == InCore(s) \/ \E q \in retryQueue : q.sched = s

\* Where a worker has not come to the execution, or never will.
Before == {"getbyid", "logorphan", "logerr", "zrem", "hdel", "execute"}

AttemptAllowed(s) == s.attempt = 0 \/ s.attempt < MaxRetries

\* The attempt counter of s covers the executions and the rows so far, and all
\* of them failed.
Untold(s) ==
    /\ AttemptAllowed(s)
    /\ calls[s.oid] <= s.attempt
    /\ delivered[s.oid] = 0
    /\ \A p \in occurrences : p.oid = s.oid => p.attempt <= s.attempt /\ p.status = "failed"

\* The same of a worker past its execution, with the attempt in its hands.
Told(w) ==
    LET s == worker[w].sched IN
    /\ AttemptAllowed(s)
    /\ calls[s.oid] <= s.attempt + 1
    /\ worker[w].ok <=> delivered[s.oid] > 0
    /\ \A p \in occurrences : p.oid = s.oid =>
          /\ p.attempt <= s.attempt + 1
          /\ p.status = "failed" \/ (worker[w].ok /\ worker[w].pc # "log")
          /\ worker[w].pc = "log" => p.attempt <= s.attempt

WorkerStory(w) ==
    IF worker[w].pc \in Before THEN ~worker[w].ok /\ Untold(worker[w].sched) ELSE Told(w)

\* The inductive invariant: what is known of an occurrence depends on where it
\* is.  AttemptsBounded and LogConsistent alone say nothing of an occurrence
\* that can still be executed.
Story ==
    /\ \A s : Waits(s) => Untold(s)
    /\ \A w \in Workers : worker[w] # Idle => WorkerStory(w)
    /\ \A o \in 1..MaxOid : o >= nextOid => calls[o] = 0 /\ delivered[o] = 0
    /\ \A p \in occurrences : p.oid < nextOid
    /\ AttemptsBounded
    /\ LogConsistent

\* A step that executes nothing and logs nothing.
Silent == UNCHANGED <<calls, delivered>> /\ occurrences' \subseteq occurrences

LEMMA StillUntold ==
    ASSUME Silent, NEW s, Untold(s)
    PROVE  Untold(s)'
BY DEF Silent, Untold, AttemptAllowed

\* A worker that stays past its execution, or moves to the end without one.
LEMMA StillTold ==
    ASSUME Silent, NEW w \in Workers, WorkerStory(w),
           worker'[w].sched = worker[w].sched, worker'[w].ok = worker[w].ok,
           \/ worker'[w].pc = worker[w].pc
           \/ worker[w].pc \in Before /\ worker'[w].pc \in Before
           \/ worker'[w].pc \in {"update", "finish"} /\ worker[w].pc \in {"count", "update"}
    PROVE  WorkerStory(w)'
<1>1. CASE worker[w].pc \in Before
  <2>1. worker'[w].pc \in Before
    BY <1>1 DEF Before
  <2>2. Untold(worker[w].sched)'
    BY <1>1 DEF WorkerStory, Silent, Untold, AttemptAllowed
  <2> QED
    BY <1>1, <2>1, <2>2 DEF WorkerStory
<1>2. CASE worker[w].pc \notin Before
  <2>1. Told(w)'
    BY <1>2 DEF WorkerStory, Told, Silent, AttemptAllowed
  <2> QED
    BY <1>2, <2>1 DEF WorkerStory, Before
<1> QED
  BY <1>1, <1>2

LEMMA SilentStory ==
    ASSUME Story, Silent, nextOid' = nextOid,
           \A s : Waits(s)' => Untold(s),
           \A w \in Workers : worker'[w] # Idle => WorkerStory(w)'
    PROVE  Story'
<1>1. \A s : Waits(s)' => Untold(s)'
  BY StillUntold
<1>2. AttemptsBounded'
  BY DEF Story, Silent, AttemptsBounded
<1>3. LogConsistent'
  BY DEF Story, Silent, LogConsistent
<1>4. \A o \in 1..MaxOid : o >= nextOid' => calls'[o] = 0 /\ delivered'[o] = 0
  BY DEF Story, Silent
<1>5. \A p \in occurrences' : p.oid < nextOid'
  BY DEF Story, Silent
<1> QED
  BY <1>1, <1>2, <1>3, <1>4, <1>5 DEF Story

-----------------------------------------------------------------------------
(* The story goes on: steps that move an occurrence *)

LEMMA ServiceStory ==
    ASSUME OneHolder, Story, ServiceStep, UNCHANGED dispVars
    PROVE  Story'
<1>1. \/ nextOid' = nextOid /\ \A s : InCore(s)' => InCore(s)
      \/ /\ nextOid \in 1..MaxOid
         /\ nextOid' = nextOid + 1
         /\ \A s : InCore(s)' => InCore(s) \/ Fresh(s)
  BY CoreKept DEF OneHolder, OneCopy
<1>2. Silent /\ UNCHANGED <<worker, retryQueue>>
  BY DEF dispVars, Silent
<1>3. \A w \in Workers : worker'[w] # Idle => WorkerStory(w)'
  BY <1>2, StillTold DEF Story
<1>4. CASE nextOid' = nextOid /\ \A s : InCore(s)' => InCore(s)
  <2>1. \A s : Waits(s)' => Untold(s)
    BY <1>2, <1>4 DEF Waits, Story
  <2> QED
    BY <1>2, <1>3, <1>4, <2>1, SilentStory
<1>5. CASE /\ nextOid \in 1..MaxOid
           /\ nextOid' = nextOid + 1
           /\ \A s : InCore(s)' => InCore(s) \/ Fresh(s)
  <2>1. nextOid \in 1..MaxOid /\ nextOid \in Nat
    BY <1>5
  <2>2. \A s : Fresh(s) => Untold(s)
    <3>1. \A p \in occurrences : p.oid # nextOid
      BY <2>1 DEF Story, OneHolder, DType, DTypeOK, OccurrenceRow
    <3> QED
      BY <2>1, <3>1 DEF Fresh, Untold, AttemptAllowed, Story
  <2>3. \A s : Waits(s)' => Untold(s)'
    BY <1>2, <1>5, <2>2, StillUntold DEF Waits, Story
  <2>4. AttemptsBounded' /\ LogConsistent'
    BY <1>2 DEF Silent, dispVars, Story, AttemptsBounded, LogConsistent
  <2>5. \A o \in 1..MaxOid : o >= nextOid' => calls'[o] = 0 /\ delivered'[o] = 0
    BY <1>2, <1>5, <2>1 DEF Silent, Story
  <2>6. \A p \in occurrences' : p.oid < nextOid'
    <3>1. \A p \in occurrences : p.oid \in Nat /\ p.oid < nextOid
      BY DEF Story, OneHolder, DType, DTypeOK, OccurrenceRow
    <3> QED
      BY <1>2, <1>5, <2>1, <3>1 DEF Silent
  <2> QED
    BY <1>3, <2>3, <2>4, <2>5, <2>6 DEF Story
<1> QED
  BY <1>1, <1>4, <1>5

LEMMA PopStory ==
    ASSUME OneHolder, Story, NEW w \in Workers, BRPop(w)
    PROVE  Story'
<1> DEFINE n == Len(dispatchQueue)
<1>1. /\ n \in 1..n
      /\ \A i \in 1..Len(dispatchQueue') : \E j \in 1..n : dispatchQueue'[i] = dispatchQueue[j]
  BY PoppedQueue DEF OneHolder, OneCopy
<1>2. /\ worker'[w].sched = dispatchQueue[n]
      /\ worker'[w].pc = "getbyid"
      /\ worker'[w].ok = FALSE
      /\ \A v \in Workers \ {w} : worker'[v] = worker[v]
  BY DEF BRPop, OneHolder, DType, DTypeOK
<1>3. Silent /\ UNCHANGED <<nextOid, caller, data, retryQueue>>
  BY DEF BRPop, Silent
<1> HIDE DEF n
<1>4. \A s : Waits(s)' => Waits(s)
  BY <1>1, <1>3 DEF Waits, InCore, n
<1>5. Waits(dispatchQueue[n])
  BY <1>1 DEF Waits, InCore, n
<1>6. Untold(dispatchQueue[n])
  BY <1>5 DEF Story
<1>7. WorkerStory(w)'
  BY <1>2, <1>3, <1>6 DEF WorkerStory, Before, Silent, Untold, AttemptAllowed
<1>8. \A v \in Workers : worker'[v] # Idle => WorkerStory(v)'
  BY <1>2, <1>3, <1>7, StillTold DEF Story
<1> QED
  BY <1>3, <1>4, <1>8, SilentStory DEF Story

LEMMA RequeueStory ==
    ASSUME OneHolder, Story, NEW w \in Workers, Requeued(w)
    PROVE  Story'
<1> DEFINE s == worker[w].sched
           t == [s EXCEPT !.attempt = @ + 1]
<1>1. worker[w] # Idle /\ s \in Schedule /\ DTypeOK
  BY LabelIsBusy, BusyWorker DEF Requeued, Label, OneHolder, DType
<1>2. t.oid = s.oid /\ t.attempt = s.attempt + 1 /\ s.attempt \in Nat
  BY <1>1 DEF Schedule
<1>3. Silent /\ UNCHANGED <<nextOid, caller, data, dispatchQueue>>
  BY DEF Requeued, Silent, schedVars
<1>4. worker'[w] = Idle /\ \A v \in Workers \ {w} : worker'[v] = worker[v]
  BY <1>1 DEF Requeued, DTypeOK
<1>5. \A u : Waits(u)' => Waits(u) \/ u = t
  BY <1>3 DEF Requeued, RetryQueueWith, Waits, InCore
<1>6. Untold(t)
  <2>1. Told(w) /\ ~worker[w].ok /\ s.attempt + 1 < MaxRetries /\ worker[w].pc # "log"
    BY <1>1 DEF Requeued, Story, WorkerStory, Before
  <2>2. delivered[s.oid] \in Nat
    BY <1>1 DEF DTypeOK, Schedule
  <2>3. /\ calls[s.oid] <= s.attempt + 1
        /\ delivered[s.oid] = 0
        /\ \A p \in occurrences : p.oid = s.oid =>
              p.attempt <= s.attempt + 1 /\ p.status = "failed"
    BY <2>1, <2>2 DEF Told
  <2> HIDE DEF s, t
  <2> QED
    BY <1>2, <2>1, <2>3 DEF Untold, AttemptAllowed, s
<1>7. \A v \in Workers : worker'[v] # Idle => WorkerStory(v)'
  BY <1>3, <1>4, StillTold DEF Story
<1> HIDE DEF t
<1> QED
  BY <1>3, <1>5, <1>6, <1>7, SilentStory DEF Story

LEMMA RetryStory ==
    ASSUME OneHolder, Story, RetryPoller
    PROVE  Story'
<1>1. \A i \in 1..Len(dispatchQueue') :
          \/ \E j \in 1..Len(dispatchQueue) : dispatchQueue'[i] = dispatchQueue[j]
          \/ \E q \in retryQueue : dispatchQueue'[i] = q.sched
  BY RetriedQueue DEF DueRetries, OneHolder, DType
<1>2. Silent /\ UNCHANGED <<nextOid, caller, data, worker>> /\ retryQueue' \subseteq retryQueue
  BY DEF RetryPoller, Silent
<1>3. \A s : Waits(s)' => Waits(s)
  BY <1>1, <1>2 DEF Waits, InCore
<1>4. \A v \in Workers : worker'[v] # Idle => WorkerStory(v)'
  BY <1>2, StillTold DEF Story
<1> QED
  BY <1>2, <1>3, <1>4, SilentStory DEF Story

-----------------------------------------------------------------------------
(* The story goes on: a worker's own steps *)

\* No other worker and no queue has the occurrence of worker w.
LEMMA HeldAlone ==
    ASSUME OneHolder, NEW w \in Workers, worker[w] # Idle
    PROVE  /\ \A s : Waits(s) => s.oid # worker[w].sched.oid
           /\ \A v \in Workers \ {w} : worker[v] # Idle => worker[v].sched.oid # worker[w].sched.oid
BY DEF OneHolder, HeldOnce, WorkersNotElsewhere, WorkersDistinct, Waits, InCore

\* A step of worker w that executes or logs its own occurrence leaves the
\* stories of the others alone.
LEMMA AloneStory ==
    ASSUME OneHolder, Story, Quiet, NEW w \in Workers, worker[w] # Idle,
           NEW o, o = worker[w].sched.oid,
           \A v \in Workers \ {w} : worker'[v] = worker[v],
           \A x \in 1..MaxOid : x # o => calls'[x] = calls[x] /\ delivered'[x] = delivered[x],
           \A p \in occurrences' : p \in occurrences \/ p.oid = o,
           worker'[w] # Idle => WorkerStory(w)',
           AttemptsBounded', LogConsistent'
    PROVE  Story'
<1>1. o < nextOid /\ nextOid' = nextOid /\ o \in Nat /\ nextOid \in Nat
  BY HolderTypes DEF OneHolder, OidsHanded, Quiet
<1>2. \A s \in Schedule : s.oid # o /\ Untold(s) => Untold(s)'
  BY DEF Untold, AttemptAllowed, Schedule
<1>3. \A s : Waits(s)' => Waits(s)
  BY DEF Waits, InCore, Quiet
<1>4. \A s : Waits(s) => s \in Schedule
  <2>1. \A c \in Callers : caller[c] # Idle => caller[c].sched \in Schedule
    BY BusyCaller DEF OneHolder, OneCopy
  <2>2. \A i \in 1..Len(dispatchQueue) : dispatchQueue[i] \in Schedule
    BY ElementOfSeq DEF OneHolder, OneCopy, TypeOK
  <2>3. (\A s \in data : s \in Schedule) /\ (\A q \in retryQueue : q.sched \in Schedule)
    BY DEF OneHolder, DType, DTypeOK, TypeOK, RetryItem
  <2> QED
    BY <2>1, <2>2, <2>3 DEF Waits, InCore
<1>5. \A s : Waits(s)' => Untold(s)'
  BY <1>2, <1>3, <1>4, HeldAlone DEF Story
<1>6. \A v \in Workers : worker'[v] # Idle => WorkerStory(v)'
  <2> SUFFICES ASSUME NEW v \in Workers \ {w}, worker[v] # Idle
               PROVE  WorkerStory(v)'
    OBVIOUS
  <2>1. worker[v].sched.oid # o /\ worker[v].sched \in Schedule /\ worker'[v] = worker[v]
    BY HeldAlone, BusyWorker DEF OneHolder, DType
  <2>2. worker[v].sched.oid \in 1..MaxOid
    BY <2>1 DEF Schedule
  <2>3. CASE worker[v].pc \in Before
    BY <1>2, <2>1, <2>3 DEF Story, WorkerStory, Untold, AttemptAllowed
  <2>4. CASE worker[v].pc \notin Before
    <3>1. Told(v)
      BY <2>4 DEF Story, WorkerStory
    <3>2. Told(v)'
      BY <2>1, <2>2, <3>1 DEF Told, AttemptAllowed
    <3> QED
      BY <2>1, <2>4, <3>2 DEF WorkerStory
  <2> QED
    BY <2>3, <2>4
<1>7. \A x \in 1..MaxOid : x >= nextOid' => calls'[x] = 0 /\ delivered'[x] = 0
  BY <1>1 DEF Story
<1>8. \A p \in occurrences' : p.oid < nextOid'
  BY <1>1 DEF Story
<1> QED
  BY <1>5, <1>6, <1>7, <1>8 DEF Story

LEMMA ExecuteStory ==
    ASSUME OneHolder, Story, NEW w \in Workers, NEW ok \in BOOLEAN, Execute(w, ok)
    PROVE  Story'
<1> DEFINE s == worker[w].sched
           o == s.oid
<1>1. worker[w] # Idle /\ s \in Schedule /\ DTypeOK
  BY LabelIsBusy, BusyWorker DEF Execute, Label, OneHolder, DType
<1>2. o \in 1..MaxOid /\ s.attempt \in Nat
  BY <1>1 DEF Schedule
<1>3. ~worker[w].ok /\ Untold(s)
  BY <1>1 DEF Execute, Story, WorkerStory, Before
<1>4. Quiet
  BY QuietWorker DEF OneHolder
<1>5. /\ worker'[w].pc = "log" /\ worker'[w].sched = s /\ worker'[w].ok = ok
      /\ \A v \in Workers \ {w} : worker'[v] = worker[v]
  BY <1>1, BusyWorker DEF Execute, DTypeOK
<1>6. /\ calls'[o] = calls[o] + 1 /\ calls[o] \in Nat
      /\ delivered'[o] = IF ok THEN 1 ELSE 0
      /\ \A x \in 1..MaxOid : x # o => calls'[x] = calls[x] /\ delivered'[x] = delivered[x]
      /\ occurrences' = occurrences
  BY <1>1, <1>2, <1>3 DEF Execute, DTypeOK, Untold
<1> HIDE DEF s, o
<1>7. WorkerStory(w)'
  <2>1. Told(w)'
    <3>1. /\ AttemptAllowed(s)
          /\ calls'[o] <= s.attempt + 1
          /\ ok <=> delivered'[o] > 0
      BY <1>2, <1>3, <1>6 DEF Untold, o
    <3>2. \A p \in occurrences' : p.oid = o =>
            p.attempt <= s.attempt /\ p.attempt <= s.attempt + 1 /\ p.status = "failed"
      <4>1. \A p \in occurrences : p.attempt \in Nat
        BY <1>1 DEF DTypeOK, OccurrenceRow
      <4> QED
        BY <1>2, <1>3, <1>6, <4>1 DEF Untold, o
    <3> QED
      BY <1>5, <3>1, <3>2 DEF Told, AttemptAllowed, o
  <2> QED
    BY <1>5, <2>1 DEF WorkerStory, Before
<1>8. AttemptsBounded'
  <2>1. calls'[o] <= IF MaxRetries = 0 THEN 1 ELSE MaxRetries
    BY <1>2, <1>3, <1>6, DispatcherAssumption DEF Untold, AttemptAllowed, o
  <2> QED
    BY <1>6, <2>1 DEF AttemptsBounded, Story
<1>9. LogConsistent'
  <2>1. \A p \in occurrences : p.oid = o => p.status = "failed"
    BY <1>3 DEF Untold, o
  <2>2. \A p \in occurrences : p.oid \in 1..MaxOid
    BY <1>1 DEF DTypeOK, OccurrenceRow
  <2> QED
    BY <1>6, <2>1, <2>2 DEF LogConsistent, Story
<1> QED
  BY <1>1, <1>4, <1>5, <1>6, <1>7, <1>8, <1>9, AloneStory DEF o, s

\* Create adds a row of the occurrence, or nothing.
LEMMA Created ==
    ASSUME DTypeOK, NEW s \in Schedule, NEW status, NEW attempt, Create(s, status, attempt)
    PROVE  /\ occurrences \subseteq occurrences'
           /\ \A p \in occurrences' :
                 \/ p \in occurrences
                 \/ p = [id |-> nextRow, oid |-> s.oid, event |-> s.event, at |-> s.at,
                         status |-> status, attempt |-> attempt]
BY DEF Create

\* logErrOccurrence: a failed row with attempt 0.
LEMMA LogErrStory ==
    ASSUME OneHolder, Story, NEW w \in Workers, LogErrOccurrence(w)
    PROVE  Story'
<1> DEFINE s == worker[w].sched
           o == s.oid
           row == [id |-> nextRow, oid |-> s.oid, event |-> s.event, at |-> s.at,
                   status |-> "failed", attempt |-> 0]
<1>1. worker[w] # Idle /\ s \in Schedule /\ DTypeOK
  BY LabelIsBusy, BusyWorker DEF LogErrOccurrence, Label, OneHolder, DType
<1>2. o \in 1..MaxOid /\ s.attempt \in Nat
  BY <1>1 DEF Schedule
<1>3. ~worker[w].ok /\ Untold(s)
  BY <1>1 DEF LogErrOccurrence, Story, WorkerStory, Before
<1>4. Quiet /\ UNCHANGED <<calls, delivered>>
  BY QuietWorker DEF OneHolder, LogErrOccurrence
<1>5. PICK label \in {"zrem", "finish"} : WGoto(w, label)
  BY DEF LogErrOccurrence
<1>6. /\ worker'[w].pc = label /\ worker'[w].sched = s /\ worker'[w].ok = FALSE
      /\ \A v \in Workers \ {w} : worker'[v] = worker[v]
  <2>1. worker[w].ok \in BOOLEAN
    BY <1>1, BusyWorker
  <2> QED
    BY <1>1, <1>3, <1>5, <2>1, WGotoType DEF Label
<1>7. \A p \in occurrences' : p \in occurrences \/ p = row
  BY <1>1, Created DEF LogErrOccurrence
<1>8. row.oid = o /\ row.status = "failed" /\ row.attempt = 0
  OBVIOUS
<1> HIDE DEF s, o, row
<1>9. \A p \in occurrences' : p.oid = o => p.attempt <= s.attempt /\ p.status = "failed"
  BY <1>2, <1>3, <1>7, <1>8 DEF Untold, o
<1>10. WorkerStory(w)'
  <2>1. CASE label = "zrem"
    BY <1>3, <1>4, <1>6, <1>9, <2>1 DEF WorkerStory, Before, Untold, AttemptAllowed, o
  <2>2. CASE label = "finish"
    <3>1. \A p \in occurrences' : p.attempt \in Nat
      BY <1>1, <1>7, <1>8 DEF DTypeOK, OccurrenceRow
    <3>2. \A p \in occurrences' : p.oid = o => p.attempt <= s.attempt + 1
      BY <1>2, <1>9, <3>1
    <3>3. /\ AttemptAllowed(s)
          /\ calls'[o] <= s.attempt + 1
          /\ delivered'[o] = 0
      <4>1. calls[o] \in Nat
        BY <1>1, <1>2 DEF DTypeOK
      <4> QED
        BY <1>2, <1>3, <1>4, <4>1 DEF Untold, o
    <3>4. Told(w)'
      BY <1>6, <1>9, <2>2, <3>2, <3>3 DEF Told, AttemptAllowed, o
    <3> QED
      BY <1>6, <2>2, <3>4 DEF WorkerStory, Before
  <2> QED
    BY <2>1, <2>2
<1>11. AttemptsBounded'
  BY <1>4 DEF AttemptsBounded, Story
<1>12. LogConsistent'
  BY <1>4, <1>7, <1>8, <1>9 DEF LogConsistent, Story
<1> QED
  BY <1>1, <1>4, <1>6, <1>7, <1>8, <1>10, <1>11, <1>12, AloneStory DEF o, s

\* logOccurrence: the first row with this attempt, and the last one if it is
\* completed.
LEMMA LogStory ==
    ASSUME OneHolder, Story, NEW w \in Workers, LogOccurrence(w)
    PROVE  Story'
<1> DEFINE s == worker[w].sched
           o == s.oid
           ok == worker[w].ok
           row == [id |-> nextRow, oid |-> s.oid, event |-> s.event, at |-> s.at,
                   status |-> IF ok THEN "completed" ELSE "failed", attempt |-> s.attempt + 1]
<1>1. worker[w] # Idle /\ s \in Schedule /\ DTypeOK /\ ok \in BOOLEAN
  BY LabelIsBusy, BusyWorker DEF LogOccurrence, Label, OneHolder, DType
<1>2. o \in 1..MaxOid /\ s.attempt \in Nat
  BY <1>1 DEF Schedule
<1>3. Told(w) /\ worker[w].pc = "log"
  BY <1>1 DEF LogOccurrence, Story, WorkerStory, Before
<1>4. Quiet /\ UNCHANGED <<calls, delivered>>
  BY QuietWorker DEF OneHolder, LogOccurrence
<1>5. PICK label \in {"finish", "count", "update"} : WGoto(w, label)
  BY DEF LogOccurrence, AfterLog
<1>6. /\ worker'[w].pc = label /\ worker'[w].sched = s /\ worker'[w].ok = ok
      /\ \A v \in Workers \ {w} : worker'[v] = worker[v]
  BY <1>1, <1>5, WGotoType DEF Label
<1>7. \A p \in occurrences' : p \in occurrences \/ p = row
  BY <1>1, Created DEF LogOccurrence
<1>8. /\ row.oid = o
      /\ row.status = (IF ok THEN "completed" ELSE "failed")
      /\ row.attempt = s.attempt + 1
  OBVIOUS
<1>9. /\ \A p \in occurrences : p.oid = o => p.attempt <= s.attempt /\ p.status = "failed"
      /\ AttemptAllowed(s)
      /\ calls[o] <= s.attempt + 1
      /\ ok <=> delivered[o] > 0
  BY <1>3 DEF Told
<1> HIDE DEF s, o, ok, row
<1>10. \A p \in occurrences : p.attempt \in Nat
  BY <1>1 DEF DTypeOK, OccurrenceRow
<1>11. WorkerStory(w)'
  <2>1. \A p \in occurrences' : p.oid = o => p.attempt <= s.attempt + 1 /\ (p.status = "failed" \/ ok)
    BY <1>2, <1>7, <1>8, <1>9, <1>10
  <2>2. Told(w)'
    BY <1>4, <1>6, <1>9, <2>1 DEF Told, AttemptAllowed, o
  <2> QED
    BY <1>6, <2>2 DEF WorkerStory, Before
<1>12. AttemptsBounded'
  BY <1>4 DEF AttemptsBounded, Story
<1>13. LogConsistent'
  <2> SUFFICES ASSUME NEW p \in occurrences', NEW q \in occurrences', p.oid = q.oid
               PROVE  /\ p.attempt = q.attempt /\ p.attempt > 0 => p = q
                      /\ p.status = "completed" => delivered[p.oid] > 0 /\ q.attempt <= p.attempt
    BY <1>4 DEF LogConsistent
  <2>1. CASE p \in occurrences /\ q \in occurrences
    BY <2>1 DEF LogConsistent, Story
  <2>2. CASE p \in occurrences /\ q = row
    BY <1>2, <1>8, <1>9, <1>10, <2>2
  <2>3. CASE p = row /\ q \in occurrences
    BY <1>1, <1>2, <1>8, <1>9, <1>10, <2>3
  <2>4. CASE p = row /\ q = row
    BY <1>1, <1>2, <1>8, <1>9, <2>4
  <2> QED
    BY <1>7, <2>1, <2>2, <2>3, <2>4
<1> QED
  BY <1>1, <1>4, <1>6, <1>7, <1>8, <1>11, <1>12, <1>13, AloneStory DEF o, s

\* The end of the clean-up after a failed GetByID, without an execution.
LEMMA GivenUp ==
    ASSUME DTypeOK, Silent, NEW w \in Workers, worker[w] # Idle, worker[w].pc \in Before,
           WorkerStory(w), worker'[w].sched = worker[w].sched, worker'[w].ok = worker[w].ok,
           worker'[w].pc = "finish"
    PROVE  WorkerStory(w)'
<1> DEFINE s == worker[w].sched
           o == s.oid
<1>1. o \in 1..MaxOid /\ s.attempt \in Nat
  BY BusyWorker DEF Schedule
<1>2. ~worker[w].ok /\ Untold(s)
  BY DEF WorkerStory
<1>3. calls[o] \in Nat /\ \A p \in occurrences : p.attempt \in Nat
  BY <1>1 DEF DTypeOK, OccurrenceRow
<1> HIDE DEF s, o
<1>4. /\ AttemptAllowed(s)
      /\ calls[o] <= s.attempt + 1
      /\ delivered[o] = 0
      /\ \A p \in occurrences : p.oid = o => p.attempt <= s.attempt + 1 /\ p.status = "failed"
  BY <1>1, <1>2, <1>3 DEF Untold, o
<1>5. Told(w)'
  BY <1>2, <1>4 DEF Told, AttemptAllowed, Silent, o, s
<1> QED
  BY <1>5 DEF WorkerStory, Before

\* Every other step is silent and moves nothing.
LEMMA QuietStory ==
    ASSUME OneHolder, Story, Quiet, Silent,
           \A w \in Workers : worker'[w] # Idle => WorkerStory(w)'
    PROVE  Story'
<1>1. \A s : Waits(s)' => Waits(s)
  BY DEF Waits, InCore, Quiet
<1> QED
  BY <1>1, SilentStory DEF Story, Quiet

LEMMA SilentWorkerStory ==
    ASSUME OneHolder, Story, NEW w \in Workers,
           GetByID(w) \/ CleanZRem(w) \/ CleanHDel(w) \/ CountCompleted(w) \/ Update(w)
    PROVE  Story'
<1>1. worker[w] # Idle /\ DTypeOK /\ WorkerStory(w)
  BY LabelIsBusy DEF GetByID, CleanZRem, CleanHDel, CountCompleted, Update, Label, OneHolder,
     DType, Story
<1>2. Quiet /\ Silent
  BY QuietWorker DEF OneHolder, GetByID, CleanZRem, CleanHDel, CountCompleted, Update, Silent
<1>3. CASE GetByID(w)
  <2>1. /\ worker[w].pc \in Before /\ worker'[w].pc \in Before
        /\ worker'[w].sched = worker[w].sched /\ worker'[w].ok = worker[w].ok
        /\ \A v \in Workers \ {w} : worker'[v] = worker[v]
    <3>1. CASE \E label \in {"logorphan", "logerr"} : WGoto(w, label)
      BY <1>1, <1>3, <3>1, WGotoType DEF GetByID, Label, Before
    <3>2. CASE worker' = [worker EXCEPT ![w].pc = "execute",
                                        ![w].row = events[worker[w].sched.event]]
      BY <1>1, <1>3, <3>2, BusyWorker DEF GetByID, DTypeOK, Before
    <3> QED
      BY <1>3, <3>1, <3>2 DEF GetByID
  <2> QED
    BY <1>1, <1>2, <2>1, StillTold, QuietStory DEF Story
<1>4. CASE CleanZRem(w)
  BY <1>1, <1>2, <1>4, WGotoType, StillTold, QuietStory DEF CleanZRem, Label, Before, Story
<1>5. CASE CleanHDel(w)
  <2>1. /\ worker[w].pc \in Before /\ worker'[w].pc = "finish"
        /\ worker'[w].sched = worker[w].sched /\ worker'[w].ok = worker[w].ok
        /\ \A v \in Workers \ {w} : worker'[v] = worker[v]
    BY <1>1, <1>5, WGotoType DEF CleanHDel, Label, Before
  <2>2. WorkerStory(w)'
    BY <1>1, <1>2, <2>1, GivenUp
  <2> QED
    BY <1>1, <1>2, <2>1, <2>2, StillTold, QuietStory DEF Story
<1>6. CASE CountCompleted(w) \/ Update(w)
  <2>1. PICK label \in {"update", "finish"} : WGoto(w, label)
    BY <1>6 DEF CountCompleted, Update
  <2>2. worker[w].pc \in {"count", "update"}
    BY <1>6 DEF CountCompleted, Update
  <2>3. /\ worker'[w].pc = label
        /\ worker'[w].sched = worker[w].sched /\ worker'[w].ok = worker[w].ok
        /\ \A v \in Workers \ {w} : worker'[v] = worker[v]
    BY <1>1, <2>1, WGotoType DEF Label
  <2> QED
    BY <1>1, <1>2, <2>1, <2>2, <2>3, StillTold, QuietStory DEF Story
<1> QED
  BY <1>3, <1>4, <1>5, <1>6

LEMMA DNextStory ==
    ASSUME LostReplies = FALSE, OneHolder, Story, [DNext]_vars
    PROVE  Story'
<1>1. ASSUME NEW w \in Workers, Finish(w) \/ WorkerCrash(w)
      PROVE  Story'
  <2>1. CASE Requeued(w)
    BY <2>1, RequeueStory
  <2>2. CASE ~Requeued(w)
    <3>1. Silent /\ worker'[w] = Idle /\ \A v \in Workers \ {w} : worker'[v] = worker[v]
      BY <1>1 DEF Finish, WorkerCrash, Silent, OneHolder, DType, DTypeOK
    <3>2. Quiet
      <4>1. WorkersKeep
        BY <3>1 DEF WorkersKeep
      <4> QED
        BY <1>1, <2>2, <4>1 DEF Finish, WorkerCrash, Requeued, Quiet, schedVars
    <3> QED
      BY <3>1, <3>2, StillTold, QuietStory DEF Story
  <2> QED
    BY <2>1, <2>2
<1>2. CASE DTick \/ UNCHANGED vars
  <2>1. Quiet /\ Silent /\ worker' = worker
    BY <1>2 DEF DTick, vars, schedVars, dispVars, Quiet, WorkersKeep, Silent
  <2> QED
    BY <2>1, StillTold, QuietStory DEF Story
<1>3. ASSUME NEW r \in Removers, NEW e \in Events,
             DeleteEvent(r, e) \/ \E row \in Row : UpdateEvent(r, e, row)
      PROVE  Story'
  <2>1. Quiet /\ Silent /\ worker' = worker
    BY <1>3 DEF DeleteEvent, UpdateEvent, Quiet, WorkersKeep, Silent
  <2> QED
    BY <2>1, StillTold, QuietStory DEF Story
<1>4. ASSUME NEW w \in Workers, WorkerStep(w) \/ WorkerCrash(w)
      PROVE  Story'
  BY <1>1, <1>4, PopStory, ExecuteStory, LogErrStory, LogStory, SilentWorkerStory DEF WorkerStep
<1> QED
  BY <1>2, <1>3, <1>4, ServiceStory, RetryStory DEF DNext

LEMMA DInitStory == DInit => Story
<1> SUFFICES ASSUME DInit
             PROVE  Story
  OBVIOUS
<1>1. \A s : ~Waits(s)
  BY DEF DInit, Init, Waits, InCore
<1>2. AttemptsBounded
  BY DispatcherAssumption DEF DInit, AttemptsBounded
<1> QED
  BY <1>1, <1>2 DEF DInit, Story, LogConsistent

LEMMA StoryAlways ==
    ASSUME LostReplies = FALSE
    PROVE  DSpec => [](OneHolder /\ Story)
<1>1. OneHolder /\ Story /\ [DNext]_vars => OneHolder' /\ Story'
  BY DNextOneHolder, DNextStory
<1> QED
  BY <1>1, DInitOneHolder, DInitStory, PTL DEF DSpec

\* With replies that are never lost, the action of an occurrence is executed at
\* most max(1, max_retries) times (dispatcher.go:229-279), for any number of
\* workers and whatever fails, crashes or is edited on the way.
THEOREM ExecutionsBounded ==
    ASSUME LostReplies = FALSE
    PROVE  DSpec => []AttemptsBounded
<1>1. OneHolder /\ Story => AttemptsBounded
  BY DEF Story
<1> QED
  BY <1>1, StoryAlways, PTL

\* The occurrences table tells the truth (dispatcher.go:60-183): no attempt is
\* logged twice, a completed row is a delivery, and nothing comes after it.
THEOREM LogIsTrue ==
    ASSUME LostReplies = FALSE
    PROVE  DSpec => []LogConsistent
<1>1. OneHolder /\ Story => LogConsistent
  BY DEF Story
<1> QED
  BY <1>1, StoryAlways, PTL

\* Only the execution of an occurrence counts a call, and it is not executed
\* once it was delivered.
LEMMA OnlyUndeliveredExecuted ==
    ASSUME OneHolder, Story, [DNext]_vars
    PROVE  \A o \in 1..MaxOid : delivered[o] > 0 => calls'[o] = calls[o]
<1>1. ASSUME NEW w \in Workers, NEW ok \in BOOLEAN, Execute(w, ok)
      PROVE  \A o \in 1..MaxOid : delivered[o] > 0 => calls'[o] = calls[o]
  <2>1. worker[w] # Idle /\ DTypeOK
    BY <1>1, LabelIsBusy DEF Execute, Label, OneHolder, DType
  <2>2. worker[w].sched.oid \in 1..MaxOid
    BY <2>1, BusyWorker DEF Schedule
  <2>3. delivered[worker[w].sched.oid] = 0
    BY <1>1, <2>1 DEF Execute, Story, WorkerStory, Before, Untold
  <2> QED
    BY <1>1, <2>1, <2>2, <2>3 DEF Execute, DTypeOK
<1>2. CASE UNCHANGED calls
  BY <1>2
<1>3. ASSUME NEW w \in Workers, WorkerStep(w) \/ WorkerCrash(w),
             ~\E ok \in BOOLEAN : Execute(w, ok)
      PROVE  UNCHANGED calls
  BY <1>3 DEF WorkerStep, WorkerCrash, BRPop, GetByID, LogErrOccurrence, CleanZRem, CleanHDel,
     LogOccurrence, CountCompleted, Update, Finish
<1>4. CASE (ServiceStep /\ UNCHANGED dispVars) \/ RetryPoller \/ DTick \/ UNCHANGED vars
  BY <1>4 DEF dispVars, RetryPoller, DTick, vars
<1>5. ASSUME NEW r \in Removers, NEW e \in Events,
             DeleteEvent(r, e) \/ \E row \in Row : UpdateEvent(r, e, row)
      PROVE  UNCHANGED calls
  BY <1>5 DEF DeleteEvent, UpdateEvent
<1> QED
  BY <1>1, <1>2, <1>3, <1>4, <1>5 DEF DNext

\* After a successful execution the occurrence is never executed again
\* (dispatcher.go:243-279), even when logging it or inactivating its event
\* fails, or the process dies before it notes the success.
THEOREM NoExecutionAfterSuccess ==
    ASSUME LostReplies = FALSE
    PROVE  DSpec => NoCallAfterSuccess
<1>1. OneHolder /\ Story /\ [DNext]_vars =>
        [\A o \in 1..MaxOid : delivered[o] > 0 => calls'[o] = calls[o]]_vars
  BY OnlyUndeliveredExecuted
<1> QED
  BY <1>1, StoryAlways, PTL DEF DSpec, NoCallAfterSuccess

-----------------------------------------------------------------------------
(* The refinement of module Delivery: an occurrence at a time *)

\* A worker has the occurrence o.
Runs(o) == \E w \in Workers : worker[w] # Idle /\ worker[w].sched.oid = o

\* The occurrence o waits for a worker.
Stands(o) == CoreHas(o) \/ \E q \in retryQueue : q.sched.oid = o

\* The stage of o in module Delivery.
StageOf(o) ==
    IF o >= nextOid THEN "unborn"
    ELSE IF Runs(o) THEN "running"
    ELSE IF Stands(o) THEN "waiting" ELSE "out"

LEMMA StageCases ==
    ASSUME NEW o
    PROVE  RunningStage(o) = StageOf(o) /\ RunningStage(o)' = StageOf(o)'
<1>1. InPipeline(o) <=> Runs(o) \/ Stands(o)
  BY DEF InPipeline, Runs, Stands, CoreHas
<1>2. InPipeline(o)' <=> Runs(o)' \/ Stands(o)'
  BY DEF InPipeline, Runs, Stands, CoreHas
<1> QED
  BY <1>1, <1>2 DEF RunningStage, StageOf, Runs

DeliveryStep == [D!AbstractNext]_(D!deliveryVars)

\* A step that moves one occurrence, or none.
LEMMA OneMoves ==
    ASSUME UNCHANGED <<calls, delivered>>, NEW o \in 1..MaxOid,
           \A x \in 1..MaxOid : x # o => StageOf(x)' = StageOf(x),
           \/ StageOf(o)' = StageOf(o)
           \/ StageOf(o) = "unborn" /\ StageOf(o)' = "waiting"
           \/ StageOf(o) = "waiting" /\ StageOf(o)' = "running"
           \/ StageOf(o) \in {"waiting", "running"} /\ StageOf(o)' = "out"
           \/ StageOf(o) = "running" /\ StageOf(o)' = "waiting" /\ delivered[o] = 0
    PROVE  DeliveryStep
<1> DEFINE st == [x \in 1..MaxOid |-> RunningStage(x)]
           su == [x \in 1..MaxOid |-> delivered[x] > 0]
<1>1. \A x \in 1..MaxOid : st[x] = StageOf(x) /\ st'[x] = StageOf(x)'
  BY StageCases
<1>2. st' = [st EXCEPT ![o] = StageOf(o)']
  BY <1>1
<1>3. st' = st \/ st[o] # st'[o]
  BY <1>1
<1>4. su' = su /\ (delivered[o] = 0 => ~su[o])
  <2>1. su' = su
    BY Zenon
  <2>2. su[o] = (delivered[o] > 0)
    BY Zenon
  <2>3. delivered[o] = 0 => ~(delivered[o] > 0)
    OBVIOUS
  <2> QED
    BY <2>1, <2>2, <2>3, Zenon
<1>5. CASE st' = st
  BY <1>4, <1>5 DEF DeliveryStep, D!deliveryVars
<1>6. ASSUME NEW a, NEW b, st[o] = a, StageOf(o)' = b
      PROVE  D!Move(o, a, b)
  BY <1>2, <1>4, <1>6 DEF D!Move
<1>7. CASE StageOf(o) = "unborn" /\ StageOf(o)' = "waiting"
  BY <1>1, <1>6, <1>7 DEF DeliveryStep, D!AbstractNext, D!Accept
<1>8. CASE StageOf(o) = "waiting" /\ StageOf(o)' = "running"
  BY <1>1, <1>6, <1>8 DEF DeliveryStep, D!AbstractNext, D!Start
<1>9. CASE StageOf(o) \in {"waiting", "running"} /\ StageOf(o)' = "out"
  BY <1>1, <1>6, <1>9 DEF DeliveryStep, D!AbstractNext, D!Leave
<1>10. CASE StageOf(o) = "running" /\ StageOf(o)' = "waiting" /\ delivered[o] = 0
  BY <1>1, <1>4, <1>6, <1>10 DEF DeliveryStep, D!AbstractNext, D!Requeue
<1> QED
  BY <1>1, <1>3, <1>5, <1>7, <1>8, <1>9, <1>10

\* Who stands and who runs, one after the other.
LEMMA Exclusive ==
    ASSUME OneHolder, NEW o
    PROVE  /\ Runs(o) => ~Stands(o) /\ o < nextOid /\ o \in 1..MaxOid
           /\ Stands(o) => o < nextOid /\ o \in 1..MaxOid
           /\ nextOid \in 1..(MaxOid + 1)
           /\ \A x \in 1..MaxOid : x < nextOid <=> ~(x >= nextOid)
<1>1. Runs(o) => ~Stands(o)
  BY DEF OneHolder, HeldOnce, WorkersNotElsewhere, Runs, Stands, CoreHas
<1>2. Runs(o) => o < nextOid
  BY DEF OneHolder, OidsHanded, Runs
<1>3. Stands(o) => o < nextOid
  BY DEF OneHolder, OneCopy, OidsIssued, OidsHanded, Stands, CoreHas
<1>4. \A s \in Schedule : s.oid \in 1..MaxOid
  BY DEF Schedule
<1>5. Runs(o) => o \in 1..MaxOid
  BY <1>4, BusyWorker DEF OneHolder, DType, Runs
<1>6. Stands(o) => o \in 1..MaxOid
  <2>1. \A c \in Callers : caller[c] # Idle => caller[c].sched \in Schedule
    BY BusyCaller DEF OneHolder, OneCopy
  <2>2. \A i \in 1..Len(dispatchQueue) : dispatchQueue[i] \in Schedule
    BY ElementOfSeq DEF OneHolder, OneCopy, TypeOK
  <2>3. (\A s \in data : s \in Schedule) /\ (\A q \in retryQueue : q.sched \in Schedule)
    BY DEF OneHolder, DType, DTypeOK, TypeOK, RetryItem
  <2> QED
    BY <1>4, <2>1, <2>2, <2>3 DEF Stands, CoreHas
<1>7. nextOid \in 1..(MaxOid + 1)
  BY DEF OneHolder, OneCopy, TypeOK
<1>8. \A x \in 1..MaxOid : x < nextOid <=> ~(x >= nextOid)
  BY <1>7, SchedulerAssumption
<1> QED
  BY <1>1, <1>2, <1>3, <1>5, <1>6, <1>7, <1>8

\* A step in which one occurrence may leave, and the others stay where they are.
LEMMA OneLeaves ==
    ASSUME OneHolder, UNCHANGED <<nextOid, calls, delivered>>, NEW o,
           \A x : x # o => (Runs(x)' <=> Runs(x)) /\ (Stands(x)' <=> Stands(x)),
           (Runs(o)' => Runs(o)) /\ (Stands(o)' => Stands(o))
    PROVE  DeliveryStep
<1>1. \A x \in 1..MaxOid : x # o => StageOf(x)' = StageOf(x)
  BY DEF StageOf
<1>2. CASE (Runs(o)' <=> Runs(o)) /\ (Stands(o)' <=> Stands(o))
  <2>1. \A x \in 1..MaxOid : StageOf(x)' = StageOf(x)
    BY <1>2 DEF StageOf
  <2>2. CASE 1..MaxOid # {}
    BY <2>1, <2>2, OneMoves
  <2>3. CASE 1..MaxOid = {}
    BY <2>3 DEF DeliveryStep, D!deliveryVars
  <2> QED
    BY <2>2, <2>3
<1>3. CASE Runs(o) /\ ~Runs(o)'
  <2>1. o \in 1..MaxOid /\ StageOf(o) = "running" /\ StageOf(o)' = "out"
    BY <1>3, Exclusive DEF StageOf
  <2> QED
    BY <1>1, <2>1, OneMoves
<1>4. CASE ~Runs(o) /\ Stands(o) /\ ~Stands(o)'
  <2>1. o \in 1..MaxOid /\ StageOf(o) = "waiting" /\ StageOf(o)' = "out"
    BY <1>4, Exclusive DEF StageOf
  <2> QED
    BY <1>1, <2>1, OneMoves
<1> QED
  BY <1>2, <1>3, <1>4, Exclusive

\* The hash has one value per key, so that an HSET replaces at most one value
\* and an HDEL removes at most one.
KeyedOnce == \A s, t \in data : KeyOf(s) = KeyOf(t) => s = t

LEMMA DNextKeyedOnce ==
    ASSUME DType, KeyedOnce, [DNext]_vars
    PROVE  KeyedOnce'
<1>1. data' \subseteq data \/ \E c \in Callers : data' = DataWith(caller[c].sched)
  <2>1. CASE ServiceStep
    BY <2>1 DEF ServiceStep, ScheduleEvent, CallerStep, CallerCrash, HExists, ZAdd, HSet,
       RemoverStep, RemoverCrash, RemZRange, RemHGet, RemZRem, RemHDel, GetDueSchedules,
       DataWithout
  <2>2. (\E w \in Workers : BRPop(w) \/ Requeued(w)) \/ RetryPoller \/ Quiet
        => data' \subseteq data
    BY DEF BRPop, Requeued, RetryPoller, Quiet, schedVars
  <2> QED
    BY <2>1, <2>2, StepKinds
<1> QED
  BY <1>1 DEF KeyedOnce, DataWith

\* A call of ScheduleEvent that goes on, ends or fails, without the hash.
LEMMA CallerLeaves ==
    ASSUME OneHolder, UNCHANGED dispVars, NEW c \in Callers, caller[c] # Idle,
           Return(c) \/ Failed(c) \/ (\E label \in {"zadd", "hset"} : Goto(c, label)),
           UNCHANGED <<nextOid, data, dispatchQueue>>
    PROVE  DeliveryStep
<1> DEFINE o == caller[c].sched.oid
<1>1. /\ \A d \in Callers \ {c} : caller'[d] = caller[d]
      /\ caller'[c] # Idle => caller'[c].sched = caller[c].sched
  BY BusyCaller DEF OneHolder, OneCopy, TypeOK, Return, Failed, Goto
<1>2. UNCHANGED <<worker, retryQueue, calls, delivered>>
  BY DEF dispVars
<1>3. \A x : Runs(x)' <=> Runs(x)
  BY <1>2 DEF Runs
<1>4. \A x : x # o => (CoreHas(x)' <=> CoreHas(x))
  BY <1>1 DEF CoreHas
<1>5. Stands(o)
  BY DEF Stands, CoreHas
<1>6. \A x : x # o => (Stands(x)' <=> Stands(x))
  BY <1>2, <1>4 DEF Stands
<1> HIDE DEF o
<1> QED
  BY <1>2, <1>3, <1>5, <1>6, OneLeaves

\* HSET: the caller's occurrence is stored, and the one it replaces leaves.
LEMMA HSetLeaves ==
    ASSUME LostReplies = FALSE, OneHolder, KeyedOnce, UNCHANGED dispVars, NEW c \in Callers,
           HSet(c)
    PROVE  DeliveryStep
<1> DEFINE s == caller[c].sched
<1>1. caller[c] # Idle /\ UNCHANGED <<nextOid, dispatchQueue>>
  BY DEF HSet, Idle
<1>2. CASE UNCHANGED data /\ Failed(c)
  BY <1>1, <1>2, CallerLeaves
<1>3. CASE data' = DataWith(s) /\ Return(c)
  <2>1. caller'[c] = Idle /\ \A d \in Callers \ {c} : caller'[d] = caller[d]
    BY <1>3 DEF OneHolder, OneCopy, TypeOK, Return
  <2>2. UNCHANGED <<worker, retryQueue, calls, delivered>>
    BY DEF dispVars
  <2>3. \A x : Runs(x)' <=> Runs(x)
    BY <2>2 DEF Runs
  <2>4. s \in data' /\ CoreHas(s.oid)
    BY <1>1, <1>3 DEF DataWith, CoreHas
  <2>5. CASE \A d \in data : KeyOf(d) # KeyOf(s)
    <3>1. data' = data \cup {s}
      BY <1>3, <2>5 DEF DataWith
    <3>2. \A x : CoreHas(x)' <=> CoreHas(x)
      BY <1>1, <2>1, <2>4, <3>1 DEF CoreHas
    <3>3. \A x : Stands(x)' <=> Stands(x)
      BY <2>2, <3>2 DEF Stands
    <3> QED
      BY <1>1, <2>2, <2>3, <3>3, OneLeaves
  <2>6. ASSUME NEW d \in data, KeyOf(d) = KeyOf(s)
        PROVE  DeliveryStep
    <3>1. data' = (data \ {d}) \cup {s}
      BY <1>3, <2>6 DEF DataWith, KeyedOnce
    <3>2. \A x : x # d.oid => (CoreHas(x)' <=> CoreHas(x))
      BY <1>1, <2>1, <2>4, <3>1 DEF CoreHas
    <3>3. \A x : x # d.oid => (Stands(x)' <=> Stands(x))
      BY <2>2, <3>2 DEF Stands
    <3>4. Stands(d.oid)
      BY DEF Stands, CoreHas
    <3> QED
      BY <1>1, <2>2, <2>3, <3>3, <3>4, OneLeaves
  <2> QED
    BY <2>5, <2>6
<1> QED
  BY <1>2, <1>3 DEF HSet

\* HDEL of one key, by a removal or by the clean-up of a worker.
LEMMA HDelLeaves ==
    ASSUME OneHolder, KeyedOnce, NEW k, data' = DataWithout(k),
           UNCHANGED <<nextOid, dispatchQueue, caller, retryQueue, calls, delivered>>,
           \A x : Runs(x)' <=> Runs(x)
    PROVE  DeliveryStep
<1>1. CASE \A d \in data : KeyOf(d) # k
  <2>1. data' = data
    BY <1>1 DEF DataWithout
  <2>2. \A x : Stands(x)' <=> Stands(x)
    BY <2>1 DEF Stands, CoreHas
  <2> QED
    BY <2>2, OneLeaves
<1>2. ASSUME NEW d \in data, KeyOf(d) = k
      PROVE  DeliveryStep
  <2>1. data' = data \ {d}
    BY <1>2 DEF DataWithout, KeyedOnce
  <2>2. \A x : x # d.oid => (Stands(x)' <=> Stands(x))
    BY <2>1 DEF Stands, CoreHas
  <2>3. Stands(d.oid)
    BY DEF Stands, CoreHas
  <2> QED
    BY <2>2, <2>3, OneLeaves
<1> QED
  BY <1>1, <1>2

\* The poller moves every due value from the hash to the dispatch queue.
LEMMA PolledAll ==
    ASSUME TypeOK, GetDueSchedules
    PROVE  \A x : CoreHas(x)' <=> CoreHas(x)
<1> DEFINE m == Len(dispatchQueue)
<1>1. PICK batch \in ScoreOrders(Due) : dispatchQueue' = dispatchQueue \o batch
  BY DEF GetDueSchedules
<1>2. /\ batch \in Seq(Schedule)
      /\ \A i \in 1..Len(batch) : batch[i] \in Due
      /\ \A s \in Due : \E i \in 1..Len(batch) : batch[i] = s
  BY PolledBatch DEF ScoreOrders
<1>3. m \in Nat /\ Len(batch) \in Nat
  BY <1>2, LenProperties DEF TypeOK
<1>4. /\ Len(dispatchQueue') = m + Len(batch)
      /\ \A i \in 1..(m + Len(batch)) :
            dispatchQueue'[i] = IF i <= m THEN dispatchQueue[i] ELSE batch[i - m]
  BY <1>1, <1>2, ConcatProperties DEF TypeOK
<1>5. /\ \A i \in 1..m : i \in 1..Len(dispatchQueue') /\ dispatchQueue'[i] = dispatchQueue[i]
      /\ \A i \in 1..Len(batch) :
            m + i \in 1..Len(dispatchQueue') /\ dispatchQueue'[m + i] = batch[i]
  <2> HIDE DEF m
  <2> QED
    BY <1>3, <1>4
<1>6. /\ \A i \in 1..m : \E j \in 1..Len(dispatchQueue') : dispatchQueue'[j] = dispatchQueue[i]
      /\ \A s \in Due : \E j \in 1..Len(dispatchQueue') : dispatchQueue'[j] = s
  BY <1>2, <1>5
<1>7. \A i \in 1..Len(dispatchQueue') :
          \/ i \in 1..m /\ dispatchQueue'[i] = dispatchQueue[i]
          \/ dispatchQueue'[i] \in Due
  BY PolledQueue
<1>8. data' = data \ Due /\ Due \subseteq data /\ caller' = caller
  BY DEF GetDueSchedules, Due
<1> HIDE DEF m
<1>9. ASSUME NEW x, CoreHas(x)
      PROVE  CoreHas(x)'
  <2>1. CASE \E c \in Callers : caller[c] # Idle /\ caller[c].sched.oid = x
    BY <1>8, <2>1 DEF CoreHas
  <2>2. CASE \E s \in data : s.oid = x
    BY <1>6, <1>8, <2>2 DEF CoreHas
  <2>3. CASE \E i \in 1..m : dispatchQueue[i].oid = x
    BY <1>6, <2>3 DEF CoreHas
  <2> QED
    BY <1>9, <2>1, <2>2, <2>3 DEF CoreHas, m
<1>10. ASSUME NEW x, CoreHas(x)'
       PROVE  CoreHas(x)
  <2>1. CASE \E c \in Callers : caller'[c] # Idle /\ caller'[c].sched.oid = x
    BY <1>8, <2>1 DEF CoreHas
  <2>2. CASE \E s \in data' : s.oid = x
    BY <1>8, <2>2 DEF CoreHas
  <2>3. CASE \E i \in 1..Len(dispatchQueue') : dispatchQueue'[i].oid = x
    BY <1>7, <1>8, <2>3 DEF CoreHas, m
  <2> QED
    BY <1>10, <2>1, <2>2, <2>3 DEF CoreHas
<1> QED
  BY <1>9, <1>10

LEMMA ServiceDelivers ==
    ASSUME LostReplies = FALSE, OneHolder, KeyedOnce, ServiceStep, UNCHANGED dispVars
    PROVE  DeliveryStep
<1>1. UNCHANGED <<worker, retryQueue, calls, delivered>>
  BY DEF dispVars
<1>2. \A x : Runs(x)' <=> Runs(x)
  BY <1>1 DEF Runs
<1>3. ASSUME NEW c \in Callers, NEW k \in Key, ScheduleEvent(c, k)
      PROVE  DeliveryStep
  <2>1. nextOid \in 1..MaxOid /\ nextOid' = nextOid + 1
    BY <1>3, SchedulerAssumption DEF ScheduleEvent, OneHolder, OneCopy, TypeOK
  <2>2. /\ caller[c] = Idle
        /\ caller'[c] # Idle /\ caller'[c].sched.oid = nextOid
        /\ \A d \in Callers \ {c} : caller'[d] = caller[d]
        /\ UNCHANGED <<data, dispatchQueue>>
    BY <1>3 DEF ScheduleEvent, OneHolder, OneCopy, TypeOK, Idle
  <2>3. \A x : x # nextOid => (CoreHas(x)' <=> CoreHas(x))
    BY <2>2 DEF CoreHas
  <2>4. \A x : x # nextOid => (Stands(x)' <=> Stands(x))
    BY <1>1, <2>3 DEF Stands
  <2>5. \A x : x = nextOid => Stands(x)' /\ ~Runs(x)'
    BY <1>2, <2>1, <2>2, Exclusive DEF Stands, CoreHas
  <2>6. \A x \in 1..MaxOid : x # nextOid => (x >= nextOid + 1 <=> x >= nextOid)
    BY <2>1
  <2>7. \A x \in 1..MaxOid : x # nextOid => StageOf(x)' = StageOf(x)
    BY <1>2, <2>1, <2>4, <2>6 DEF StageOf
  <2>8. \A x : x = nextOid => StageOf(x) = "unborn" /\ StageOf(x)' = "waiting"
    <3>1. nextOid >= nextOid /\ ~(nextOid >= nextOid + 1)
      BY <2>1
    <3> QED
      BY <2>1, <2>5, <3>1 DEF StageOf
  <2> QED
    BY <1>1, <2>1, <2>7, <2>8, OneMoves
<1>4. ASSUME NEW c \in Callers, CallerStep(c) \/ CallerCrash(c)
      PROVE  DeliveryStep
  <2>1. caller[c] # Idle
    BY <1>4 DEF CallerStep, CallerCrash, HExists, ZAdd, HSet, Idle
  <2>2. CASE HExists(c) \/ ZAdd(c) \/ CallerCrash(c)
    BY <2>1, <2>2, CallerLeaves DEF HExists, ZAdd, CallerCrash
  <2> QED
    BY <1>4, <2>2, HSetLeaves DEF CallerStep
<1>5. ASSUME \A x : CoreHas(x)' <=> CoreHas(x), nextOid' = nextOid
      PROVE  DeliveryStep
  <2>1. \A x : Stands(x)' <=> Stands(x)
    BY <1>1, <1>5 DEF Stands
  <2> QED
    BY <1>1, <1>2, <1>5, <2>1, OneLeaves
<1>6. ASSUME NEW r \in Removers, RemoverStep(r) \/ RemoverCrash(r)
      PROVE  DeliveryStep
  <2>1. UNCHANGED <<nextOid, dispatchQueue, caller>>
    BY <1>6 DEF RemoverStep, RemZRange, RemHGet, RemZRem, RemHDel, RemoverCrash
  <2>2. CASE UNCHANGED data
    BY <1>5, <2>1, <2>2 DEF CoreHas
  <2>3. CASE data' = DataWithout(remover[r].key)
    BY <1>1, <1>2, <2>1, <2>3, HDelLeaves
  <2> QED
    BY <1>6, <2>2, <2>3 DEF RemoverStep, RemZRange, RemHGet, RemZRem, RemHDel, RemoverCrash
<1>7. CASE GetDueSchedules
  BY <1>5, <1>7, PolledAll DEF GetDueSchedules, OneHolder, OneCopy
<1> QED
  BY <1>3, <1>4, <1>6, <1>7 DEF ServiceStep

LEMMA PopDelivers ==
    ASSUME OneHolder, NEW w \in Workers, BRPop(w)
    PROVE  DeliveryStep
<1> DEFINE n == Len(dispatchQueue)
           o == dispatchQueue[n].oid
<1>1. /\ n \in 1..n
      /\ Len(dispatchQueue') = n - 1
      /\ \A i \in 1..(n - 1) : i \in 1..n /\ i # n /\ dispatchQueue'[i] = dispatchQueue[i]
      /\ \A i \in 1..n : i = n \/ i \in 1..(n - 1)
  BY PoppedQueue DEF OneHolder, OneCopy
<1>2. /\ worker[w] = Idle
      /\ worker'[w] # Idle /\ worker'[w].sched.oid = o
      /\ \A v \in Workers \ {w} : worker'[v] = worker[v]
  BY DEF BRPop, OneHolder, DType, DTypeOK, Idle
<1>3. UNCHANGED <<nextOid, caller, data, retryQueue, calls, delivered>>
  BY DEF BRPop
<1>4. CoreHas(o)
  BY <1>1 DEF CoreHas
<1>5. /\ \A t \in data : t.oid # o
      /\ \A i \in 1..(n - 1) : dispatchQueue[i].oid # o
      /\ \A c \in Callers : caller[c] # Idle => caller[c].sched.oid # o
      /\ \A q \in retryQueue : q.sched.oid # o
  BY <1>1 DEF OneHolder, OneCopy, HeldOnce, OidInOnePlace, StoredOnce, QueueDistinct,
     DataNotQueued, CallersNotStored, RetriesNotElsewhere
<1> HIDE DEF n
<1>6. \A x : x # o => (CoreHas(x)' <=> CoreHas(x))
  BY <1>1, <1>3 DEF CoreHas, n
<1>7. \A x : x # o => (Stands(x)' <=> Stands(x)) /\ (Runs(x)' <=> Runs(x))
  BY <1>2, <1>3, <1>6 DEF Stands, Runs
<1>8. \A x : x = o => Runs(x)'
  BY <1>2 DEF Runs
<1> HIDE DEF o
<1>9. Stands(o)
  BY <1>4 DEF Stands
<1>10. o \in 1..MaxOid /\ ~Runs(o) /\ ~(o >= nextOid)
  BY <1>9, Exclusive
<1>11. \A x : x = o => StageOf(x) = "waiting" /\ StageOf(x)' = "running"
  BY <1>3, <1>8, <1>9, <1>10 DEF StageOf
<1>12. \A x \in 1..MaxOid : x # o => StageOf(x)' = StageOf(x)
  BY <1>3, <1>7 DEF StageOf
<1> QED
  BY <1>3, <1>10, <1>11, <1>12, OneMoves

LEMMA RequeueDelivers ==
    ASSUME OneHolder, Story, NEW w \in Workers, Requeued(w)
    PROVE  DeliveryStep
<1> DEFINE s == worker[w].sched
           t == [s EXCEPT !.attempt = @ + 1]
           o == s.oid
<1>1. worker[w] # Idle /\ s \in Schedule /\ DTypeOK
  BY LabelIsBusy, BusyWorker DEF Requeued, Label, OneHolder, DType
<1>2. t.oid = o /\ o \in 1..MaxOid
  BY <1>1 DEF Schedule
<1>3. worker'[w] = Idle /\ \A v \in Workers \ {w} : worker'[v] = worker[v]
  BY <1>1 DEF Requeued, DTypeOK
<1>4. UNCHANGED <<nextOid, caller, data, dispatchQueue, calls, delivered>>
  BY DEF Requeued, schedVars
<1>5. delivered[o] = 0
  <2>1. Told(w) /\ ~worker[w].ok
    BY <1>1 DEF Requeued, Story, WorkerStory, Before
  <2>2. delivered[o] \in Nat
    BY <1>1, <1>2 DEF DTypeOK
  <2> QED
    BY <2>1, <2>2 DEF Told
<1>6. Runs(o) /\ ~Stands(o) /\ ~(o >= nextOid)
  BY <1>1, <1>2, Exclusive DEF Runs
<1>7. \A v \in Workers \ {w} : worker[v] # Idle => worker[v].sched.oid # o
  BY <1>1, HeldAlone
<1> DEFINE item == [sched |-> t, due |-> now + RetryDelay]
<1>8. item \in retryQueue' /\ item.sched.oid = o
  BY <1>2 DEF Requeued, RetryQueueWith
<1> HIDE DEF t, item
<1>9. retryQueue' = {r \in retryQueue : r.sched # t} \cup {item}
  BY DEF Requeued, RetryQueueWith, t, item
<1>10. \A r \in retryQueue : r.sched # t
  BY <1>2, <1>6 DEF Stands
<1>11. retryQueue' = retryQueue \cup {item}
  BY <1>9, <1>10
<1> HIDE DEF o
<1>12. \A x : (x # o => (Stands(x)' <=> Stands(x))) /\ (x = o => Stands(x)')
  BY <1>4, <1>8, <1>11 DEF Stands, CoreHas
<1>13. \A x : (x # o => (Runs(x)' <=> Runs(x))) /\ (x = o => ~Runs(x)')
  BY <1>3, <1>7 DEF Runs, o
<1>14. \A x : x = o => StageOf(x) = "running" /\ StageOf(x)' = "waiting"
  BY <1>4, <1>6, <1>12, <1>13 DEF StageOf
<1>15. \A x \in 1..MaxOid : x # o => StageOf(x)' = StageOf(x)
  BY <1>4, <1>12, <1>13 DEF StageOf
<1> QED
  BY <1>2, <1>4, <1>5, <1>14, <1>15, OneMoves

LEMMA RetryDelivers ==
    ASSUME OneHolder, RetryPoller
    PROVE  DeliveryStep
<1> DEFINE m == Len(dispatchQueue)
           n == Cardinality(DueRetries)
<1>1. PICK batch \in RetryOrders(DueRetries) :
        /\ Len(dispatchQueue') = m + n
        /\ \A i \in 1..(m + n) :
              \/ i \in 1..m /\ dispatchQueue'[i] = dispatchQueue[i]
              \/ i - m \in 1..n /\ dispatchQueue'[i] = batch[i - m].sched
        /\ \A i \in 1..m : i \in 1..(m + n) /\ dispatchQueue'[i] = dispatchQueue[i]
        /\ \A i \in 1..n : /\ batch[i] \in DueRetries
                           /\ m + i \in 1..(m + n)
                           /\ dispatchQueue'[m + i] = batch[i].sched
        /\ \A r \in DueRetries : \E i \in 1..n : batch[i] = r
  BY RetriedQueue DEF OneHolder, DType
<1>2. UNCHANGED <<nextOid, caller, data, worker, calls, delivered>>
  BY DEF RetryPoller
<1>3. retryQueue' = retryQueue \ DueRetries /\ DueRetries \subseteq retryQueue
  BY DEF RetryPoller, DueRetries
<1> HIDE DEF m, n
<1>4. \A i \in 1..(m + n) : \/ \E j \in 1..m : dispatchQueue'[i] = dispatchQueue[j]
                            \/ \E r \in DueRetries : dispatchQueue'[i] = r.sched
  BY <1>1
<1>5. /\ \A i \in 1..m : \E j \in 1..(m + n) : dispatchQueue'[j] = dispatchQueue[i]
      /\ \A r \in DueRetries : \E j \in 1..(m + n) : dispatchQueue'[j] = r.sched
  BY <1>1
<1>6. ASSUME NEW x, Stands(x)
      PROVE  Stands(x)'
  <2>1. CASE \E i \in 1..m : dispatchQueue[i].oid = x
    BY <1>1, <1>5, <2>1 DEF Stands, CoreHas
  <2>2. CASE \E q \in retryQueue : q.sched.oid = x
    BY <1>1, <1>3, <1>5, <2>2 DEF Stands, CoreHas
  <2> QED
    BY <1>2, <1>6, <2>1, <2>2 DEF Stands, CoreHas, m
<1>7. ASSUME NEW x, Stands(x)'
      PROVE  Stands(x)
  <2>1. CASE \E i \in 1..(m + n) : dispatchQueue'[i].oid = x
    BY <1>3, <1>4, <2>1 DEF Stands, CoreHas, m
  <2>2. CASE \E q \in retryQueue' : q.sched.oid = x
    BY <1>3, <2>2 DEF Stands
  <2> QED
    BY <1>1, <1>2, <1>7, <2>1, <2>2 DEF Stands, CoreHas
<1>8. \A x : Runs(x)' <=> Runs(x)
  BY <1>2 DEF Runs
<1> QED
  BY <1>2, <1>6, <1>7, <1>8, OneLeaves

\* The execution is an attempt of module Delivery: there is one left, and none
\* of the earlier ones succeeded.
LEMMA ExecuteDelivers ==
    ASSUME OneHolder, Story, NEW w \in Workers, NEW ok \in BOOLEAN, Execute(w, ok)
    PROVE  DeliveryStep
<1> DEFINE s == worker[w].sched
           o == s.oid
           st == [x \in 1..MaxOid |-> RunningStage(x)]
           su == [x \in 1..MaxOid |-> delivered[x] > 0]
<1>1. worker[w] # Idle /\ s \in Schedule /\ DTypeOK
  BY LabelIsBusy, BusyWorker DEF Execute, Label, OneHolder, DType
<1>2. o \in 1..MaxOid /\ s.attempt \in Nat
  BY <1>1 DEF Schedule
<1>3. Untold(s)
  BY <1>1 DEF Execute, Story, WorkerStory, Before
<1>4. worker'[w] # Idle /\ worker'[w].sched = s /\ \A v \in Workers \ {w} : worker'[v] = worker[v]
  BY <1>1, BusyWorker DEF Execute, DTypeOK, Idle
<1>5. UNCHANGED <<nextOid, caller, data, dispatchQueue, retryQueue>>
  BY DEF Execute, schedVars
<1>6. calls' = [calls EXCEPT ![o] = @ + 1]
  BY DEF Execute
<1>7. delivered[o] = 0 /\ calls[o] < IF MaxRetries = 0 THEN 1 ELSE MaxRetries
  <2>1. calls[o] \in Nat /\ calls[o] <= s.attempt /\ delivered[o] = 0 /\ AttemptAllowed(s)
    BY <1>1, <1>2, <1>3 DEF DTypeOK, Untold
  <2> HIDE DEF o, s
  <2> QED
    BY <1>2, <2>1, DispatcherAssumption DEF AttemptAllowed
<1>8. \A x : (Stands(x)' <=> Stands(x)) /\ (Runs(x)' <=> Runs(x))
  BY <1>1, <1>4, <1>5 DEF Stands, CoreHas, Runs
<1>9. \A x : StageOf(x)' = StageOf(x)
  BY <1>5, <1>8 DEF StageOf
<1>10. st' = st
  BY <1>9, StageCases
<1>11. st[o] = "running"
  <2>1. Runs(o)
    BY <1>1 DEF Runs
  <2>2. StageOf(o) = "running"
    BY <1>2, <2>1, Exclusive DEF StageOf
  <2> QED
    BY <1>2, <2>2, StageCases
<1>12. su' = [su EXCEPT ![o] = ok]
  <2>1. /\ (delivered'[o] > 0) = ok
        /\ \A x \in 1..MaxOid : x # o => delivered'[x] = delivered[x]
    BY <1>1, <1>2, <1>7 DEF Execute, DTypeOK
  <2> HIDE DEF o
  <2> QED
    BY <1>2, <2>1, Zenon
<1>13. ~su[o]
  <2>1. su[o] = (delivered[o] > 0)
    BY <1>2, Zenon
  <2>2. ~(delivered[o] > 0)
    BY <1>7
  <2> QED
    BY <2>1, <2>2, Zenon
<1> HIDE DEF o
<1>14. D!Attempt(o, ok)
  BY <1>6, <1>7, <1>10, <1>11, <1>12, <1>13 DEF D!Attempt
<1> QED
  BY <1>2, <1>14 DEF DeliveryStep, D!AbstractNext

\* A worker that goes on with its item, or drops it.
LEMMA WorkerDelivers ==
    ASSUME OneHolder, NEW w \in Workers, worker[w] # Idle,
           \A v \in Workers \ {w} : worker'[v] = worker[v],
           worker'[w] # Idle => worker'[w].sched = worker[w].sched,
           UNCHANGED <<nextOid, caller, data, dispatchQueue, retryQueue, calls, delivered>>
    PROVE  DeliveryStep
<1> DEFINE o == worker[w].sched.oid
<1>1. \A x : Stands(x)' <=> Stands(x)
  BY DEF Stands, CoreHas
<1>2. \A x : x # o => (Runs(x)' <=> Runs(x))
  BY DEF Runs
<1>3. Runs(o)
  BY DEF Runs
<1> HIDE DEF o
<1> QED
  BY <1>1, <1>2, <1>3, OneLeaves

LEMMA WorkerStepDelivers ==
    ASSUME OneHolder, Story, KeyedOnce, NEW w \in Workers, WorkerStep(w) \/ WorkerCrash(w)
    PROVE  DeliveryStep
<1>1. ASSUME worker[w] # Idle, NEW label \in Label, WGoto(w, label)
      PROVE  /\ \A v \in Workers \ {w} : worker'[v] = worker[v]
             /\ worker'[w] # Idle /\ worker'[w].sched = worker[w].sched
  BY <1>1, WGotoType DEF OneHolder, DType
<1>2. CASE GetByID(w)
  <2>1. worker[w] # Idle
    BY <1>2, LabelIsBusy DEF GetByID, Label
  <2>2. CASE \E label \in {"logorphan", "logerr"} : WGoto(w, label)
    BY <1>1, <1>2, <2>1, <2>2, WorkerDelivers DEF GetByID, Label, schedVars
  <2>3. CASE worker' = [worker EXCEPT ![w].pc = "execute",
                                      ![w].row = events[worker[w].sched.event]]
    <3>1. worker'[w].sched = worker[w].sched /\ \A v \in Workers \ {w} : worker'[v] = worker[v]
      BY <2>1, <2>3, BusyWorker DEF OneHolder, DType, DTypeOK
    <3> QED
      BY <1>2, <2>1, <3>1, WorkerDelivers DEF GetByID, schedVars
  <2> QED
    BY <1>2, <2>2, <2>3 DEF GetByID
<1>3. CASE LogErrOccurrence(w) \/ LogOccurrence(w) \/ CountCompleted(w) \/ Update(w)
           \/ CleanZRem(w) \/ CleanHDel(w)
  <2>1. worker[w] # Idle
    BY <1>3, LabelIsBusy DEF LogErrOccurrence, LogOccurrence, CountCompleted, Update, CleanZRem,
       CleanHDel, Label
  <2>2. PICK label \in Label : WGoto(w, label)
    BY <1>3 DEF LogErrOccurrence, CleanZRem, CleanHDel, LogOccurrence, AfterLog,
       CountCompleted, Update, Label
  <2>3. /\ \A v \in Workers \ {w} : worker'[v] = worker[v]
        /\ worker'[w] # Idle /\ worker'[w].sched = worker[w].sched
    BY <1>1, <2>1, <2>2
  <2>4. UNCHANGED <<nextOid, caller, dispatchQueue, retryQueue, calls, delivered>>
    BY <1>3 DEF LogErrOccurrence, LogOccurrence, CountCompleted, Update, CleanZRem, CleanHDel,
       schedVars
  <2>5. CASE UNCHANGED data
    BY <2>1, <2>3, <2>4, <2>5, WorkerDelivers
  <2>6. CASE data' = DataWithout(KeyOf(worker[w].sched))
    <3>1. \A x : Runs(x)' <=> Runs(x)
      BY <2>1, <2>3 DEF Runs
    <3> QED
      BY <2>4, <2>6, <3>1, HDelLeaves
  <2> QED
    BY <1>3, <2>5, <2>6 DEF LogErrOccurrence, LogOccurrence, CountCompleted, Update, CleanZRem,
       CleanHDel, schedVars
<1>4. CASE (Finish(w) /\ UNCHANGED retryQueue) \/ WorkerCrash(w)
  <2>1. worker[w] # Idle
    BY <1>4, LabelIsBusy DEF Finish, WorkerCrash, Label
  <2>2. worker'[w] = Idle /\ \A v \in Workers \ {w} : worker'[v] = worker[v]
    BY <1>4 DEF Finish, WorkerCrash, OneHolder, DType, DTypeOK
  <2> QED
    BY <1>4, <2>1, <2>2, WorkerDelivers DEF Finish, WorkerCrash, schedVars
<1>5. Finish(w) => Requeued(w) \/ UNCHANGED retryQueue
  BY DEF Finish, Requeued
<1> QED
  BY <1>2, <1>3, <1>4, <1>5, PopDelivers, ExecuteDelivers, RequeueDelivers DEF WorkerStep

LEMMA DNextDelivers ==
    ASSUME LostReplies = FALSE, OneHolder, Story, KeyedOnce, [DNext]_vars
    PROVE  DeliveryStep
<1>1. ASSUME UNCHANGED <<nextOid, caller, data, dispatchQueue, retryQueue, worker, calls,
                         delivered>>
      PROVE  DeliveryStep
  <2>1. \A x : (Stands(x)' <=> Stands(x)) /\ (Runs(x)' <=> Runs(x))
    BY <1>1 DEF Stands, CoreHas, Runs
  <2> QED
    BY <1>1, <2>1, OneLeaves
<1>2. CASE DTick \/ UNCHANGED vars
  BY <1>1, <1>2 DEF DTick, vars, schedVars, dispVars
<1>3. ASSUME NEW r \in Removers, NEW e \in Events,
             DeleteEvent(r, e) \/ \E row \in Row : UpdateEvent(r, e, row)
      PROVE  DeliveryStep
  BY <1>1, <1>3 DEF DeleteEvent, UpdateEvent
<1> QED
  BY <1>2, <1>3, ServiceDelivers, WorkerStepDelivers, RetryDelivers DEF DNext

LEMMA DInitDelivers == DInit => D!AbstractInit
<1> SUFFICES ASSUME DInit
             PROVE  D!AbstractInit
  OBVIOUS
<1>1. nextOid = 1 /\ calls = [o \in 1..MaxOid |-> 0] /\ delivered = [o \in 1..MaxOid |-> 0]
  BY DEF DInit, Init
<1>2. [o \in 1..MaxOid |-> RunningStage(o)] = [o \in 1..MaxOid |-> "unborn"]
  BY <1>1, SchedulerAssumption DEF RunningStage
<1>3. [o \in 1..MaxOid |-> delivered[o] > 0] = [o \in 1..MaxOid |-> FALSE]
  <2>1. \A o \in 1..MaxOid : ~(delivered[o] > 0)
    BY <1>1
  <2>2. \A o \in 1..MaxOid : (delivered[o] > 0) = FALSE
    BY <2>1
  <2> QED
    BY <2>2, Zenon
<1> QED
  BY <1>1, <1>2, <1>3 DEF D!AbstractInit

\* With replies that are never lost, the dispatcher on top of the scheduler core
\* implements module Delivery (scheduler.go:38-233, dispatcher.go:60-301): every
\* Redis command, SQL statement, execution, crash and edit moves one occurrence
\* at most, an execution happens only while one is left and none succeeded, and
\* an occurrence that is out never comes back.
THEOREM DeliveryImplemented ==
    ASSUME LostReplies = FALSE
    PROVE  DSpec => ImplementsDelivery
<1>1. OneHolder /\ Story /\ KeyedOnce /\ [DNext]_vars =>
        OneHolder' /\ Story' /\ KeyedOnce' /\ [D!AbstractNext]_(D!deliveryVars)
  BY DNextOneHolder, DNextStory, DNextKeyedOnce, DNextDelivers DEF OneHolder, DeliveryStep
<1>2. DInit => KeyedOnce
  BY DEF DInit, Init, KeyedOnce
<1> QED
  BY <1>1, <1>2, DInitOneHolder, DInitStory, DInitDelivers, PTL
  DEF DSpec, ImplementsDelivery, D!AbstractSpec
=============================================================================
