--------------------------- MODULE ExpanderProofs ---------------------------
(***************************************************************************)
(* Events, expansions and deliveries, for every number of events, service  *)
(* instances, requests and workers, every calendar and every schedule.     *)
(***************************************************************************)
EXTENDS Expander, RecurrenceProofs

\* The schedules that isValidSchedule lets into the table.
Accepted ==
    {x \in {d.schedule : d \in Definitions \cup Edits} : x # <<>> => isValidSchedule(x[1])}

\* No step of a schedule overflows (see Wrapped).  isValidSchedule does not
\* bound the interval from above.
StepsFit == \A x \in Accepted : x # <<>> => Fits(x[1])

Row == [start : Nat, schedule : Accepted, status : Statuses, created : Nat]

Work == [event : Events, row : Row]

Procs == Loops \cup Goroutines

ProcState ==
    {Idle} \cup [pc : {"next"}, list : SUBSET Work]
           \cup [pc : {"exists", "schedule"}, list : SUBSET Work, event : Events,
                 dates : {d \in Seq(Nat) : d # <<>>}]

RequestState ==
    [pc : {"new", "done"}] \cup [pc : {"purge"}, event : Events]
        \cup [pc : {"write", "remove"}, event : Events, row : Row]

\* An item of the queues, with whatever id.
Item(i) ==
    /\ i = [event |-> i.event, at |-> i.at, attempt |-> i.attempt, copy |-> i.copy]
    /\ i.event \in Events /\ i.at \in Nat /\ i.attempt \in Nat
    /\ i.attempt = 0 \/ i.attempt < MaxRetries

Busy(s) ==
    /\ s = [pc |-> s.pc, item |-> s.item, row |-> s.row]
    /\ s.pc \in {"execute", "count", "update"}
    /\ Item(s.item)
    /\ s.row \in Row

OccurrenceRow == [event : Events, at : Nat, status : {"completed", "failed"}, n : Nat \ {0}]

\* The types of everything, rows in hand and dates on their way included.
EType ==
    /\ now \in Nat
    /\ events \in [Events -> Row \cup NoRow]
    /\ occurrences \subseteq OccurrenceRow /\ IsFiniteSet(occurrences)
    /\ stored \subseteq [event : Events, at : Nat]
    /\ \A i \in queue : Item(i)
    /\ proc \in [Procs -> ProcState]
    /\ request \in [Requests -> RequestState]
    /\ worker = [w \in Workers |-> worker[w]]
    /\ \A w \in Workers : worker[w] # Idle => Busy(worker[w])
    /\ faults \in 0..MaxFaults
    /\ edited \subseteq Events

-----------------------------------------------------------------------------
(* Types *)

LEMMA RowFields ==
    ASSUME NEW row \in Row
    PROVE  /\ row \notin NoRow
           /\ row.start \in Nat /\ row.schedule \in Accepted /\ row.status \in Statuses
           /\ row = [start |-> row.start, schedule |-> row.schedule, status |-> row.status,
                     created |-> row.created]
<1>1. DOMAIN row = {"start", "schedule", "status", "created"}
  BY DEF Row
<1>2. \A x \in NoRow : DOMAIN x = {"status"}
  BY DEF NoRow
<1>3. row \notin NoRow
  BY <1>1, <1>2
<1> QED
  BY <1>3 DEF Row

LEMMA ExistingRow ==
    ASSUME EType, NEW e \in Events
    PROVE  Exists(e) <=> events[e] \in Row
BY RowFields DEF EType, Exists

LEMMA AcceptedProper ==
    ASSUME StepsFit, NEW x \in Accepted, x # <<>>
    PROVE  Proper(x[1])
<1>1. PICK d \in Definitions \cup Edits : x = d.schedule
  BY DEF Accepted
<1>2. /\ x[1].interval \in Int /\ x[1].by \in Seq(Int)
      /\ x[1].count \in Seq(Int) /\ x[1].until \in Seq(Int)
  BY <1>1, ExpanderAssumption
<1> QED
  BY <1>2 DEF Accepted, StepsFit, Proper

LEMMA ContinueType ==
    ASSUME NEW list \in SUBSET Work
    PROVE  Continue(list) \in ProcState
BY DEF Continue, ProcState

LEMMA ResumeType ==
    ASSUME NEW list \in SUBSET Work, NEW e \in Events, NEW dates \in Seq(Nat)
    PROVE  Resume(list, e, dates) \in ProcState
BY ContinueType DEF Resume, ProcState

LEMMA GoType ==
    ASSUME EType, NEW e \in Events, NEW row \in Row, Go(e, row)
    PROVE  proc' \in [Procs -> ProcState]
<1>1. PICK g \in Goroutines : proc' = [proc EXCEPT ![g] =
             [pc |-> "next", list |-> {[event |-> e, row |-> row]}]]
  BY DEF Go
<1>2. [pc |-> "next", list |-> {[event |-> e, row |-> row]}] \in ProcState
  BY DEF ProcState, Work
<1> QED
  BY <1>1, <1>2 DEF EType, Procs

LEMMA FaultType ==
    ASSUME EType, Fault
    PROVE  faults' \in 0..MaxFaults
BY ExpanderAssumption DEF EType, Fault

LEMMA LoggedType ==
    ASSUME EType, NEW i, Item(i), NEW status \in {"completed", "failed"}
    PROVE  Logged(i, status) \subseteq OccurrenceRow /\ IsFiniteSet(Logged(i, status))
<1> DEFINE same == {o \in occurrences : o.event = i.event /\ o.at = i.at /\ o.status = status}
           k == Cardinality(same) + 1
           o == [event |-> i.event, at |-> i.at, status |-> status, n |-> k]
<1>1. IsFiniteSet(same)
  BY FS_Subset DEF EType
<1>2. k \in Nat \ {0}
  BY <1>1, FS_CardinalityType
<1>3. o \in OccurrenceRow
  <2> HIDE DEF k
  <2> QED
    BY <1>2 DEF OccurrenceRow, Item
<1>4. Logged(i, status) = occurrences \cup {o}
  BY DEF Logged
<1> HIDE DEF o
<1> QED
  BY <1>3, <1>4, FS_AddElement DEF EType

LEMMA LoggedRows ==
    ASSUME NEW i, NEW status, NEW o \in Logged(i, status), o \notin occurrences
    PROVE  /\ o.event = i.event /\ o.at = i.at /\ o.status = status
           /\ o.n = Cardinality({x \in occurrences : x.event = i.event /\ x.at = i.at
                                                     /\ x.status = status}) + 1
<1> DEFINE k == Cardinality({x \in occurrences : x.event = i.event /\ x.at = i.at
                                                 /\ x.status = status}) + 1
<1>1. o = [event |-> i.event, at |-> i.at, status |-> status, n |-> k]
  BY DEF Logged
<1> HIDE DEF k
<1>2. o.event = i.event /\ o.at = i.at /\ o.status = status /\ o.n = k
  BY <1>1
<1> QED
  BY <1>2 DEF k

LEMMA RetryType ==
    ASSUME NEW i, Item(i)
    PROVE  \A j \in RetryOf(i) : Item(j) /\ j.event = i.event /\ j.at = i.at
<1>1. SUFFICES ASSUME i.attempt + 1 < MaxRetries
               PROVE  LET j == [i EXCEPT !.attempt = @ + 1] IN
                      Item(j) /\ j.event = i.event /\ j.at = i.at
  BY DEF RetryOf
<1> DEFINE j == [event |-> i.event, at |-> i.at, attempt |-> i.attempt + 1, copy |-> i.copy]
<1>2. [i EXCEPT !.attempt = @ + 1] = j
  BY DEF Item
<1>3. Item(j)
  BY <1>1 DEF Item
<1> QED
  BY <1>2, <1>3

\* An expansion works on.
LEMMA ExpansionType ==
    ASSUME StepsFit, EType, NEW p \in Procs, ExpansionStep(p)
    PROVE  EType'
<1>0. proc[p] \in ProcState /\ now \in Nat
  BY DEF EType
<1>1. CASE ExpandEvent(p)
  <2>1. proc[p].list \in SUBSET Work
    BY <1>0, <1>1 DEF ExpandEvent, ProcState, Idle
  <2>2. PICK x \in proc[p].list : proc' = [proc EXCEPT ![p] =
             IF Recurring(x.row)
             THEN Resume(proc[p].list \ {x}, x.event, Occurrences(x.row.schedule[1], x.row.start, now))
             ELSE IF StartInWindow(x.row)
             THEN [pc |-> "schedule", list |-> proc[p].list \ {x}, event |-> x.event,
                   dates |-> <<x.row.start>>]
             ELSE Continue(proc[p].list \ {x})]
    BY <1>1 DEF ExpandEvent
  <2> DEFINE rest == proc[p].list \ {x}
             dates == Occurrences(x.row.schedule[1], x.row.start, now)
  <2>3. rest \in SUBSET Work /\ x.event \in Events /\ x.row \in Row
    BY <2>1 DEF Work
  <2>4. Recurring(x.row) => dates \in Seq(Nat)
    BY <1>0, <2>3, RowFields, AcceptedProper, OccurrencesInWindow DEF Recurring
  <2> HIDE DEF dates
  <2>5. Recurring(x.row) => Resume(rest, x.event, dates) \in ProcState
    BY <2>3, <2>4, ResumeType
  <2>6. [pc |-> "schedule", list |-> rest, event |-> x.event, dates |-> <<x.row.start>>]
        \in ProcState
    <3>1. x.row.start \in Nat
      BY <2>3, RowFields
    <3>2. <<x.row.start>> \in {d \in Seq(Nat) : d # <<>>}
      BY <3>1
    <3> QED
      BY <2>3, <3>2 DEF ProcState
  <2>7. Continue(rest) \in ProcState
    BY <2>3, ContinueType
  <2>8. proc' \in [Procs -> ProcState]
    BY <2>2, <2>5, <2>6, <2>7 DEF EType, dates
  <2> QED
    BY <1>1, <2>8 DEF ExpandEvent, EType
<1>2. ASSUME proc[p].pc \in {"exists", "schedule"}
      PROVE  /\ proc[p] \in [pc : {"exists", "schedule"}, list : SUBSET Work, event : Events,
                             dates : {d \in Seq(Nat) : d # <<>>}]
             /\ proc[p].list \in SUBSET Work /\ proc[p].event \in Events
             /\ Head(proc[p].dates) \in Nat /\ Tail(proc[p].dates) \in Seq(Nat)
  <2>1. proc[p] \in [pc : {"exists", "schedule"}, list : SUBSET Work, event : Events,
                     dates : {d \in Seq(Nat) : d # <<>>}]
    BY <1>0, <1>2 DEF ProcState, Idle
  <2>2. proc[p].dates \in Seq(Nat) /\ proc[p].dates # <<>>
    BY <2>1
  <2>3. Head(proc[p].dates) \in Nat /\ Tail(proc[p].dates) \in Seq(Nat)
    BY <2>2, HeadTailProperties
  <2> QED
    BY <2>1, <2>3
<1>3. CASE CheckExists(p)
  <2> DEFINE skip == Resume(proc[p].list, proc[p].event, Tail(proc[p].dates))
             now_ == [proc[p] EXCEPT !.pc = "schedule"]
  <2>1. skip \in ProcState
    BY <1>2, <1>3, ResumeType DEF CheckExists
  <2>2. now_ \in ProcState
    BY <1>2, <1>3 DEF CheckExists, ProcState
  <2>3. proc' = [proc EXCEPT ![p] = skip] \/ proc' = [proc EXCEPT ![p] = now_]
    BY <1>3 DEF CheckExists, EType
  <2>4. proc' \in [Procs -> ProcState]
    <3> HIDE DEF skip, now_
    <3> QED
      BY <2>1, <2>2, <2>3 DEF EType
  <2>5. faults' \in 0..MaxFaults
    BY <1>3, FaultType DEF CheckExists, EType
  <2> QED
    BY <1>3, <2>4, <2>5 DEF CheckExists, EType
<1>4. CASE Schedule(p)
  <2>1. proc' \in [Procs -> ProcState]
    <3>1. Resume(proc[p].list, proc[p].event, Tail(proc[p].dates)) \in ProcState
      BY <1>2, <1>4, ResumeType DEF Schedule
    <3> QED
      BY <1>4, <3>1 DEF Schedule, EType
  <2>2. stored' \subseteq [event : Events, at : Nat]
    BY <1>2, <1>4 DEF Schedule, EType
  <2>3. faults' \in 0..MaxFaults
    BY <1>4, FaultType DEF Schedule, EType
  <2> QED
    BY <1>4, <2>1, <2>2, <2>3 DEF Schedule, EType
<1> QED
  BY <1>1, <1>3, <1>4 DEF ExpansionStep

LEMMA ListType ==
    ASSUME EType, NEW l \in Loops, ListActive(l)
    PROVE  EType'
<1> DEFINE active == {e \in Events : Exists(e) /\ events[e].status = "active"}
           rows == {RowOf(e) : e \in active}
<1>1. rows \in SUBSET Work
  BY ExistingRow DEF RowOf, Work
<1>2. Continue(rows) \in ProcState
  BY <1>1, ContinueType
<1> HIDE DEF rows
<1>3. proc' = [proc EXCEPT ![l] = Continue(rows)] \/ proc' = proc
  BY DEF ListActive, rows
<1>4. proc' \in [Procs -> ProcState]
  BY <1>2, <1>3 DEF EType, Procs
<1>5. faults' \in 0..MaxFaults
  BY FaultType DEF ListActive, EType
<1> QED
  BY <1>4, <1>5 DEF ListActive, EType

LEMMA CreateType ==
    ASSUME EType, NEW e \in Events, NEW d \in Definitions, CreateEvent(e, d)
    PROVE  EType'
<1> DEFINE row == [start |-> d.start, schedule |-> d.schedule, status |-> "active",
                   created |-> now]
<1>1. row \in Row
  BY ExpanderAssumption DEF CreateEvent, Row, Accepted, Statuses, EType
<1>2. events' = [events EXCEPT ![e] = row] /\ (Go(e, row) \/ proc' = proc)
  BY DEF CreateEvent
<1> HIDE DEF row
<1>3. events' \in [Events -> Row \cup NoRow]
  BY <1>1, <1>2 DEF EType
<1>4. proc' \in [Procs -> ProcState]
  BY <1>1, <1>2, GoType DEF EType
<1> QED
  BY <1>3, <1>4 DEF CreateEvent, EType

LEMMA ReadForUpdateType ==
    ASSUME EType, NEW r \in Requests, NEW e \in Events, NEW edit \in Edits,
           ReadForUpdate(r, e, edit)
    PROVE  EType'
<1> DEFINE start == IF edit.start # <<>> THEN edit.start[1] ELSE events[e].start
           schedule == IF edit.schedule # <<>> THEN edit.schedule ELSE events[e].schedule
           status == IF edit.status # <<>> THEN edit.status[1] ELSE events[e].status
           row == [start |-> start, schedule |-> schedule, status |-> status,
                   created |-> events[e].created]
           next == [pc |-> "write", event |-> e, row |-> row]
<1>1. events[e] \in Row
  BY ExistingRow DEF ReadForUpdate
<1>2. start \in Nat
  BY <1>1, RowFields, ExpanderAssumption
<1>3. schedule \in Accepted
  BY <1>1, RowFields DEF ReadForUpdate, Accepted
<1>4. status \in Statuses
  BY <1>1, RowFields DEF Statuses
<1>5. events[e].created \in Nat
  BY <1>1 DEF Row
<1>6. row \in Row
  <2> HIDE DEF start, schedule, status
  <2> QED
    BY <1>2, <1>3, <1>4, <1>5 DEF Row
<1>7. request' = [request EXCEPT ![r] = next]
  <2>1. events[e] = [start |-> events[e].start, schedule |-> events[e].schedule,
                     status |-> events[e].status, created |-> events[e].created]
    BY <1>1, RowFields
  <2>2. row = [events[e] EXCEPT !.start = start, !.schedule = schedule, !.status = status]
    <3> DEFINE old == events[e]
               x == [old EXCEPT !.start = start]
               y == [x EXCEPT !.schedule = schedule]
               z == [y EXCEPT !.status = status]
    <3> HIDE DEF start, schedule, status, old
    <3>1. x = [start |-> start, schedule |-> old.schedule, status |-> old.status,
               created |-> old.created]
      BY <2>1 DEF old
    <3> HIDE DEF x
    <3>2. y = [start |-> start, schedule |-> schedule, status |-> old.status,
               created |-> old.created]
      BY <3>1
    <3> HIDE DEF y
    <3>3. z = [start |-> start, schedule |-> schedule, status |-> status,
               created |-> old.created]
      BY <3>2
    <3> HIDE DEF z
    <3> QED
      BY <3>3 DEF x, y, z, old
  <2> QED
    BY <2>2 DEF ReadForUpdate
<1>8. next \in RequestState
  <2> HIDE DEF row
  <2> QED
    BY <1>6 DEF RequestState
<1>9. request' \in [Requests -> RequestState]
  <2> HIDE DEF next
  <2> QED
    BY <1>7, <1>8 DEF EType
<1> QED
  BY <1>9 DEF ReadForUpdate, EType

LEMMA RequestFields ==
    ASSUME EType, NEW r \in Requests
    PROVE  /\ request[r].pc \in {"purge", "write", "remove"} => request[r].event \in Events
           /\ request[r].pc \in {"write", "remove"} =>
                 /\ request[r].row \in Row
                 /\ request[r] = [pc |-> request[r].pc, event |-> request[r].event,
                                  row |-> request[r].row]
<1>1. request[r] \in RequestState
  BY DEF EType
<1> QED
  BY <1>1 DEF RequestState

LEMMA RequestType ==
    ASSUME EType, NEW r \in Requests, RequestStep(r)
    PROVE  EType'
<1>1. ASSUME NEW x \in RequestState, request' = [request EXCEPT ![r] = x]
      PROVE  request' \in [Requests -> RequestState]
  BY <1>1 DEF EType
<1>2. [pc |-> "done"] \in RequestState
  BY DEF RequestState
<1>3. CASE WriteUpdate(r)
  <2> DEFINE e == request[r].event
             next == [request[r] EXCEPT !.pc = "remove"]
  <2>1. e \in Events /\ request[r].row \in Row
    BY <1>3, RequestFields DEF WriteUpdate
  <2>2. next = [pc |-> "remove", event |-> e, row |-> request[r].row]
    <3>1. request[r] = [pc |-> request[r].pc, event |-> e, row |-> request[r].row]
      BY <1>3, RequestFields DEF WriteUpdate
    <3> QED
      BY <3>1
  <2>3. next \in RequestState
    BY <2>1, <2>2 DEF RequestState
  <2>4. request' = [request EXCEPT ![r] = next] \/ request' = [request EXCEPT ![r] = [pc |-> "done"]]
    BY <1>3 DEF WriteUpdate
  <2>5. request' \in [Requests -> RequestState]
    <3> HIDE DEF next
    <3> QED
      BY <1>1, <1>2, <2>3, <2>4
  <2>6. events' \in [Events -> Row \cup NoRow]
    BY <1>3, <2>1 DEF WriteUpdate, EType
  <2> QED
    BY <1>3, <2>5, <2>6 DEF WriteUpdate, EType
<1>4. CASE RemoveAndExpand(r)
  <2>1. request' \in [Requests -> RequestState]
    BY <1>1, <1>2, <1>4 DEF RemoveAndExpand
  <2>2. proc' \in [Procs -> ProcState]
    BY <1>4, RequestFields, GoType DEF RemoveAndExpand
  <2>3. stored' \subseteq [event : Events, at : Nat]
    BY <1>4 DEF RemoveAndExpand, StoredWithout, EType
  <2>4. faults' \in 0..MaxFaults
    BY <1>4, FaultType DEF RemoveAndExpand, EType
  <2> QED
    BY <1>4, <2>1, <2>2, <2>3, <2>4 DEF RemoveAndExpand, EType
<1>5. CASE Purge(r)
  <2>1. request' \in [Requests -> RequestState]
    BY <1>1, <1>2, <1>5 DEF Purge
  <2>2. stored' \subseteq [event : Events, at : Nat]
    BY <1>5 DEF Purge, StoredWithout, EType
  <2>3. faults' \in 0..MaxFaults
    BY <1>5, FaultType DEF Purge, EType
  <2> QED
    BY <1>5, <2>1, <2>2, <2>3 DEF Purge, EType
<1> QED
  BY <1>3, <1>4, <1>5 DEF RequestStep

LEMMA DeleteType ==
    ASSUME EType, NEW r \in Requests, NEW e \in Events, DeleteEvent(r, e)
    PROVE  EType'
<1>1. request' \in [Requests -> RequestState]
  BY DEF DeleteEvent, EType, RequestState
<1>2. events' \in [Events -> Row \cup NoRow]
  BY DEF DeleteEvent, EType, NoRow
<1>3. occurrences' \subseteq OccurrenceRow /\ IsFiniteSet(occurrences')
  BY FS_Subset DEF DeleteEvent, EType
<1> QED
  BY <1>1, <1>2, <1>3 DEF DeleteEvent, EType

LEMMA DueType ==
    ASSUME EType, GetDueSchedules
    PROVE  EType'
<1>1. ASSUME NEW s \in Due PROVE Item(WithId(s))
  <2>1. s \in [event : Events, at : Nat]
    BY DEF Due, EType
  <2> DEFINE c == CHOOSE c \in 0..Cardinality(InFlight) :
                     \A i \in InFlight : i.event = s.event /\ i.at = s.at => i.copy # c
             j == [event |-> s.event, at |-> s.at, attempt |-> 0, copy |-> c]
  <2>2. WithId(s) = j
    BY DEF WithId
  <2> HIDE DEF c
  <2>3. Item(j)
    BY <2>1 DEF Item
  <2> QED
    BY <2>2, <2>3
<1>2. \A i \in queue' : Item(i)
  BY <1>1 DEF GetDueSchedules, EType
<1>3. stored' \subseteq [event : Events, at : Nat]
  BY DEF GetDueSchedules, EType
<1> QED
  BY <1>2, <1>3 DEF GetDueSchedules, EType

\* worker is a function, of a range that has no name.
LEMMA WorkerType ==
    ASSUME EType, NEW w \in Workers, NEW x, worker' = [worker EXCEPT ![w] = x],
           x = Idle \/ Busy(x)
    PROVE  /\ worker' = [v \in Workers |-> worker'[v]]
           /\ \A v \in Workers : worker'[v] # Idle => Busy(worker'[v])
<1>1. worker = [v \in Workers |-> worker[v]]
  BY DEF EType
<1>2. worker' = [v \in Workers |-> IF v = w THEN x ELSE worker[v]]
  BY <1>1
<1> QED
  BY <1>2 DEF EType

LEMMA NextPc ==
    ASSUME NEW s, Busy(s), NEW pc \in {"count", "update"}
    PROVE  /\ Busy([s EXCEPT !.pc = pc])
           /\ [s EXCEPT !.pc = pc].pc = pc
           /\ [s EXCEPT !.pc = pc].item = s.item /\ [s EXCEPT !.pc = pc].row = s.row
<1>1. [s EXCEPT !.pc = pc] = [pc |-> pc, item |-> s.item, row |-> s.row]
  BY DEF Busy
<1>2. Busy([pc |-> pc, item |-> s.item, row |-> s.row])
  BY DEF Busy
<1> QED
  BY <1>1, <1>2

LEMMA WorkerStepType ==
    ASSUME EType, NEW w \in Workers, WorkerStep(w)
    PROVE  EType'
<1>1. ASSUME NEW i \in queue, Fetch(w, i)
      PROVE  EType'
  <2>1. Item(i)
    BY DEF EType
  <2>2. \A j \in queue' : Item(j)
    BY <1>1, <2>1, RetryType DEF Fetch, EType
  <2>3. CASE Exists(i.event)
    <3> DEFINE x == [pc |-> "execute", item |-> i, row |-> events[i.event]]
    <3>1. Busy(x)
      BY <2>1, <2>3, ExistingRow DEF Busy, Item
    <3>2. worker' = [worker EXCEPT ![w] = x]
      BY <1>1, <2>3 DEF Fetch
    <3> HIDE DEF x
    <3> QED
      BY <1>1, <2>2, <3>1, <3>2, WorkerType DEF Fetch, EType
  <2> QED
    BY <1>1, <2>2, <2>3 DEF Fetch, EType
<1>2. ASSUME worker[w].pc \in {"execute", "count", "update"}
      PROVE  Busy(worker[w])
  BY <1>2 DEF EType, Idle
<1>3. ASSUME NEW ok \in BOOLEAN, Execute(w, ok)
      PROVE  EType'
  <2> DEFINE i == worker[w].item
             st == IF ok THEN "completed" ELSE "failed"
             up(pc) == [worker[w] EXCEPT !.pc = pc]
  <2>1. Item(i) /\ Busy(worker[w])
    BY <1>2, <1>3 DEF Execute, Busy
  <2>2. occurrences' \subseteq OccurrenceRow /\ IsFiniteSet(occurrences')
    <3>1. st \in {"completed", "failed"}
      OBVIOUS
    <3>2. occurrences' = Logged(i, st) \/ occurrences' = occurrences
      BY <1>3 DEF Execute
    <3> HIDE DEF st, i
    <3> QED
      BY <2>1, <3>1, <3>2, LoggedType DEF EType
  <2>3. \A j \in queue' : Item(j)
    BY <1>3, <2>1, RetryType DEF Execute, EType
  <2>4. Busy(up("count")) /\ Busy(up("update"))
    BY <2>1, NextPc
  <2>5. \/ worker' = [worker EXCEPT ![w] = up("count")]
        \/ worker' = [worker EXCEPT ![w] = up("update")]
        \/ worker' = [worker EXCEPT ![w] = Idle]
    BY <1>3 DEF Execute
  <2> HIDE DEF up
  <2>6. /\ worker' = [v \in Workers |-> worker'[v]]
        /\ \A v \in Workers : worker'[v] # Idle => Busy(worker'[v])
    BY <2>4, <2>5, WorkerType
  <2> QED
    BY <1>3, <2>2, <2>3, <2>6 DEF Execute, EType
<1>5. ASSUME CountCompleted(w)
      PROVE  EType'
  <2> DEFINE up == [worker[w] EXCEPT !.pc = "update"]
  <2>1. Busy(up)
    BY <1>2, <1>5, NextPc DEF CountCompleted
  <2>2. worker' = [worker EXCEPT ![w] = up] \/ worker' = [worker EXCEPT ![w] = Idle]
    BY <1>5 DEF CountCompleted
  <2> HIDE DEF up
  <2>3. /\ worker' = [v \in Workers |-> worker'[v]]
        /\ \A v \in Workers : worker'[v] # Idle => Busy(worker'[v])
    BY <2>1, <2>2, WorkerType
  <2> QED
    BY <1>5, <2>3 DEF CountCompleted, EType
<1>4. ASSUME Inactivate(w)
      PROVE  EType'
  <2> DEFINE row == [worker[w].row EXCEPT !.status = "inactive"]
  <2>1. worker[w].row \in Row
    BY <1>2, <1>4 DEF Inactivate, Busy
  <2>2. row \in Row
    BY <2>1 DEF Row, Statuses
  <2>3. events' \in [Events -> Row \cup NoRow]
    BY <1>4, <2>2 DEF Inactivate, EType
  <2>4. /\ worker' = [v \in Workers |-> worker'[v]]
        /\ \A v \in Workers : worker'[v] # Idle => Busy(worker'[v])
    BY <1>4, WorkerType DEF Inactivate
  <2> QED
    BY <1>4, <2>3, <2>4 DEF Inactivate, EType
<1> QED
  BY <1>1, <1>3, <1>4, <1>5 DEF WorkerStep

LEMMA ArchiveType ==
    ASSUME EType, ArchiveOldData
    PROVE  EType'
<1>1. events' \in [Events -> Row \cup NoRow]
  BY DEF ArchiveOldData, EType, NoRow
<1>2. occurrences' \subseteq OccurrenceRow /\ IsFiniteSet(occurrences')
  BY FS_Subset DEF ArchiveOldData, EType
<1> QED
  BY <1>1, <1>2 DEF ArchiveOldData, EType

LEMMA InitType == Init => EType
<1>1. SUFFICES ASSUME Init PROVE EType
  OBVIOUS
<1>2. proc \in [Procs -> ProcState] /\ request \in [Requests -> RequestState]
  BY <1>1 DEF Init, Procs, ProcState, RequestState
<1>3. faults \in 0..MaxFaults
  BY <1>1, ExpanderAssumption DEF Init
<1>4. worker = [w \in Workers |-> worker[w]] /\ \A w \in Workers : worker[w] = Idle
  BY <1>1 DEF Init
<1> QED
  BY <1>1, <1>2, <1>3, <1>4, FS_EmptySet DEF Init, EType, NoRow

LEMMA NextType ==
    ASSUME StepsFit, EType, [Next]_expVars
    PROVE  EType'
<1>1. CASE Tick
  BY <1>1 DEF Tick, EType
<1>2. CASE UNCHANGED expVars
  BY <1>2 DEF expVars, EType
<1> QED
  BY <1>1, <1>2, ListType, ExpansionType, CreateType, ReadForUpdateType, RequestType,
     DeleteType, DueType, WorkerStepType, ArchiveType DEF Next, Procs

\* Every row, schedule, item and occurrence that the expansions, the requests,
\* the workers and the archival leave behind is well-formed, and no item is
\* retried past dispatcher.max_retries, whatever the schedules, as long as no
\* product of durations overflows.
THEOREM ExpanderTypeCorrect ==
    ASSUME StepsFit
    PROVE  Spec => []ETypeOK
<1>1. EType => ETypeOK
  <2>1. SUFFICES ASSUME EType PROVE ETypeOK
    OBVIOUS
  <2>2. \A e \in Events : Exists(e) => events[e].start \in Nat /\ events[e].status \in Statuses
    BY <2>1, ExistingRow, RowFields
  <2>3. \A i \in InFlight : Item(i)
    BY <2>1 DEF InFlight, EType, Busy
  <2>4. \A o \in occurrences : o.event \in Events /\ o.at \in Nat /\ o.n \in Nat \ {0}
    BY <2>1 DEF EType, OccurrenceRow
  <2> QED
    BY <2>1, <2>2, <2>3, <2>4 DEF EType, ETypeOK, Item
<1> QED
  BY <1>1, InitType, NextType, PTL DEF Spec

\* The loop of expandRecurringEvent over the dates of an event in the table goes
\* forward at every date, in every calendar: what isValidSchedule accepts has a
\* step, and so the loop ends.
THEOREM ExpansionAdvances ==
    ASSUME StepsFit
    PROVE  Spec => []LoopAdvances
<1>1. EType => LoopAdvances
  <2>1. SUFFICES ASSUME EType, NEW e \in Events, Exists(e), Recurring(events[e]),
                        NEW t \in events[e].start..(now + LookAhead)
                 PROVE  NextAnchor(events[e].schedule[1], t) > t
    BY DEF LoopAdvances
  <2> DEFINE s == events[e].schedule[1]
  <2>2. events[e] \in Row
    BY <2>1, ExistingRow
  <2>3. events[e].start \in Nat /\ Proper(s)
    BY <2>1, <2>2, RowFields, AcceptedProper DEF Recurring
  <2>4. t \in Nat
    BY <2>1, <2>3
  <2> HIDE DEF s
  <2>5. NextAnchor(s, t) > t
    BY <2>3, <2>4, AnchorAdvances DEF Proper
  <2> QED
    BY <2>5 DEF s
<1> QED
  BY <1>1, InitType, NextType, PTL DEF Spec

\* expandRecurringEvent finds exactly the dates that RFC 5545 gives the rule in
\* the window, each once, for every event in the table, every calendar and at
\* every instant, as long as no list names a weekday twice and the rule is none
\* of those on which the loop and the RFC part.
THEOREM ExpansionFindsTheRule ==
    ASSUME StepsFit, \A x \in Accepted : x # <<>> => ListDistinct(x[1])
    PROVE  Spec => []WindowExact
<1>1. EType => WindowExact
  <2>1. SUFFICES ASSUME EType, NEW e \in Events, Exists(e), Recurring(events[e]),
                        FollowsRule(events[e].schedule[1], events[e].start)
                 PROVE  Exact(e)
    BY DEF WindowExact
  <2> DEFINE s == events[e].schedule[1]
             start == events[e].start
             dates == Occurrences(s, start, now)
  <2>2. events[e] \in Row
    BY <2>1, ExistingRow
  <2>3. start \in Nat /\ Proper(s) /\ ListDistinct(s) /\ now \in Nat /\ FollowsRule(s, start)
    BY <2>1, <2>2, RowFields, AcceptedProper DEF Recurring, EType
  <2> HIDE DEF s, start
  <2>4. /\ \A t \in Nat : (\E i \in 1..Len(dates) : dates[i] = t)
                              <=> InWindow(t, now) /\ OnRule(s, start, t)
        /\ \A i, j \in 1..Len(dates) : dates[i] = dates[j] => i = j
    BY <2>3, OccurrencesExact
  <2>5. \A t \in 0..(now + LookAhead) : t \in Nat
    BY <2>3, Units
  <2> HIDE DEF dates
  <2>6. /\ \A t \in 0..(now + LookAhead) :
              (\E i \in 1..Len(dates) : dates[i] = t)
                  <=> InWindow(t, now) /\ OnRule(s, start, t)
        /\ \A i, j \in 1..Len(dates) : dates[i] = dates[j] => i = j
    BY <2>4, <2>5, Zenon
  <2> QED
    BY <2>6, Zenon DEF Exact, s, start, dates
<1> QED
  BY <1>1, InitType, NextType, PTL DEF Spec

-----------------------------------------------------------------------------
(* Events that are gone *)

Table == events = [e \in Events |-> events[e]]

LEMMA TableStep ==
    ASSUME Table, NEW x \in Events, NEW row, events' = [events EXCEPT ![x] = row]
    PROVE  events' = [e \in Events |-> IF e = x THEN row ELSE events[e]]
BY DEF Table

\* Whatever anybody writes, it is not into a row that is gone.
LEMMA GoneStays ==
    ASSUME Table, [Next]_expVars
    PROVE  Table' /\ \A e \in Events : Gone(e) => events'[e] = events[e]
<1>1. CASE UNCHANGED events
  BY <1>1 DEF Table
<1>2. ASSUME NEW r \in Requests, WriteUpdate(r), request[r].event \notin Events
      PROVE  UNCHANGED events
  BY <1>2 DEF WriteUpdate, Table
<1>3. ASSUME NEW x \in Events, NEW row, events' = [events EXCEPT ![x] = row], ~Gone(x)
      PROVE  Table' /\ \A e \in Events : Gone(e) => events'[e] = events[e]
  BY <1>3, TableStep DEF Table
<1>4. ASSUME NEW x \in Events, Exists(x) \/ events[x] = [status |-> "unborn"]
      PROVE  ~Gone(x)
  BY <1>4 DEF Exists, Gone, NoRow
<1>5. ASSUME NEW e \in Events, NEW d \in Definitions, CreateEvent(e, d)
      PROVE  Table' /\ \A x \in Events : Gone(x) => events'[x] = events[x]
  <2>1. ~Gone(e)
    BY <1>4, <1>5 DEF CreateEvent
  <2> QED
    BY <1>3, <1>5, <2>1 DEF CreateEvent
<1>6. ASSUME NEW r \in Requests, WriteUpdate(r)
      PROVE  Table' /\ \A x \in Events : Gone(x) => events'[x] = events[x]
  <2>1. CASE request[r].event \notin Events
    BY <1>1, <1>2, <1>6, <2>1
  <2>2. CASE request[r].event \in Events /\ Exists(request[r].event)
    BY <1>3, <1>4, <1>6, <2>2 DEF WriteUpdate
  <2>3. CASE ~Exists(request[r].event)
    BY <1>1, <1>6, <2>3 DEF WriteUpdate
  <2> QED
    BY <2>1, <2>2, <2>3
<1>7. ASSUME NEW r \in Requests, NEW e \in Events, DeleteEvent(r, e)
      PROVE  Table' /\ \A x \in Events : Gone(x) => events'[x] = events[x]
  <2>1. ~Gone(e)
    BY <1>4, <1>7 DEF DeleteEvent
  <2> QED
    BY <1>3, <1>7, <2>1 DEF DeleteEvent
<1>8. ASSUME NEW w \in Workers, Inactivate(w)
      PROVE  Table' /\ \A x \in Events : Gone(x) => events'[x] = events[x]
  BY <1>4, <1>8 DEF Inactivate, Table
<1>9. ASSUME ArchiveOldData
      PROVE  Table' /\ \A x \in Events : Gone(x) => events'[x] = events[x]
  BY <1>4, <1>9 DEF ArchiveOldData, Table
<1>10. ASSUME NEW l \in Loops, ListActive(l)
       PROVE  UNCHANGED events
  BY <1>10 DEF ListActive
<1>11. ASSUME NEW p \in Loops \cup Goroutines, ExpansionStep(p)
       PROVE  UNCHANGED events
  BY <1>11 DEF ExpansionStep, ExpandEvent, CheckExists, Schedule
<1>12. ASSUME NEW r \in Requests, RemoveAndExpand(r) \/ Purge(r)
       PROVE  UNCHANGED events
  BY <1>12 DEF RemoveAndExpand, Purge
<1>13. ASSUME NEW r \in Requests, NEW e \in Events, NEW edit \in Edits, ReadForUpdate(r, e, edit)
       PROVE  UNCHANGED events
  BY <1>13 DEF ReadForUpdate
<1>14. ASSUME NEW w \in Workers, (\E i \in queue : Fetch(w, i)) \/ (\E ok \in BOOLEAN : Execute(w, ok))
             \/ CountCompleted(w)
       PROVE  UNCHANGED events
  BY <1>14 DEF Fetch, Execute, CountCompleted
<1>15. ASSUME GetDueSchedules \/ Tick \/ UNCHANGED expVars
       PROVE  UNCHANGED events
  BY <1>15 DEF GetDueSchedules, Tick, expVars
<1>16. ASSUME NEW r \in Requests, RequestStep(r)
       PROVE  Table' /\ \A x \in Events : Gone(x) => events'[x] = events[x]
  BY <1>1, <1>6, <1>12, <1>16 DEF RequestStep
<1>17. ASSUME NEW w \in Workers, WorkerStep(w)
       PROVE  Table' /\ \A x \in Events : Gone(x) => events'[x] = events[x]
  BY <1>1, <1>8, <1>14, <1>17 DEF WorkerStep
<1> QED
  BY <1>1, <1>5, <1>7, <1>9, <1>10, <1>11, <1>13, <1>15, <1>16, <1>17 DEF Next

\* Only an expansion adds a schedule, and it holds the event whose date it is.
LEMMA StoredByHolders ==
    ASSUME [Next]_expVars, NEW e \in Events, ~Held(e)
    PROVE  \A s \in stored' : s.event = e => s \in stored
<1>1. ASSUME NEW p \in Loops \cup Goroutines, ExpansionStep(p)
      PROVE  \A s \in stored' : s.event = e => s \in stored
  <2>1. CASE Schedule(p)
    <3>1. proc[p].event # e
      BY <2>1 DEF Schedule, Held
    <3>2. stored' \subseteq stored \cup {[event |-> proc[p].event, at |-> Head(proc[p].dates)]}
      BY <2>1 DEF Schedule
    <3> QED
      BY <3>1, <3>2
  <2> QED
    BY <1>1, <2>1 DEF ExpansionStep, ExpandEvent, CheckExists
<1>2. ASSUME NEW r \in Requests, RequestStep(r)
      PROVE  stored' \subseteq stored
  BY <1>2 DEF RequestStep, WriteUpdate, RemoveAndExpand, Purge, StoredWithout
<1>3. ASSUME NEW w \in Workers, WorkerStep(w)
      PROVE  stored' \subseteq stored
  BY <1>3 DEF WorkerStep, Fetch, Execute, CountCompleted, Inactivate
<1>4. ASSUME GetDueSchedules \/ ArchiveOldData \/ Tick \/ UNCHANGED expVars
      PROVE  stored' \subseteq stored
  BY <1>4 DEF GetDueSchedules, ArchiveOldData, Tick, expVars
<1>5. ASSUME NEW l \in Loops, ListActive(l)
      PROVE  stored' \subseteq stored
  BY <1>5 DEF ListActive
<1>6. ASSUME NEW x \in Events, NEW d \in Definitions, CreateEvent(x, d)
      PROVE  stored' \subseteq stored
  BY <1>6 DEF CreateEvent
<1>7. ASSUME NEW r \in Requests, NEW x \in Events,
             DeleteEvent(r, x) \/ \E edit \in Edits : ReadForUpdate(r, x, edit)
      PROVE  stored' \subseteq stored
  BY <1>7 DEF DeleteEvent, ReadForUpdate
<1> QED
  BY <1>1, <1>2, <1>3, <1>4, <1>5, <1>6, <1>7 DEF Next

\* An event that was deleted or archived never comes back, although an update
\* and a worker write back rows they read before; and once no expansion and no
\* request holds a row of it, no schedule of it enters Redis again.
THEOREM DeletedStaysDeleted == Spec => GoneForGood
<1>1. Init => Table
  BY DEF Init, Table
<1>2. Table /\ [Next]_expVars => Table'
  BY GoneStays
<1>3. Table /\ [Next]_expVars =>
        [\A e \in Events : Gone(e) =>
            /\ Gone(e)'
            /\ ~Held(e) => \A s \in stored' : s.event = e => s \in stored]_expVars
  <2>1. SUFFICES ASSUME Table, [Next]_expVars, NEW e \in Events, Gone(e)
                 PROVE  /\ Gone(e)'
                        /\ ~Held(e) => \A s \in stored' : s.event = e => s \in stored
    OBVIOUS
  <2>2. Gone(e)'
    BY <2>1, GoneStays DEF Gone
  <2> QED
    BY <2>1, <2>2, StoredByHolders
<1> QED
  BY <1>1, <1>2, <1>3, PTL DEF Spec, GoneForGood

-----------------------------------------------------------------------------
(* Every date of a recurring event is delivered at most once *)

Unborn(e) == events[e] = [status |-> "unborn"]

\* The events that DeliveredOnce is about.
Tracked(e) == e \notin edited /\ Exists(e) /\ Recurring(events[e])

\* The rows that an expansion still has to look at, and whether it is at the
\* dates of one.
Hand(x) == IF x.pc = "idle" THEN {} ELSE x.list
Dated(x) == x.pc \in {"exists", "schedule"}

\* Nobody knows an event before it is created.
Unheard ==
    \A e \in Events : Unborn(e) =>
        /\ ~Held(e)
        /\ \A s \in stored : s.event # e
        /\ \A i \in queue : i.event # e
        /\ \A w \in Workers : worker[w] # Idle => worker[w].item.event # e
        /\ \A o \in occurrences : o.event # e

\* Every row of an event that no PUT has read has the schedule that the event
\* was created with.
SameRule ==
    /\ \A r \in Requests : request[r].pc \in {"write", "remove"} => request[r].event \in edited
    /\ \A e \in Events \ edited : Exists(e) =>
          /\ \A p \in Procs : \A x \in Hand(proc[p]) :
                x.event = e => x.row.schedule = events[e].schedule
          /\ \A w \in Workers : worker[w] # Idle /\ worker[w].item.event = e =>
                worker[w].row.schedule = events[e].schedule

\* What an expansion is about to schedule lies ahead; what was delivered or is
\* being delivered has come.
Ahead ==
    \A e \in Events : Tracked(e) =>
        /\ \A p \in Procs : Dated(proc[p]) /\ proc[p].event = e =>
              \A k \in 1..Len(proc[p].dates) : proc[p].dates[k] > now
        /\ \A i \in queue : i.event = e => i.at <= now
        /\ \A w \in Workers : worker[w] # Idle /\ worker[w].item.event = e =>
              worker[w].item.at <= now
        /\ \A o \in occurrences : o.event = e => o.at <= now

\* Is a worker delivering this date of e?
Delivering(w, e, t) ==
    worker[w].pc = "execute" /\ worker[w].item.event = e /\ worker[w].item.at = t

\* A date of e is stored, or queued, or being delivered, or completed: one of
\* these, and once.
OnePlace(e) ==
    /\ \A i, j \in queue : i.event = e /\ j.event = e /\ i.at = j.at => i = j
    /\ \A i \in queue, w \in Workers : i.event = e => ~Delivering(w, e, i.at)
    /\ \A v, w \in Workers : \A t \in Nat : Delivering(v, e, t) /\ Delivering(w, e, t) => v = w
    /\ \A s \in stored : s.event = e =>
          /\ \A i \in queue : i.event = e => i.at # s.at
          /\ \A w \in Workers : ~Delivering(w, e, s.at)
          /\ \A o \in Completed(e) : o.at # s.at
    /\ \A o \in Completed(e) :
          /\ o.n = 1
          /\ \A i \in queue : i.event = e => i.at # o.at
          /\ \A w \in Workers : ~Delivering(w, e, o.at)

AllInOnePlace == \A e \in Events : Tracked(e) => OnePlace(e)

\* What a step may do to the row of an event.
LEMMA EventEffect ==
    ASSUME EType, SameRule, [Next]_expVars, NEW e \in Events
    PROVE  /\ Unborn(e)' => Unborn(e)
           /\ edited \subseteq edited'
           /\ (Exists(e)' /\ e \notin edited') =>
                 Unborn(e) \/ (Exists(e) /\ events'[e].schedule = events[e].schedule)
<1> DEFINE Fine == /\ Unborn(e)' => Unborn(e)
                   /\ edited \subseteq edited'
                   /\ (Exists(e)' /\ e \notin edited') =>
                        Unborn(e) \/ (Exists(e) /\ events'[e].schedule = events[e].schedule)
<1>0. events \in [Events -> Row \cup NoRow]
  BY DEF EType
<1>1. ASSUME UNCHANGED events, edited \subseteq edited'
      PROVE  Fine
  BY <1>1 DEF Unborn, Exists
<1>2. ASSUME NEW x \in Events, NEW d \in Definitions, CreateEvent(x, d)
      PROVE  Fine
  <2> DEFINE row == [start |-> d.start, schedule |-> d.schedule, status |-> "active",
                     created |-> now]
  <2>1. row # [status |-> "unborn"]
    <3>1. DOMAIN row # DOMAIN [status |-> "unborn"]
      OBVIOUS
    <3> QED
      BY <3>1
  <2>2. events' = [events EXCEPT ![x] = row]
    BY <1>2 DEF CreateEvent
  <2> HIDE DEF row
  <2> QED
    BY <1>0, <1>2, <2>1, <2>2 DEF CreateEvent, Unborn, Exists
<1>3. ASSUME NEW r \in Requests, RequestStep(r)
      PROVE  Fine
  <2>1. CASE WriteUpdate(r) /\ Exists(request[r].event)
    <3> DEFINE x == request[r].event
    <3>1. x \in Events /\ x \in edited /\ request[r].row \in Row
      BY <2>1, RequestFields DEF WriteUpdate, SameRule
    <3>2. request[r].row \notin NoRow
      BY <3>1, RowFields
    <3>3. events' = [events EXCEPT ![x] = request[r].row] /\ edited' = edited
      BY <2>1 DEF WriteUpdate
    <3>4. events'[e] = IF e = x THEN request[r].row ELSE events[e]
      BY <1>0, <3>1, <3>3
    <3> QED
      BY <3>1, <3>2, <3>3, <3>4 DEF Unborn, Exists, NoRow
  <2> QED
    BY <1>1, <1>3, <2>1 DEF RequestStep, WriteUpdate, RemoveAndExpand, Purge
<1>4. ASSUME NEW r \in Requests, NEW x \in Events, DeleteEvent(r, x)
      PROVE  Fine
  BY <1>0, <1>4 DEF DeleteEvent, Unborn, Exists, NoRow
<1>5. ASSUME NEW w \in Workers, Inactivate(w)
      PROVE  Fine
  <2> DEFINE row == [worker[w].row EXCEPT !.status = "inactive"]
  <2>1. worker[w].row \in Row
    BY <1>5 DEF Inactivate, EType, Busy, Idle
  <2>2. row \in Row /\ row.schedule = worker[w].row.schedule
    BY <2>1 DEF Row, Statuses
  <2>3. row \notin NoRow
    BY <2>2, RowFields
  <2>4. events'[e] = (IF e = worker[w].item.event /\ Exists(e) THEN row ELSE events[e])
        /\ edited' = edited /\ worker[w] # Idle
    BY <1>5 DEF Inactivate, Idle
  <2> HIDE DEF row
  <2>5. (e = worker[w].item.event /\ Exists(e) /\ e \notin edited) =>
           row.schedule = events[e].schedule
    BY <2>2, <2>4 DEF SameRule
  <2> QED
    BY <2>3, <2>4, <2>5 DEF Unborn, Exists, NoRow
<1>6. ASSUME ArchiveOldData
      PROVE  Fine
  BY <1>6 DEF ArchiveOldData, Unborn, Exists, NoRow
<1>7. ASSUME NEW l \in Loops, ListActive(l)
      PROVE  Fine
  BY <1>1, <1>7 DEF ListActive
<1>8. ASSUME NEW p \in Loops \cup Goroutines, ExpansionStep(p)
      PROVE  Fine
  BY <1>1, <1>8 DEF ExpansionStep, ExpandEvent, CheckExists, Schedule
<1>9. ASSUME NEW r \in Requests, NEW x \in Events, NEW edit \in Edits, ReadForUpdate(r, x, edit)
      PROVE  Fine
  BY <1>1, <1>9 DEF ReadForUpdate
<1>10. ASSUME NEW w \in Workers, WorkerStep(w)
       PROVE  Fine
  BY <1>1, <1>5, <1>10 DEF WorkerStep, Fetch, Execute, CountCompleted
<1>11. ASSUME GetDueSchedules \/ Tick \/ UNCHANGED expVars
       PROVE  Fine
  BY <1>1, <1>11 DEF GetDueSchedules, Tick, expVars
<1> QED
  BY <1>2, <1>3, <1>4, <1>6, <1>7, <1>8, <1>9, <1>10, <1>11 DEF Next

LEMMA ContinueHand ==
    ASSUME NEW list
    PROVE  Hand(Continue(list)) = list /\ ~Dated(Continue(list))
BY DEF Hand, Continue, Idle, Dated

LEMMA ResumeHand ==
    ASSUME NEW list, NEW e, NEW dates
    PROVE  /\ Hand(Resume(list, e, dates)) = list
           /\ Dated(Resume(list, e, dates)) =>
                 Resume(list, e, dates).event = e /\ Resume(list, e, dates).dates = dates
BY ContinueHand DEF Resume, Hand, Dated

LEMMA TailElements ==
    ASSUME NEW dates \in Seq(Nat), dates # <<>>
    PROVE  /\ \A k \in 1..Len(Tail(dates)) : \E m \in 1..Len(dates) : Tail(dates)[k] = dates[m]
           /\ 1 \in 1..Len(dates) /\ Head(dates) = dates[1]
<1>1. Len(dates) \in Nat /\ Len(dates) # 0 /\ Len(Tail(dates)) = Len(dates) - 1
  BY HeadTailProperties, EmptySeq, LenProperties
<1>2. \A k \in 1..Len(Tail(dates)) : Tail(dates)[k] = dates[k + 1]
  BY HeadTailProperties, EmptySeq
<1> QED
  BY <1>1, <1>2

\* What a step may put into the hands of an expansion.
LEMMA ProcEffect ==
    ASSUME StepsFit, GracePeriod = 0, EType, [Next]_expVars, NEW p \in Procs
    PROVE  /\ \A x \in Hand(proc'[p]) :
                 \/ x \in Hand(proc[p])
                 \/ Exists(x.event) /\ x.row = events[x.event]
                 \/ Unborn(x.event) /\ x.row = events'[x.event]
                 \/ \E r \in Requests : request[r].pc = "remove" /\ request[r].event = x.event
           /\ Dated(proc'[p]) =>
                 \/ /\ Dated(proc[p]) /\ proc'[p].event = proc[p].event
                    /\ \A k \in 1..Len(proc'[p].dates) : \E m \in 1..Len(proc[p].dates) :
                          proc'[p].dates[k] = proc[p].dates[m]
                 \/ \E x \in Hand(proc[p]) :
                       /\ x.event = proc'[p].event
                       /\ Recurring(x.row) =>
                             \A k \in 1..Len(proc'[p].dates) : proc'[p].dates[k] > now
<1> DEFINE Rows(y) == \A x \in Hand(y) :
                 \/ x \in Hand(proc[p])
                 \/ Exists(x.event) /\ x.row = events[x.event]
                 \/ Unborn(x.event) /\ x.row = events'[x.event]
                 \/ \E r \in Requests : request[r].pc = "remove" /\ request[r].event = x.event
           Dates(y) == Dated(y) =>
                 \/ /\ Dated(proc[p]) /\ y.event = proc[p].event
                    /\ \A k \in 1..Len(y.dates) : \E m \in 1..Len(proc[p].dates) :
                          y.dates[k] = proc[p].dates[m]
                 \/ \E x \in Hand(proc[p]) :
                       /\ x.event = y.event
                       /\ Recurring(x.row) => \A k \in 1..Len(y.dates) : y.dates[k] > now
<1>0. proc \in [Procs -> ProcState] /\ now \in Nat
  BY DEF EType
<1>1. Rows(proc[p]) /\ Dates(proc[p])
  OBVIOUS
<1>2. ASSUME NEW q \in Procs, NEW y, proc' = [proc EXCEPT ![q] = y],
             q = p => Rows(y) /\ Dates(y)
      PROVE  Rows(proc'[p]) /\ Dates(proc'[p])
  <2>1. proc'[p] = IF q = p THEN y ELSE proc[p]
    BY <1>0, <1>2
  <2> HIDE DEF Rows, Dates
  <2> QED
    BY <1>1, <1>2, <2>1
<1>3. ASSUME NEW e \in Events, NEW row, Go(e, row),
             \/ Unborn(e) /\ row = events'[e]
             \/ \E r \in Requests : request[r].pc = "remove" /\ request[r].event = e
      PROVE  Rows(proc'[p]) /\ Dates(proc'[p])
  <2> DEFINE y == [pc |-> "next", list |-> {[event |-> e, row |-> row]}]
  <2>1. PICK g \in Goroutines : proc' = [proc EXCEPT ![g] = y]
    BY <1>3 DEF Go
  <2>2. Hand(y) = {[event |-> e, row |-> row]} /\ ~Dated(y)
    BY DEF Hand, Dated
  <2> HIDE DEF y
  <2>3. Rows(y) /\ Dates(y)
    BY <1>3, <2>2
  <2> HIDE DEF Rows, Dates
  <2> QED
    BY <1>2, <2>1, <2>3 DEF Procs
<1>4. ASSUME NEW l \in Loops, ListActive(l)
      PROVE  Rows(proc'[p]) /\ Dates(proc'[p])
  <2> DEFINE active == {e \in Events : Exists(e) /\ events[e].status = "active"}
             rows == {RowOf(e) : e \in active}
             y == Continue(rows)
  <2>1. Hand(y) = rows /\ ~Dated(y)
    BY ContinueHand
  <2>2. \A x \in rows : Exists(x.event) /\ x.row = events[x.event]
    BY DEF RowOf
  <2>3. proc' = [proc EXCEPT ![l] = y] \/ proc' = proc
    BY <1>4 DEF ListActive
  <2> HIDE DEF rows, y
  <2>4. Rows(y) /\ Dates(y)
    BY <2>1, <2>2
  <2> HIDE DEF Rows, Dates
  <2> QED
    BY <1>1, <1>2, <2>3, <2>4 DEF Procs
<1>5. ASSUME NEW q \in Procs, ExpandEvent(q)
      PROVE  Rows(proc'[p]) /\ Dates(proc'[p])
  <2>1. proc[q].list \in SUBSET Work /\ Hand(proc[q]) = proc[q].list
    BY <1>0, <1>5 DEF ExpandEvent, ProcState, Idle, Hand
  <2>2. PICK x \in proc[q].list : proc' = [proc EXCEPT ![q] =
             IF Recurring(x.row)
             THEN Resume(proc[q].list \ {x}, x.event, Occurrences(x.row.schedule[1], x.row.start, now))
             ELSE IF StartInWindow(x.row)
             THEN [pc |-> "schedule", list |-> proc[q].list \ {x}, event |-> x.event,
                   dates |-> <<x.row.start>>]
             ELSE Continue(proc[q].list \ {x})]
    BY <1>5 DEF ExpandEvent
  <2> DEFINE rest == proc[q].list \ {x}
             s == x.row.schedule[1]
             dates == Occurrences(s, x.row.start, now)
             one == [pc |-> "schedule", list |-> rest, event |-> x.event,
                     dates |-> <<x.row.start>>]
             y == IF Recurring(x.row) THEN Resume(rest, x.event, dates)
                  ELSE IF StartInWindow(x.row) THEN one ELSE Continue(rest)
  <2>3. Recurring(x.row) => \A k \in 1..Len(dates) : dates[k] > now
    <3>1. SUFFICES ASSUME Recurring(x.row), NEW k \in 1..Len(dates) PROVE dates[k] > now
      OBVIOUS
    <3>2. x.row \in Row
      BY <2>1 DEF Work
    <3>3. Proper(s) /\ x.row.start \in Nat
      BY <3>1, <3>2, RowFields, AcceptedProper DEF Recurring
    <3> HIDE DEF s
    <3>4. InWindow(dates[k], now) /\ dates \in Seq(Nat)
      BY <1>0, <3>1, <3>3, OccurrencesInWindow
    <3>5. dates[k] \in Nat
      BY <3>1, <3>4, ElementOfSeq
    <3> HIDE DEF dates
    <3> QED
      BY <1>0, <3>4, <3>5 DEF InWindow
  <2>4. Hand(y) = rest
    BY ResumeHand, ContinueHand DEF Hand
  <2>5. Dated(y) => y.event = x.event /\ (Recurring(x.row) => y.dates = dates)
    <3>1. CASE Recurring(x.row)
      BY <3>1, ResumeHand
    <3>2. CASE ~Recurring(x.row)
      BY <3>2, ContinueHand DEF Dated
    <3> QED
      BY <3>1, <3>2
  <2>6. proc' = [proc EXCEPT ![q] = y]
    BY <2>2
  <2> HIDE DEF y, dates
  <2>7. q = p => Rows(y) /\ Dates(y)
    BY <2>1, <2>3, <2>4, <2>5
  <2> HIDE DEF Rows, Dates
  <2> QED
    BY <1>2, <2>6, <2>7
<1>6. ASSUME NEW q \in Procs, CheckExists(q) \/ Schedule(q)
      PROVE  Rows(proc'[p]) /\ Dates(proc'[p])
  <2> DEFINE tail == Tail(proc[q].dates)
             skip == Resume(proc[q].list, proc[q].event, tail)
             stay == [proc[q] EXCEPT !.pc = "schedule"]
  <2>1. Dated(proc[q]) /\ Hand(proc[q]) = proc[q].list
    BY <1>6 DEF CheckExists, Schedule, Dated, Hand
  <2>2. proc[q] \in [pc : {"exists", "schedule"}, list : SUBSET Work, event : Events,
                     dates : {d \in Seq(Nat) : d # <<>>}]
    BY <1>0, <2>1 DEF ProcState, Idle, Dated
  <2>3. \A k \in 1..Len(tail) : \E m \in 1..Len(proc[q].dates) : tail[k] = proc[q].dates[m]
    <3>1. proc[q].dates \in Seq(Nat) /\ proc[q].dates # <<>>
      BY <2>2
    <3> QED
      BY <3>1, TailElements
  <2>4. q = p => Rows(skip) /\ Dates(skip)
    <3>1. /\ Hand(skip) = proc[q].list
          /\ Dated(skip) => skip.event = proc[q].event /\ skip.dates = tail
      BY ResumeHand
    <3> HIDE DEF skip, tail
    <3> QED
      BY <2>1, <2>3, <3>1
  <2>5. q = p => Rows(stay) /\ Dates(stay)
    <3>1. stay = [pc |-> "schedule", list |-> proc[q].list, event |-> proc[q].event,
                  dates |-> proc[q].dates]
      BY <2>2
    <3>2. Hand(stay) = proc[q].list /\ stay.event = proc[q].event /\ stay.dates = proc[q].dates
      BY <3>1 DEF Hand
    <3> HIDE DEF stay
    <3> QED
      BY <2>1, <3>2
  <2>6. proc' = [proc EXCEPT ![q] = skip] \/ proc' = [proc EXCEPT ![q] = stay]
    BY <1>0, <1>6 DEF CheckExists, Schedule
  <2> HIDE DEF skip, stay, Rows, Dates
  <2> QED
    BY <1>2, <2>4, <2>5, <2>6
<1>7. ASSUME NEW e \in Events, NEW d \in Definitions, CreateEvent(e, d)
      PROVE  Rows(proc'[p]) /\ Dates(proc'[p])
  <2> DEFINE row == [start |-> d.start, schedule |-> d.schedule, status |-> "active",
                     created |-> now]
  <2>1. events' = [events EXCEPT ![e] = row] /\ (Go(e, row) \/ proc' = proc) /\ Unborn(e)
    BY <1>7 DEF CreateEvent, Unborn
  <2> HIDE DEF row
  <2>2. row = events'[e]
    BY <2>1 DEF EType
  <2> HIDE DEF Rows, Dates
  <2> QED
    BY <1>1, <1>3, <2>1, <2>2
<1>8. ASSUME NEW r \in Requests, RequestStep(r)
      PROVE  Rows(proc'[p]) /\ Dates(proc'[p])
  <2>1. CASE RemoveAndExpand(r)
    <3>1. request[r].event \in Events /\ Go(request[r].event, request[r].row)
      BY <2>1, RequestFields DEF RemoveAndExpand
    <3> HIDE DEF Rows, Dates
    <3> QED
      BY <1>3, <2>1, <3>1 DEF RemoveAndExpand
  <2> HIDE DEF Rows, Dates
  <2> QED
    BY <1>1, <1>8, <2>1 DEF RequestStep, WriteUpdate, Purge
<1> HIDE DEF Rows, Dates
<1>9. ASSUME NEW r \in Requests, NEW e \in Events,
             DeleteEvent(r, e) \/ \E edit \in Edits : ReadForUpdate(r, e, edit)
      PROVE  proc' = proc
  BY <1>9 DEF DeleteEvent, ReadForUpdate
<1>10. ASSUME NEW w \in Workers, WorkerStep(w)
       PROVE  proc' = proc
  BY <1>10 DEF WorkerStep, Fetch, Execute, CountCompleted, Inactivate
<1>11. ASSUME GetDueSchedules \/ ArchiveOldData \/ Tick \/ UNCHANGED expVars
       PROVE  proc' = proc
  BY <1>11 DEF GetDueSchedules, ArchiveOldData, Tick, expVars
<1>12. Rows(proc'[p]) /\ Dates(proc'[p])
  BY <1>1, <1>4, <1>5, <1>6, <1>7, <1>8, <1>9, <1>10, <1>11 DEF Next, ExpansionStep, Procs
<1> QED
  BY <1>12 DEF Rows, Dates

\* What a step may do to a request.
LEMMA RequestEffect ==
    ASSUME EType, [Next]_expVars, NEW r \in Requests, request'[r].pc \in {"write", "remove"}
    PROVE  \/ request[r].pc \in {"write", "remove"} /\ request'[r].event = request[r].event
           \/ Exists(request'[r].event) /\ request'[r].event \in edited'
<1>0. request \in [Requests -> RequestState]
  BY DEF EType
<1>1. ASSUME NEW q \in Requests, WriteUpdate(q)
      PROVE  request[r].pc \in {"write", "remove"} /\ request'[r].event = request[r].event
  <2>1. CASE q = r
    <3>1. request[r] = [pc |-> request[r].pc, event |-> request[r].event, row |-> request[r].row]
      BY <1>1, <2>1, RequestFields DEF WriteUpdate
    <3>2. request'[r] = [request[r] EXCEPT !.pc = "remove"] \/ request'[r] = [pc |-> "done"]
      BY <1>0, <1>1, <2>1 DEF WriteUpdate
    <3> QED
      BY <1>1, <2>1, <3>1, <3>2 DEF WriteUpdate
  <2>2. CASE q # r
    BY <1>0, <1>1, <2>2 DEF WriteUpdate
  <2> QED
    BY <2>1, <2>2
<1>2. ASSUME NEW q \in Requests, RemoveAndExpand(q) \/ Purge(q)
      PROVE  request'[r] = request[r]
  BY <1>0, <1>2 DEF RemoveAndExpand, Purge
<1>3. ASSUME NEW q \in Requests, NEW e \in Events, DeleteEvent(q, e)
      PROVE  request'[r] = request[r]
  BY <1>0, <1>3 DEF DeleteEvent
<1>4. ASSUME NEW q \in Requests, NEW e \in Events, NEW edit \in Edits, ReadForUpdate(q, e, edit)
      PROVE  request'[r] = request[r] \/ (Exists(request'[r].event) /\ request'[r].event \in edited')
  BY <1>0, <1>4 DEF ReadForUpdate
<1>5. ASSUME NEW l \in Loops, ListActive(l)
      PROVE  request'[r] = request[r]
  BY <1>5 DEF ListActive
<1>6. ASSUME NEW p \in Loops \cup Goroutines, ExpansionStep(p)
      PROVE  request'[r] = request[r]
  BY <1>6 DEF ExpansionStep, ExpandEvent, CheckExists, Schedule
<1>7. ASSUME NEW e \in Events, NEW d \in Definitions, CreateEvent(e, d)
      PROVE  request'[r] = request[r]
  BY <1>7 DEF CreateEvent
<1>8. ASSUME NEW w \in Workers, WorkerStep(w)
      PROVE  request'[r] = request[r]
  BY <1>8 DEF WorkerStep, Fetch, Execute, CountCompleted, Inactivate
<1>9. ASSUME GetDueSchedules \/ ArchiveOldData \/ Tick \/ UNCHANGED expVars
      PROVE  request'[r] = request[r]
  BY <1>9 DEF GetDueSchedules, ArchiveOldData, Tick, expVars
<1> QED
  BY <1>1, <1>2, <1>3, <1>4, <1>5, <1>6, <1>7, <1>8, <1>9 DEF Next, RequestStep

\* The delivery side: which worker, item, row and schedule a step may leave.
Deliveries(stored1, queue1, worker1, occurrences1) ==
    /\ \A s \in stored1 :
          \/ s \in stored
          \/ \E p \in Procs : Dated(proc[p]) /\ s.event = proc[p].event
    /\ \A i \in queue1 :
          \/ i \in queue
          \/ \E s \in Due : s.event = i.event /\ s.at = i.at
          \/ \E j \in queue : j.event = i.event /\ j.at = i.at
          \/ \E w \in Workers : Delivering(w, i.event, i.at)
    /\ \A w \in Workers : worker1[w] # Idle =>
          \/ worker[w] # Idle /\ worker1[w].item = worker[w].item /\ worker1[w].row = worker[w].row
          \/ /\ worker1[w].item \in queue
             /\ Exists(worker1[w].item.event)
             /\ worker1[w].row = events[worker1[w].item.event]
    /\ \A o \in occurrences1 :
          o \in occurrences \/ \E w \in Workers : Delivering(w, o.event, o.at)

LEMMA DeliveryEffect ==
    ASSUME EType, [Next]_expVars
    PROVE  Deliveries(stored', queue', worker', occurrences')
<1> DEFINE Fine == Deliveries(stored', queue', worker', occurrences')
<1>0. worker = [w \in Workers |-> worker[w]]
  BY DEF EType
<1>1. ASSUME stored' \subseteq stored, queue' = queue, worker' = worker,
             occurrences' \subseteq occurrences
      PROVE  Fine
  BY <1>1 DEF Deliveries
<1>2. ASSUME NEW p \in Procs, ExpansionStep(p)
      PROVE  Fine
  <2>1. CASE Schedule(p)
    <3>1. stored' \subseteq stored \cup {[event |-> proc[p].event, at |-> Head(proc[p].dates)]}
      BY <2>1 DEF Schedule
    <3>2. Dated(proc[p]) /\ queue' = queue /\ worker' = worker /\ occurrences' = occurrences
      BY <2>1 DEF Schedule, Dated
    <3> QED
      BY <3>1, <3>2 DEF Deliveries
  <2> QED
    BY <1>1, <1>2, <2>1 DEF ExpansionStep, ExpandEvent, CheckExists
<1>3. ASSUME GetDueSchedules
      PROVE  Fine
  BY <1>3 DEF GetDueSchedules, Deliveries, WithId
<1>4. ASSUME NEW w \in Workers, NEW i \in queue, Fetch(w, i)
      PROVE  Fine
  <2>1. \A j \in queue' : j \in queue \/ \E k \in queue : k.event = j.event /\ k.at = j.at
    <3>1. \A j \in RetryOf(i) : j.event = i.event /\ j.at = i.at
      BY RetryType DEF EType
    <3> QED
      BY <1>4, <3>1 DEF Fetch
  <2> DEFINE x == [pc |-> "execute", item |-> i, row |-> events[i.event]]
  <2>2. \A v \in Workers : worker'[v] = worker[v] \/ (worker'[v] = x /\ Exists(i.event))
    BY <1>0, <1>4 DEF Fetch
  <2>3. x.item = i /\ x.row = events[i.event]
    OBVIOUS
  <2>4. stored' = stored /\ occurrences' = occurrences
    BY <1>4 DEF Fetch
  <2> HIDE DEF x
  <2> QED
    BY <2>1, <2>2, <2>3, <2>4 DEF Deliveries
<1>5. ASSUME NEW w \in Workers, NEW ok \in BOOLEAN, Execute(w, ok)
      PROVE  Fine
  <2> DEFINE i == worker[w].item
             up(pc) == [worker[w] EXCEPT !.pc = pc]
             st == IF ok THEN "completed" ELSE "failed"
  <2>1. Busy(worker[w]) /\ Item(i) /\ worker[w] # Idle
    BY <1>5 DEF Execute, EType, Busy, Idle
  <2>2. Delivering(w, i.event, i.at)
    BY <1>5 DEF Execute, Delivering
  <2>3. \A j \in queue' : j \in queue \/ (j.event = i.event /\ j.at = i.at)
    BY <1>5, <2>1, RetryType DEF Execute
  <2>4. \A o \in occurrences' : o \in occurrences \/ (o.event = i.event /\ o.at = i.at)
    <3>1. occurrences' = occurrences \/ occurrences' = Logged(i, st)
      BY <1>5 DEF Execute
    <3> HIDE DEF i, st
    <3>2. SUFFICES ASSUME NEW o \in occurrences', o \notin occurrences
                   PROVE  o.event = i.event /\ o.at = i.at
      OBVIOUS
    <3>3. o \in Logged(i, st)
      BY <3>1, <3>2
    <3> QED
      BY <3>2, <3>3, LoggedRows
  <2>5. \A pc \in {"count", "update"} : up(pc).item = i /\ up(pc).row = worker[w].row
    BY <2>1, NextPc
  <2>6. \A v \in Workers :
           \/ worker'[v] = worker[v]
           \/ v = w /\ (worker'[v] = up("count") \/ worker'[v] = up("update") \/ worker'[v] = Idle)
    BY <1>0, <1>5 DEF Execute
  <2> HIDE DEF up, i
  <2>7. stored' = stored
    BY <1>5 DEF Execute
  <2> QED
    BY <2>1, <2>2, <2>3, <2>4, <2>5, <2>6, <2>7 DEF Deliveries, i
<1>13. ASSUME NEW w \in Workers, CountCompleted(w)
       PROVE  Fine
  <2> DEFINE up == [worker[w] EXCEPT !.pc = "update"]
  <2>1. Busy(worker[w]) /\ worker[w] # Idle
    BY <1>13 DEF CountCompleted, EType, Idle
  <2>2. up.item = worker[w].item /\ up.row = worker[w].row
    BY <2>1, NextPc
  <2>3. \A v \in Workers : worker'[v] = worker[v] \/ (v = w /\ (worker'[v] = up \/ worker'[v] = Idle))
    BY <1>0, <1>13 DEF CountCompleted
  <2> HIDE DEF up
  <2> QED
    BY <1>13, <2>1, <2>2, <2>3 DEF CountCompleted, Deliveries
<1>6. ASSUME NEW w \in Workers, Inactivate(w)
      PROVE  Fine
  <2>1. \A v \in Workers : worker'[v] = worker[v] \/ worker'[v] = Idle
    BY <1>0, <1>6 DEF Inactivate
  <2> QED
    BY <1>6, <2>1 DEF Inactivate, Deliveries
<1>7. ASSUME NEW r \in Requests, RequestStep(r)
      PROVE  Fine
  BY <1>1, <1>7 DEF RequestStep, WriteUpdate, RemoveAndExpand, Purge, StoredWithout
<1>8. ASSUME NEW r \in Requests, NEW e \in Events,
             DeleteEvent(r, e) \/ \E edit \in Edits : ReadForUpdate(r, e, edit)
      PROVE  Fine
  BY <1>1, <1>8 DEF DeleteEvent, ReadForUpdate
<1>9. ASSUME ArchiveOldData \/ Tick \/ UNCHANGED expVars
      PROVE  Fine
  BY <1>1, <1>9 DEF ArchiveOldData, Tick, expVars
<1>10. ASSUME NEW l \in Loops, ListActive(l)
       PROVE  Fine
  BY <1>1, <1>10 DEF ListActive
<1>11. ASSUME NEW e \in Events, NEW d \in Definitions, CreateEvent(e, d)
       PROVE  Fine
  BY <1>1, <1>11 DEF CreateEvent
<1> HIDE DEF Fine
<1>12. Fine
  BY <1>2, <1>3, <1>4, <1>5, <1>6, <1>7, <1>8, <1>9, <1>10, <1>11, <1>13
     DEF Next, WorkerStep, Procs
<1> QED
  BY <1>12 DEF Fine

LEMMA UnheardStep ==
    ASSUME StepsFit, GracePeriod = 0, EType, Unheard, SameRule, [Next]_expVars
    PROVE  Unheard'
<1>1. SUFFICES ASSUME NEW e \in Events, Unborn(e)'
               PROVE  /\ ~Held(e)'
                      /\ \A s \in stored' : s.event # e
                      /\ \A i \in queue' : i.event # e
                      /\ \A w \in Workers : worker'[w] # Idle => worker'[w].item.event # e
                      /\ \A o \in occurrences' : o.event # e
  BY DEF Unheard
<1>2. Unborn(e) /\ ~Exists(e) /\ ~Exists(e)'
  BY <1>1, EventEffect DEF Unborn, Exists, NoRow
<1>3. /\ ~Held(e)
      /\ \A s \in stored : s.event # e
      /\ \A i \in queue : i.event # e
      /\ \A w \in Workers : worker[w] # Idle => worker[w].item.event # e
      /\ \A o \in occurrences : o.event # e
  BY <1>2 DEF Unheard
<1>4. \A p \in Procs : /\ \A x \in Hand(proc[p]) : x.event # e
                       /\ Dated(proc[p]) => proc[p].event # e
  BY <1>3 DEF Held, Hand, Dated, Procs
<1>5. \A r \in Requests : request[r].pc \in {"write", "remove"} => request[r].event # e
  BY <1>3 DEF Held
<1>6. \A w \in Workers : \A t : ~Delivering(w, e, t)
  BY <1>3 DEF Delivering, Idle
<1>7. /\ \A s \in stored' : s.event # e
      /\ \A i \in queue' : i.event # e
      /\ \A w \in Workers : worker'[w] # Idle => worker'[w].item.event # e
      /\ \A o \in occurrences' : o.event # e
  BY <1>3, <1>4, <1>6, DeliveryEffect DEF Deliveries, Due
<1>8. ASSUME NEW p \in Procs, NEW x \in Hand(proc'[p]), x.event = e
      PROVE  FALSE
  <2>1. Unborn(x.event) /\ x.row = events'[x.event]
    BY <1>2, <1>4, <1>5, <1>8, ProcEffect
  <2>2. x.row \in Row
    <3>1. proc'[p] \in ProcState
      BY NextType DEF EType
    <3>2. x \in Work
      BY <1>8, <3>1 DEF ProcState, Hand, Idle
    <3> QED
      BY <3>2 DEF Work
  <2>3. x.row \notin NoRow
    BY <2>2, RowFields
  <2> QED
    BY <1>1, <1>8, <2>1, <2>3 DEF Unborn, NoRow
<1>9. \A p \in Procs : Dated(proc'[p]) => proc'[p].event # e
  BY <1>4, ProcEffect
<1>10. \A r \in Requests : request'[r].pc \in {"write", "remove"} => request'[r].event # e
  BY <1>2, <1>5, RequestEffect
<1>11. ~Held(e)'
  BY <1>8, <1>9, <1>10 DEF Held, Hand, Dated, Procs
<1> QED
  BY <1>7, <1>11

LEMMA SameRuleStep ==
    ASSUME StepsFit, GracePeriod = 0, EType, Unheard, SameRule, [Next]_expVars
    PROVE  SameRule'
<1>1. \A r \in Requests : request'[r].pc \in {"write", "remove"} => request'[r].event \in edited'
  <2>1. SUFFICES ASSUME NEW r \in Requests, request'[r].pc \in {"write", "remove"}
                 PROVE  request'[r].event \in edited'
    OBVIOUS
  <2>2. CASE request[r].pc \in {"write", "remove"} /\ request'[r].event = request[r].event
    <3>1. request[r].event \in edited /\ request[r].event \in Events
      BY <2>2, RequestFields DEF SameRule
    <3> QED
      BY <2>2, <3>1, EventEffect
  <2> QED
    BY <2>1, <2>2, RequestEffect
<1>2. SUFFICES ASSUME NEW e \in Events, e \notin edited', Exists(e)'
               PROVE  /\ \A p \in Procs : \A x \in Hand(proc'[p]) :
                            x.event = e => x.row.schedule = events'[e].schedule
                      /\ \A w \in Workers : worker'[w] # Idle /\ worker'[w].item.event = e =>
                            worker'[w].row.schedule = events'[e].schedule
  BY <1>1 DEF SameRule
<1>3. /\ Unborn(e) \/ (Exists(e) /\ events'[e].schedule = events[e].schedule)
      /\ e \notin edited
  BY <1>2, EventEffect
<1>4. \A r \in Requests : request[r].pc = "remove" => request[r].event # e
  BY <1>3 DEF SameRule
<1>5. CASE Unborn(e)
  <2>1. ~Held(e) /\ ~Exists(e)
    BY <1>5 DEF Unheard, Unborn, Exists, NoRow
  <2>2. \A p \in Procs : \A x \in Hand(proc[p]) : x.event # e
    BY <2>1 DEF Held, Hand, Procs
  <2>3. \A p \in Procs : \A x \in Hand(proc'[p]) : x.event = e => x.row = events'[e]
    BY <1>4, <2>1, <2>2, ProcEffect
  <2>4. \A w \in Workers : worker'[w] # Idle => worker'[w].item.event # e
    BY <1>5, DeliveryEffect DEF Deliveries, Unheard
  <2> QED
    BY <2>3, <2>4
<1>6. CASE ~Unborn(e)
  <2>1. Exists(e) /\ events'[e].schedule = events[e].schedule
    BY <1>3, <1>6
  <2>2. /\ \A p \in Procs : \A x \in Hand(proc[p]) :
              x.event = e => x.row.schedule = events[e].schedule
        /\ \A w \in Workers : worker[w] # Idle /\ worker[w].item.event = e =>
              worker[w].row.schedule = events[e].schedule
    BY <1>3, <2>1 DEF SameRule
  <2>3. \A p \in Procs : \A x \in Hand(proc'[p]) :
           x.event = e => x.row.schedule = events'[e].schedule
    BY <1>4, <1>6, <2>1, <2>2, ProcEffect
  <2>4. \A w \in Workers : worker'[w] # Idle /\ worker'[w].item.event = e =>
           worker'[w].row.schedule = events'[e].schedule
    BY <2>1, <2>2, DeliveryEffect DEF Deliveries
  <2> QED
    BY <2>3, <2>4
<1> QED
  BY <1>5, <1>6

\* A tracked event was tracked before, or nobody had heard of it.
LEMMA TrackedBefore ==
    ASSUME EType, SameRule, [Next]_expVars, NEW e \in Events, Tracked(e)'
    PROVE  Tracked(e) \/ Unborn(e)
BY EventEffect DEF Tracked, Recurring

LEMMA AheadStep ==
    ASSUME StepsFit, GracePeriod = 0, Prompt, EType, Unheard, SameRule, Ahead, [Next]_expVars
    PROVE  Ahead'
<1>0. now \in Nat /\ EType'
  BY NextType DEF EType
<1>1. now' = now \/ (now' = now + 1 /\ proc' = proc /\ \A p \in Procs : proc[p] = Idle)
  <2>1. CASE Tick
    BY <2>1 DEF Tick, OnTime, Procs
  <2> QED
    BY <2>1 DEF Next, ListActive, ExpansionStep, ExpandEvent, CheckExists, Schedule,
       CreateEvent, RequestStep, WriteUpdate, RemoveAndExpand, Purge, DeleteEvent,
       ReadForUpdate, GetDueSchedules, WorkerStep, Fetch, Execute, CountCompleted, Inactivate,
       ArchiveOldData, expVars
<1>2. SUFFICES ASSUME NEW e \in Events, Tracked(e)'
               PROVE  /\ \A p \in Procs : Dated(proc'[p]) /\ proc'[p].event = e =>
                            \A k \in 1..Len(proc'[p].dates) : proc'[p].dates[k] > now'
                      /\ \A i \in queue' : i.event = e => i.at <= now'
                      /\ \A w \in Workers : worker'[w] # Idle /\ worker'[w].item.event = e =>
                            worker'[w].item.at <= now'
                      /\ \A o \in occurrences' : o.event = e => o.at <= now'
  BY DEF Ahead
<1>3. CASE Unborn(e)
  <2>1. /\ ~Held(e)
        /\ \A s \in stored : s.event # e
        /\ \A i \in queue : i.event # e
        /\ \A w \in Workers : worker[w] # Idle => worker[w].item.event # e
        /\ \A o \in occurrences : o.event # e
    BY <1>3 DEF Unheard
  <2>2. \A p \in Procs : Dated(proc'[p]) => proc'[p].event # e
    BY <2>1, ProcEffect DEF Held, Hand, Dated, Procs
  <2>3. \A w \in Workers : \A t : ~Delivering(w, e, t)
    BY <2>1 DEF Delivering, Idle
  <2>4. /\ \A i \in queue' : i.event # e
        /\ \A w \in Workers : worker'[w] # Idle => worker'[w].item.event # e
        /\ \A o \in occurrences' : o.event # e
    BY <2>1, <2>3, DeliveryEffect DEF Deliveries, Due
  <2> QED
    BY <2>2, <2>4
<1>4. CASE Tracked(e)
  <2>1. /\ \A p \in Procs : Dated(proc[p]) /\ proc[p].event = e =>
              \A k \in 1..Len(proc[p].dates) : proc[p].dates[k] > now
        /\ \A i \in queue : i.event = e => i.at <= now
        /\ \A w \in Workers : worker[w] # Idle /\ worker[w].item.event = e =>
              worker[w].item.at <= now
        /\ \A o \in occurrences : o.event = e => o.at <= now
    BY <1>4 DEF Ahead
  <2>2. \A p \in Procs : \A x \in Hand(proc[p]) : x.event = e => Recurring(x.row)
    BY <1>4 DEF SameRule, Tracked, Recurring
  <2>3. ASSUME NEW p \in Procs, Dated(proc'[p]), proc'[p].event = e
        PROVE  \A k \in 1..Len(proc'[p].dates) : proc'[p].dates[k] > now'
    <3>1. now' = now
      BY <1>1, <2>3 DEF Dated, Idle
    <3>2. \A k \in 1..Len(proc'[p].dates) : proc'[p].dates[k] > now
      BY <2>1, <2>2, <2>3, ProcEffect
    <3> QED
      BY <3>1, <3>2
  <2>4. \A w \in Workers : \A t : Delivering(w, e, t) => t <= now
    BY <2>1 DEF Delivering, Idle
  <2>5. \A i \in queue' : i.event = e => i.at <= now
    BY <2>1, <2>4, DeliveryEffect DEF Deliveries, Due
  <2>6. \A w \in Workers : worker'[w] # Idle /\ worker'[w].item.event = e =>
           worker'[w].item.at <= now
    BY <2>1, DeliveryEffect DEF Deliveries
  <2>7. \A o \in occurrences' : o.event = e => o.at <= now
    BY <2>1, <2>4, DeliveryEffect DEF Deliveries
  <2>8. /\ \A i \in queue' : i.at \in Nat
        /\ \A w \in Workers : worker'[w] # Idle => worker'[w].item.at \in Nat
        /\ \A o \in occurrences' : o.at \in Nat
    BY <1>0 DEF EType, Item, Busy, OccurrenceRow
  <2>9. \A t \in Nat : t <= now => t <= now'
    BY <1>0, <1>1
  <2> QED
    BY <2>3, <2>5, <2>6, <2>7, <2>8, <2>9
<1> QED
  BY <1>2, <1>3, <1>4, TrackedBefore

\* Nothing new of e anywhere.
LEMMA OnePlaceShrinks ==
    ASSUME NEW e \in Events, OnePlace(e),
           \A s \in stored' : s.event = e => s \in stored,
           \A i \in queue' : i.event = e => i \in queue,
           \A w \in Workers : \A t : Delivering(w, e, t)' => Delivering(w, e, t),
           occurrences' \subseteq occurrences
    PROVE  OnePlace(e)'
<1>1. Completed(e)' \subseteq Completed(e)
  BY DEF Completed
<1> QED
  BY <1>1 DEF OnePlace

\* An expansion stores a date that lies ahead, where nothing of e is yet.
LEMMA ScheduleOnePlace ==
    ASSUME EType, Ahead, NEW e \in Events, Tracked(e), OnePlace(e), NEW p \in Procs, Schedule(p)
    PROVE  OnePlace(e)'
<1> DEFINE t == Head(proc[p].dates)
           new == [event |-> proc[p].event, at |-> t]
<1>1. /\ stored' \subseteq stored \cup {new}
      /\ queue' = queue /\ worker' = worker /\ occurrences' = occurrences
  BY DEF Schedule
<1>2. \A w \in Workers : \A u : Delivering(w, e, u)' <=> Delivering(w, e, u)
  BY <1>1 DEF Delivering
<1>3. CASE proc[p].event # e
  BY <1>1, <1>2, <1>3, OnePlaceShrinks
<1>4. CASE proc[p].event = e
  <2>1. proc[p].dates \in Seq(Nat) /\ proc[p].dates # <<>>
    <3>1. proc[p] \in ProcState
      BY DEF EType
    <3> QED
      BY <3>1 DEF Schedule, ProcState, Idle
  <2>2. t = proc[p].dates[1] /\ 1 \in 1..Len(proc[p].dates) /\ t \in Nat
    BY <2>1, TailElements, HeadTailProperties
  <2>3. t > now /\ now \in Nat
    BY <1>4, <2>2 DEF Ahead, Schedule, Dated, EType
  <2>4. \A i \in queue : i.event = e => i.at # t
    BY <2>2, <2>3 DEF Ahead, EType, Item
  <2>5. \A w \in Workers : ~Delivering(w, e, t)
    <3>1. ASSUME NEW w \in Workers, Delivering(w, e, t)
          PROVE  FALSE
      <4>1. worker[w] # Idle /\ worker[w].item.event = e /\ worker[w].item.at = t
        BY <3>1 DEF Delivering, Idle
      <4> QED
        BY <2>2, <2>3, <4>1 DEF Ahead
    <3> QED
      BY <3>1
  <2>6. \A o \in Completed(e) : o.at # t
    BY <2>2, <2>3 DEF Ahead, Completed, EType, OccurrenceRow
  <2> HIDE DEF t
  <2>7. \A s \in stored' : s \in stored \/ s.at = t
    BY <1>1
  <2>8. Completed(e)' = Completed(e)
    BY <1>1 DEF Completed
  <2> QED
    BY <1>1, <1>2, <2>4, <2>5, <2>6, <2>7, <2>8 DEF OnePlace
<1> QED
  BY <1>3, <1>4

\* What is due goes from the store into the queue.
LEMMA DueOnePlace ==
    ASSUME EType, NEW e \in Events, OnePlace(e), GetDueSchedules
    PROVE  OnePlace(e)'
<1>1. /\ stored' = stored \ Due /\ worker' = worker /\ occurrences' = occurrences
      /\ queue' = queue \cup {WithId(s) : s \in Due}
  BY DEF GetDueSchedules
<1>2. \A s \in Due : s \in stored /\ WithId(s).event = s.event /\ WithId(s).at = s.at
  BY DEF Due, WithId
<1>3. \A s, u \in stored : s.event = u.event /\ s.at = u.at => s = u
  BY DEF EType
<1>4. \A i \in queue' : i \in queue \/ \E s \in Due : s.event = i.event /\ s.at = i.at /\ i = WithId(s)
  BY <1>1, <1>2
<1>5. \A w \in Workers : \A u : Delivering(w, e, u)' <=> Delivering(w, e, u)
  BY <1>1 DEF Delivering
<1>6. Completed(e)' = Completed(e)
  BY <1>1 DEF Completed
<1>7. \A i, j \in queue' : i.event = e /\ j.event = e /\ i.at = j.at => i = j
  BY <1>2, <1>3, <1>4 DEF OnePlace
<1>8. \A i \in queue', w \in Workers : i.event = e => ~Delivering(w, e, i.at)'
  BY <1>2, <1>4, <1>5 DEF OnePlace
<1>9. \A s \in stored' : s.event = e => \A i \in queue' : i.event = e => i.at # s.at
  BY <1>1, <1>2, <1>3, <1>4 DEF OnePlace
<1>10. \A o \in Completed(e) : \A i \in queue' : i.event = e => i.at # o.at
  BY <1>2, <1>4 DEF OnePlace
<1> QED
  BY <1>1, <1>5, <1>6, <1>7, <1>8, <1>9, <1>10 DEF OnePlace

\* An item goes from the queue to the worker.
LEMMA FetchOnePlace ==
    ASSUME EType, NEW e \in Events, Tracked(e), OnePlace(e), NEW w \in Workers,
           NEW i \in queue, Fetch(w, i)
    PROVE  OnePlace(e)'
<1>0. worker = [v \in Workers |-> worker[v]] /\ Item(i)
  BY DEF EType
<1>1. stored' = stored /\ occurrences' = occurrences /\ Completed(e)' = Completed(e)
  BY DEF Fetch, Completed
<1>2. CASE ~Exists(i.event)
  <2>1. i.event # e
    BY <1>2 DEF Tracked
  <2>2. \A j \in queue' : j.event = e => j \in queue
    BY <1>0, <1>2, <2>1, RetryType DEF Fetch
  <2>3. worker' = worker
    BY <1>2 DEF Fetch
  <2> QED
    BY <1>1, <2>2, <2>3, OnePlaceShrinks DEF Delivering
<1>3. CASE Exists(i.event)
  <2> DEFINE x == [pc |-> "execute", item |-> i, row |-> events[i.event]]
  <2>1. queue' = queue \ {i} /\ \A v \in Workers : worker'[v] = IF v = w THEN x ELSE worker[v]
    BY <1>0, <1>3 DEF Fetch
  <2>2. x.pc = "execute" /\ x.item = i
    OBVIOUS
  <2> HIDE DEF x
  <2>3. \A v \in Workers : \A t :
           Delivering(v, e, t)' <=> IF v = w THEN i.event = e /\ i.at = t ELSE Delivering(v, e, t)
    BY <2>1, <2>2 DEF Delivering
  <2>4. \A v, u \in Workers : \A t \in Nat : Delivering(v, e, t)' /\ Delivering(u, e, t)' => v = u
    BY <2>3 DEF OnePlace
  <2>5. \A j \in queue', v \in Workers : j.event = e => ~Delivering(v, e, j.at)'
    BY <2>1, <2>3 DEF OnePlace
  <2>6. \A s \in stored : s.event = e => \A v \in Workers : ~Delivering(v, e, s.at)'
    BY <2>3 DEF OnePlace
  <2>7. \A o \in Completed(e) : \A v \in Workers : ~Delivering(v, e, o.at)'
    BY <2>3 DEF OnePlace
  <2> QED
    BY <1>1, <2>1, <2>4, <2>5, <2>6, <2>7 DEF OnePlace
<1> QED
  BY <1>2, <1>3

\* A delivery becomes a row of occurrences or, when it failed, goes back into
\* the queue.
LEMMA ExecuteOnePlace ==
    ASSUME EType, NEW e \in Events, Tracked(e), OnePlace(e), NEW w \in Workers,
           NEW ok \in BOOLEAN, Execute(w, ok)
    PROVE  OnePlace(e)'
<1> DEFINE i == worker[w].item
           st == IF ok THEN "completed" ELSE "failed"
           same == {o \in occurrences : o.event = i.event /\ o.at = i.at /\ o.status = st}
<1>0. worker = [v \in Workers |-> worker[v]] /\ Item(i)
  BY DEF EType, Execute, Busy, Idle
<1>1. stored' = stored
  BY DEF Execute
<1>2. \A v \in Workers : v # w => worker'[v] = worker[v]
  BY <1>0 DEF Execute
<1>3. worker'[w].pc # "execute"
  <2> DEFINE up(pc) == [worker[w] EXCEPT !.pc = pc]
  <2>1. \A pc \in {"count", "update"} : up(pc).pc = pc
    <3>1. Busy(worker[w])
      BY DEF EType, Execute, Idle
    <3> QED
      BY <3>1, NextPc
  <2>2. worker'[w] = up("count") \/ worker'[w] = up("update") \/ worker'[w] = Idle
    BY <1>0 DEF Execute
  <2> HIDE DEF up
  <2> QED
    BY <2>1, <2>2 DEF Idle
<1>4. \A v \in Workers : \A t : Delivering(v, e, t)' => v # w /\ Delivering(v, e, t)
  BY <1>2, <1>3 DEF Delivering
<1>5. \A t : Delivering(w, e, t) <=> i.event = e /\ t = i.at
  BY DEF Execute, Delivering
<1>6. occurrences' = occurrences \/ occurrences' = Logged(i, st)
  BY DEF Execute
<1>7. queue' = IF ok THEN queue ELSE queue \cup RetryOf(i)
  BY DEF Execute
<1> HIDE DEF i
<1>8. PICK t \in Nat : t = i.at
  BY <1>0 DEF Item
<1>9. ASSUME NEW o \in occurrences', o \notin occurrences
       PROVE  /\ o.event = i.event /\ o.at = i.at /\ o.status = st
              /\ o.n = Cardinality(same) + 1
  <2> HIDE DEF st
  <2>1. o \in Logged(i, st)
    BY <1>6, <1>9
  <2> QED
    BY <1>9, <2>1, LoggedRows
<1>10. CASE i.event # e
  <2>1. \A j \in queue' : j.event = e => j \in queue
    BY <1>0, <1>7, <1>10, RetryType
  <2>2. \A o \in occurrences' : o.event = e => o \in occurrences
    BY <1>10, <1>9
  <2>3. Completed(e)' \subseteq Completed(e)
    BY <2>2 DEF Completed
  <2> QED
    BY <1>1, <1>4, <2>1, <2>3 DEF OnePlace
<1>11. CASE i.event = e /\ ok
  <2>1. queue' = queue
    BY <1>7, <1>11
  <2>2. \A o \in Completed(e) : o.at # i.at
    BY <1>5, <1>11 DEF OnePlace
  <2>3. same = {}
    BY <1>11, <2>2 DEF Completed
  <2>4. Cardinality(same) + 1 = 1
    BY <2>3, FS_EmptySet
  <2>5. ASSUME NEW o \in Completed(e)', o \notin Completed(e)
        PROVE  o.at = i.at /\ o.n = 1
    <3>1. o \notin occurrences
      BY <2>5 DEF Completed
    <3>2. o \in occurrences'
      BY <2>5 DEF Completed
    <3>3. o.at = i.at /\ o.n = Cardinality(same) + 1
      BY <1>9, <3>1, <3>2
    <3> QED
      BY <2>4, <3>3
  <2>6. \A j \in queue : j.event = e => j.at # i.at
    BY <1>5, <1>11 DEF OnePlace
  <2>7. \A v \in Workers : ~Delivering(v, e, t)'
    BY <1>4, <1>5, <1>11, <1>8 DEF OnePlace
  <2>8. \A s \in stored : s.event = e => s.at # i.at
    BY <1>5, <1>11 DEF OnePlace
  <2> HIDE DEF same
  <2>9. \A s \in stored' : s.event = e => \A o \in Completed(e)' : o.at # s.at
    BY <1>1, <2>5, <2>8 DEF OnePlace
  <2>10. \A o \in Completed(e)' :
           /\ o.n = 1
           /\ \A j \in queue' : j.event = e => j.at # o.at
           /\ \A v \in Workers : ~Delivering(v, e, o.at)'
    BY <1>4, <1>8, <2>1, <2>5, <2>6, <2>7 DEF OnePlace
  <2> QED
    BY <1>1, <1>4, <2>1, <2>9, <2>10 DEF OnePlace
<1>12. CASE i.event = e /\ ~ok
  <2>1. \A o \in occurrences' : o \in occurrences \/ o.status = "failed"
    BY <1>12, <1>9
  <2>2. Completed(e)' \subseteq Completed(e)
    BY <2>1 DEF Completed
  <2>3. /\ \A j \in queue' : j \in queue \/ (j \in RetryOf(i) /\ j.event = e /\ j.at = i.at)
        /\ \A j, k \in RetryOf(i) : j = k
    BY <1>0, <1>7, <1>12, RetryType DEF RetryOf
  <2>4. \A j \in queue : j.event = e => j.at # i.at
    BY <1>5, <1>12 DEF OnePlace
  <2>5. \A j, k \in queue' : j.event = e /\ k.event = e /\ j.at = k.at => j = k
    BY <2>3, <2>4 DEF OnePlace
  <2>6. \A v \in Workers : ~Delivering(v, e, t)'
    BY <1>4, <1>5, <1>12, <1>8 DEF OnePlace
  <2>7. \A j \in queue', v \in Workers : j.event = e => ~Delivering(v, e, j.at)'
    BY <1>4, <1>8, <2>3, <2>6 DEF OnePlace
  <2>8. \A s \in stored : s.event = e => \A j \in queue' : j.event = e => j.at # s.at
    BY <1>5, <1>12, <2>3 DEF OnePlace
  <2>9. \A o \in Completed(e) : \A j \in queue' : j.event = e => j.at # o.at
    BY <1>5, <1>12, <2>3 DEF OnePlace
  <2> QED
    BY <1>1, <1>4, <2>2, <2>5, <2>7, <2>8, <2>9 DEF OnePlace
<1> QED
  BY <1>10, <1>11, <1>12

LEMMA OnePlaceStep ==
    ASSUME StepsFit, GracePeriod = 0, Prompt, EType, Unheard, SameRule, Ahead, AllInOnePlace,
           [Next]_expVars
    PROVE  AllInOnePlace'
<1>1. SUFFICES ASSUME NEW e \in Events, Tracked(e)'
               PROVE  OnePlace(e)'
  BY DEF AllInOnePlace
<1>2. CASE Unborn(e)
  <2>1. /\ ~Held(e)
        /\ \A s \in stored : s.event # e
        /\ \A i \in queue : i.event # e
        /\ \A w \in Workers : worker[w] # Idle => worker[w].item.event # e
        /\ \A o \in occurrences : o.event # e
    BY <1>2 DEF Unheard
  <2>2. \A p \in Procs : Dated(proc[p]) => proc[p].event # e
    BY <2>1 DEF Held, Dated, Procs
  <2>3. \A w \in Workers : \A t : ~Delivering(w, e, t)
    BY <2>1 DEF Delivering, Idle
  <2>4. /\ \A s \in stored' : s.event # e
        /\ \A i \in queue' : i.event # e
        /\ \A w \in Workers : worker'[w] # Idle => worker'[w].item.event # e
        /\ \A o \in occurrences' : o.event # e
    BY <2>1, <2>2, <2>3, DeliveryEffect DEF Deliveries, Due
  <2>5. \A w \in Workers : \A t : ~Delivering(w, e, t)'
    BY <2>4 DEF Delivering, Idle
  <2>6. Completed(e)' = {}
    BY <2>4 DEF Completed
  <2> QED
    BY <2>4, <2>5, <2>6 DEF OnePlace
<1>3. CASE Tracked(e)
  <2>0. OnePlace(e) /\ worker = [w \in Workers |-> worker[w]]
    BY <1>3 DEF AllInOnePlace, EType
  <2>1. ASSUME stored' \subseteq stored, queue' = queue, worker' = worker,
               occurrences' \subseteq occurrences
        PROVE  OnePlace(e)'
    BY <2>0, <2>1, OnePlaceShrinks DEF Delivering
  <2>2. ASSUME NEW p \in Procs, ExpansionStep(p)
        PROVE  OnePlace(e)'
    <3>1. CASE Schedule(p)
      BY <1>3, <2>0, <3>1, ScheduleOnePlace
    <3> QED
      BY <2>1, <2>2, <3>1 DEF ExpansionStep, ExpandEvent, CheckExists
  <2>3. ASSUME NEW w \in Workers, WorkerStep(w)
        PROVE  OnePlace(e)'
    <3>1. CASE CountCompleted(w) \/ Inactivate(w)
      <4>1. /\ stored' = stored /\ queue' = queue /\ occurrences' = occurrences
            /\ \A v \in Workers : worker'[v] = worker[v] \/ worker'[v].pc # "execute"
        <5>1. CASE Inactivate(w)
          BY <2>0, <5>1 DEF Inactivate, Idle
        <5>2. CASE CountCompleted(w)
          <6> DEFINE up == [worker[w] EXCEPT !.pc = "update"]
          <6>1. up.pc = "update"
            BY <5>2, NextPc DEF CountCompleted, EType, Idle
          <6>2. \A v \in Workers : worker'[v] = worker[v] \/ worker'[v] = up \/ worker'[v] = Idle
            BY <2>0, <5>2 DEF CountCompleted
          <6> HIDE DEF up
          <6> QED
            BY <5>2, <6>1, <6>2 DEF CountCompleted, Idle
        <5> QED
          BY <3>1, <5>1, <5>2
      <4>2. \A v \in Workers : \A t : Delivering(v, e, t)' => Delivering(v, e, t)
        BY <4>1 DEF Delivering
      <4> QED
        BY <2>0, <4>1, <4>2, OnePlaceShrinks
    <3> QED
      BY <1>3, <2>0, <2>3, <3>1, FetchOnePlace, ExecuteOnePlace DEF WorkerStep
  <2>4. ASSUME NEW r \in Requests, RequestStep(r)
        PROVE  OnePlace(e)'
    BY <2>1, <2>4 DEF RequestStep, WriteUpdate, RemoveAndExpand, Purge, StoredWithout
  <2>5. ASSUME NEW r \in Requests, NEW x \in Events,
               DeleteEvent(r, x) \/ \E edit \in Edits : ReadForUpdate(r, x, edit)
        PROVE  OnePlace(e)'
    BY <2>1, <2>5 DEF DeleteEvent, ReadForUpdate
  <2>6. ASSUME ArchiveOldData \/ Tick \/ UNCHANGED expVars
        PROVE  OnePlace(e)'
    BY <2>1, <2>6 DEF ArchiveOldData, Tick, expVars
  <2>7. ASSUME NEW l \in Loops, ListActive(l)
        PROVE  OnePlace(e)'
    BY <2>1, <2>7 DEF ListActive
  <2>8. ASSUME NEW x \in Events, NEW d \in Definitions, CreateEvent(x, d)
        PROVE  OnePlace(e)'
    BY <2>1, <2>8 DEF CreateEvent
  <2> QED
    BY <2>0, <2>2, <2>3, <2>4, <2>5, <2>6, <2>7, <2>8, DueOnePlace DEF Next, Procs
<1> QED
  BY <1>1, <1>2, <1>3, TrackedBefore

\* The dates of a recurring event of which no PUT has read the row are each
\* delivered at most once, by however many instances and workers, although
\* ExistsAtTime sees a date only after its delivery and the schedule leaves
\* Redis before: with no grace period, and with expansions that end within their
\* second, a date that is scheduled lies ahead of everything delivered.  With a
\* grace period it is not so (run exp_duplicate).
THEOREM NoDateDeliveredTwice ==
    ASSUME StepsFit, GracePeriod = 0, Prompt
    PROVE  Spec => []DeliveredOnce
<1> DEFINE Inv == EType /\ Unheard /\ SameRule /\ Ahead /\ AllInOnePlace
<1>1. Init => Inv
  <2>1. SUFFICES ASSUME Init PROVE Inv
    OBVIOUS
  <2>2. \A e \in Events : ~Exists(e) /\ ~Held(e)
    BY <2>1 DEF Init, Exists, NoRow, Held, Idle
  <2>3. Unheard
    BY <2>1, <2>2 DEF Init, Unheard
  <2>4. SameRule
    BY <2>1, <2>2 DEF Init, SameRule
  <2> QED
    BY <2>1, <2>2, <2>3, <2>4, InitType DEF Ahead, AllInOnePlace, Tracked
<1>2. Inv /\ [Next]_expVars => Inv'
  BY NextType, UnheardStep, SameRuleStep, AheadStep, OnePlaceStep
<1>3. Inv => DeliveredOnce
  BY DEF EType, OccurrenceRow, AllInOnePlace, Tracked, OnePlace, Completed, DeliveredOnce
<1> QED
  BY <1>1, <1>2, <1>3, PTL DEF Spec

-----------------------------------------------------------------------------
(* No date goes by unnoticed *)

\* Whoever removes the schedules of an event has changed or deleted it.
Owned ==
    \A r \in Requests :
        /\ request[r].pc \in {"write", "remove"} => request[r].event \in edited
        /\ request[r].pc = "purge" => Gone(request[r].event)

\* Every ticker ticks in time.
TickersTick ==
    /\ nextRun \in [Loops -> Nat]
    /\ \A l \in Loops : /\ nextRun[l] <= now + ExpansionInterval
                        /\ now <= nextRun[l] \/ now > MaxNow

\* A date of an active event that NothingMissed is about, before it has come too.
Expected(e, t) ==
    /\ e \notin edited /\ Exists(e) /\ events[e].status = "active" /\ Recurring(events[e])
    /\ FollowsRule(events[e].schedule[1], events[e].start)
    /\ t >= events[e].created + 1 + (MaxFaults + 1) * ExpansionInterval
    /\ t >= now - Retention
    /\ OnRule(events[e].schedule[1], events[e].start, t)

\* A date is on its way to its row, or has it.
Known(e, t) ==
    \/ [event |-> e, at |-> t] \in stored
    \/ \E i \in queue : i.event = e /\ i.at = t
    \/ \E w \in Workers : Delivering(w, e, t)
    \/ ExistsAtTime(e, t)

\* The expansion that l is at has still to come to t.
Pending(l, e, t) ==
    \/ RowOf(e) \in Hand(proc[l])
    \/ /\ Dated(proc[l]) /\ proc[l].event = e
       /\ \E k \in 1..Len(proc[l].dates) : proc[l].dates[k] = t

\* Before t, l makes one expansion more than can still fail, the one it is at
\* included if t is pending.
InTime(l, e, t) ==
    \/ nextRun[l] + (MaxFaults - faults) * ExpansionInterval < t
    \/ /\ Pending(l, e, t)
       /\ nextRun[l] + (MaxFaults - faults) * ExpansionInterval < t + ExpansionInterval

NoneLost ==
    \A e \in Events, t \in 0..MaxNow : Expected(e, t) =>
        Known(e, t) \/ (now < t /\ \A l \in Loops : InTime(l, e, t))

LEMMA OwnedStep ==
    ASSUME EType, Owned, [Next]_expVars
    PROVE  Owned'
<1>0. request \in [Requests -> RequestState] /\ events \in [Events -> Row \cup NoRow]
  BY DEF EType
<1>1. edited \subseteq edited'
  BY DEF Next, ListActive, ExpansionStep, ExpandEvent, CheckExists, Schedule, CreateEvent,
     RequestStep, WriteUpdate, RemoveAndExpand, Purge, DeleteEvent, ReadForUpdate,
     GetDueSchedules, WorkerStep, Fetch, Execute, CountCompleted, Inactivate, ArchiveOldData, Tick, expVars
<1>2. \A e \in Events : Gone(e) => Gone(e)'
  <2>1. Table
    BY <1>0 DEF Table
  <2> QED
    BY <2>1, GoneStays DEF Gone
<1>3. ASSUME NEW r \in Requests, request'[r].pc \in {"write", "remove"}
      PROVE  request'[r].event \in edited'
  BY <1>1, <1>3, RequestEffect DEF Owned
<1>4. ASSUME NEW r \in Requests, request'[r].pc = "purge"
      PROVE  request'[r] = request[r] \/ \E e \in Events : request'[r].event = e /\ DeleteEvent(r, e)
  <2>2. ASSUME NEW q \in Requests, RequestStep(q)
        PROVE  request'[r] = request[r]
    <3>1. CASE WriteUpdate(q)
      <4>1. q = r => request[r] = [pc |-> request[r].pc, event |-> request[r].event,
                                   row |-> request[r].row]
        BY <3>1, RequestFields DEF WriteUpdate
      <4>2. q = r => request'[r] \in {[request[r] EXCEPT !.pc = "remove"], [pc |-> "done"]}
        BY <1>0, <3>1 DEF WriteUpdate
      <4>3. q = r => request'[r].pc # "purge"
        BY <4>1, <4>2
      <4>4. q # r => request'[r] = request[r]
        BY <1>0, <3>1 DEF WriteUpdate
      <4> QED
        BY <1>4, <4>3, <4>4
    <3>2. CASE RemoveAndExpand(q) \/ Purge(q)
      BY <1>0, <1>4, <3>2 DEF RemoveAndExpand, Purge
    <3> QED
      BY <2>2, <3>1, <3>2 DEF RequestStep
  <2>3. ASSUME NEW q \in Requests, NEW e \in Events, NEW edit \in Edits,
               ReadForUpdate(q, e, edit)
        PROVE  request'[r] = request[r]
    BY <1>0, <1>4, <2>3 DEF ReadForUpdate
  <2>4. ASSUME NEW q \in Requests, NEW e \in Events, DeleteEvent(q, e)
        PROVE  request'[r] = request[r] \/ (q = r /\ request'[r].event = e)
    BY <1>0, <2>4 DEF DeleteEvent
  <2>5. ASSUME NEW l \in Loops, ListActive(l)
        PROVE  request'[r] = request[r]
    BY <2>5 DEF ListActive
  <2>6. ASSUME NEW p \in Loops \cup Goroutines, ExpansionStep(p)
        PROVE  request'[r] = request[r]
    BY <2>6 DEF ExpansionStep, ExpandEvent, CheckExists, Schedule
  <2>7. ASSUME NEW e \in Events, NEW d \in Definitions, CreateEvent(e, d)
        PROVE  request'[r] = request[r]
    BY <2>7 DEF CreateEvent
  <2>8. ASSUME NEW w \in Workers, WorkerStep(w)
        PROVE  request'[r] = request[r]
    BY <2>8 DEF WorkerStep, Fetch, Execute, CountCompleted, Inactivate
  <2>9. ASSUME GetDueSchedules \/ ArchiveOldData \/ Tick \/ UNCHANGED expVars
        PROVE  request'[r] = request[r]
    BY <2>9 DEF GetDueSchedules, ArchiveOldData, Tick, expVars
  <2> QED
    BY <2>2, <2>3, <2>4, <2>5, <2>6, <2>7, <2>8, <2>9 DEF Next
<1>5. ASSUME NEW r \in Requests, request'[r].pc = "purge"
      PROVE  Gone(request[r].event)'
  <2>1. CASE request'[r] = request[r]
    <3>1. request[r].event \in Events /\ Gone(request[r].event)
      BY <1>5, <2>1, RequestFields DEF Owned
    <3>2. PICK e \in Events : request[r].event = e
      BY <3>1
    <3>3. Gone(e)'
      BY <1>2, <3>1, <3>2
    <3> QED
      BY <2>1, <3>2, <3>3 DEF Gone
  <2>2. ASSUME NEW e \in Events, request'[r].event = e, DeleteEvent(r, e)
        PROVE  Gone(request[r].event)'
    <3>1. events'[e] = [status |-> "deleted"]
      BY <1>0, <2>2 DEF DeleteEvent
    <3> QED
      BY <2>2, <3>1 DEF Gone
  <2> QED
    BY <1>4, <1>5, <2>1, <2>2
<1> QED
  BY <1>3, <1>5 DEF Owned

LEMMA TickersStep ==
    ASSUME Prompt, EType, TickersTick, [Next]_expVars
    PROVE  TickersTick'
<1>0. now \in Nat /\ ExpansionInterval \in Nat \ {0} /\ MaxNow \in Nat
  BY ExpanderAssumption DEF EType
<1>1. CASE UNCHANGED <<now, nextRun>>
  BY <1>1 DEF TickersTick
<1>2. CASE Tick
  BY <1>0, <1>2 DEF Tick, OnTime, TickersTick
<1>3. ASSUME NEW l \in Loops, ListActive(l)
      PROVE  TickersTick'
  <2>1. now' = now /\ nextRun' = [nextRun EXCEPT ![l] = now + ExpansionInterval]
    BY <1>3 DEF ListActive
  <2> QED
    BY <1>0, <2>1 DEF TickersTick
<1>4. Tick \/ UNCHANGED <<now, nextRun>> \/ \E l \in Loops : ListActive(l)
  BY DEF Next, ExpansionStep, ExpandEvent, CheckExists, Schedule, CreateEvent, RequestStep,
     WriteUpdate, RemoveAndExpand, Purge, DeleteEvent, ReadForUpdate, GetDueSchedules,
     WorkerStep, Fetch, Execute, CountCompleted, Inactivate, ArchiveOldData, expVars
<1> QED
  BY <1>1, <1>2, <1>3, <1>4

\* The row of an active event that no PUT has read is the one it was created with.
LEMMA ActiveRow ==
    ASSUME EType, Owned, [Next]_expVars, NEW e \in Events, e \notin edited',
           Exists(e)', events'[e].status = "active"
    PROVE  \/ e \notin edited /\ Exists(e) /\ events'[e] = events[e]
           \/ \E d \in Definitions : CreateEvent(e, d)
<1>0. events \in [Events -> Row \cup NoRow]
  BY DEF EType
<1>1. ASSUME events'[e] = events[e], edited \subseteq edited'
      PROVE  e \notin edited /\ Exists(e) /\ events'[e] = events[e]
  BY <1>1 DEF Exists
<1>2. ASSUME NEW x \in Events, NEW d \in Definitions, CreateEvent(x, d)
      PROVE  x = e \/ (events'[e] = events[e] /\ edited \subseteq edited')
  BY <1>0, <1>2 DEF CreateEvent
<1>3. ASSUME NEW r \in Requests, RequestStep(r)
      PROVE  events'[e] = events[e] /\ edited \subseteq edited'
  <2>1. CASE WriteUpdate(r)
    <3>1. request[r].event \in edited /\ edited' = edited
      BY <2>1 DEF WriteUpdate, Owned
    <3> QED
      BY <1>0, <2>1, <3>1 DEF WriteUpdate
  <2> QED
    BY <1>3, <2>1 DEF RequestStep, RemoveAndExpand, Purge
<1>4. ASSUME NEW r \in Requests, NEW x \in Events, DeleteEvent(r, x)
      PROVE  events'[e] = events[e] /\ edited \subseteq edited'
  <2>1. x # e
    BY <1>0, <1>4 DEF DeleteEvent, Exists, NoRow
  <2> QED
    BY <1>0, <1>4, <2>1 DEF DeleteEvent
<1>5. ASSUME NEW w \in Workers, Inactivate(w)
      PROVE  events'[e] = events[e] /\ edited \subseteq edited'
  <2> DEFINE row == [worker[w].row EXCEPT !.status = "inactive"]
  <2>1. worker[w].row \in Row
    BY <1>5 DEF Inactivate, EType, Busy, Idle
  <2>2. row.status = "inactive"
    BY <2>1 DEF Row
  <2>3. events'[e] = (IF e = worker[w].item.event /\ Exists(e) THEN row ELSE events[e])
        /\ edited' = edited
    BY <1>5 DEF Inactivate
  <2> HIDE DEF row
  <2> QED
    BY <2>2, <2>3
<1>6. ASSUME ArchiveOldData
      PROVE  events'[e] = events[e] /\ edited \subseteq edited'
  <2>1. /\ events'[e] = [status |-> "archived"] \/ events'[e] = events[e]
        /\ edited' = edited
    BY <1>6 DEF ArchiveOldData
  <2> QED
    BY <2>1 DEF Exists, NoRow
<1>7. ASSUME NEW w \in Workers, WorkerStep(w)
      PROVE  events'[e] = events[e] /\ edited \subseteq edited'
  BY <1>5, <1>7 DEF WorkerStep, Fetch, Execute, CountCompleted
<1>8. ASSUME NEW l \in Loops, ListActive(l)
      PROVE  events'[e] = events[e] /\ edited \subseteq edited'
  BY <1>8 DEF ListActive
<1>9. ASSUME NEW p \in Loops \cup Goroutines, ExpansionStep(p)
      PROVE  events'[e] = events[e] /\ edited \subseteq edited'
  BY <1>9 DEF ExpansionStep, ExpandEvent, CheckExists, Schedule
<1>10. ASSUME NEW r \in Requests, NEW x \in Events, NEW edit \in Edits, ReadForUpdate(r, x, edit)
       PROVE  events'[e] = events[e] /\ edited \subseteq edited'
  BY <1>10 DEF ReadForUpdate
<1>11. ASSUME GetDueSchedules \/ Tick \/ UNCHANGED expVars
       PROVE  events'[e] = events[e] /\ edited \subseteq edited'
  BY <1>11 DEF GetDueSchedules, Tick, expVars
<1> QED
  BY <1>1, <1>2, <1>3, <1>4, <1>6, <1>7, <1>8, <1>9, <1>10, <1>11 DEF Next

\* What is known of a date of an active event is passed on at every step, until
\* it is old enough to be archived.
LEMMA KnownKept ==
    ASSUME EType, Owned, [Next]_expVars, NEW e \in Events, NEW t \in Nat, Known(e, t),
           e \notin edited', Exists(e), Exists(e)', events'[e].status = "active",
           t >= now' - Retention
    PROVE  Known(e, t)'
<1> DEFINE AtRedis == [event |-> e, at |-> t] \in stored
           InQueue == \E i \in queue : i.event = e /\ i.at = t
           AtWorker(w) == worker[w].pc = "execute" /\ worker[w].item.event = e /\ worker[w].item.at = t
           Here == AtRedis \/ InQueue \/ (\E w \in Workers : AtWorker(w)) \/ ExistsAtTime(e, t)
<1>0. events \in [Events -> Row \cup NoRow] /\ worker = [w \in Workers |-> worker[w]]
  BY DEF EType
<1>1. (Known(e, t) <=> Here) /\ (Known(e, t)' <=> Here')
  BY DEF Known, Delivering
<1>2. Here
  BY <1>1
<1>3. ASSUME AtRedis => AtRedis', queue' = queue, worker' = worker,
             ExistsAtTime(e, t) => ExistsAtTime(e, t)'
      PROVE  Here'
  BY <1>2, <1>3
<1>4. ASSUME occurrences' = occurrences
      PROVE  ExistsAtTime(e, t) => ExistsAtTime(e, t)'
  BY <1>4 DEF ExistsAtTime
<1>5. ASSUME NEW w \in Workers, NEW i \in queue, Fetch(w, i)
      PROVE  Here'
  <2>1. stored' = stored /\ occurrences' = occurrences /\ worker[w] = Idle
    BY <1>5 DEF Fetch
  <2>2. CASE i.event = e /\ i.at = t
    <3> DEFINE x == [pc |-> "execute", item |-> i, row |-> events[i.event]]
    <3>1. worker'[w] = x
      BY <1>0, <1>5, <2>2 DEF Fetch
    <3>2. x.item = i /\ x.pc = "execute"
      OBVIOUS
    <3> HIDE DEF x
    <3> QED
      BY <2>2, <3>1, <3>2
  <2>3. CASE ~(i.event = e /\ i.at = t)
    <3>1. InQueue => InQueue'
      BY <1>5, <2>3 DEF Fetch
    <3>2. \A v \in Workers : AtWorker(v) => AtWorker(v)'
      <4>1. \A v \in Workers : v # w => worker'[v] = worker[v]
        BY <1>0, <1>5 DEF Fetch
      <4> QED
        BY <2>1, <4>1 DEF Idle
    <3> QED
      BY <1>2, <1>4, <2>1, <3>1, <3>2
  <2> QED
    BY <2>2, <2>3
<1>6. ASSUME NEW w \in Workers, NEW ok \in BOOLEAN, Execute(w, ok)
      PROVE  Here'
  <2> DEFINE i == worker[w].item
             st == IF ok THEN "completed" ELSE "failed"
  <2>1. stored' = stored /\ queue \subseteq queue'
    BY <1>6 DEF Execute
  <2>2. occurrences' = (IF Exists(i.event) THEN Logged(i, st) ELSE occurrences)
    BY <1>6 DEF Execute
  <2>3. occurrences \subseteq occurrences'
    BY <2>2 DEF Logged
  <2>4. AtWorker(w) => ExistsAtTime(e, t)'
    <3>1. SUFFICES ASSUME i.event = e, i.at = t
                   PROVE  \E o \in occurrences' : o.event = e /\ o.at = t
      BY DEF ExistsAtTime
    <3> DEFINE k == Cardinality({o \in occurrences : o.event = i.event /\ o.at = i.at
                                                     /\ o.status = st}) + 1
               o == [event |-> i.event, at |-> i.at, status |-> st, n |-> k]
    <3>2. o \in Logged(i, st)
      BY DEF Logged
    <3>3. o.event = i.event /\ o.at = i.at
      OBVIOUS
    <3> HIDE DEF o, i, st
    <3> QED
      BY <2>2, <3>1, <3>2, <3>3
  <2>5. \A v \in Workers : v # w => worker'[v] = worker[v]
    BY <1>0, <1>6 DEF Execute
  <2> QED
    BY <1>2, <2>1, <2>3, <2>4, <2>5 DEF ExistsAtTime
<1>7. ASSUME NEW w \in Workers, CountCompleted(w) \/ Inactivate(w)
      PROVE  Here'
  <2>1. /\ stored' = stored /\ queue' = queue /\ occurrences' = occurrences
        /\ worker[w].pc # "execute" /\ \A v \in Workers : v # w => worker'[v] = worker[v]
    BY <1>0, <1>7 DEF CountCompleted, Inactivate
  <2> QED
    BY <1>2, <1>4, <2>1
<1>8. ASSUME GetDueSchedules
      PROVE  Here'
  <2>1. AtRedis => AtRedis' \/ InQueue'
    <3> DEFINE s == [event |-> e, at |-> t]
    <3>1. SUFFICES ASSUME s \in Due PROVE InQueue'
      BY <1>8 DEF GetDueSchedules
    <3>2. s.event = e /\ s.at = t
      OBVIOUS
    <3> HIDE DEF s
    <3>3. WithId(s) \in queue'
      BY <1>8, <3>1 DEF GetDueSchedules
    <3>4. WithId(s).event = s.event /\ WithId(s).at = s.at
      BY DEF WithId
    <3> QED
      BY <3>2, <3>3, <3>4
  <2>2. queue \subseteq queue' /\ worker' = worker /\ occurrences' = occurrences
    BY <1>8 DEF GetDueSchedules
  <2> QED
    BY <1>2, <1>4, <2>1, <2>2
<1>9. ASSUME NEW r \in Requests, RequestStep(r)
      PROVE  Here'
  <2>1. queue' = queue /\ worker' = worker /\ occurrences' = occurrences /\ edited' = edited
    BY <1>9 DEF RequestStep, WriteUpdate, RemoveAndExpand, Purge
  <2>2. stored' = stored \/ (stored' = StoredWithout(request[r].event) /\ request[r].event # e)
    <3>1. CASE WriteUpdate(r)
      BY <3>1 DEF WriteUpdate
    <3>2. CASE RemoveAndExpand(r)
      BY <2>1, <3>2 DEF RemoveAndExpand, Owned
    <3>3. CASE Purge(r)
      BY <3>3 DEF Purge, Owned, Gone, Exists, NoRow
    <3> QED
      BY <1>9, <3>1, <3>2, <3>3 DEF RequestStep
  <2>3. AtRedis => AtRedis'
    BY <2>2 DEF StoredWithout
  <2> QED
    BY <1>3, <1>4, <2>1, <2>3
<1>10. ASSUME NEW r \in Requests, NEW x \in Events, DeleteEvent(r, x)
       PROVE  Here'
  <2>1. x # e
    BY <1>0, <1>10 DEF DeleteEvent, Exists, NoRow
  <2>2. ExistsAtTime(e, t) => ExistsAtTime(e, t)'
    BY <1>10, <2>1 DEF DeleteEvent, ExistsAtTime
  <2> QED
    BY <1>3, <1>10, <2>2 DEF DeleteEvent
<1>11. ASSUME ArchiveOldData
       PROVE  Here'
  <2>1. now' = now /\ occurrences' = {o \in occurrences : o.at >= now - Retention}
    BY <1>11 DEF ArchiveOldData
  <2>2. ExistsAtTime(e, t) => ExistsAtTime(e, t)'
    BY <2>1 DEF ExistsAtTime
  <2> QED
    BY <1>3, <1>11, <2>2 DEF ArchiveOldData
<1>12. ASSUME NEW p \in Loops \cup Goroutines, ExpansionStep(p)
       PROVE  Here'
  BY <1>3, <1>4, <1>12 DEF ExpansionStep, ExpandEvent, CheckExists, Schedule
<1>13. ASSUME NEW l \in Loops, ListActive(l)
       PROVE  Here'
  BY <1>3, <1>4, <1>13 DEF ListActive
<1>14. ASSUME NEW x \in Events, NEW d \in Definitions, CreateEvent(x, d)
       PROVE  Here'
  BY <1>3, <1>4, <1>14 DEF CreateEvent
<1>15. ASSUME NEW r \in Requests, NEW x \in Events, NEW edit \in Edits, ReadForUpdate(r, x, edit)
       PROVE  Here'
  BY <1>3, <1>4, <1>15 DEF ReadForUpdate
<1>16. ASSUME Tick \/ UNCHANGED expVars
       PROVE  Here'
  BY <1>3, <1>4, <1>16 DEF Tick, expVars
<1> HIDE DEF Here
<1>17. Here'
  BY <1>5, <1>6, <1>7, <1>8, <1>9, <1>10, <1>11, <1>12, <1>13, <1>14, <1>15, <1>16
     DEF Next, WorkerStep
<1> QED
  BY <1>1, <1>17

LEMMA IdleNotPending ==
    ASSUME NEW l, NEW e, NEW t, proc[l] = Idle
    PROVE  ~Pending(l, e, t)
BY DEF Pending, Hand, Dated, Idle

LEMMA HeadOrTail ==
    ASSUME NEW dates \in Seq(Nat), dates # <<>>, NEW k \in 1..Len(dates)
    PROVE  \/ dates[k] = Head(dates)
           \/ \E m \in 1..Len(Tail(dates)) : Tail(dates)[m] = dates[k]
<1>1. Len(dates) \in Nat /\ Len(dates) # 0 /\ Len(Tail(dates)) = Len(dates) - 1
  BY HeadTailProperties, EmptySeq, LenProperties
<1>2. /\ \A m \in 1..Len(Tail(dates)) : Tail(dates)[m] = dates[m + 1]
      /\ Head(dates) = dates[1]
  BY HeadTailProperties, EmptySeq
<1>3. CASE k = 1
  BY <1>2, <1>3
<1>4. CASE k # 1
  <2>1. k - 1 \in 1..Len(Tail(dates)) /\ (k - 1) + 1 = k
    BY <1>1, <1>4
  <2> QED
    BY <1>2, <2>1
<1> QED
  BY <1>3, <1>4

\* An expansion that goes on with these dates comes to each of them.
LEMMA ResumePending ==
    ASSUME NEW list, NEW e, NEW dates \in Seq(Nat), NEW k \in 1..Len(dates)
    PROVE  LET x == Resume(list, e, dates) IN Dated(x) /\ x.event = e /\ x.dates = dates
<1>1. dates # <<>>
  BY EmptySeq
<1> QED
  BY <1>1 DEF Resume, Dated

\* Whatever an expansion does, short of a failure, it comes to the date, or has
\* left a trace of it.
LEMMA PendingKept ==
    ASSUME StepsFit, EType, [Next]_expVars, NEW l \in Loops, NEW e \in Events, NEW t \in Nat,
           Expected(e, t), now < t, t < now + LookAhead, Pending(l, e, t),
           faults' = faults, ~Known(e, t)', events'[e] = events[e]
    PROVE  Pending(l, e, t)'
<1>0. /\ proc \in [Procs -> ProcState] /\ now \in Nat /\ l \in Procs
      /\ proc[l] \in ProcState /\ faults \in Nat
  BY ExpanderAssumption DEF EType, Procs
<1>1. RowOf(e)' = RowOf(e)
  BY DEF RowOf
<1>2. ASSUME proc'[l] = proc[l]
      PROVE  Pending(l, e, t)'
  BY <1>1, <1>2 DEF Pending
<1>3. ASSUME NEW k \in Loops, ListActive(k)
      PROVE  proc'[l] = proc[l]
  BY <1>0, <1>3, IdleNotPending DEF ListActive, TickerFires
<1>4. ASSUME NEW x, NEW row, Go(x, row)
      PROVE  proc'[l] = proc[l]
  BY <1>0, <1>4, IdleNotPending DEF Go
<1>5. CASE ExpandEvent(l)
  <2>1. RowOf(e) \in proc[l].list
    BY <1>5 DEF Pending, ExpandEvent, Hand, Dated
  <2>2. PICK x \in proc[l].list : proc' = [proc EXCEPT ![l] =
             IF Recurring(x.row)
             THEN Resume(proc[l].list \ {x}, x.event, Occurrences(x.row.schedule[1], x.row.start, now))
             ELSE IF StartInWindow(x.row)
             THEN [pc |-> "schedule", list |-> proc[l].list \ {x}, event |-> x.event,
                   dates |-> <<x.row.start>>]
             ELSE Continue(proc[l].list \ {x})]
    BY <1>5 DEF ExpandEvent
  <2> DEFINE rest == proc[l].list \ {x}
             dates == Occurrences(x.row.schedule[1], x.row.start, now)
             one == [pc |-> "schedule", list |-> rest, event |-> x.event,
                     dates |-> <<x.row.start>>]
  <2>3. proc'[l] = IF Recurring(x.row) THEN Resume(rest, x.event, dates)
                   ELSE IF StartInWindow(x.row) THEN one ELSE Continue(rest)
    BY <1>0, <2>2
  <2>4. CASE x = RowOf(e)
    <3> DEFINE s == events[e].schedule[1]
               start == events[e].start
    <3>1. x.event = e /\ x.row = events[e]
      BY <2>4 DEF RowOf
    <3>2. Recurring(events[e]) /\ FollowsRule(s, start) /\ OnRule(s, start, t)
      BY DEF Expected
    <3>3. start \in Nat /\ Proper(s)
      <4>1. events[e] \in Row
        BY ExistingRow DEF Expected
      <4> QED
        BY <3>2, <4>1, RowFields, AcceptedProper DEF Recurring
    <3>4. InWindow(t, now)
      BY <1>0, Units DEF InWindow
    <3>5. dates = Occurrences(s, start, now)
      BY <3>1
    <3> HIDE DEF s, start, dates
    <3>6. dates \in Seq(Nat) /\ \E k \in 1..Len(dates) : dates[k] = t
      <4>1. dates \in Seq(Nat)
        BY <1>0, <3>3, <3>5, OccurrencesInWindow
      <4> QED
        BY <1>0, <3>2, <3>3, <3>4, <3>5, <4>1, OccurrencesExact
    <3>7. proc'[l] = Resume(rest, e, dates)
      BY <2>3, <3>1, <3>2
    <3>8. Dated(Resume(rest, e, dates)) /\ Resume(rest, e, dates).event = e
          /\ Resume(rest, e, dates).dates = dates
      BY <3>6, ResumePending
    <3> HIDE DEF rest
    <3> QED
      BY <3>6, <3>7, <3>8 DEF Pending
  <2>5. CASE x # RowOf(e)
    <3>1. RowOf(e) \in rest
      BY <2>1, <2>5
    <3>2. Hand(one) = rest
      BY DEF Hand
    <3> HIDE DEF rest, one, dates
    <3>3. Hand(proc'[l]) = rest
      BY <2>3, <3>2, ResumeHand, ContinueHand
    <3> QED
      BY <1>1, <3>1, <3>3 DEF Pending
  <2> QED
    BY <2>4, <2>5
<1>6. CASE CheckExists(l) \/ Schedule(l)
  <2> DEFINE x == proc[l]
             skip == Resume(x.list, x.event, Tail(x.dates))
  <2>1. /\ Dated(x) /\ x.dates \in Seq(Nat) /\ x.dates # <<>> /\ Hand(x) = x.list
        /\ x = [pc |-> x.pc, list |-> x.list, event |-> x.event, dates |-> x.dates]
    BY <1>0, <1>6 DEF CheckExists, Schedule, ProcState, Dated, Hand, Idle
  <2>2. ASSUME proc'[l] = skip, x.event # e \/ Head(x.dates) # t
        PROVE  Pending(l, e, t)'
    <3>1. Hand(skip) = Hand(x)
      BY <2>1, ResumeHand
    <3>2. CASE RowOf(e) \in Hand(x)
      BY <1>1, <2>2, <3>1, <3>2 DEF Pending
    <3>3. CASE RowOf(e) \notin Hand(x)
      <4>1. x.event = e /\ Head(x.dates) # t
        BY <2>2, <3>3 DEF Pending
      <4>2. PICK k \in 1..Len(x.dates) : x.dates[k] = t
        BY <3>3 DEF Pending
      <4> DEFINE rest == Tail(x.dates)
      <4>3. PICK m \in 1..Len(rest) : rest[m] = t
        BY <2>1, <4>1, <4>2, HeadOrTail
      <4>4. rest \in Seq(Nat)
        BY <2>1, HeadTailProperties, EmptySeq
      <4> HIDE DEF rest
      <4>5. LET y == Resume(x.list, e, rest) IN Dated(y) /\ y.event = e /\ y.dates = rest
        BY <4>3, <4>4, ResumePending
      <4>6. skip = Resume(x.list, e, rest)
        BY <4>1 DEF rest
      <4> HIDE DEF skip
      <4> QED
        BY <2>2, <4>3, <4>5, <4>6 DEF Pending
    <3> QED
      BY <3>2, <3>3
  <2>3. CASE CheckExists(l)
    <3>1. ~Fault
      BY <1>0 DEF Fault
    <3>2. /\ proc'[l] = IF ExistsAtTime(x.event, Head(x.dates)) THEN skip
                        ELSE [x EXCEPT !.pc = "schedule"]
          /\ occurrences' = occurrences
      BY <1>0, <2>3, <3>1 DEF CheckExists
    <3>3. CASE ExistsAtTime(x.event, Head(x.dates))
      <4>1. ~ExistsAtTime(e, t)
        BY <3>2 DEF Known, ExistsAtTime
      <4> QED
        BY <2>2, <3>2, <3>3, <4>1
    <3>4. CASE ~ExistsAtTime(x.event, Head(x.dates))
      <4> DEFINE y == [pc |-> "schedule", list |-> x.list, event |-> x.event, dates |-> x.dates]
      <4>1. proc'[l] = y
        BY <2>1, <3>2, <3>4
      <4>2. Dated(y) /\ Hand(y) = Hand(x) /\ y.event = x.event /\ y.dates = x.dates
        BY <2>1 DEF Dated, Hand
      <4> HIDE DEF y
      <4> QED
        BY <1>1, <4>1, <4>2 DEF Pending
    <3> QED
      BY <3>3, <3>4
  <2>4. CASE Schedule(l)
    <3>1. ~Fault
      BY <1>0 DEF Fault
    <3>2. /\ proc'[l] = skip
          /\ stored' = stored \cup {[event |-> x.event, at |-> Head(x.dates)]}
      BY <1>0, <2>4, <3>1 DEF Schedule
    <3>3. [event |-> e, at |-> t] \notin stored'
      BY DEF Known
    <3>4. x.event # e \/ Head(x.dates) # t
      BY <3>2, <3>3
    <3> QED
      BY <2>2, <3>2, <3>4
  <2> QED
    BY <1>6, <2>3, <2>4
<1>7. ASSUME NEW p \in Loops \cup Goroutines, ExpansionStep(p)
      PROVE  Pending(l, e, t)'
  <2>1. CASE p = l
    BY <1>5, <1>6, <1>7, <2>1 DEF ExpansionStep
  <2>2. CASE p # l
    <3>1. proc'[l] = proc[l]
      BY <1>0, <1>7, <2>2 DEF ExpansionStep, ExpandEvent, CheckExists, Schedule
    <3> QED
      BY <1>2, <3>1
  <2> QED
    BY <2>1, <2>2
<1>8. ASSUME NEW x \in Events, NEW d \in Definitions, CreateEvent(x, d)
      PROVE  proc'[l] = proc[l]
  BY <1>4, <1>8 DEF CreateEvent
<1>9. ASSUME NEW r \in Requests, RequestStep(r)
      PROVE  proc'[l] = proc[l]
  BY <1>4, <1>9 DEF RequestStep, WriteUpdate, RemoveAndExpand, Purge
<1>10. ASSUME NEW r \in Requests, NEW x \in Events,
              DeleteEvent(r, x) \/ \E edit \in Edits : ReadForUpdate(r, x, edit)
       PROVE  proc'[l] = proc[l]
  BY <1>10 DEF DeleteEvent, ReadForUpdate
<1>11. ASSUME NEW w \in Workers, WorkerStep(w)
       PROVE  proc'[l] = proc[l]
  BY <1>11 DEF WorkerStep, Fetch, Execute, CountCompleted, Inactivate
<1>12. ASSUME GetDueSchedules \/ ArchiveOldData \/ Tick \/ UNCHANGED expVars
       PROVE  proc'[l] = proc[l]
  BY <1>12 DEF GetDueSchedules, ArchiveOldData, Tick, expVars
<1> QED
  BY <1>2, <1>3, <1>7, <1>8, <1>9, <1>10, <1>11, <1>12 DEF Next

LEMMA FaultsStep ==
    ASSUME EType, [Next]_expVars
    PROVE  (faults' = faults \/ faults' = faults + 1) /\ faults' \in 0..MaxFaults
<1>1. faults' = faults \/ faults' = faults + 1
  BY DEF Fault, Next, ListActive, ExpansionStep, ExpandEvent, CheckExists, Schedule,
     CreateEvent, RequestStep, WriteUpdate, RemoveAndExpand, Purge, DeleteEvent,
     ReadForUpdate, GetDueSchedules, WorkerStep, Fetch, Execute, CountCompleted, Inactivate, ArchiveOldData,
     Tick, expVars
<1>2. faults' # faults => Fault
  BY DEF Next, ListActive, ExpansionStep, ExpandEvent, CheckExists, Schedule,
     CreateEvent, RequestStep, WriteUpdate, RemoveAndExpand, Purge, DeleteEvent,
     ReadForUpdate, GetDueSchedules, WorkerStep, Fetch, Execute, CountCompleted, Inactivate, ArchiveOldData,
     Tick, expVars
<1> QED
  BY <1>1, <1>2, FaultType DEF EType

\* The faults that may still come, in the time of as many expansions.
LEMMA Allowance ==
    ASSUME EType
    PROVE  /\ ExpansionInterval \in Nat \ {0}
           /\ (MaxFaults - faults) * ExpansionInterval \in Nat
           /\ (MaxFaults + 1) * ExpansionInterval \in Nat
           /\ (MaxFaults - faults) * ExpansionInterval + ExpansionInterval
                 <= (MaxFaults + 1) * ExpansionInterval
<1> DEFINE E == ExpansionInterval
           x == MaxFaults - faults
<1>1. E \in Nat \ {0} /\ x \in Nat /\ faults \in Nat /\ MaxFaults = x + faults
  BY ExpanderAssumption DEF EType
<1> HIDE DEF E, x
<1>2. (x + faults + 1) * E = (x * E + E) + faults * E
  BY <1>1
<1>3. x * E \in Nat /\ faults * E \in Nat
  BY <1>1
<1>4. MaxFaults + 1 = x + faults + 1
  BY <1>1
<1> QED
  BY <1>1, <1>2, <1>3, <1>4 DEF E, x

\* A step leaves an expansion more than can still fail before t, or a trace of t.
LEMMA InTimeStep ==
    ASSUME StepsFit, LookAhead > (MaxFaults + 1) * ExpansionInterval, EType, TickersTick,
           [Next]_expVars, NEW l \in Loops, NEW e \in Events, NEW t \in Nat, Expected(e, t),
           now < t, InTime(l, e, t), ~Known(e, t)', events'[e] = events[e]
    PROVE  InTime(l, e, t)'
<1> DEFINE E == ExpansionInterval
           X == (MaxFaults - faults) * E
           Y == (MaxFaults - faults') * E
           k == nextRun[l]
<1>0. now \in Nat /\ faults \in Nat /\ k \in Nat /\ k <= now + E /\ LookAhead \in Nat
  BY ExpanderAssumption, Units DEF EType, TickersTick
<1>1. E \in Nat \ {0} /\ X \in Nat /\ X + E < LookAhead
  <2> HIDE DEF X, E
  <2>1. /\ E \in Nat \ {0} /\ X \in Nat /\ (MaxFaults + 1) * E \in Nat
        /\ X + E <= (MaxFaults + 1) * E
    BY Allowance DEF X, E
  <2> QED
    BY <1>0, <2>1 DEF E
<1>2. \/ faults' = faults /\ Y = X
      \/ faults' = faults + 1 /\ Y = X - E
  <2>1. CASE faults' = faults
    BY <2>1
  <2>2. CASE faults' = faults + 1
    <3> DEFINE x == MaxFaults - faults
    <3>1. x \in Int /\ MaxFaults - faults' = x - 1
      BY <1>0, <2>2, ExpanderAssumption
    <3> HIDE DEF x
    <3>2. (x - 1) * E = x * E - E
      BY <1>1, <3>1
    <3> QED
      BY <2>2, <3>1, <3>2 DEF x
  <2> QED
    BY <2>1, <2>2, FaultsStep
<1>3. \/ k + X < t
      \/ Pending(l, e, t) /\ k + X < t + E
  BY DEF InTime
<1>4. InTime(l, e, t)' <=> \/ nextRun'[l] + Y < t
                           \/ Pending(l, e, t)' /\ nextRun'[l] + Y < t + E
  BY DEF InTime
<1> HIDE DEF E, X, Y, k
<1>5. CASE ListActive(l)
  <2>1. proc[l] = Idle /\ now = k /\ nextRun'[l] = k + E
    <3>1. now >= k /\ now <= MaxNow /\ proc[l] = Idle /\ MaxNow \in Nat
      BY <1>5, ExpanderAssumption DEF ListActive, TickerFires, k
    <3>2. now <= k
      BY <1>0, <3>1 DEF TickersTick, k
    <3>3. nextRun'[l] = now + E
      BY <1>5 DEF ListActive, TickersTick, E
    <3> QED
      BY <1>0, <3>1, <3>2, <3>3
  <2>2. k + X < t
    BY <1>3, <2>1, IdleNotPending
  <2>3. CASE faults' = faults
    <3>1. RowOf(e)' \in Hand(proc'[l])
      <4> DEFINE list == {RowOf(x) : x \in {y \in Events : Exists(y) /\ events[y].status = "active"}}
      <4>1. ~Fault
        BY <1>0, <2>3 DEF Fault
      <4>2. proc' = [proc EXCEPT ![l] = Continue(list)]
        BY <1>5, <4>1 DEF ListActive
      <4>3. proc'[l] = Continue(list)
        BY <4>2 DEF EType, Procs
      <4>4. RowOf(e) \in list
        BY DEF Expected
      <4>5. RowOf(e)' = RowOf(e)
        BY DEF RowOf
      <4> HIDE DEF list
      <4> QED
        BY <4>3, <4>4, <4>5, ContinueHand
    <3>2. nextRun'[l] + Y < t + E
      BY <1>0, <1>1, <1>2, <2>1, <2>2, <2>3
    <3> QED
      BY <1>4, <3>1, <3>2 DEF Pending
  <2>4. CASE faults' = faults + 1
    BY <1>0, <1>1, <1>2, <1>4, <2>1, <2>2, <2>4
  <2> QED
    BY <1>2, <2>3, <2>4
<1>6. CASE nextRun'[l] = k
  <2>1. CASE k + X < t
    BY <1>0, <1>1, <1>2, <1>4, <1>6, <2>1
  <2>2. CASE Pending(l, e, t) /\ k + X < t + E
    <3>1. CASE faults' = faults + 1
      BY <1>0, <1>1, <1>2, <1>4, <1>6, <2>2, <3>1
    <3>2. CASE faults' = faults /\ t < now + LookAhead
      <4>1. Pending(l, e, t)'
        BY <2>2, <3>2, PendingKept
      <4> QED
        BY <1>0, <1>1, <1>2, <1>4, <1>6, <2>2, <3>2, <4>1
    <3>3. CASE faults' = faults /\ t >= now + LookAhead
      BY <1>0, <1>1, <1>2, <1>4, <1>6, <3>3
    <3> QED
      BY <1>0, <1>2, <3>1, <3>2, <3>3
  <2> QED
    BY <1>3, <2>1, <2>2
<1>7. ListActive(l) \/ nextRun'[l] = k
  <2>1. ASSUME NEW j \in Loops, ListActive(j), j # l
        PROVE  nextRun'[l] = k
    BY <2>1 DEF ListActive, TickersTick, k
  <2>2. nextRun' = nextRun => nextRun'[l] = k
    BY DEF k
  <2>3. nextRun' = nextRun \/ \E j \in Loops : ListActive(j)
    BY DEF Next, ExpansionStep, ExpandEvent, CheckExists, Schedule, CreateEvent, RequestStep,
       WriteUpdate, RemoveAndExpand, Purge, DeleteEvent, ReadForUpdate, GetDueSchedules,
       WorkerStep, Fetch, Execute, CountCompleted, Inactivate, ArchiveOldData, Tick, expVars
  <2> QED
    BY <2>1, <2>2, <2>3
<1> QED
  BY <1>5, <1>6, <1>7

LEMMA NoneLostStep ==
    ASSUME StepsFit, Prompt, Loops # {}, LookAhead > (MaxFaults + 1) * ExpansionInterval,
           EType, Owned, TickersTick, NoneLost, [Next]_expVars
    PROVE  NoneLost'
<1> DEFINE E == ExpansionInterval
           X == (MaxFaults - faults) * E
           F == (MaxFaults + 1) * E
<1>0. now \in Nat /\ MaxNow \in Nat /\ Retention \in Nat
  BY ExpanderAssumption DEF EType
<1>1. E \in Nat \ {0} /\ X \in Nat /\ F \in Nat /\ X + E <= F
  BY Allowance
<1>2. SUFFICES ASSUME NEW e \in Events, NEW t \in 0..MaxNow, Expected(e, t)', ~Known(e, t)'
               PROVE  now' < t /\ \A l \in Loops : InTime(l, e, t)'
  BY DEF NoneLost
<1>3. t \in Nat /\ e \notin edited' /\ Exists(e)' /\ events'[e].status = "active"
      /\ t >= now' - Retention
  BY <1>2, <1>0 DEF Expected
<1>4. now' = now \/ (Tick /\ now' = now + 1)
  BY DEF Tick, Next, ListActive, ExpansionStep, ExpandEvent, CheckExists, Schedule,
     CreateEvent, RequestStep, WriteUpdate, RemoveAndExpand, Purge, DeleteEvent,
     ReadForUpdate, GetDueSchedules, WorkerStep, Fetch, Execute, CountCompleted, Inactivate, ArchiveOldData,
     expVars
<1>5. ASSUME NEW d \in Definitions, CreateEvent(e, d)
      PROVE  now' < t /\ \A l \in Loops : InTime(l, e, t)'
  <2>1. events'[e].created = now
    <3> DEFINE row == [start |-> d.start, schedule |-> d.schedule, status |-> "active",
                       created |-> now]
    <3>1. events'[e] = row
      BY <1>5 DEF CreateEvent, EType
    <3> QED
      BY <3>1
  <2>2. now' = now /\ faults' = faults /\ nextRun' = nextRun
    BY <1>5 DEF CreateEvent
  <2>3. t >= now + 1 + F
    BY <1>2, <2>1 DEF Expected
  <2>4. ASSUME NEW l \in Loops
        PROVE  nextRun'[l] + (MaxFaults - faults') * E < t
    <3>1. nextRun[l] \in Nat /\ nextRun[l] <= now + E
      BY DEF TickersTick
    <3> DEFINE k == nextRun[l]
    <3> HIDE DEF E, X, F, k
    <3>2. k + X < t
      BY <1>0, <1>1, <1>3, <2>3, <3>1 DEF k, E
    <3> QED
      BY <2>2, <3>2 DEF k, X
  <2> HIDE DEF E, F
  <2> QED
    BY <1>0, <1>1, <1>3, <2>2, <2>3, <2>4 DEF InTime, E
<1>6. ASSUME e \notin edited, Exists(e), events'[e] = events[e]
      PROVE  now' < t /\ \A l \in Loops : InTime(l, e, t)'
  <2>1. Expected(e, t)
    <3>1. t >= now - Retention
      BY <1>0, <1>3, <1>4
    <3> QED
      BY <1>2, <1>6, <3>1 DEF Expected
  <2>2. ~Known(e, t)
    BY <1>2, <1>3, <1>6, KnownKept
  <2>3. now < t /\ \A l \in Loops : InTime(l, e, t)
    BY <2>1, <2>2 DEF NoneLost
  <2>4. \A l \in Loops : InTime(l, e, t)'
    BY <1>2, <1>3, <1>6, <2>1, <2>3, InTimeStep
  <2>5. CASE Tick
    <3>1. PICK l \in Loops : TRUE
      OBVIOUS
    <3> DEFINE k == nextRun[l]
    <3>2. now < k \/ now > MaxNow
      BY <2>5 DEF Tick, OnTime
    <3>3. proc[l] = Idle
      BY <2>5 DEF Tick, OnTime
    <3>4. k + X < t
      BY <2>3, <3>3, IdleNotPending DEF InTime
    <3>5. k \in Nat
      BY DEF TickersTick
    <3> HIDE DEF k, X, E
    <3> QED
      BY <1>0, <1>1, <1>3, <1>4, <2>3, <2>4, <3>2, <3>4, <3>5
  <2> QED
    BY <1>4, <2>3, <2>4, <2>5
<1> QED
  BY <1>3, <1>5, <1>6, ActiveRow

\* No date of an active recurring event goes by without a schedule, a delivery
\* under way or a row (expander.go:55-107, 237-262): with a look-ahead longer than
\* one expansion more than can fail, and expansions that end within their
\* second, some expansion finds the date in its window and reaches Redis with it
\* in time, whatever the order of the events, the other instances, the requests,
\* the workers and the archival, in every calendar and with every grace period.
THEOREM NoDateMissed ==
    ASSUME StepsFit, Prompt, Loops # {}, LookAhead > (MaxFaults + 1) * ExpansionInterval
    PROVE  Spec => []NothingMissed
<1> DEFINE Inv == EType /\ Owned /\ TickersTick /\ NoneLost
<1>1. Init => Inv
  <2>1. SUFFICES ASSUME Init PROVE Inv
    OBVIOUS
  <2>2. \A e \in Events : ~Exists(e)
    BY <2>1 DEF Init, Exists, NoRow
  <2>3. NoneLost
    BY <2>2 DEF NoneLost, Expected
  <2>4. Owned
    BY <2>1 DEF Init, Owned
  <2>5. TickersTick
    BY <2>1, ExpanderAssumption DEF Init, TickersTick
  <2> QED
    BY <2>1, <2>3, <2>4, <2>5, InitType
<1>2. Inv /\ [Next]_expVars => Inv'
  BY NextType, OwnedStep, TickersStep, NoneLostStep
<1>3. Inv => NothingMissed
  <2>1. SUFFICES ASSUME Inv, NEW e \in Events \ edited,
                        Exists(e), events[e].status = "active", Recurring(events[e]),
                        FollowsRule(events[e].schedule[1], events[e].start),
                        NEW t \in (events[e].created + 1 + (MaxFaults + 1) * ExpansionInterval)..now,
                        t >= now - Retention, t <= MaxNow,
                        OnRule(events[e].schedule[1], events[e].start, t)
                 PROVE  Trace(e, t)
    BY Zenon DEF NothingMissed
  <2> DEFINE F == (MaxFaults + 1) * ExpansionInterval
             c == events[e].created
  <2>2. F \in Nat /\ c \in Nat /\ now \in Nat /\ MaxNow \in Nat
    <3>1. events[e] \in Row
      BY <2>1, ExistingRow
    <3> QED
      BY <2>1, <3>1, Allowance, ExpanderAssumption DEF EType, Row
  <2>3. t \in (c + 1 + F)..now
    BY <2>1
  <2> HIDE DEF F, c
  <2>4. t \in 0..MaxNow /\ t >= c + 1 + F /\ ~(now < t)
    BY <2>1, <2>2, <2>3
  <2>5. Expected(e, t)
    BY <2>1, <2>4 DEF Expected, F, c
  <2>6. Known(e, t)
    BY <2>1, <2>4, <2>5 DEF NoneLost
  <2> QED
    BY <2>6 DEF Known, Delivering, Trace, InFlight, Idle
<1> QED
  BY <1>1, <1>2, <1>3, PTL DEF Spec
=============================================================================
