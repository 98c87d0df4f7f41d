--------------------------- MODULE ArchiverProofs ---------------------------
(***************************************************************************)
(* The archival scheduler for every number of instances and connections    *)
(* and any period: its types, its mutual exclusion under every failure,    *)
(* and its pace until something fails.                                     *)
(***************************************************************************)
EXTENDS Archiver, TLAPS

\* The inductive invariant: one session holds the lock, and every instance
\* that works in a cycle holds it on one of its own connections or lost it.
Exclusion ==
    /\ at \in [Instances -> Critical \cup {"release", "idle", "down"}]
    /\ lock \in [Instances -> [Connections -> 0..MaxLevel]]
    /\ OneSession
    /\ LockHeld

\* What a step of instance i may do without disturbing the others: it touches
\* only sessions of i and raises none, and i does not work when it is done,
\* has lost its session, or leaves its sessions alone.
LEMMA LocalStep ==
    ASSUME Exclusion, NEW i \in Instances,
           at' \in [Instances -> Critical \cup {"release", "idle", "down"}],
           lock' \in [Instances -> [Connections -> 0..MaxLevel]],
           \A j \in Instances \ {i} : at'[j] = at[j] /\ lock'[j] = lock[j],
           lost \subseteq lost',
           \A c \in Connections : lock'[i][c] > 0 => lock[i][c] > 0,
           at'[i] \in Critical => i \in lost' \/ (lock' = lock /\ at[i] \in Critical)
    PROVE  Exclusion'
<1>1. \A j \in Instances, c \in Connections : lock'[j][c] > 0 => lock[j][c] > 0
  OBVIOUS
<1>2. OneSession'
  BY <1>1 DEF Exclusion, OneSession
<1>3. LockHeld'
  BY DEF Exclusion, LockHeld
<1> QED
  BY <1>2, <1>3 DEF Exclusion

\* A session that drops the lock, or gives up a level of it, is one of i's and
\* raises none.
LEMMA Lowered ==
    ASSUME lock \in [Instances -> [Connections -> 0..MaxLevel]],
           NEW i \in Instances, Drop(i) \/ Unlock(i)
    PROVE  /\ lock' \in [Instances -> [Connections -> 0..MaxLevel]]
           /\ \A j \in Instances \ {i} : lock'[j] = lock[j]
           /\ \A c \in Connections : lock'[i][c] > 0 => lock[i][c] > 0
<1>1. PICK c \in Connections, n \in 0..MaxLevel :
        Hold(i, c, n) /\ n <= lock[i][c]
  BY ArchiverAssumption DEF Drop, Unlock, Hold
<1> QED
  BY <1>1 DEF Hold

\* The first session to come takes the lock, the next one does not
\* (archiver.go:91-99).
LEMMA AcquireKeepsExclusion ==
    ASSUME Exclusion, NEW i \in Instances, acquireArchiveLock(i)
    PROVE  Exclusion'
<1>1. ASSUME NEW c \in Connections, GotLock(i, c)
      PROVE  Exclusion'
  <2>1. lock' = [lock EXCEPT ![i][c] = lock[i][c] + 1] /\ lock[i][c] \in 0..MaxLevel
    BY <1>1 DEF GotLock, Hold, Exclusion
  <2>2. lock' \in [Instances -> [Connections -> 0..MaxLevel]]
    <3>1. lock[i][c] + 1 \in 0..MaxLevel
      BY <1>1, <2>1, ArchiverAssumption DEF GotLock
    <3> QED
      BY <2>1, <3>1 DEF Exclusion
  <2>3. \A j \in Instances, d \in Connections : lock'[j][d] > 0 => j = i /\ d = c
    BY <1>1, <2>1 DEF GotLock, Available, Exclusion
  <2>4. lock'[i][c] > 0
    BY <2>1 DEF Exclusion
  <2>5. \A j \in Instances \ {i} : j \notin lost => at[j] \notin Critical
    BY <1>1 DEF GotLock, Available, Exclusion, LockHeld
  <2>6. at' = [at EXCEPT ![i] = "check"] /\ lost' = lost \ {i}
    BY <1>1 DEF GotLock, Go
  <2>7. LockHeld'
    BY <2>4, <2>5, <2>6 DEF Exclusion, LockHeld
  <2>8. OneSession'
    BY <2>3 DEF OneSession
  <2> QED
    BY <2>2, <2>6, <2>7, <2>8 DEF Exclusion, Critical
<1>2. CASE UNCHANGED <<lock, at, lost>>
  BY <1>2 DEF Exclusion, LockHeld, OneSession
<1>3. CASE Drop(i) /\ UNCHANGED <<at, lost>>
  <2>1. at[i] \notin Critical
    BY DEF acquireArchiveLock, Critical
  <2> QED
    BY <1>3, <2>1, Lowered, LocalStep DEF Exclusion
<1> QED
  BY <1>1, <1>2, <1>3 DEF acquireArchiveLock, SkipCycle

\* The steps that leave or interrupt the work: the archival, the release and
\* the end of the process (archiver.go:103-121).
LEMMA LeaveKeepsExclusion ==
    ASSUME Exclusion, NEW i \in Instances,
           archiveOldData(i) \/ releaseArchiveLock(i) \/ Stop(i)
    PROVE  Exclusion'
<1>1. PICK pc \in {"update", "release", "idle", "down"} :
        /\ at' = [at EXCEPT ![i] = pc]
        /\ pc = "update" => lock' = lock /\ at[i] = "archive"
        /\ lost' = lost
  BY DEF archiveOldData, releaseArchiveLock, Stop, Go
<1>2. /\ lock' \in [Instances -> [Connections -> 0..MaxLevel]]
      /\ \A j \in Instances \ {i} : lock'[j] = lock[j]
      /\ \A c \in Connections : lock'[i][c] > 0 => lock[i][c] > 0
  <2>1. CASE Drop(i) \/ Unlock(i)
    BY <2>1, Lowered DEF Exclusion
  <2>2. CASE UNCHANGED lock
    BY <2>2 DEF Exclusion
  <2>3. CASE Stop(i)
    BY <2>3, ArchiverAssumption DEF Stop, Exclusion
  <2> QED
    BY <2>1, <2>2, <2>3 DEF archiveOldData, releaseArchiveLock
<1>3. at' \in [Instances -> Critical \cup {"release", "idle", "down"}]
  BY <1>1 DEF Exclusion, Critical
<1>4. at'[i] \in Critical => lock' = lock /\ at[i] \in Critical
  BY <1>1 DEF Exclusion, Critical
<1>5. \A j \in Instances \ {i} : at'[j] = at[j]
  BY <1>1 DEF Exclusion
<1> QED
  BY <1>1, <1>2, <1>3, <1>4, <1>5, LocalStep

\* Every step of every instance and of its surroundings.
LEMMA StepKeepsExclusion ==
    ASSUME Exclusion, [Next]_aVars
    PROVE  Exclusion'
<1>1. ASSUME NEW i \in Instances,
             shouldArchiveRedis(i) \/ setFirstArchivalTime(i) \/ updateLastArchivalTimeRedis(i)
      PROVE  Exclusion'
  <2>1. PICK pc \in Critical \cup {"release"} : at' = [at EXCEPT ![i] = pc]
    BY <1>1 DEF shouldArchiveRedis, setFirstArchivalTime, updateLastArchivalTimeRedis,
                Go, Critical
  <2>2. lock' = lock /\ at[i] \in Critical /\ lost' = lost
    BY <1>1 DEF shouldArchiveRedis, setFirstArchivalTime, updateLastArchivalTimeRedis, Critical
  <2> QED
    BY <2>1, <2>2, LocalStep DEF Exclusion
<1>2. ASSUME NEW i \in Instances, StartArchivalScheduler(i)
      PROVE  Exclusion'
  <2>1. at' = [at EXCEPT ![i] = "idle"] /\ lock' = lock /\ lost' = lost
    BY <1>2 DEF StartArchivalScheduler, Go
  <2> QED
    BY <2>1, LocalStep DEF Exclusion, Critical
<1>3. CASE Tick \/ UNCHANGED aVars
  BY <1>3 DEF Tick, aVars, Exclusion, OneSession, LockHeld
<1>4. ASSUME NEW i \in Instances, LoseSession(i)
      PROVE  Exclusion'
  <2>1. Drop(i) /\ at' = at /\ lost' = lost \cup {i}
    BY <1>4 DEF LoseSession, Drop
  <2> QED
    BY <2>1, Lowered, LocalStep DEF Exclusion
<1> QED
  BY <1>1, <1>2, <1>3, <1>4, AcquireKeepsExclusion, LeaveKeepsExclusion
  DEF Next, Cycle

\* For every number of instances, connections and levels the advisory lock
\* keeps two instances from checking, archiving or updating at the same time,
\* although it is taken and released on arbitrary connections of the pool
\* (archiver.go:18-27, 91-121), unless one of them lost the session it took the
\* lock with.
THEOREM AtMostOneArchiver == Spec => []OneArchiver
<1>1. Init => Exclusion
  BY ArchiverAssumption DEF Init, Exclusion, OneSession, LockHeld, Critical
<1>2. Exclusion /\ [Next]_aVars => Exclusion'
  BY StepKeepsExclusion
<1>3. Exclusion => OneArchiver
  BY DEF Exclusion, OneSession, LockHeld, OneArchiver
<1> QED
  BY <1>1, <1>2, <1>3, PTL DEF Spec

-----------------------------------------------------------------------------
(* Types *)

\* The key holds the end of a second that has begun.
LEMMA NextTimeType ==
    ASSUME ATypeOK
    PROVE  NextTime \in 0..CheckPeriod /\ NextTime > CheckPeriod - Second
<1>1. clock % Second \in 0..(Second - 1) /\ clock \in Nat
  BY ArchiverAssumption DEF ATypeOK, Clock
<1>2. clock % Second <= clock
  BY <1>1, ArchiverAssumption
<1>3. clock <= CheckPeriod - 1
  BY ArchiverAssumption DEF ATypeOK, Clock
<1> QED
  BY <1>1, <1>2, <1>3, ArchiverAssumption DEF NextTime

LEMMA StepKeepsTypes ==
    ASSUME ATypeOK, Exclusion', [Next]_aVars
    PROVE  ATypeOK'
<1> USE ArchiverAssumption
<1>1. /\ at' \in [Instances -> Critical \cup {"release", "idle", "down"}]
      /\ lock' \in [Instances -> [Connections -> 0..MaxLevel]]
  BY DEF Exclusion
<1>2. NextTime \in NoKey..CheckPeriod /\ 0 \in 0..CheckPeriod
  BY NextTimeType DEF NoKey
<1>3. ASSUME NEW i \in Instances, acquireArchiveLock(i)
      PROVE  ATypeOK'
  <2>1. lost' \subseteq Instances
    BY <1>3 DEF acquireArchiveLock, GotLock, SkipCycle, ATypeOK
  <2> QED
    BY <1>1, <1>3, <2>1 DEF acquireArchiveLock, ATypeOK, Succeeds, Fails
<1>4. ASSUME NEW i \in Instances,
             shouldArchiveRedis(i) \/ setFirstArchivalTime(i) \/ updateLastArchivalTimeRedis(i)
      PROVE  ATypeOK'
  BY <1>1, <1>2, <1>4
  DEF shouldArchiveRedis, setFirstArchivalTime, updateLastArchivalTimeRedis, ATypeOK,
      Succeeds, Fails
<1>5. ASSUME NEW i \in Instances, archiveOldData(i) \/ releaseArchiveLock(i)
      PROVE  ATypeOK'
  BY <1>1, <1>2, <1>5 DEF archiveOldData, releaseArchiveLock, ATypeOK, Succeeds, Fails
<1>6. ASSUME NEW i \in Instances, LoseSession(i) \/ Stop(i) \/ StartArchivalScheduler(i)
      PROVE  ATypeOK'
  BY <1>1, <1>6 DEF LoseSession, Stop, StartArchivalScheduler, ATypeOK, Fails
<1>7. CASE Tick
  <2>1. clock' \in Clock
    BY <1>7 DEF Tick, ATypeOK, Clock
  <2>2. wait' \in NoKey..CheckPeriod /\ since' \in 0..CheckPeriod
    BY <1>7 DEF Tick, ATypeOK, NoKey
  <2>3. pending' \in [Instances -> BOOLEAN]
    BY <1>7, Zenon DEF Tick, ATypeOK
  <2> QED
    BY <1>1, <1>7, <2>1, <2>2, <2>3 DEF Tick, ATypeOK
<1>8. CASE UNCHANGED aVars
  BY <1>8 DEF aVars, ATypeOK
<1> QED
  BY <1>3, <1>4, <1>5, <1>6, <1>7, <1>8 DEF Next, Cycle

LEMMA InitTypes == Init => ATypeOK /\ Exclusion
<1>1. Init => Exclusion
  BY ArchiverAssumption DEF Init, Exclusion, OneSession, LockHeld, Critical
<1>2. Init => ATypeOK
  BY ArchiverAssumption DEF Init, ATypeOK, Clock, NoKey
<1> QED
  BY <1>1, <1>2

\* The archiver is type correct: in particular the time left until the next
\* archival is never more than the period, although it is formatted and parsed
\* (archiver.go:46, 53), and no session gives up more levels of the lock than
\* it took.
THEOREM ArchiverTypeCorrect == Spec => []ATypeOK
BY InitTypes, StepKeepsExclusion, StepKeepsTypes, PTL DEF Spec

-----------------------------------------------------------------------------
(* Pace *)

\* The inductive invariant until something fails.  Nobody loses the lock, so what
\* the instance that holds it has read of the key stays true while it works:
\* the time since the last archival and the time left until the next one add up
\* to a period, except between an archival and the write of the key.
Pace ==
    /\ ATypeOK
    /\ Exclusion
    /\ lost = {}
    /\ wait = NoKey => since = CheckPeriod
    /\ wait # NoKey /\ (\A i \in Instances : at[i] # "update")
          => since + wait > CheckPeriod - Second
    /\ \A i \in Instances :
          /\ at[i] = "init" => wait = NoKey
          /\ at[i] \in {"archive", "update"} => wait # NoKey
          /\ at[i] = "archive" => since > CheckPeriod - Second

\* The instance that works is the only one to work.
LEMMA WorksAlone ==
    ASSUME Exclusion, lost = {}, NEW i \in Instances, at[i] \in Critical
    PROVE  \A j \in Instances \ {i} : at[j] \notin Critical
BY DEF Exclusion, OneSession, LockHeld

LEMMA StepKeepsPace ==
    ASSUME Pace, [Next]_aVars, smooth'
    PROVE  Pace'
<1> USE ArchiverAssumption
<1>1. ATypeOK' /\ Exclusion'
  BY StepKeepsExclusion, StepKeepsTypes DEF Pace
<1>2. /\ CheckPeriod \in Nat /\ Second \in Nat \ {0} /\ since \in 0..CheckPeriod
      /\ wait \in Int /\ (wait # NoKey => wait \in 0..CheckPeriod)
      /\ at \in [Instances -> Critical \cup {"release", "idle", "down"}]
      /\ NextTime \in 0..CheckPeriod /\ NextTime > CheckPeriod - Second
  BY NextTimeType DEF Pace, ATypeOK, NoKey
<1>3. \A i \in Instances : at[i] \in Critical =>
        \A j \in Instances \ {i} : at[j] \notin Critical
  BY WorksAlone DEF Pace
<1>4. ASSUME NEW i \in Instances, acquireArchiveLock(i)
      PROVE  Pace'
  <2>1. /\ lost' = {} /\ UNCHANGED <<wait, since>>
        /\ at' = at \/ at' = [at EXCEPT ![i] = "check"]
        /\ at[i] = "idle"
    BY <1>4 DEF acquireArchiveLock, GotLock, SkipCycle, Go, Pace, Fails
  <2>2. \A j \in Instances : at'[j] = at[j] \/ (at'[j] = "check" /\ at[j] = "idle")
    BY <1>2, <2>1
  <2> QED
    BY <1>1, <2>1, <2>2 DEF Pace
<1>5. ASSUME NEW i \in Instances, shouldArchiveRedis(i)
      PROVE  Pace'
  <2>1. PICK pc \in {"init", "release", "archive"} :
          /\ at' = [at EXCEPT ![i] = pc] /\ at[i] = "check"
          /\ pc = "init" => wait = NoKey
          /\ pc = "archive" => wait = 0
          /\ UNCHANGED <<wait, since, lost>>
    BY <1>5 DEF shouldArchiveRedis, Go, Fails
  <2>2. \A j \in Instances : at[j] # "update"
    BY <1>3, <2>1 DEF Critical
  <2>3. pc = "archive" => since > CheckPeriod - Second /\ wait # NoKey
    BY <1>2, <2>1, <2>2 DEF Pace, NoKey
  <2>4. \A j \in Instances : at'[j] = IF j = i THEN pc ELSE at[j]
    BY <1>2, <2>1
  <2> QED
    BY <1>1, <2>1, <2>3, <2>4 DEF Pace
<1>6. ASSUME NEW i \in Instances, setFirstArchivalTime(i)
      PROVE  Pace'
  <2>1. /\ at' = [at EXCEPT ![i] = "archive"] /\ at[i] = "init"
        /\ wait' = NextTime /\ UNCHANGED <<since, lost>>
    BY <1>6 DEF setFirstArchivalTime, Go, Fails
  <2>2. since = CheckPeriod
    BY <2>1 DEF Pace
  <2>3. wait' # NoKey /\ since' > CheckPeriod - Second /\ since' + wait' > CheckPeriod - Second
    BY <1>2, <2>1, <2>2 DEF NoKey
  <2>4. \A j \in Instances : at'[j] = IF j = i THEN "archive" ELSE at[j]
    BY <1>2, <2>1
  <2>5. \A j \in Instances \ {i} : at[j] \notin Critical
    BY <1>3, <2>1 DEF Critical
  <2> QED
    BY <1>1, <2>1, <2>3, <2>4, <2>5 DEF Pace, Critical
<1>7. ASSUME NEW i \in Instances, archiveOldData(i)
      PROVE  Pace'
  <2>1. /\ at' = [at EXCEPT ![i] = "update"] /\ at[i] = "archive"
        /\ UNCHANGED <<wait, lost>>
    BY <1>7 DEF archiveOldData, Go, Fails
  <2>2. wait' # NoKey
    BY <2>1 DEF Pace
  <2>3. \A j \in Instances : at'[j] = IF j = i THEN "update" ELSE at[j]
    BY <1>2, <2>1
  <2>4. \A j \in Instances \ {i} : at[j] \notin Critical
    BY <1>3, <2>1 DEF Critical
  <2> QED
    BY <1>1, <2>1, <2>2, <2>3, <2>4 DEF Pace, Critical
<1>8. ASSUME NEW i \in Instances, updateLastArchivalTimeRedis(i)
      PROVE  Pace'
  <2>1. /\ at' = [at EXCEPT ![i] = "release"] /\ at[i] = "update"
        /\ wait' = NextTime /\ UNCHANGED <<since, lost>>
    BY <1>8 DEF updateLastArchivalTimeRedis, Go, Fails
  <2>2. wait' # NoKey /\ since' + wait' > CheckPeriod - Second
    BY <1>2, <2>1 DEF NoKey
  <2>3. \A j \in Instances : at'[j] = IF j = i THEN "release" ELSE at[j]
    BY <1>2, <2>1
  <2>4. \A j \in Instances \ {i} : at[j] \notin Critical
    BY <1>3, <2>1 DEF Critical
  <2> QED
    BY <1>1, <2>1, <2>2, <2>3, <2>4 DEF Pace, Critical
<1>9. ASSUME NEW i \in Instances, releaseArchiveLock(i) \/ StartArchivalScheduler(i)
      PROVE  Pace'
  <2>1. /\ at' = [at EXCEPT ![i] = "idle"] /\ at[i] \in {"release", "down"}
        /\ UNCHANGED <<wait, since, lost>>
    BY <1>9 DEF releaseArchiveLock, StartArchivalScheduler, Go
  <2>2. \A j \in Instances : at'[j] = at[j] \/ (at'[j] = "idle" /\ at[j] \in {"release", "down"})
    BY <1>2, <2>1
  <2> QED
    BY <1>1, <2>1, <2>2 DEF Pace
<1>10. CASE Tick
  <2>1. /\ wait' = (IF wait > 0 THEN wait - 1 ELSE wait)
        /\ since' = (IF since < CheckPeriod THEN since + 1 ELSE since)
        /\ UNCHANGED <<at, lost>>
    BY <1>10 DEF Tick
  <2>2. /\ wait' = NoKey <=> wait = NoKey
        /\ since' >= since
        /\ since = CheckPeriod => since' = CheckPeriod
        /\ wait # NoKey /\ since + wait > CheckPeriod - Second
             => since' + wait' > CheckPeriod - Second
    BY <1>2, <2>1 DEF NoKey
  <2>3. since' \in Int /\ (since > CheckPeriod - Second => since' > CheckPeriod - Second)
    BY <1>2, <2>1
  <2> QED
    BY <1>1, <2>1, <2>2, <2>3 DEF Pace
<1>11. CASE UNCHANGED aVars
  BY <1>1, <1>11 DEF aVars, Pace
<1>12. \A i \in Instances : ~LoseSession(i) /\ ~Stop(i)
  BY DEF LoseSession, Stop, Fails
<1> QED
  BY <1>4, <1>5, <1>6, <1>7, <1>8, <1>9, <1>10, <1>11, <1>12 DEF Next, Cycle

\* What has failed once stays so.
LEMMA SmoothOnlyEnds ==
    ASSUME ATypeOK, [Next]_aVars, smooth'
    PROVE  smooth
<1>1. CASE UNCHANGED smooth
  BY <1>1
<1>2. CASE smooth' = FALSE
  BY <1>2
<1>3. CASE Tick \/ UNCHANGED aVars
  BY <1>1, <1>3 DEF Tick, aVars
<1>4. ASSUME NEW i \in Instances, Cycle(i)
      PROVE  smooth
  BY <1>1, <1>2, <1>4
  DEF Cycle, acquireArchiveLock, shouldArchiveRedis, setFirstArchivalTime, archiveOldData,
      updateLastArchivalTimeRedis, releaseArchiveLock, Succeeds, Fails
<1>5. ASSUME NEW i \in Instances, LoseSession(i) \/ Stop(i) \/ StartArchivalScheduler(i)
      PROVE  smooth
  BY <1>1, <1>2, <1>5 DEF LoseSession, Stop, StartArchivalScheduler, Fails
<1> QED
  BY <1>3, <1>4, <1>5 DEF Next

\* As long as nothing has failed, any number of instances with tickers in any
\* phase archive no more often than once per period, up to the fraction of a
\* second that the format of the key cuts off (archiver.go:46, 53, 84-121).
THEOREM ArchivedOncePerPeriod == Spec => OncePerPeriod
<1> DEFINE Smoothly == ATypeOK /\ Exclusion /\ (smooth => Pace)
<1>1. Init => Smoothly
  <2>1. Init => CheckPeriod > CheckPeriod - Second
    BY ArchiverAssumption
  <2> QED
    BY <2>1, InitTypes DEF Init, Pace
<1>2. Smoothly /\ [Next]_aVars => Smoothly'
  BY StepKeepsExclusion, StepKeepsTypes, SmoothOnlyEnds, StepKeepsPace
<1>3. Smoothly /\ [Next]_aVars =>
        [smooth /\ (\E i \in Instances : at[i] = "archive" /\ at'[i] = "update")
            => since > CheckPeriod - Second]_aVars
  BY DEF Pace
<1> QED
  BY <1>1, <1>2, <1>3, PTL DEF Spec, OncePerPeriod
=============================================================================
