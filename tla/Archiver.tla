------------------------------ MODULE Archiver ------------------------------
(***************************************************************************)
(* The archival scheduler (internal/scheduler/archiver.go): every instance *)
(* of the service has a ticker, and at each tick takes a PostgreSQL        *)
(* advisory lock, looks at the next archival time in Redis, archives, and  *)
(* releases the lock.                                                      *)
(*                                                                         *)
(* The lock belongs to a database session, that is to one connection of    *)
(* the pool, and every statement runs on whichever connection is free.     *)
(* Time is cyclic: the clock is kept modulo CheckPeriod, and the key holds *)
(* the time that is left until the next archival.                          *)
(***************************************************************************)
EXTENDS Integers, FiniteSets

CONSTANTS
    Instances,    \* instances of the service
    Connections,  \* connections in the pool of an instance
    CheckPeriod,  \* ticks of the clock between two ticks of the ticker
    Second,       \* ticks of the clock in a second
    MaxLevel,     \* bound: how often one session takes the lock
    Errors,       \* may Redis commands, SQL statements and sessions fail?
    Crashes       \* may an instance stop?

ASSUME ArchiverAssumption ==
    /\ Second \in Nat \ {0}
    /\ CheckPeriod \in Nat \ {0} /\ CheckPeriod % Second = 0
    /\ MaxLevel \in Nat \ {0}
    /\ {Errors, Crashes} \subseteq BOOLEAN

VARIABLES
    clock,    \* the time, modulo CheckPeriod
    lock,     \* how often each session holds the advisory lock
    wait,     \* lastArchivalTimeKey: the time left, or NoKey
    at,       \* where each instance is in its cycle
    phase,    \* when the ticker of each instance ticks
    pending,  \* does the channel of the ticker hold a tick?
    since,    \* history: the time since the last archival
    lost,     \* history: who lost the session with the lock since it took it
    smooth    \* history: has nothing failed so far?

aVars == <<clock, lock, wait, at, phase, pending, since, lost, smooth>>

NoKey == -1
Clock == 0..(CheckPeriod - 1)

Init ==
    /\ clock = 0
    /\ lock = [i \in Instances |-> [c \in Connections |-> 0]]
    /\ wait = NoKey
    /\ at = [i \in Instances |-> "idle"]
    /\ phase \in [Instances -> Clock]
    /\ pending = [i \in Instances |-> FALSE]
    /\ since = CheckPeriod
    /\ lost = {}
    /\ smooth = TRUE

\* A statement or a command succeeds, or fails.
Succeeds == UNCHANGED smooth
Fails == Errors /\ smooth' = FALSE

Go(i, pc) == at' = [at EXCEPT ![i] = pc]

\* Mutant: the time is rounded up to the next second.
NextTimeUp == CheckPeriod + Second - (clock % Second)

\* Format(time.RFC3339) cuts now + checkPeriod off to the second.
NextTime == CheckPeriod - (clock % Second)

-----------------------------------------------------------------------------
(* One cycle *)

\* pg_try_advisory_lock: a session may take its own lock again.
Available(i, c) ==
    \A j \in Instances, d \in Connections : lock[j][d] > 0 => j = i /\ d = c

Hold(i, c, level) == lock' = [lock EXCEPT ![i][c] = level]

\* A statement that fails with its connection ends the session.
Drop(i) == \E c \in Connections : Hold(i, c, 0)

GotLock(i, c) ==
    /\ Available(i, c)
    /\ lock[i][c] < MaxLevel
    /\ Hold(i, c, lock[i][c] + 1)
    /\ lost' = lost \ {i}
    /\ Go(i, "check")

\* "Another instance is archiving, skipping this cycle."
SkipCycle(i, c) ==
    /\ ~Available(i, c)
    /\ UNCHANGED <<lock, at, lost>>

\* Mutant: an instance that did not get the lock goes on.
acquireArchiveLockAnyway(i) ==
    /\ at[i] = "idle"
    /\ pending[i]
    /\ pending' = [pending EXCEPT ![i] = FALSE]
    /\ Go(i, "check")
    /\ UNCHANGED <<clock, lock, wait, phase, since, lost, smooth>>

acquireArchiveLock(i) ==
    /\ at[i] = "idle"
    /\ pending[i]
    /\ pending' = [pending EXCEPT ![i] = FALSE]
    /\ \/ Succeeds /\ \E c \in Connections : GotLock(i, c) \/ SkipCycle(i, c)
       \/ Fails /\ Drop(i) /\ UNCHANGED <<at, lost>>
    /\ UNCHANGED <<clock, wait, phase, since>>

\* Mutant: a look at the key pushes the next time away.
shouldArchiveRedisPush(i) ==
    /\ at[i] = "check"
    /\ \/ wait = NoKey /\ Go(i, "init") /\ UNCHANGED wait
       \/ wait > 0 /\ Go(i, "release") /\ wait' = NextTime
       \/ wait = 0 /\ Go(i, "archive") /\ UNCHANGED wait
    /\ UNCHANGED <<clock, lock, phase, pending, since, lost, smooth>>

\* GET of the key.  An error ends the cycle.
shouldArchiveRedis(i) ==
    /\ at[i] = "check"
    /\ \/ Succeeds /\ wait = NoKey /\ Go(i, "init")
       \/ Succeeds /\ wait > 0 /\ Go(i, "release")
       \/ Succeeds /\ wait = 0 /\ Go(i, "archive")
       \/ Fails /\ Go(i, "release")
    /\ UNCHANGED <<clock, lock, wait, phase, pending, since, lost>>

\* SET of a key that was not set.  The command may take effect and still
\* return an error.
setFirstArchivalTime(i) ==
    /\ at[i] = "init"
    /\ \/ Succeeds /\ wait' = NextTime /\ Go(i, "archive")
       \/ Fails /\ wait' \in {wait, NextTime} /\ Go(i, "release")
    /\ UNCHANGED <<clock, lock, phase, pending, since, lost>>

\* archive_old_data commits as a whole or not at all.  It fails by itself, or
\* with its connection and then perhaps after the commit.
archiveOldData(i) ==
    /\ at[i] = "archive"
    /\ \/ Succeeds /\ since' = 0 /\ Go(i, "update") /\ UNCHANGED lock
       \/ Fails /\ Go(i, "release") /\ UNCHANGED <<lock, since>>
       \/ /\ Fails /\ Go(i, "release")
          /\ since' \in {since, 0}
          /\ Drop(i)
    /\ UNCHANGED <<clock, wait, phase, pending, lost>>

\* Mutant: only the first archival sets the key.
updateLastArchivalTimeNot(i) ==
    /\ at[i] = "update"
    /\ Go(i, "release")
    /\ UNCHANGED <<clock, lock, wait, phase, pending, since, lost, smooth>>

\* An error is logged and the cycle goes on.
updateLastArchivalTimeRedis(i) ==
    /\ at[i] = "update"
    /\ (Succeeds /\ wait' = NextTime) \/ (Fails /\ wait' = wait)
    /\ Go(i, "release")
    /\ UNCHANGED <<clock, lock, phase, pending, since, lost>>

\* pg_advisory_unlock gives up one level of a lock of its own session and does
\* nothing to a lock of another one.
Unlock(i) ==
    \E c \in Connections : Hold(i, c, IF lock[i][c] > 0 THEN lock[i][c] - 1 ELSE 0)

releaseArchiveLock(i) ==
    /\ at[i] = "release"
    /\ (Succeeds /\ Unlock(i)) \/ (Fails /\ Drop(i))
    /\ Go(i, "idle")
    /\ UNCHANGED <<clock, wait, phase, pending, since, lost>>

-----------------------------------------------------------------------------
(* The environment *)

\* The session that holds the lock ends while its connection is idle in the
\* pool; the pool opens a new one in its place and nobody notices.
LoseSession(i) ==
    /\ Fails
    /\ \E c \in Connections : lock[i][c] > 0 /\ Hold(i, c, 0)
    /\ lost' = lost \cup {i}
    /\ UNCHANGED <<clock, wait, at, phase, pending, since>>

\* The process ends, at its stop channel or anywhere else, and with it its
\* sessions.
Stop(i) ==
    /\ Crashes
    /\ at[i] # "down"
    /\ smooth' = FALSE
    /\ Go(i, "down")
    /\ lock' = [lock EXCEPT ![i] = [c \in Connections |-> 0]]
    /\ pending' = [pending EXCEPT ![i] = FALSE]
    /\ UNCHANGED <<clock, wait, phase, since, lost>>

\* The ticker of a new process starts when the process does.
StartArchivalScheduler(i) ==
    /\ at[i] = "down"
    /\ Go(i, "idle")
    /\ phase' = [phase EXCEPT ![i] = clock]
    /\ UNCHANGED <<clock, lock, wait, pending, since, lost, smooth>>

\* Time passes.  A tick is dropped when the channel still holds the last one.
Tick ==
    /\ clock' = (clock + 1) % CheckPeriod
    /\ wait' = IF wait > 0 THEN wait - 1 ELSE wait
    /\ since' = IF since < CheckPeriod THEN since + 1 ELSE since
    /\ pending' = [i \in Instances |->
                     pending[i] \/ (at[i] # "down" /\ phase[i] = clock')]
    /\ UNCHANGED <<lock, at, phase, lost, smooth>>

Cycle(i) ==
    \/ acquireArchiveLock(i)
    \/ shouldArchiveRedis(i)
    \/ setFirstArchivalTime(i)
    \/ archiveOldData(i)
    \/ updateLastArchivalTimeRedis(i)
    \/ releaseArchiveLock(i)

Next ==
    \/ \E i \in Instances :
          Cycle(i) \/ LoseSession(i) \/ Stop(i) \/ StartArchivalScheduler(i)
    \/ Tick

Spec == Init /\ [][Next]_aVars

\* Goroutines run, and time passes.
FairSpec == Spec /\ WF_aVars(Tick) /\ \A i \in Instances : WF_aVars(Cycle(i))

-----------------------------------------------------------------------------
(* Properties *)

Critical == {"check", "init", "archive", "update"}

ATypeOK ==
    /\ clock \in Clock
    /\ wait \in NoKey..CheckPeriod
    /\ since \in 0..CheckPeriod
    /\ at \in [Instances -> Critical \cup {"release", "idle", "down"}]
    /\ phase \in [Instances -> Clock]
    /\ pending \in [Instances -> BOOLEAN]
    /\ lock \in [Instances -> [Connections -> 0..MaxLevel]]
    /\ lost \subseteq Instances
    /\ smooth \in BOOLEAN

\* PostgreSQL gives the lock to one session at a time.
OneSession ==
    \A i, j \in Instances, c, d \in Connections :
        lock[i][c] > 0 /\ lock[j][d] > 0 => i = j /\ c = d

\* Who works in a cycle, and did not lose it, holds the lock on whichever
\* connection.
LockHeld ==
    \A i \in Instances \ lost :
        at[i] \in Critical => \E c \in Connections : lock[i][c] > 0

\* The advisory lock keeps instances apart, whichever connections the pool
\* hands out for taking and releasing it and whatever statement fails: two
\* instances work at the same time only if one of them lost the session that
\* took the lock (archiver.go:91-121).
OneArchiver ==
    \A i, j \in Instances \ lost :
        at[i] \in Critical /\ at[j] \in Critical => i = j

\* As long as nothing has failed, the instances together archive no more often
\* than one per period, up to the fraction of a second that the format of the key
\* cuts off (archiver.go:46, 53).
OncePerPeriod ==
    [][ smooth /\ (\E i \in Instances : at[i] = "archive" /\ at'[i] = "update")
          => since > CheckPeriod - Second ]_aVars

\* A session keeps the lock although its instance is between two cycles: the
\* unlock went to another connection of the pool.
Abandoned == \E i \in Instances, c \in Connections : at[i] = "idle" /\ lock[i][c] > 0

\* A step with a failure that costs a cycle: an instance stops or starts, taking
\* the free lock fails, or so does the GET of a due key, its first SET or the
\* archival itself.
Setback ==
    \E i \in Instances :
        \/ (at[i] = "down") # (at'[i] = "down")
        \/ /\ at[i] = "idle" /\ at'[i] = "idle"
           /\ pending[i] /\ ~pending'[i]
           /\ \A c \in Connections : Available(i, c)
        \/ at[i] = "check" /\ wait <= 0 /\ at'[i] = "release"
        \/ at[i] \in {"init", "archive"} /\ at'[i] = "release"

\* "The Archival Scheduler job periodically archives old events" (design.md:169):
\* as long as instances run, archiving goes on for ever (archiver.go:84-121).
ArchivesPeriodically == []<>(since = 0)

\* Crashes anywhere in a cycle, lost sessions and failing statements do no lasting
\* harm: once they stop costing cycles, some instance is up and no lock is left
\* behind on an idle session, archiving goes on for ever, whatever the phases of
\* the tickers and although instances that meet skip their cycle
\* (archiver.go:84-121).
ArchivalGoesOn ==
    /\ <>[][~Setback]_aVars
    /\ <>[]~Abandoned
    /\ <>[](\E i \in Instances : at[i] # "down")
    => ArchivesPeriodically
=============================================================================
