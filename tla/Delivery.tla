------------------------------ MODULE Delivery ------------------------------
(***************************************************************************)
(* What the scheduler core and the dispatcher promise together, one        *)
(* occurrence at a time and without Redis, PostgreSQL or workers: an       *)
(* accepted occurrence waits, is run by one worker at a time, is executed  *)
(* a bounded number of times and never after it succeeded, and once it is  *)
(* out of the system it does not come back.                                *)
(***************************************************************************)
EXTENDS Integers

CONSTANTS
    Oids,         \* occurrence ids
    MaxAttempts   \* executions allowed per occurrence

VARIABLES
    stage,      \* where an occurrence is
    attempts,   \* how often its action was executed
    succeeded   \* whether an execution succeeded

deliveryVars == <<stage, attempts, succeeded>>

Stage == {"unborn", "waiting", "running", "out"}

Move(o, from, to) ==
    /\ stage[o] = from
    /\ stage' = [stage EXCEPT ![o] = to]
    /\ UNCHANGED <<attempts, succeeded>>

\* A new occurrence is accepted.
Accept(o) == Move(o, "unborn", "waiting")

\* A worker takes it.
Start(o) == Move(o, "waiting", "running")

\* The worker executes its action, with or without success.
Attempt(o, ok) ==
    /\ stage[o] = "running"
    /\ ~succeeded[o]
    /\ attempts[o] < MaxAttempts
    /\ attempts' = [attempts EXCEPT ![o] = @ + 1]
    /\ succeeded' = [succeeded EXCEPT ![o] = ok]
    /\ UNCHANGED stage

\* It goes back to wait for the next attempt.
Requeue(o) == ~succeeded[o] /\ Move(o, "running", "waiting")

\* It leaves the system: done, given up, removed, replaced, or lost in a crash.
Leave(o) == Move(o, "waiting", "out") \/ Move(o, "running", "out")

AbstractInit ==
    /\ stage = [o \in Oids |-> "unborn"]
    /\ attempts = [o \in Oids |-> 0]
    /\ succeeded = [o \in Oids |-> FALSE]

AbstractNext ==
    \E o \in Oids :
        \/ Accept(o)
        \/ Start(o)
        \/ \E ok \in BOOLEAN : Attempt(o, ok)
        \/ Requeue(o)
        \/ Leave(o)

AbstractSpec == AbstractInit /\ [][AbstractNext]_deliveryVars
=============================================================================
