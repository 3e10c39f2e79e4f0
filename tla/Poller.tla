------------------------------- MODULE Poller -------------------------------
(***************************************************************************)
(* The poller's own state (coreapp/poller) and the ticker that calls it    *)
(* (AddPeriodicTask in coreapp/core).  A call of Task that brings no job,  *)
(* for whatever reason, is a miss.  After enough misses in a row the       *)
(* poller is IDLE and asks for its idle period; the ticker adopts the      *)
(* period the poller asks for, but only after a tick, not after the first  *)
(* call of Task, which comes before any tick.                              *)
(***************************************************************************)
EXTENDS Integers

CONSTANTS
    TaskPeriod,     \* PeriodicTask.Period, the first period of the ticker
    NormalPeriod,
    IdlePeriod,
    MaxRetry

ASSUME MaxRetryAssumption == MaxRetry \in Nat

VARIABLES
    state,
    noJobsCount,
    currentPeriod,   \* the period the poller asks for
    lastPeriod,      \* the period of the ticker
    misses           \* consecutive calls of Task without jobs, for the properties

poller == <<state, noJobsCount, currentPeriod, lastPeriod, misses>>

\* How many misses in a row make the poller idle.
Patience == IF MaxRetry < 2 THEN 2 ELSE MaxRetry

TypePoller ==
    /\ state \in {"POLLING", "SUB_IDLE", "IDLE"}
    /\ noJobsCount \in 0..Patience
    /\ {currentPeriod, lastPeriod} \subseteq {TaskPeriod, NormalPeriod, IdlePeriod}
    /\ misses \in 0..Patience

InitPoller ==
    /\ state = "POLLING"
    /\ noJobsCount = 0
    /\ currentPeriod = NormalPeriod
    /\ lastPeriod = TaskPeriod
    /\ misses = 0

GotJobs ==
    /\ state' = "POLLING"
    /\ IF state = "POLLING" THEN UNCHANGED noJobsCount ELSE noJobsCount' = 0
    /\ IF state = "IDLE" THEN currentPeriod' = NormalPeriod ELSE UNCHANGED currentPeriod
    /\ misses' = 0

SubIdle ==
    /\ state = "POLLING"
    /\ state' = "SUB_IDLE"
    /\ noJobsCount' = 1
    /\ UNCHANGED currentPeriod

\* Mutated form of Retry: one retry more than max_retry.
RetryOnceMore ==
    /\ state = "SUB_IDLE"
    /\ noJobsCount + 1 <= MaxRetry
    /\ noJobsCount' = noJobsCount + 1
    /\ UNCHANGED <<state, currentPeriod>>

Retry ==
    /\ state = "SUB_IDLE"
    /\ noJobsCount + 1 < MaxRetry
    /\ noJobsCount' = noJobsCount + 1
    /\ UNCHANGED <<state, currentPeriod>>

Idle ==
    /\ state = "SUB_IDLE"
    /\ noJobsCount + 1 >= MaxRetry
    /\ noJobsCount' = 0
    /\ state' = "IDLE"
    /\ currentPeriod' = IdlePeriod

\* Mutated form of StillIdle: an idle poller counts on.
StillIdleCounting ==
    /\ state = "IDLE"
    /\ noJobsCount' = noJobsCount + 1
    /\ UNCHANGED <<state, currentPeriod>>

StillIdle == state = "IDLE" /\ UNCHANGED <<state, noJobsCount, currentPeriod>>

NoJobs ==
    /\ SubIdle \/ Retry \/ Idle \/ StillIdle
    /\ misses' = IF misses < Patience THEN misses + 1 ELSE misses

\* The end of Task; the ticker is adjusted after a call that a tick has made.
Task(got, ticked) ==
    /\ IF got THEN GotJobs ELSE NoJobs
    /\ lastPeriod' = IF ticked THEN currentPeriod' ELSE lastPeriod
=============================================================================
