------------------------------- MODULE Engine -------------------------------
(***************************************************************************)
(* The poller and the scheduler together: the poller looks at the length   *)
(* of the queue and at the device, asks the cloud for at most Count        *)
(* submitted jobs and hands them over one by one, while the scheduler goes *)
(* on with the jobs it has.  The check is stale as soon as it is made, and *)
(* it does not see the jobs that are handed over but not yet queued.       *)
(***************************************************************************)
EXTENDS Pipeline, Poller

CONSTANTS
    Threshold,   \* NormalQueue.refillThreshold
    Count        \* Poller.Count

ASSUME JobsAssumption == IsFiniteSet(Jobs)
ASSUME SizeAssumption == MaxSize \in Nat
ASSUME ThresholdAssumption == Threshold \in Nat \ {0}
ASSUME CountAssumption == Count \in Nat

VARIABLES
    at,          \* where the poller is
    ticked,      \* the ticker has ticked: the first call of Task comes before
    batch,       \* jobs received and not yet handed over
    submitted,   \* jobs the cloud has not dispatched yet
    lost,        \* jobs dispatched in an answer that never arrived
    available,   \* the device is available
    backlog      \* most jobs in the hands of handlers at a check that passed

vars == <<stage, state, noJobsCount, currentPeriod, lastPeriod, misses,
          at, ticked, batch, submitted, lost, available, backlog>>

Handled == At("handling") \cup At("offered")

TypeOK ==
    /\ stage \in [Jobs -> Stages]
    /\ TypePoller
    /\ at \in {"poll", "device", "request", "handover", "sleep"}
    /\ ticked \in BOOLEAN
    /\ batch \subseteq Jobs
    /\ submitted \subseteq Jobs
    /\ lost \subseteq Jobs
    /\ available \in BOOLEAN
    /\ backlog \in Nat

Init ==
    /\ InitPipeline
    /\ InitPoller
    /\ at = "poll"
    /\ ticked = FALSE
    /\ batch = {}
    /\ submitted = Jobs
    /\ lost = {}
    /\ available \in BOOLEAN
    /\ backlog = 0

\* Task ends, and the ticker is adjusted.
EndTask(got) ==
    /\ Task(got, ticked)
    /\ at' = "sleep"
    /\ UNCHANGED ticked

\* Mutated form of Tick: an idle poller is not called any more.
TickUnlessIdle ==
    /\ at = "sleep"
    /\ state # "IDLE"
    /\ at' = "poll"
    /\ ticked' = TRUE
    /\ UNCHANGED <<stage, poller, batch, submitted, lost, available, backlog>>

Tick ==
    /\ at = "sleep"
    /\ at' = "poll"
    /\ ticked' = TRUE
    /\ UNCHANGED <<stage, poller, batch, submitted, lost, available, backlog>>

\* Mutated form of IsOverRefillThreshold: off by one.
IsOverRefillThresholdOffByOne == Threshold < Cardinality(At("queued"))

IsOverRefillThreshold == Threshold <= Cardinality(At("queued"))

\* passPollingCondition: first the queue, then the device.
QueueUnderThreshold ==
    /\ at = "poll"
    /\ ~IsOverRefillThreshold
    /\ at' = "device"
    /\ backlog' = IF Cardinality(Handled) > backlog THEN Cardinality(Handled) ELSE backlog
    /\ UNCHANGED <<stage, poller, ticked, batch, submitted, lost, available>>

DeviceAvailable ==
    /\ at = "device"
    /\ available
    /\ at' = "request"
    /\ UNCHANGED <<stage, poller, ticked, batch, submitted, lost, available, backlog>>

failPollingCondition ==
    /\ \/ at = "poll" /\ IsOverRefillThreshold
       \/ at = "device" /\ ~available
    /\ EndTask(FALSE)
    /\ UNCHANGED <<stage, batch, submitted, lost, available, backlog>>

\* The cloud answers with jobs, which it will not offer again.
Answer(jobs) ==
    /\ at = "request"
    /\ submitted' = submitted \ jobs
    /\ batch' = jobs
    /\ at' = "handover"
    /\ UNCHANGED <<stage, poller, ticked, lost, available, backlog>>

\* There is no job, or the request fails: before the cloud has dispatched
\* anything, or after.
NoAnswer(jobs) ==
    /\ at = "request"
    /\ submitted' = submitted \ jobs
    /\ lost' = lost \cup jobs
    /\ EndTask(FALSE)
    /\ UNCHANGED <<stage, batch, available, backlog>>

HandOver(j) ==
    /\ at = "handover"
    /\ j \in batch
    /\ Accept(j)
    /\ batch' = batch \ {j}
    /\ UNCHANGED <<poller, at, ticked, submitted, lost, available, backlog>>

HandedOver ==
    /\ at = "handover"
    /\ batch = {}
    /\ EndTask(TRUE)
    /\ UNCHANGED <<stage, batch, submitted, lost, available, backlog>>

\* The device polling of the QPU gateway reports another status.
DeviceChanges ==
    /\ available' = ~available
    /\ UNCHANGED <<stage, poller, at, ticked, batch, submitted, lost, backlog>>

Scheduler(j) ==
    /\ Travel(j)
    /\ UNCHANGED <<poller, at, ticked, batch, submitted, lost, available, backlog>>

Batches == {s \in SUBSET submitted : Cardinality(s) <= Count}

PollerStep ==
    \/ Tick
    \/ QueueUnderThreshold
    \/ DeviceAvailable
    \/ failPollingCondition
    \/ \E jobs \in Batches : (jobs # {} /\ Answer(jobs)) \/ NoAnswer(jobs)
    \/ \E j \in Jobs : HandOver(j)
    \/ HandedOver

Next ==
    \/ PollerStep
    \/ DeviceChanges
    \/ \E j \in Jobs : Scheduler(j)

Spec == Init /\ [][Next]_vars

(***************************************************************************)
(* The ticker keeps ticking and the poller, which blocks nowhere, goes on. *)
(* The scheduler moves every job on, and settles one that keeps coming     *)
(* back some day.                                                          *)
(***************************************************************************)
Fairness ==
    /\ WF_vars(PollerStep)
    /\ \A j \in Jobs : WF_vars(Scheduler(j)) /\ SF_vars(Settle(j) /\ Scheduler(j))

FairSpec == Spec /\ Fairness

-----------------------------------------------------------------------------
(* Properties.                                                             *)

(***************************************************************************)
(* A job is dropped by a full queue only if the queue is too small for     *)
(* what a poll may add: up to the threshold are queued or running when the *)
(* check passes, Count jobs come, and the backlog of jobs that were handed *)
(* over and not yet queued at some check.  In particular nothing is        *)
(* dropped if Threshold + Count <= MaxSize and every batch is queued       *)
(* before the next poll, although the check is stale when the jobs come    *)
(* and a job may be queued more than once.                                 *)
(***************************************************************************)
RoomForBatch == Threshold + Count + backlog <= MaxSize => At("dropped") = {}

(***************************************************************************)
(* Whenever the poller sleeps, the ticker has the idle period exactly if   *)
(* max_retry (but at least two) calls in a row brought no jobs.  The first *)
(* call of Task comes before any tick and does not adjust the ticker,      *)
(* which does no harm because one miss never makes the poller idle.        *)
(***************************************************************************)
PeriodFollowsMisses ==
    /\ (state = "IDLE") <=> (misses = Patience)
    /\ at = "sleep" =>
          IF ticked
          THEN lastPeriod = IF misses = Patience THEN IdlePeriod ELSE NormalPeriod
          ELSE lastPeriod = TaskPeriod /\ misses < Patience

(***************************************************************************)
(* If the device becomes available for good, the poller asks the cloud for *)
(* jobs again and again: neither a queue over the threshold nor an idle    *)
(* poller nor jobs that were dropped or lost stop it.                      *)
(***************************************************************************)
KeepsAsking == <>[]available => []<>(at = "request")
=============================================================================
