---------------------------- MODULE EngineProofs ----------------------------
(***************************************************************************)
(* Proofs about Engine, for any finite set of jobs, any queue size, refill *)
(* threshold, batch size and number of retries; and about RunGroup, in     *)
(* which the engine is one actor, for any sets of actors.                  *)
(***************************************************************************)
EXTENDS Engine, RunGroup, FiniteSetTheorems, TLAPS

\* The jobs the scheduler has to do something for.
InFlight == {j \in Jobs : stage[j] \in {"handling", "offered", "queued", "running"}}

(***************************************************************************)
(* The poller's counter, its state and the period it asks for all follow   *)
(* the misses, and the ticker follows the poller from the first tick on.   *)
(***************************************************************************)
PollInv ==
    /\ state = "POLLING" => misses = 0 /\ noJobsCount = 0 /\ currentPeriod = NormalPeriod
    /\ state = "SUB_IDLE" => /\ misses = noJobsCount
                             /\ misses >= 1
                             /\ misses < Patience
                             /\ currentPeriod = NormalPeriod
    /\ state = "IDLE" => /\ misses = Patience
                         /\ noJobsCount = 0
                         /\ currentPeriod = IdlePeriod
    /\ ticked /\ at = "sleep" => lastPeriod = currentPeriod
    /\ ~ticked => /\ lastPeriod = TaskPeriod
                  /\ IF at = "sleep" THEN misses <= 1 ELSE misses = 0

(***************************************************************************)
(* The poller never has more on its way than one check allows: what is in  *)
(* flight at the check, and the batch that comes after it.                 *)
(***************************************************************************)
RoomInv ==
    /\ batch \subseteq At("absent")
    /\ submitted \subseteq At("absent")
    /\ batch \cap submitted = {}
    /\ at # "handover" => batch = {}
    /\ \A i, j \in At("running") : i = j
    /\ at \in {"device", "request"} => Cardinality(InFlight) <= Threshold + backlog
    /\ Cardinality(InFlight \cup batch) <= Threshold + Count + backlog
    /\ RoomForBatch

IInv == TypeOK /\ PollInv /\ RoomInv

-----------------------------------------------------------------------------
(* The poller and its ticker.                                              *)

\* Initially there is nothing to do and no call of Task has been made.
LEMMA InitIInv == Init => IInv
<1> SUFFICES ASSUME Init
             PROVE  IInv
  OBVIOUS
<1>1. TypeOK
  <2>1. stage \in [Jobs -> Stages] /\ TypePoller /\ backlog \in Nat
    BY MaxRetryAssumption
    DEF Init, InitPipeline, InitPoller, TypePoller, Patience, Stages
  <2>2. ticked \in BOOLEAN /\ available \in BOOLEAN
    BY Zenon DEF Init
  <2>3. QED
    BY <2>1, <2>2 DEF Init, TypeOK
<1>2. PollInv
  BY DEF Init, InitPoller, PollInv
<1>3. RoomInv
  <2>1. InFlight = {} /\ batch = {} /\ At("dropped") = {} /\ At("running") = {}
        /\ At("absent") = Jobs
    BY DEF Init, InitPipeline, InFlight, At
  <2>2. Cardinality(InFlight \cup batch) = 0 /\ Cardinality(InFlight) = 0
    BY <2>1, FS_EmptySet
  <2>3. QED
    BY <2>1, <2>2, ThresholdAssumption, CountAssumption DEF Init, RoomInv, RoomForBatch
<1>4. QED
  BY <1>1, <1>2, <1>3 DEF IInv

\* A call of Task ends: the state of the poller and the ticker follow the misses.
LEMMA EndTaskPoll ==
    ASSUME TypeOK, PollInv, at # "sleep", NEW got \in BOOLEAN, EndTask(got)
    PROVE  TypePoller' /\ PollInv'
<1> USE MaxRetryAssumption
<1>1. /\ Patience \in Nat /\ Patience >= 2
      /\ misses \in Nat /\ noJobsCount \in Nat
      /\ ticked \in BOOLEAN
      /\ state \in {"POLLING", "SUB_IDLE", "IDLE"}
  BY DEF TypeOK, TypePoller, Patience
<1>2. at' = "sleep" /\ ticked' = ticked /\ lastPeriod' = IF ticked THEN currentPeriod' ELSE lastPeriod
  BY DEF EndTask, Task
<1>3. CASE GotJobs
  BY <1>1, <1>2, <1>3 DEF GotJobs, TypeOK, TypePoller, PollInv, Patience
<1>4. CASE NoJobs
  <2>1. misses' = IF misses < Patience THEN misses + 1 ELSE misses
    BY <1>4 DEF NoJobs
  <2>2. CASE SubIdle
    BY <1>1, <1>2, <2>1, <2>2 DEF SubIdle, TypeOK, TypePoller, PollInv, Patience
  <2>3. CASE Retry
    BY <1>1, <1>2, <2>1, <2>3 DEF Retry, TypeOK, TypePoller, PollInv, Patience
  <2>4. CASE Idle
    BY <1>1, <1>2, <2>1, <2>4 DEF Idle, TypeOK, TypePoller, PollInv, Patience
  <2>5. CASE StillIdle
    BY <1>1, <1>2, <2>1, <2>5 DEF StillIdle, TypeOK, TypePoller, PollInv, Patience
  <2>6. QED
    BY <1>4, <2>2, <2>3, <2>4, <2>5 DEF NoJobs
<1>5. QED
  BY <1>3, <1>4 DEF EndTask, Task

-----------------------------------------------------------------------------
(* Counting the jobs in flight.                                            *)

\* Sets of jobs are finite, so their cardinalities are natural numbers that
\* grow with the sets.
LEMMA JobSets ==
    ASSUME NEW S \in SUBSET Jobs, NEW T \in SUBSET S
    PROVE  /\ IsFiniteSet(S) /\ IsFiniteSet(T)
           /\ Cardinality(S) \in Nat /\ Cardinality(T) \in Nat
           /\ Cardinality(T) <= Cardinality(S)
<1>1. IsFiniteSet(S) /\ IsFiniteSet(T)
  BY JobsAssumption, FS_Subset
<1>2. QED
  BY <1>1, FS_Subset, FS_CardinalityType

\* The queue goroutine finds the queue full: one job more than maxSize is in flight.
LEMMA FullQueue ==
    ASSUME NEW j \in Jobs, stage[j] = "offered", MaxSize <= Cardinality(At("queued"))
    PROVE  MaxSize + 1 <= Cardinality(InFlight)
<1> DEFINE Q == At("queued")
<1>1. Q \in SUBSET Jobs /\ j \notin Q /\ Q \cup {j} \in SUBSET InFlight
  BY DEF At, InFlight
<1>2. IsFiniteSet(Q) /\ Cardinality(Q) \in Nat
  BY <1>1, JobSets
<1>3. Cardinality(Q \cup {j}) = Cardinality(Q) + 1
  BY <1>1, <1>2, FS_AddElement
<1>4. InFlight \in SUBSET Jobs
  BY DEF InFlight
<1>5. Cardinality(Q \cup {j}) <= Cardinality(InFlight) /\ Cardinality(InFlight) \in Nat
  BY <1>1, <1>4, JobSets
<1>6. QED
  BY <1>2, <1>3, <1>5, SizeAssumption

\* A check that passes: at most Threshold jobs are queued or running.
LEMMA CheckPassed ==
    ASSUME ~IsOverRefillThreshold, \A i, j \in At("running") : i = j
    PROVE  Cardinality(InFlight) <= Threshold + Cardinality(Handled)
<1> DEFINE Q == At("queued")
           R == At("running")
<1>1. Q \in SUBSET Jobs /\ R \in SUBSET Jobs /\ Handled \in SUBSET Jobs
      /\ Q \cup R \in SUBSET Jobs /\ InFlight = Handled \cup (Q \cup R)
  BY DEF At, InFlight, Handled
<1>2. /\ IsFiniteSet(Q) /\ Cardinality(Q) \in Nat
      /\ IsFiniteSet(R) /\ Cardinality(R) \in Nat
      /\ IsFiniteSet(Handled) /\ Cardinality(Handled) \in Nat
      /\ IsFiniteSet(Q \cup R) /\ Cardinality(Q \cup R) \in Nat
  BY <1>1, JobSets
<1>3. Cardinality(R) <= 1
  <2>1. CASE R = {}
    BY <2>1, FS_EmptySet
  <2>2. CASE R # {}
    <3>1. PICK r \in R : TRUE
      BY <2>2
    <3>2. R = {r}
      BY <3>1
    <3>3. Cardinality({r}) = 1
      BY FS_Singleton, Zenon
    <3>4. QED
      BY <3>2, <3>3
  <2>3. QED
    BY <2>1, <2>2
<1>4. Cardinality(Q \cup R) <= Cardinality(Q) + Cardinality(R)
  <2>1. Cardinality(Q \cap R) \in Nat
    BY <1>2, FS_Intersection, FS_CardinalityType
  <2>2. QED
    BY <1>2, <2>1, FS_Union
<1>5. Cardinality(InFlight) <= Cardinality(Handled) + Cardinality(Q \cup R)
  <2>1. Cardinality(Handled \cap (Q \cup R)) \in Nat
    BY <1>2, FS_Intersection, FS_CardinalityType
  <2>2. Cardinality(Handled \cup (Q \cup R))
          = Cardinality(Handled) + Cardinality(Q \cup R) - Cardinality(Handled \cap (Q \cup R))
    BY <1>2, FS_Union
  <2>3. QED
    BY <1>1, <1>2, <2>1, <2>2
<1>6. Cardinality(Q) < Threshold
  BY <1>2, ThresholdAssumption DEF IsOverRefillThreshold
<1>7. Cardinality(InFlight) \in Nat
  <2>1. InFlight \in SUBSET Jobs
    BY DEF InFlight
  <2>2. QED
    BY <2>1, JobSets
<1>8. QED
  BY <1>2, <1>3, <1>4, <1>5, <1>6, <1>7, ThresholdAssumption

-----------------------------------------------------------------------------
(* Every step keeps the invariant.                                         *)

\* Steps that leave the jobs and the batch where they are, and lower no bound.
LEMMA RoomUnchanged ==
    ASSUME IInv, UNCHANGED <<stage, batch, submitted, backlog>>,
           at' \notin {"device", "request", "handover"}, at' = at \/ batch = {}
    PROVE  RoomInv'
<1>1. UNCHANGED <<InFlight, At("absent"), At("running"), At("dropped")>>
  BY DEF InFlight, At
<1>2. RoomForBatch'
  BY <1>1 DEF IInv, RoomInv, RoomForBatch
<1>3. QED
  BY <1>1, <1>2 DEF IInv, RoomInv

\* What is in flight and the batch never lower the number a natural backlog bounds.
LEMMA Sizes ==
    ASSUME TypeOK
    PROVE  /\ InFlight \in SUBSET Jobs /\ (InFlight \cup batch) \in SUBSET Jobs
           /\ Cardinality(InFlight) \in Nat
           /\ Cardinality(InFlight \cup batch) \in Nat
           /\ IsFiniteSet(InFlight) /\ IsFiniteSet(batch)
           /\ Threshold \in Nat /\ Count \in Nat /\ backlog \in Nat /\ MaxSize \in Nat
<1>1. InFlight \in SUBSET Jobs /\ (InFlight \cup batch) \in SUBSET Jobs
      /\ batch \in SUBSET Jobs /\ backlog \in Nat
  BY DEF InFlight, TypeOK
<1>2. QED
  BY <1>1, JobSets, ThresholdAssumption, CountAssumption, SizeAssumption

LEMMA StepTick == IInv /\ Tick => IInv'
<1> SUFFICES ASSUME IInv, Tick
             PROVE  IInv'
  OBVIOUS
<1>1. RoomInv'
  BY RoomUnchanged DEF Tick, IInv, RoomInv
<1>2. ticked' = TRUE /\ at' = "poll" /\ UNCHANGED <<state, noJobsCount, currentPeriod, lastPeriod, misses>>
  BY DEF Tick, poller
<1>3. PollInv'
  BY <1>2 DEF IInv, PollInv
<1>4. TypeOK'
  BY <1>2 DEF Tick, IInv, TypeOK, TypePoller
<1>5. QED
  BY <1>1, <1>3, <1>4 DEF IInv

LEMMA StepQueueUnderThreshold == IInv /\ QueueUnderThreshold => IInv'
<1> SUFFICES ASSUME IInv, QueueUnderThreshold
             PROVE  IInv'
  OBVIOUS
<1> USE DEF QueueUnderThreshold
<1>1. UNCHANGED <<state, noJobsCount, currentPeriod, lastPeriod, misses>>
  BY DEF poller
<1>2. UNCHANGED <<InFlight, At("absent"), At("running"), At("dropped")>>
  BY DEF InFlight, At
<1>3. /\ Cardinality(Handled) \in Nat
      /\ Cardinality(Handled) <= backlog'
      /\ backlog <= backlog' /\ backlog' \in Nat
  <2>1. Handled \in SUBSET Jobs
    BY DEF Handled, At
  <2>2. Cardinality(Handled) \in Nat
    BY <2>1, JobSets
  <2>3. QED
    BY <2>2 DEF IInv, TypeOK
<1>4. Cardinality(InFlight) <= Threshold + Cardinality(Handled)
  BY CheckPassed DEF IInv, RoomInv
<1>5. RoomInv'
  <2>1. TypeOK /\ batch = {} /\ batch' = {}
    BY DEF IInv, RoomInv
  <2>2. Cardinality(InFlight)' <= Threshold + backlog'
    BY <1>2, <1>3, <1>4, <2>1, Sizes
  <2>3. InFlight' \cup batch' = InFlight \cup batch
    BY <1>2, <2>1
  <2>4. Cardinality(InFlight \cup batch)' <= Threshold + Count + backlog'
    BY <1>3, <2>1, <2>3, Sizes DEF IInv, RoomInv
  <2>5. RoomForBatch'
    BY <1>2, <1>3, <2>1, Sizes DEF IInv, RoomInv, RoomForBatch
  <2>6. QED
    BY <1>2, <2>1, <2>2, <2>4, <2>5 DEF IInv, RoomInv
<1>6. PollInv'
  BY <1>1 DEF IInv, PollInv
<1>7. TypeOK'
  BY <1>1, <1>3 DEF IInv, TypeOK, TypePoller
<1>8. QED
  BY <1>5, <1>6, <1>7 DEF IInv

LEMMA StepDeviceAvailable == IInv /\ DeviceAvailable => IInv'
<1> SUFFICES ASSUME IInv, DeviceAvailable
             PROVE  IInv'
  OBVIOUS
<1> USE DEF DeviceAvailable
<1>1. UNCHANGED <<state, noJobsCount, currentPeriod, lastPeriod, misses>>
  BY DEF poller
<1>2. UNCHANGED <<InFlight, At("absent"), At("running"), At("dropped")>>
  BY DEF InFlight, At
<1>3. RoomForBatch'
  BY <1>2 DEF IInv, RoomInv, RoomForBatch
<1>4. RoomInv'
  BY <1>2, <1>3 DEF IInv, RoomInv
<1>5. PollInv'
  BY <1>1 DEF IInv, PollInv
<1>6. TypeOK'
  BY <1>1 DEF IInv, TypeOK, TypePoller
<1>7. QED
  BY <1>4, <1>5, <1>6 DEF IInv

LEMMA StepFail == IInv /\ failPollingCondition => IInv'
<1> SUFFICES ASSUME IInv, failPollingCondition
             PROVE  IInv'
  OBVIOUS
<1> USE DEF failPollingCondition
<1>1. TypePoller' /\ PollInv'
  BY EndTaskPoll DEF IInv
<1>2. at' = "sleep" /\ UNCHANGED ticked
  BY DEF EndTask
<1>3. TypeOK'
  BY <1>1, <1>2 DEF IInv, TypeOK
<1>4. RoomInv'
  BY <1>2, RoomUnchanged DEF IInv, RoomInv
<1>5. QED
  BY <1>1, <1>3, <1>4 DEF IInv

LEMMA StepHandedOver == IInv /\ HandedOver => IInv'
<1> SUFFICES ASSUME IInv, HandedOver
             PROVE  IInv'
  OBVIOUS
<1> USE DEF HandedOver
<1>1. TypePoller' /\ PollInv'
  BY EndTaskPoll DEF IInv
<1>2. at' = "sleep" /\ UNCHANGED ticked
  BY DEF EndTask
<1>3. TypeOK'
  BY <1>1, <1>2 DEF IInv, TypeOK
<1>4. RoomInv'
  BY <1>2, RoomUnchanged DEF IInv, RoomInv
<1>5. QED
  BY <1>1, <1>3, <1>4 DEF IInv

\* The cloud's answer: a batch of at most Count jobs that are nowhere yet.
LEMMA StepAnswer ==
    ASSUME IInv, NEW jobs \in Batches, Answer(jobs)
    PROVE  IInv'
<1> USE DEF Answer
<1>1. UNCHANGED <<state, noJobsCount, currentPeriod, lastPeriod, misses>>
  BY DEF poller
<1>2. UNCHANGED <<InFlight, At("absent"), At("running"), At("dropped")>>
  BY DEF InFlight, At
<1>3. jobs \in SUBSET submitted /\ jobs \in SUBSET Jobs /\ Cardinality(jobs) <= Count
  BY DEF Batches, IInv, TypeOK
<1>4. Cardinality(InFlight \cup jobs) <= Threshold + Count + backlog
  <2>1. TypeOK /\ Cardinality(InFlight) <= Threshold + backlog
    BY DEF IInv, RoomInv
  <2>2. IsFiniteSet(jobs) /\ Cardinality(jobs) \in Nat
    BY <1>3, JobSets
  <2>3. IsFiniteSet(InFlight) /\ Cardinality(InFlight) \in Nat
    BY <2>1, Sizes
  <2>4. Cardinality(InFlight \cap jobs) \in Nat
    BY <2>2, <2>3, FS_Intersection, FS_CardinalityType
  <2>5. Cardinality(InFlight \cup jobs)
          = Cardinality(InFlight) + Cardinality(jobs) - Cardinality(InFlight \cap jobs)
    BY <2>2, <2>3, FS_Union
  <2>6. Threshold \in Nat /\ Count \in Nat /\ backlog \in Nat
    BY <2>1, Sizes
  <2>7. QED
    BY <1>3, <2>1, <2>2, <2>3, <2>4, <2>5, <2>6
<1>5. RoomInv'
  <2>1. Cardinality(InFlight \cup batch)' <= Threshold + Count + backlog'
    BY <1>2, <1>4
  <2>2. RoomForBatch'
    BY <1>2 DEF IInv, RoomInv, RoomForBatch
  <2>3. QED
    BY <1>2, <1>3, <2>1, <2>2 DEF IInv, RoomInv
<1>6. PollInv'
  BY <1>1 DEF IInv, PollInv
<1>7. TypeOK'
  BY <1>1, <1>3 DEF IInv, TypeOK, TypePoller
<1>8. QED
  BY <1>5, <1>6, <1>7 DEF IInv

LEMMA StepNoAnswer ==
    ASSUME IInv, NEW jobs \in Batches, NoAnswer(jobs)
    PROVE  IInv'
<1> USE DEF NoAnswer
<1>1. TypePoller' /\ PollInv'
  BY EndTaskPoll DEF IInv
<1>2. at' = "sleep" /\ UNCHANGED ticked
  BY DEF EndTask
<1>3. TypeOK'
  BY <1>1, <1>2 DEF IInv, TypeOK, Batches
<1>4. UNCHANGED <<InFlight, At("absent"), At("running"), At("dropped")>>
  BY DEF InFlight, At
<1>5. RoomForBatch'
  BY <1>4 DEF IInv, RoomInv, RoomForBatch
<1>6. RoomInv'
  BY <1>2, <1>4, <1>5 DEF IInv, RoomInv
<1>7. QED
  BY <1>1, <1>3, <1>6 DEF IInv

\* A job handed over leaves the batch and is in flight: the sum stays.
LEMMA StepHandOver ==
    ASSUME IInv, NEW j \in Jobs, HandOver(j)
    PROVE  IInv'
<1> USE DEF HandOver, Accept, Move
<1>1. UNCHANGED <<state, noJobsCount, currentPeriod, lastPeriod, misses>>
  BY DEF poller
<1>2. stage \in [Jobs -> Stages] /\ stage' \in [Jobs -> Stages]
  BY DEF IInv, TypeOK, Stages
<1>3. /\ InFlight' = InFlight \cup {j}
      /\ At("absent")' = At("absent") \ {j}
      /\ UNCHANGED <<At("running"), At("dropped")>>
  BY <1>2 DEF InFlight, At
<1>4. InFlight' \cup batch' = InFlight \cup batch
  BY <1>3
<1>5. RoomForBatch'
  BY <1>3 DEF IInv, RoomInv, RoomForBatch
<1>6. RoomInv'
  <2>1. Cardinality(InFlight \cup batch)' <= Threshold + Count + backlog'
    BY <1>4 DEF IInv, RoomInv
  <2>2. j \notin submitted
    BY DEF IInv, RoomInv
  <2>3. QED
    BY <1>3, <1>5, <2>1, <2>2 DEF IInv, RoomInv
<1>7. PollInv'
  BY <1>1 DEF IInv, PollInv
<1>8. TypeOK'
  BY <1>1, <1>2 DEF IInv, TypeOK, TypePoller
<1>9. QED
  BY <1>6, <1>7, <1>8 DEF IInv

LEMMA StepDevice == IInv /\ DeviceChanges => IInv'
<1> SUFFICES ASSUME IInv, DeviceChanges
             PROVE  IInv'
  OBVIOUS
<1> USE DEF DeviceChanges
<1>1. UNCHANGED <<state, noJobsCount, currentPeriod, lastPeriod, misses>>
  BY DEF poller
<1>2. UNCHANGED <<InFlight, At("absent"), At("running"), At("dropped")>>
  BY DEF InFlight, At
<1>3. RoomForBatch'
  BY <1>2 DEF IInv, RoomInv, RoomForBatch
<1>4. RoomInv'
  BY <1>2, <1>3 DEF IInv, RoomInv
<1>5. PollInv'
  BY <1>1 DEF IInv, PollInv
<1>6. available' \in BOOLEAN
  BY Zenon
<1>7. TypeOK'
  BY <1>1, <1>6 DEF IInv, TypeOK, TypePoller
<1>8. QED
  BY <1>4, <1>5, <1>7 DEF IInv

(***************************************************************************)
(* A step of the scheduler adds nothing to what is in flight.  A drop      *)
(* would need more jobs in flight than the invariant allows.               *)
(***************************************************************************)
LEMMA StepScheduler ==
    ASSUME IInv, NEW j \in Jobs, Scheduler(j)
    PROVE  IInv'
<1>1. UNCHANGED <<state, noJobsCount, currentPeriod, lastPeriod, misses,
                  at, ticked, batch, submitted, lost, available, backlog>>
  BY DEF Scheduler, poller
<1>2. stage \in [Jobs -> Stages] /\ TypeOK
  BY DEF IInv, TypeOK
<1>3. /\ stage' \in [Jobs -> Stages]
      /\ InFlight' \in SUBSET InFlight
      /\ At("absent")' = At("absent")
      /\ At("dropped")' \in SUBSET (At("dropped") \cup {j})
      /\ At("dropped")' # At("dropped") => Drop(j)
  <2>1. PICK from, to \in {"handling", "offered", "queued", "running", "dropped", "settled"} :
            /\ from \in {"handling", "offered", "queued", "running"}
            /\ Move(j, from, to)
            /\ to = "dropped" => Drop(j)
    <3>1. Travel(j)
      BY DEF Scheduler
    <3>2. QED
      BY <3>1 DEF Travel, Settle, Offer, Enqueue, Drop, Dequeue, Return
  <2>2. /\ stage[j] = from
        /\ stage' = [stage EXCEPT ![j] = to]
    BY <2>1 DEF Move
  <2>3. stage' \in [Jobs -> Stages]
    BY <1>2, <2>1, <2>2 DEF Stages
  <2>4. InFlight' \in SUBSET InFlight /\ At("absent")' = At("absent")
    BY <1>2, <2>1, <2>2 DEF InFlight, At
  <2>5. At("dropped")' = IF to = "dropped" THEN At("dropped") \cup {j} ELSE At("dropped")
    BY <1>2, <2>1, <2>2 DEF At
  <2>6. QED
    BY <2>1, <2>3, <2>4, <2>5
<1>4. \A i, k \in At("running")' : i = k
  <2>1. CASE Dequeue(j)
    <3>1. At("running")' = {j}
      BY <1>2, <2>1 DEF Dequeue, Move, At
    <3>2. QED
      BY <3>1
  <2>2. CASE ~Dequeue(j)
    <3>1. At("running")' \in SUBSET At("running")
      <4>1. Settle(j) \/ Offer(j) \/ Enqueue(j) \/ Drop(j) \/ Return(j)
        BY <2>2 DEF Scheduler, Travel
      <4>2. QED
        BY <1>2, <4>1 DEF Settle, Offer, Enqueue, Drop, Return, Move, At
    <3>2. QED
      BY <3>1 DEF IInv, RoomInv
  <2>3. QED
    BY <2>1, <2>2
<1>5. /\ Cardinality(InFlight)' <= Cardinality(InFlight)
      /\ Cardinality(InFlight \cup batch)' <= Cardinality(InFlight \cup batch)
      /\ Cardinality(InFlight)' \in Nat
      /\ Cardinality(InFlight \cup batch)' \in Nat
  <2>1. /\ InFlight \in SUBSET Jobs /\ (InFlight \cup batch) \in SUBSET Jobs
        /\ (InFlight' \cup batch') \in SUBSET (InFlight \cup batch)
    BY <1>1, <1>2, <1>3, Sizes
  <2>2. QED
    BY <1>3, <2>1, JobSets
<1>6. RoomForBatch'
  <2>1. CASE At("dropped")' = At("dropped")
    BY <1>1, <2>1 DEF IInv, RoomInv, RoomForBatch
  <2>2. CASE At("dropped")' # At("dropped")
    <3>1. stage[j] = "offered" /\ MaxSize <= Cardinality(At("queued"))
      <4>1. Drop(j)
        BY <1>3, <2>2
      <4>2. At("queued") \in SUBSET Jobs
        BY DEF At
      <4>3. Cardinality(At("queued")) \in Nat
        BY <4>2, JobSets
      <4>4. QED
        BY <4>1, <4>3, SizeAssumption DEF Drop, Move
    <3>2. MaxSize + 1 <= Cardinality(InFlight)
      BY <3>1, FullQueue
    <3>3. Cardinality(InFlight) <= Cardinality(InFlight \cup batch)
      <4>1. (InFlight \cup batch) \in SUBSET Jobs
        BY <1>2, Sizes
      <4>2. QED
        BY <4>1, JobSets
    <3>4. Cardinality(InFlight \cup batch) <= Threshold + Count + backlog
      BY DEF IInv, RoomInv
    <3>5. ~(Threshold + Count + backlog <= MaxSize)
      BY <1>2, <3>2, <3>3, <3>4, Sizes
    <3>6. QED
      BY <1>1, <3>5 DEF RoomForBatch
  <2>3. QED
    BY <2>1, <2>2
<1>7. RoomInv'
  <2>1. /\ at' \in {"device", "request"} => Cardinality(InFlight)' <= Threshold + backlog'
        /\ Cardinality(InFlight \cup batch)' <= Threshold + Count + backlog'
    BY <1>1, <1>2, <1>5, Sizes DEF IInv, RoomInv
  <2>2. QED
    BY <1>1, <1>3, <1>4, <1>6, <2>1 DEF IInv, RoomInv
<1>8. PollInv'
  BY <1>1 DEF IInv, PollInv
<1>9. TypeOK'
  BY <1>1, <1>3 DEF IInv, TypeOK, TypePoller
<1>10. QED
  BY <1>7, <1>8, <1>9 DEF IInv

\* A step that changes nothing.
LEMMA StepStutter == IInv /\ UNCHANGED vars => IInv'
<1> SUFFICES ASSUME IInv, UNCHANGED vars
             PROVE  IInv'
  OBVIOUS
<1> USE DEF vars
<1>1. UNCHANGED <<InFlight, At("absent"), At("running"), At("dropped")>>
  BY DEF InFlight, At
<1>2. RoomForBatch'
  BY <1>1 DEF IInv, RoomInv, RoomForBatch
<1>3. RoomInv'
  BY <1>1, <1>2 DEF IInv, RoomInv
<1>4. TypeOK' /\ PollInv'
  BY DEF IInv, TypeOK, TypePoller, PollInv
<1>5. QED
  BY <1>3, <1>4 DEF IInv

-----------------------------------------------------------------------------
(* The theorems.                                                           *)

\* The strengthening is an invariant of poller and scheduler together.
LEMMA Inductive == Spec => []IInv
<1>1. IInv /\ [Next]_vars => IInv'
  <2> SUFFICES ASSUME IInv, [Next]_vars
               PROVE  IInv'
    OBVIOUS
  <2>1. CASE PollerStep
    <3>1. CASE Tick
      BY <3>1, StepTick
    <3>2. CASE QueueUnderThreshold \/ DeviceAvailable
      BY <3>2, StepQueueUnderThreshold, StepDeviceAvailable
    <3>3. CASE failPollingCondition
      BY <3>3, StepFail
    <3>4. CASE \E jobs \in Batches : (jobs # {} /\ Answer(jobs)) \/ NoAnswer(jobs)
      BY <3>4, StepAnswer, StepNoAnswer
    <3>5. CASE \E j \in Jobs : HandOver(j)
      BY <3>5, StepHandOver
    <3>6. CASE HandedOver
      BY <3>6, StepHandedOver
    <3>7. QED
      BY <2>1, <3>1, <3>2, <3>3, <3>4, <3>5, <3>6 DEF PollerStep
  <2>2. CASE DeviceChanges
    BY <2>2, StepDevice
  <2>3. CASE \E j \in Jobs : Scheduler(j)
    BY <2>3, StepScheduler
  <2>4. CASE UNCHANGED vars
    BY <2>4, StepStutter
  <2>5. QED
    BY <2>1, <2>2, <2>3, <2>4 DEF Next
<1>2. QED
  BY <1>1, InitIInv, PTL DEF Spec

(***************************************************************************)
(* The full queue drops no job as long as threshold, batch and backlog fit *)
(* into the queue: passPollingCondition looks at the queue alone and long  *)
(* before the jobs arrive, and that is enough.                             *)
(***************************************************************************)
THEOREM Room == Spec => []RoomForBatch
<1>1. IInv => RoomForBatch
  BY DEF IInv, RoomInv
<1>2. QED
  BY <1>1, Inductive, PTL

(***************************************************************************)
(* The ticker of AddPeriodicTask has the idle period exactly after enough  *)
(* calls of Task in a row that brought no jobs, for any MaxRetry.          *)
(***************************************************************************)
THEOREM Period == Spec => []PeriodFollowsMisses
<1>1. IInv => PeriodFollowsMisses
  <2> SUFFICES ASSUME IInv
               PROVE  PeriodFollowsMisses
    OBVIOUS
  <2>1. /\ Patience \in Nat /\ Patience >= 2 /\ misses \in Nat
        /\ state \in {"POLLING", "SUB_IDLE", "IDLE"} /\ ticked \in BOOLEAN
    BY MaxRetryAssumption DEF IInv, TypeOK, TypePoller, Patience
  <2>2. QED
    BY <2>1 DEF IInv, PollInv, PeriodFollowsMisses
<1>2. QED
  BY <1>1, Inductive, PTL

\* Poller and scheduler keep the types of their variables.
THEOREM EngineTyped == Spec => []TypeOK
<1>1. IInv => TypeOK
  BY DEF IInv
<1>2. QED
  BY <1>1, Inductive, PTL

-----------------------------------------------------------------------------
(* RunGroup: the poller is one of the tasks of the group that Execute      *)
(* runs.  First type correctness.                                          *)

LEMMA ComponentsCount == Len(Components) = 5
  BY DEF Components

\* While components are set up, one is left.
OneLeft ==
    /\ main = "settings" => ready = 0
    /\ main = "setup" => ready < Len(Components)

LEMMA TypeOfExecute ==
    ASSUME TypeGroup, OneLeft, Execute
    PROVE  TypeGroup' /\ OneLeft'
  <1>1. CASE ParseSettingFromPath
    BY <1>1, ComponentsCount DEF ParseSettingFromPath, TypeGroup, OneLeft,
       Goto, End, group, services
  <1>2. CASE Setup
    BY <1>2, ComponentsCount DEF Setup, TypeGroup, OneLeft, Goto,
       End, group, services
  <1>3. CASE NewRunContextWithSettingPath
    BY <1>3 DEF NewRunContextWithSettingPath, TypeGroup, OneLeft, Goto,
       services, ActorStates
  <1>4. CASE StartCore
    BY <1>4 DEF StartCore, TypeGroup, OneLeft, Goto, ActorStates
  <1>5. CASE FirstReturns
    BY <1>5 DEF FirstReturns, TypeGroup, OneLeft, Goto, group,
       services
  <1>6. CASE Interrupt
    BY <1>6 DEF Interrupt, TypeGroup, OneLeft, services
  <1>7. CASE RunReturns
    BY <1>7 DEF RunReturns, TypeGroup, OneLeft, Goto, End,
       group, services
  <1>8. CASE TearDown
    BY <1>8 DEF TearDown, TypeGroup, OneLeft, Goto, group
  <1>9. CASE ExecuteReturns
    BY <1>9 DEF ExecuteReturns, TypeGroup, OneLeft, End, group,
       services
  <1> QED
    BY <1>1, <1>2, <1>3, <1>4, <1>5, <1>6, <1>7, <1>8, <1>9 DEF Execute

LEMMA TypeOfAct ==
    ASSUME TypeGroup, OneLeft, NEW a \in Actors, NEW from, NEW to \in ActorStates,
           Act(a, from, to), cleaned' \subseteq Actors
    PROVE  TypeGroup' /\ OneLeft'
  BY DEF TypeGroup, OneLeft, Act, services, ActorStates

LEMMA TypeInv == TypeGroup /\ OneLeft /\ [NextGroup]_groupVars => TypeGroup' /\ OneLeft'
  <1> SUFFICES ASSUME TypeGroup, OneLeft, [NextGroup]_groupVars PROVE TypeGroup' /\ OneLeft'
    OBVIOUS
  <1>1. CASE Execute
    BY <1>1, TypeOfExecute
  <1>2. ASSUME NEW t \in Tasks, AddPeriodicTask(t) PROVE TypeGroup' /\ OneLeft'
    <2>1. t \in Actors /\ cleaned \subseteq Actors
      BY DEF Actors, TypeGroup
    <2>2. cleaned' \subseteq Actors
      BY <1>2, <2>1 DEF AddPeriodicTask, TaskStarts, TaskRound,
         TaskTick, TaskDone, Cleanup
    <2>3. \E from, to \in ActorStates : Act(t, from, to)
      BY <1>2 DEF AddPeriodicTask, TaskStarts, TaskRound,
         TaskTick, TaskDone, ActorStates
    <2> QED
      BY <2>1, <2>2, <2>3, TypeOfAct
  <1>3. ASSUME NEW s \in Servers, AddInternalJobServer(s) PROVE TypeGroup' /\ OneLeft'
    <2>1. s \in Actors /\ cleaned \subseteq Actors
      BY DEF Actors, TypeGroup
    <2>2. cleaned' \subseteq Actors
      BY <1>3, <2>1 DEF AddInternalJobServer, Cleanup
    <2>3. \E from, to \in ActorStates : Act(s, from, to)
      BY <1>3 DEF AddInternalJobServer, ActorStates
    <2> QED
      BY <2>1, <2>2, <2>3, TypeOfAct
  <1>4. ASSUME NEW p \in APIs, ServeReturns(p) PROVE TypeGroup' /\ OneLeft'
    <2>1. p \in Actors /\ cleaned' \subseteq Actors
      BY <1>4 DEF Actors, TypeGroup, ServeReturns
    <2>2. \E from, to \in ActorStates : Act(p, from, to)
      BY <1>4 DEF ServeReturns, ActorStates
    <2> QED
      BY <2>1, <2>2, TypeOfAct
  <1>5. CASE SignalHandler
    <2>1. Signal \in Actors /\ cleaned' \subseteq Actors
      BY <1>5 DEF Actors, TypeGroup, SignalHandler
    <2>2. Act(Signal, "start", "error") /\ "error" \in ActorStates
      BY <1>5 DEF SignalHandler, ActorStates
    <2> QED
      BY <2>1, <2>2, TypeOfAct
  <1>6. CASE Crash
    BY <1>6 DEF Crash, TypeGroup, OneLeft, group, services
  <1>7. CASE UNCHANGED groupVars
    BY <1>7 DEF groupVars, TypeGroup, OneLeft
  <1> QED
    BY <1>1, <1>2, <1>3, <1>4, <1>5, <1>6, <1>7 DEF NextGroup

-----------------------------------------------------------------------------
(* RunGroup: how the group ends.                                           *)

\* The group has not run before the worker is started, or at all.
BeforeRun ==
    /\ main \in {"settings", "setup", "context", "start"} => ~started
    /\ ~started => result = "none" /\ \A a \in Actors : actor[a] \in {"none", "added"}

\* An actor is interrupted only after one has returned, and the channel is
\* closed at the very end.
Order ==
    /\ cancelled # {} => result # "none"
    /\ main \in {"interrupt", "wait"} => result # "none"
    /\ ~open => main = "return"
    /\ exit = "crash" => ~open

\* A group that ran ends after all its actors have, and is torn down only when
\* the first of them returned no error.
AllReturned ==
    /\ started /\ (exit # "none" \/ main \in {"tearDown", "return"}) => Returned = Actors
    /\ started /\ main \in {"tearDown", "return"} => result = "nil"

\* What an actor that has returned has cleaned up.
CleanedUp ==
    /\ \A t \in Tasks : actor[t] # "nil" /\ (actor[t] = "error" => t \in cleaned)
    /\ \A s \in Servers : actor[s] = "nil" => s \in cleaned

\* Only an API server returns no error first.
NilFromAPI == result = "nil" => \E p \in APIs : actor[p] = "nil"

GroupInv == TypeGroup /\ OneLeft /\ BeforeRun /\ Order /\ AllReturned /\ CleanedUp /\ NilFromAPI

LEMMA EndOfExecute ==
    ASSUME GroupInv, Execute
    PROVE  BeforeRun' /\ Order' /\ AllReturned' /\ CleanedUp' /\ NilFromAPI'
  <1> USE DEF GroupInv, TypeGroup, BeforeRun, Order, AllReturned, CleanedUp, NilFromAPI
  <1>1. CASE ParseSettingFromPath
    BY <1>1 DEF ParseSettingFromPath, Goto, End, Alive,
       Returned, group, services
  <1>2. CASE Setup
    BY <1>2 DEF Setup, Goto, End, Alive, Returned,
       group, services
  <1>3. CASE NewRunContextWithSettingPath
    <2>1. main = "context" /\ main' \in {"start", "tearDown"} /\ exit' = "none"
      BY <1>3 DEF NewRunContextWithSettingPath, Goto, Alive
    <2>2. UNCHANGED <<cancelled, cleaned, result, open, started>>
      BY <1>3 DEF NewRunContextWithSettingPath, services
    <2>3. \A b \in Actors : actor'[b] \in {"none", "added"}
      BY <1>3 DEF NewRunContextWithSettingPath, Goto
    <2>4. BeforeRun' /\ Order' /\ AllReturned' /\ NilFromAPI'
      BY <2>1, <2>2, <2>3
    <2>5. CleanedUp'
      BY <2>3 DEF Actors
    <2> QED
      BY <2>4, <2>5
  <1>4. CASE StartCore
    <2>1. main = "start" /\ main' = "run" /\ exit' = "none" /\ started' = TRUE
      BY <1>4 DEF StartCore, Goto, Alive
    <2>2. actor' = [b \in Actors |-> "start"] /\ UNCHANGED <<cancelled, cleaned, result, open>>
      BY <1>4 DEF StartCore
    <2>3. BeforeRun' /\ Order' /\ AllReturned' /\ NilFromAPI'
      BY <2>1, <2>2
    <2>4. CleanedUp'
      BY <2>2 DEF Actors
    <2> QED
      BY <2>3, <2>4
  <1>5. CASE FirstReturns
    BY <1>5 DEF FirstReturns, Goto, End, Alive,
       Returned, group, services
  <1>6. CASE Interrupt
    BY <1>6 DEF Interrupt, Goto, End, Alive, Returned,
       group, services
  <1>7. CASE RunReturns
    BY <1>7 DEF RunReturns, Goto, End, Alive, Returned,
       group, services
  <1>8. CASE TearDown
    BY <1>8 DEF TearDown, Goto, End, Alive, Returned,
       group, services
  <1>9. CASE ExecuteReturns
    BY <1>9 DEF ExecuteReturns, Goto, End, Alive,
       Returned, group, services
  <1> QED
    BY <1>1, <1>2, <1>3, <1>4, <1>5, <1>6, <1>7, <1>8, <1>9 DEF Execute

\* A step of an actor that has not returned keeps what does not depend on how
\* it ends.
LEMMA EndOfAct ==
    ASSUME GroupInv, NEW a \in Actors, NEW from \in {"start", "task", "wait"},
           NEW to \in ActorStates, Act(a, from, to)
    PROVE  BeforeRun' /\ Order' /\ AllReturned'
  <1>1. a \notin Returned /\ started
    BY DEF Returned, Act, GroupInv, BeforeRun, TypeGroup
  <1>2. exit = "none" /\ main \notin {"tearDown", "return"}
    BY <1>1 DEF Act, Alive, GroupInv, AllReturned
  <1>3. UNCHANGED <<main, exit, cancelled, open, started>>
    BY DEF Act, services
  <1>4. result # "none" => result' = result
    BY DEF Act
  <1> QED
    BY <1>1, <1>2, <1>3, <1>4 DEF GroupInv, BeforeRun, Order, AllReturned

\* What an actor has returned stays.
LEMMA NilStays ==
    ASSUME GroupInv, NEW a \in Actors, NEW from \in {"start", "task", "wait"},
           NEW to \in ActorStates, Act(a, from, to), NEW p \in APIs, actor[p] = "nil"
    PROVE  actor'[p] = "nil"
  BY DEF Act, GroupInv, TypeGroup, Actors

LEMMA EndOfTask ==
    ASSUME GroupInv, NEW t \in Tasks, AddPeriodicTask(t)
    PROVE  BeforeRun' /\ Order' /\ AllReturned' /\ CleanedUp' /\ NilFromAPI'
  <1>1. t \in Actors /\ t \notin Servers
    BY KindsAssumption DEF Actors
  <1>2. PICK from \in {"start", "task", "wait"}, to \in {"task", "wait", "error"} :
          /\ Act(t, from, to)
          /\ to = "error" => t \in cleaned'
          /\ cleaned \subseteq cleaned'
    BY DEF AddPeriodicTask, TaskStarts, TaskRound, TaskTick,
       TaskDone, Cleanup
  <1>3. BeforeRun' /\ Order' /\ AllReturned'
    BY <1>1, <1>2, EndOfAct DEF ActorStates
  <1>4. actor' = [actor EXCEPT ![t] = to] /\ (result' = "nil" => result = "nil")
    BY <1>2 DEF Act
  <1>5. CleanedUp'
    BY <1>1, <1>2, <1>4 DEF GroupInv, CleanedUp, TypeGroup, Actors
  <1>6. \A p \in APIs : actor[p] = "nil" => actor'[p] = "nil"
    BY <1>1, <1>2, NilStays DEF ActorStates
  <1> QED
    BY <1>3, <1>4, <1>5, <1>6 DEF GroupInv, NilFromAPI

LEMMA EndOfServer ==
    ASSUME GroupInv, NEW s \in Servers, AddInternalJobServer(s)
    PROVE  BeforeRun' /\ Order' /\ AllReturned' /\ CleanedUp' /\ NilFromAPI'
  <1>1. s \in Actors /\ s \notin Tasks
    BY KindsAssumption DEF Actors
  <1>2. PICK from \in {"start", "wait"}, to \in {"wait", "nil", "error"} :
          /\ Act(s, from, to)
          /\ to = "nil" => s \in cleaned' /\ s \in cancelled
          /\ cleaned \subseteq cleaned'
    BY DEF AddInternalJobServer, Cleanup
  <1>3. BeforeRun' /\ Order' /\ AllReturned'
    BY <1>1, <1>2, EndOfAct DEF ActorStates
  <1>4. actor' = [actor EXCEPT ![s] = to]
    BY <1>2 DEF Act
  <1>5. CleanedUp'
    BY <1>1, <1>2, <1>4 DEF GroupInv, CleanedUp, TypeGroup, Actors
  <1>6. result' = "nil" => result = "nil"
    BY <1>2 DEF Act, GroupInv, Order
  <1>7. \A p \in APIs : actor[p] = "nil" => actor'[p] = "nil"
    BY <1>1, <1>2, NilStays DEF ActorStates
  <1> QED
    BY <1>3, <1>5, <1>6, <1>7 DEF GroupInv, NilFromAPI

LEMMA EndOfOther ==
    ASSUME GroupInv, NEW a \in APIs \cup {Signal}, NEW to \in {"nil", "error"},
           Act(a, "start", to), a = Signal => to = "error", UNCHANGED cleaned
    PROVE  BeforeRun' /\ Order' /\ AllReturned' /\ CleanedUp' /\ NilFromAPI'
  <1>1. a \in Actors /\ a \notin Tasks /\ a \notin Servers
    BY KindsAssumption DEF Actors
  <1>2. BeforeRun' /\ Order' /\ AllReturned'
    BY <1>1, EndOfAct DEF ActorStates
  <1>3. CleanedUp'
    BY <1>1 DEF Act, GroupInv, CleanedUp, TypeGroup, Actors
  <1>4. NilFromAPI'
    <2>1. \A p \in APIs : actor[p] = "nil" => actor'[p] = "nil"
      BY <1>1, NilStays DEF ActorStates
    <2>2. actor'[a] = to /\ (result' = result \/ result' = to)
      BY <1>1 DEF Act, GroupInv, TypeGroup
    <2> QED
      BY <2>1, <2>2 DEF GroupInv, NilFromAPI
  <1> QED
    BY <1>2, <1>3, <1>4

LEMMA GroupInit == InitGroup => GroupInv
  <1> SUFFICES ASSUME InitGroup PROVE GroupInv
    OBVIOUS
  <1>1. TypeGroup /\ OneLeft
    <2>1. ready \in 0 .. Len(Components) /\ OneLeft
      BY ComponentsCount DEF InitGroup, OneLeft
    <2>2. actor \in [Actors -> ActorStates]
      BY DEF InitGroup, ActorStates
    <2> QED
      BY <2>1, <2>2 DEF InitGroup, TypeGroup
  <1>2. BeforeRun /\ Order /\ AllReturned /\ NilFromAPI
    BY DEF InitGroup, BeforeRun, Order, AllReturned, NilFromAPI
  <1>3. CleanedUp
    BY DEF InitGroup, CleanedUp, Actors
  <1> QED
    BY <1>1, <1>2, <1>3 DEF GroupInv

LEMMA GroupNext ==
    ASSUME GroupInv, [NextGroup]_groupVars
    PROVE  GroupInv'
  <1>t. TypeGroup' /\ OneLeft'
    BY TypeInv DEF GroupInv
  <1> SUFFICES BeforeRun' /\ Order' /\ AllReturned' /\ CleanedUp' /\ NilFromAPI'
    BY <1>t DEF GroupInv
  <1>1. CASE Execute
    BY <1>1, EndOfExecute
  <1>2. CASE \E t \in Tasks : AddPeriodicTask(t)
    BY <1>2, EndOfTask
  <1>3. CASE \E s \in Servers : AddInternalJobServer(s)
    BY <1>3, EndOfServer
  <1>4. CASE \E p \in APIs : ServeReturns(p)
    BY <1>4, KindsAssumption, EndOfOther DEF ServeReturns
  <1>5. CASE SignalHandler
    BY <1>5, EndOfOther DEF SignalHandler
  <1>6. CASE Crash
    BY <1>6 DEF Crash, GroupInv, BeforeRun, Order, AllReturned, CleanedUp,
       NilFromAPI, Returned,
       group, services
  <1>7. CASE UNCHANGED groupVars
    BY <1>7 DEF groupVars, GroupInv, BeforeRun, Order, AllReturned, CleanedUp,
       NilFromAPI, Returned
  <1> QED
    BY <1>1, <1>2, <1>3, <1>4, <1>5, <1>6, <1>7 DEF NextGroup

\* Every variable holds a value of its kind, in every group.
THEOREM GroupTyped == SpecGroup => []TypeGroup
  <1>1. GroupInv => TypeGroup
    BY DEF GroupInv
  <1>2. GroupInv /\ [NextGroup]_groupVars => GroupInv'
    BY GroupNext
  <1> QED
    BY <1>1, <1>2, GroupInit, PTL DEF SpecGroup

\* In every group, the process ends or tears down only after every actor has
\* returned and every task, and every server that started, has cleaned up.
THEOREM StopsWhole == SpecGroup => []GroupStopsWhole
  <1>1. GroupInv => GroupStopsWhole
    BY DEF GroupInv, BeforeRun, AllReturned, CleanedUp, GroupStopsWhole,
       Returned, Actors
  <1>2. GroupInv /\ [NextGroup]_groupVars => GroupInv'
    BY GroupNext
  <1> QED
    BY <1>1, <1>2, GroupInit, PTL DEF SpecGroup

\* In every group, DBChan is closed under the running worker only when an API
\* server was the first to return, without an error: never by the tasks, the
\* job servers or the signal handler, which are all the edge command has.
THEOREM ChannelOutlives == SpecGroup => []ChannelOutlivesWorker
  <1>1. GroupInv => ChannelOutlivesWorker
    BY DEF GroupInv, Order, AllReturned, NilFromAPI, ChannelOutlivesWorker
  <1>2. GroupInv /\ [NextGroup]_groupVars => GroupInv'
    BY GroupNext
  <1> QED
    BY <1>1, <1>2, GroupInit, PTL DEF SpecGroup
=============================================================================
