# A TLA+ model of the OQTOPUS engine

The engine (`src/coreapp`) fetches quantum jobs from a cloud service, runs them
on one quantum processor (QPU) and reports their status back.  This directory
holds TLA+ modules that model it, TLC configurations that check them on small
instances, and proofs for the TLA+ proof system (TLAPS).

## The system

A job is in one of the statuses SUBMITTED, READY, RUNNING, SUCCEEDED, FAILED and
CANCELLED.  It travels through the engine like this:

1. the **poller** (`poller/`), a periodic task, asks the cloud for submitted
   jobs when the queue is short enough and the device is available, and hands
   each job to the scheduler;
2. the **scheduler** (`scheduler/`) starts one *handler* goroutine per job.  The
   handler pre-processes the job (transpilation, circuit combination, download
   of a user program), sends it to the *queue goroutine* over an unbuffered
   channel, and waits in a `WaitGroup`;
3. the single *worker* goroutine takes jobs from the bounded queue, tells the
   cloud RUNNING, runs the job (`Process`), and calls `Done`;
4. the handler wakes up, post-processes the job and writes the final status;
5. every write is a clone of the job sent over the unbuffered `DBChan` to the
   *database goroutine* (`db/`), which patches the cloud, one job at a time.

The **job types** (normal, sampling, estimation, manual multi-programming, and
server side execution, SSE) differ in what their phases do and in what
`IsFinished` looks at.  Around them are the **QPU gateway agent** (`qpu/`), which
also reports the device to the cloud, the **SSE execution** in a container
(`sse/`), the **transpiler client**, the **mitigation** and the **estimation**
clients, and three Python services.  `PROJECT.json` lists every part with what is
modelled of it.

## Modules

| module | what it models |
| --- | --- |
| `JobTypes` | the data of a job and the phases of the five job types, as operators from the data before a call to the set of data it may leave |
| `JobVerdict` | abstract: what the engine promises the cloud about each job |
| `Scheduler` | handlers, queue goroutine, worker, `DBChan`, database goroutine, cloud |
| `MCScheduler` | small instances of `Scheduler` |
| `SchedulerProofs` | the theorems about `Scheduler` |
| `Pipeline` | abstract: the scheduler as the poller sees it, where each job is |
| `VerdictProofs` | the proof that `Scheduler` implements `JobVerdict` |
| `HistoryProofs` | the proofs about the status history and panics, and that `Scheduler` implements `Pipeline` |
| `Poller` | the poller's state machine and the period of its ticker |
| `Engine` | the poller composed with `Pipeline`, the cloud's answers and the device |
| `MCEngine`, `EngineProofs` | small instances of `Engine`; the theorems of `Engine` and `RunGroup` |
| `CloudJob` | what the options of a job mean, as the converter reads them from the cloud |
| `JobIntake` | the poller's conversion, validation and hand-over of a batch |
| `SingleJob` | the data of a sampling or estimation job from the cloud and back |
| `ResultDivider` | the pure functions that divide the counts of a combined circuit |
| `ManualJob` | the data of a multi-programming job from the cloud and back |
| `DeviceGateway` | the QPU gateway agent: device polling, cloud updates, `Send` |
| `SSERun` | an SSE job: directories, volume, container, execs, router, clean-up |
| `RunGroup` | start and shutdown of the process |

Each of `JobIntake`, `SingleJob`, `ManualJob`, `DeviceGateway`, `SSERun` and
`RunGroup` has an `MC` module with its instances; `JobProofs` (for `JobIntake` and
`SingleJob`), `ManualJobProofs` (with `ResultDivider`), `DeviceGatewayProofs` and
`SSERunProofs` hold theorems.

### JobTypes

`JobData` keeps the status, the flag `UseJobInfoUpdate` that decides which request
the database goroutine makes, and the private state `IsFinished` reads.  The
operators carry the names of the methods.  Each returns a *set*: what the
transpiler, the gateway, the estimator, the combiner or the container answer is
outside the engine, so every answer the code distinguishes is a member.

### Scheduler

| state | code |
| --- | --- |
| `pc[j]` | the position of `handleImpl` of job `j` |
| `job[j]` | its `JobData`, shared by handler and worker |
| `wg[j]` | the counter of its `sync.WaitGroup` |
| `hist` | `statusHistory` |
| `qg`, `fifo` | the queue goroutine and `NormalQueue.fifo` |
| `wk` | the worker goroutine of `Start` |
| `db` | the clone `ServiceDB.Update` is working on |
| `cloud` | the status of the jobs in the cloud (external) |
| `dropped`, `unacked`, `panicked` | what the log would show: jobs refused by the full queue, jobs whose last PATCH had no success, recovered panics |

A send on an unbuffered channel is one step of sender and receiver.  A step of
the handler runs from one blocking operation to the next: what it does in
between touches only data nobody else may use at that moment, which is itself
one of the properties (`JobDataHasOneOwner`).  The check for a full queue and the
enqueue are two steps.  A panic in any phase, a lost or refused PATCH, and a job
that is refused for its status are actions or outcomes of their own.

### Pipeline

`stage[j]` is absent, handling, offered (in the hands of the queue goroutine),
queued, running, dropped or settled.  `Scheduler` implements it: `Stage(j)` reads
the stage off `pc`, `qg`, `fifo`, `wk` and `dropped`, and `PipelineSpec` is the
abstract specification under this mapping.  It forgets the order of the queue,
the job types and the database, so it can be composed with the poller.

### Poller and Engine

| state | code |
| --- | --- |
| `state`, `noJobsCount`, `currentPeriod` | the fields of `Poller` |
| `lastPeriod`, `ticked` | the ticker of `AddPeriodicTask`, and whether it has ticked |
| `misses` | calls of `Task` in a row that brought no job (for the properties) |
| `at` | where `Task` is: before the check of the queue, before the check of the device, waiting for the cloud, handing over, or returned |
| `batch`, `submitted`, `lost` | jobs received and not handed over, not yet dispatched by the cloud, and dispatched in an answer that never arrived (external) |
| `available` | what the device polling of the QPU gateway last stored |
| `backlog` | the most jobs that were with their handlers at a check that passed (for the properties) |

The two checks of `passPollingCondition` are two steps, the request and its answer
are another, and each hand-over is one; the scheduler moves between any two of
them.  A request that fails may have dispatched jobs all the same; so may one
whose answer cannot be turned into jobs.

### CloudJob, JobIntake, SingleJob, ManualJob: the data

`Scheduler` forgets what a job contains; these modules keep it and forget the
concurrency.  The transpiler and mitigation options arrive as JSON the user
wrote; `CloudJob` has one model value for each form the code tells apart
(absent, null, an object without the member, a value of another type, ...) and
keeps the quotes of a JSON string, because the code does.

`JobIntake` is one call of the poller's `Task` from the answer of the cloud to the
last `HandleJob`.  The conversion takes the first program of a job of any type but
multi-programming; an empty list makes it panic, which nothing recovers from: the call ends in `crashed`.  `NewJobContext` is not given an error,
since it fails only before the components are set up, and the poller starts
after that.  `SingleJob` and `ManualJob` start from a job it handed over READY
(`PassesValidation` in their `Init`).

| state | code |
| --- | --- |
| `request` | what the user sent (and how many circuits the estimator makes of it) |
| `job` | the fields of `JobData` and the private fields that matter for the type |
| `job.use` | `UseJobInfoUpdate`: without it `ServiceDB.Update` only logs a job that is over |
| `faults` | `SingleJob`: whether a service failed, the transpiler answered without a program, or a phase panicked, for the properties |
| `fault` | `ManualJob`: whether a service failed, or a phase panicked for another reason than a missing transpiler, for the properties |
| `outcome` | `ManualJob`: what the circuits measured, for the properties |
| `report` | what `ServiceDB.Update` and the converter tell the cloud |

In `SingleJob` a program is a circuit number and whether it is laid out, and counts
remember the program they came from and the one they were mitigated for.  In
`ManualJob` bit strings and layouts are real: the combiner orders qubits and bits,
the transpiler chooses any injective layout, the gateway sorts the bits by
physical qubit (as the comment in `result_divider.go` says), and `ResultDivider`,
function by function the code of that name, undoes it.  The circuits measure
qubit k into bit k.

A panic is recovered in two places.  In `PreProcess` and `PostProcess` the handler
recovers, sets FAILED and writes the job with the `use` it has (`HandlerPanics`);
before the worker has had the job that is FALSE, and the cloud is told nothing.
In `Process` the worker recovers and sets FAILED.  A sampling or multi-programming
job is finished then, but an estimation job goes on to `PostProcess` with the counts
it has (`ProcessCircuitPanics`).  A transpiler that answers with an unknown status is
taken for a success by the code; in `SingleJob` such an answer may have no program.

### DeviceGateway

| state | code |
| --- | --- |
| `conn`, `last` | `gatewayConn` and `lastDeviceInfo` of the agent |
| `poll` | where the polling goroutine is, the device it has read, and which PATCH requests succeeded and failed |
| `current`, `connected` | the fields of `GatewayQPU`, written without a lock |
| `caller` | each goroutine in `Send`: whether it has checked `connected` or waits in `CallJob`, and on which connection |
| `setup`, `ticking` | whether `Setup` has returned, and the ticker runs (until SIGTERM) |
| `device`, `cloud` | the device as the gateway and as the cloud show it (external) |
| `lost` | parts of which a PATCH failed or was not answered, for the properties |

Every call to the gateway or the cloud is a step of its own that may succeed,
fail, be refused, or take effect without an answer.  That the connection can be
made at the start is assumed.

### SSERun

`pc` follows `RunSSE` from call to call; `dir`, `vol` and `con` are the directories, the
volume and the container, `proc` and `reader` the process and the goroutine of each
exec, `file` and `log` the result file and the log inside the container and their
copies, `router` the handler of the request the program makes of the QPU (one at a
time).  Every call may fail.  The error paths (`errBeforeContainerMake`,
`errAfterContainerMake`) are actions of their own and remove what the code removes
there.  A copy of the result file that ends in an error may be whole or truncated.
`failed` records the clean-up calls that failed.  A container that dies by
itself is not modelled.

### RunGroup

`main` follows `Execute`, `actor` every member of the run group.  The group itself
(`oklog/run`) is external: the first return interrupts all actors, and `Run` returns
when all have.  Settings that do not parse and components that cannot be set up
are outcomes.  Handlers, worker and database goroutine are not in the group, in
the code as in the model: they appear as `started` and `open`, the channel that
`TearDown` closes.

## Runs

| run | instance | checks |
| --- | --- | --- |
| `sched_three` | a manual and two sampling jobs, `maxSize` 1 | `TypeOK`, `JobDataHasOneOwner`, `NoHandlerStranded`, `QueueBounded`, `PanicEndsFailed` |
| `sched_pair` | an estimation and an SSE job, `maxSize` 1, two rounds, with fairness | `FinishedIsReported`, `HistoryLegal`, `EveryJobSettles`, refinements `VerdictSpec` and `PipelineSpec` |
| `engine` | four jobs, `maxSize` 3, threshold 1, batches of 2, `max_retry` 3, with fairness | `TypeOK`, `RoomForBatch`, `PeriodFollowsMisses`, `KeepsAsking` |
| `intake` | answers of up to two jobs, four types, six statuses, three options, with and without a program | `BatchIsHandedOver`, `OnlyValidJobsRun` |
| `single_options` | both types, every form of both options, up to three circuits | `TypeOK`, `RanAsAsked`, `MitigatedExactlyWhenAsked`, `ValueFromEveryGroup` |
| `manual_divide` | lists of two to four circuits, five physical qubits, every layout, two shots | `TypeOK`, `ReportedIsMarginal`, `ServedWhenNothingFails` |
| `gateway` | one caller of `Send`, one change of the device, two faults, with fairness | `TypeOK`, `CloudShowsLast`, `NoCallOnAbandonedConnection`, `ConnectedIsUsable`, `EngineSeesDevice`, `CloudCatchesUp` |
| `sse` | two requests, one more round, statuses `ready` and `cancelled`, with fairness | `TypeOK`, `LeaksOnlyAfterFailedCleanUp`, `AcceptedRunIsComplete`, `ReaderOutlivesOnlyTimeout`, `RunEnds` |
| `run_group` | three tasks, a job server, an API server, the signal, with fairness | `TypeGroup`, `GroupStopsWhole`, `ChannelOutlivesWorker`, `OneEndsAll` |
| `sched_panic_estimation` | an estimation and a sampling job | violates `PanicEndsFailed` |
| `single_estimation_mitigation` | estimation jobs with every option | violates `EstimationMitigatedWhenAsked` |
| `manual_no_transpiler` | the instance of `manual_divide` | violates `ServedWithoutTranspiler` |

**Bounds.**  Three jobs and a queue of one let one job run, one wait in the queue
and one find it full, which is every situation the queue has.  The two sampling
jobs of that run are interchangeable, so it uses symmetry (it checks no
liveness).  `sched_pair` has the two types whose jobs may be revised or come back
after `Process`; the writes of two jobs are enough to interleave on `DBChan`, and
two jobs and a queue of one are enough for a drop: one is queued and not yet
dequeued when the other is offered.  `MaxRounds` bounds how often the result file of
an SSE job may say `ready`: two rounds exercise the loop.  No job from the cloud
is of the normal type, and no run has one; the proofs cover it.

In `intake` two jobs are enough for one to take its neighbour with it, in either
order.

In `engine` threshold and batch just fit into the queue, so `RoomForBatch` has to
hold with an empty backlog and one job too many would overflow it; four jobs make
two batches, the second on top of what is left of the first.  `max_retry` 3 has all
three kinds of miss.

In `gateway` one caller is enough: callers meet only in the connection, which the
polling goroutine replaces, and the theorems hold for any number.  Two faults let
one PATCH fail after another one was lost, or fail together with a poll.  In
`manual_divide` two circuits make an order, three make it differ from its reverse,
five physical qubits leave gaps in the layout, and two shots give two different
strings or one twice.  In `single_options` three circuits have a first, a middle and
a last.  In `sse` the second request meets a router that is still busy or has
answered, and the second round the resources the first has left.

**Fairness.**  Go serves blocked senders of a channel in the order of arrival and
runs every goroutine that can run.  A handler or the worker waits for the
database goroutine, which others may occupy again and again, hence strong
fairness for them; the receivers never wait for anybody and get weak fairness.
Fairness also says that calls to the outside return: the gateway call has no
deadline in the code, so this is an assumption about the gateway.  In `Scheduler`
the poller gets no fairness.  In `Engine` it does: the ticker keeps ticking, and the
request returns.  There every job keeps moving, and one that comes back from the
worker again and again (an SSE job whose result says `ready`) is settled some day,
which is an assumption about the user programs.

In `DeviceGateway` the polling goroutine and `Setup` go on (weak fairness); the callers,
the device and the cloud get none, and the bounds make changes and faults stop.
In `SSERun` the steps of `RunSSE` and the timers go on; the program, the goroutine
that reads from it and the router may stop anywhere.  In `RunGroup` everything
that can run does, `Serve` returns once `Shutdown` was called, and a task that finds
its context cancelled at its `select` again and again takes that case some day
(strong fairness: Go picks among ready cases at random, and the ticker may be
ready as well).

Where a run lets the system stop (the process has ended, the job is over, the
ticker is gone after SIGTERM) its configuration switches the deadlock check off.

## Where code and documents disagree

Three runs show a violation:

* `sched_panic_estimation`.  A panic in the middle of an estimation job is recovered
  by the worker, but `IsFinished` of that type looks only at its own flag, so the
  job is post-processed with the counts it has and may end in SUCCEEDED, while the
  scheduler's test says that a job that panics ends in FAILED.
* `single_estimation_mitigation`.  The estimation job compares the mitigation option
  without the quotes that the converter leaves on it, so no estimation job from the
  cloud is mitigated (`estimation/job.go:204`); its test sets the option without
  quotes and expects mitigated counts.
* `manual_no_transpiler`.  `validateJobParam` accepts a multi-programming job that names
  no transpiler with the words "use no transpiler" (`manual/job.go:239`), and
  `Transpile` dereferences the name all the same (`manual/job.go:126`,
  `tranqu.go:94`).  The handler recovers from the panic, but `UseJobInfoUpdate` is not
  set yet, so the job is only logged and the cloud is never told.

Four more are visible in the models and excepted by the properties:

* A circuit that leaves a qubit unmeasured and is not the last of a
  multi-programming job shifts the bits of the circuits after it
  (`result_divider.go:63`): `ReportedIsMarginal` has the premise `UnmeasuredComeLast`.
* The value of an estimation job whose `Process` panicked is made of the circuits
  before the panic: `ValueFromEveryGroup` allows a shorter value after a panic, and
  only then (the data behind `sched_panic_estimation`).
* The log of an SSE program that failed is read to its end for the log of the
  engine, and the exhausted stream is saved for the upload (`sserun.go:468`):
  `AcceptedRunIsComplete` speaks of runs that are accepted.
* A result file of an SSE job may say `ready`, which the loop takes for a job that
  was never processed, as the comment on the constant READY has it
  (`core/data.go:113`): the rounds of `Scheduler` and `SSERun` are such jobs.

## Proofs

`SchedulerProofs` proves, for every set of jobs, every assignment of types and
every queue size, four of the invariants of `sched_three`:

* `TypeCorrect`: `Spec => []TypeOK`;
* `OneOwner`: `Spec => []JobDataHasOneOwner`;
* `NoneStranded`: `Spec => []NoHandlerStranded`;
* `Bounded`: `Spec => []QueueBounded`.

None is inductive alone.  The type of the `WaitGroup` counter already needs to
know that `Done` is called only for a job whose counter is 1, and that needs
ownership.  `OwnInv` is the strengthening: it counts, for each position of the
handler, what the counter is and who holds the job, says that queue goroutine and
worker hold a job exactly when they are at work, and leaves room in the queue for
the job the queue goroutine has checked but not enqueued yet.  `TypeOK` and
`OwnInv` are proved together (`Inductive`), one lemma per goroutine.  The
assumptions are those of `Scheduler`: the types are known ones, the bounds are
natural numbers, and `NoJob` is not a job.

`VerdictProofs` proves, for the same constants,

* `ImplementsVerdict`: `Spec => VerdictSpec`;
* `Reported`: `Spec => []FinishedIsReported`.

The invariant `VerdictInv` follows one job.  `DataOK` says what the phases have left
in its data at each position of its handler: where `UseJobInfoUpdate` is set, that
the private flag `IsFinished` reads is set early only for a refused estimation
job, and that the status is terminal wherever `handleImpl` has decided to return.
It rests on one lemma per phase, over the job types.  `CloudOK` ties the clone in
`DBChan` and the cloud to it: a clone with `UseJobInfoUpdate` and a verdict in the
cloud both carry the status the handler decided on.  A step is then one of three
sorts: it writes nothing (`SilentOK`), it writes a clone (`WriteOK`), or it is the
database goroutine (`UpdateOK`).  Ownership is needed for the worker: the job it
changes is one whose handler waits and has decided nothing.

`HistoryProofs` goes on from there, for the same constants:

* `HistoriesLegal`: `Spec => []HistoryLegal`;
* `PanicAlwaysFails`: `Spec => []PanicEndsFailed` if no job is an estimation job, and
  `PanicOfOthersFails`, the same for each job that is not one, whatever jobs are
  beside it;
* `ImplementsPipeline`: `Spec => PipelineSpec`.

`HistoryLegal` speaks of a whole sequence that handler and worker append to in turn.
`HistoryAt` makes it inductive: for each position of the handler, the counter of its
`WaitGroup` and whether the worker has the job, it says what the last entry is, so
that the entry a step appends may follow it (`AppendLegal`).  `PanicFate` says that a
job that panicked is FAILED and on its way out.  Its hypothesis about estimation
jobs is what `sched_panic_estimation` shows to be needed.  For the pipeline, `OwnInv`
says that a job is in one place, so the readings of `Stage` exclude each other; that
the queue holds no job twice makes its length, which the code tests, the number
of queued jobs, which `Pipeline` tests.

`EngineProofs` proves for every finite set of jobs and all parameters (threshold at
least 1)

* `Room`: `Spec => []RoomForBatch`;
* `Period`: `Spec => []PeriodFollowsMisses`;
* `EngineTyped`: `Spec => []TypeOK`.

For `Room` the invariant bounds what is in flight together with the batch: at a
check that passes, less than `Threshold` jobs are queued and one runs, so at most
`Threshold` plus the backlog are in flight; the scheduler adds none, the answer
adds at most `Count`, a hand-over moves a job from the batch into flight, and a
drop would need `maxSize` + 1.  For `Period` it ties counter, state and the period
asked for to the misses.

`DeviceGatewayProofs` proves the four invariants of `gateway` for any callers, devices
and numbers of faults (`GatewayTyped`, `CloudAsRemembered`, `NoJobAbandoned`, `Usable`).
`CloudShowsLast` speaks of the time between two rounds of updates only; `Round` is its
form within a round: what was sent is what the cloud shows, the rest is as the
agent remembers it, and what was left out has not changed.  `LoopEnd` carries
"the connection that answered is open" to the point where `connected` is set.

`SSERunProofs` proves the four invariants of `sse` for any number of requests and
rounds (`SSETyped`, `NoSilentLeak`, `AcceptedComplete`, `ReaderLeaks`).  `Holds` says which
resources exist at each stage, `NoErrorSoFar` what is known of a run in which no
error was kept; the properties are what is left of them at the end.

`EngineProofs` also proves the three invariants of `run_group` for any sets of actors
of one kind each (`GroupTyped`, `StopsWhole`, `ChannelOutlives`).  The argument orders
the end: nobody is interrupted before one has returned, the channel is closed last,
the group is torn down only when the first to return returned no error, and only an
API server does (`Order`, `AllReturned`, `NilFromAPI`).

`JobProofs` proves the two invariants of `intake` for answers of any length and any
options (`HandedOverWhole`, `ValidOnly`): the slice is the image of a prefix of the
answer, and what was handed over is a prefix of the slice; a conversion that
panics leaves nothing handed over.  It proves the four
invariants of `single_options` for any number of circuits (`JobTypeOK`,
`JobsRunAsAsked`, `JobsMitigatedAsAsked`, `ValuesFromEveryGroup`).  The invariant follows
the data: `OptionsKept` ties what the job keeps of the options to the request,
`SamplingInv` and `EstimationInv` say at each phase which program the counts came
from, and `EstimationInv` that the list the loop has collected so far is, place by
place, the counts of the circuits it has sent.  After a panic that list is a proper
prefix, and the invariant keeps the recorded panic together with it, so that a
value that is too short always has its cause.  `AsAsked` carries the one exception of
`RanAsAsked`, a transpiler that answered without a program.

`ManualJobProofs` proves the three invariants of `manual_divide` for any number of
circuits of any size, any device, any layout and any number of shots:

* `ManualJobTypeOK`: `Spec => []TypeOK`;
* `ServedAlways`: `Spec => []ServedWhenNothingFails`, for jobs that name a transpiler;
* `ReportsMarginals`: `Spec => []ReportedIsMarginal`.

Most of it is about the operators.  `Sums` names the running sums of the circuits'
bits and qubits; from them follows which circuit owns a bit, that different bits are
measured on different qubits, and that bit b is measured on qubit b if no circuit
but the last leaves a qubit unmeasured (`MeasuredQubitIs`, `MeasuredQubitsDiffer`,
`MeasuredInOrder`).  The gateway's sorting moves bit b to its rank among the physical
qubits, a permutation (`RankPermutes`: an injection of a finite set into itself).
`fillMissingDigits` puts the bit of that rank at the physical qubit, so `SwapKey`
brings it back (`SwapUndoesSort`), and no two strings are merged on the way
(`SwapUndoesGateway`).  The reversed list of lengths cuts the string where the sums
say (`LengthsAre`, `PartIsOwn`), so the division is the marginal
(`DivisionIsMarginal`).  None of the errors can arise (`ResultDivides`), with or without
unmeasured qubits.  The inductive invariant only has to carry these facts through
the phases: what the job has gathered, what holds when a phase begins, and what is
settled when the job is reported.

The assumptions are the named `ASSUME`s of the modules: bounds are natural numbers,
a circuit has no more classical bits than qubits (each bit is measured from a qubit
of its own), and the kinds of actors, the statuses and the times are what their
names say.

The library's induction theorems have an operator as a parameter and cannot be used.
Where a proof needs induction over a number (the running sums, the largest of a
set), it goes by the least element of the set of counterexamples (`LeastNatural`,
`IntervalInduction`).  `Sum` is a recursive function and is proved to be the last of
the running sums (`SumIsTotal`).  `TotalCount` is a fold over a set; the proofs use only
that equal sets have equal totals, so that it adds up the counts is left to TLC.

Only model-checked: all liveness (`EveryJobSettles`, `KeepsAsking`, `EngineSeesDevice`,
`CloudCatchesUp`, `RunEnds`, `OneEndsAll`), which is out of the prover's reach.  Every
invariant and every refinement that a passing run checks has a theorem.  The
composition in `Engine` uses `Pipeline` in place of `Scheduler`; the proofs of the two
halves are joined by `ImplementsPipeline`, for safety only.

## Not modelled

* Generated code: the OpenAPI client and server types, the gRPC stubs, the
  OpenQASM parser, the mocks.  It is by far the largest part of the repository's
  lines; of the code written by hand, about two fifths are mapped.
* The gates of programs, and everything in floating point: transpilation, the
  mitigation matrix and the rounding of mitigated counts, expectation values.
  Which program and which counts go in and come out is modelled.
* The check of circuits in `qpu.go`, which the code has switched off.
* In `ManualJob`, a transpiler that answers with a status other than success or error.
* Job types the engine does not know: the generated client refuses to decode them
  before `toJobSlice` could.
* `DummyQPU` and the memory database, for development and tests; `NormalQueue.Delete`
  and `Dequeue(false)`, which nothing calls.
* Several requests to the SSE router at once, a container that dies by itself, and
  the reconnection inside the gRPC library.
* Reading of settings, logging and metrics: pure I/O.
