----------------------------- MODULE JobIntake -----------------------------
(***************************************************************************)
(* The poller's way from the answer of the cloud to the scheduler          *)
(* (toJobSlice of poller/awspollclient.go, the job manager of core/job.go, *)
(* getJobs of poller/poller.go): every job of the batch is converted and   *)
(* validated, one that does not pass becomes an UnknownJob that has        *)
(* FAILED, and all are handed over.  SingleJob, ManualJob and SSERun start *)
(* from a job that was handed over READY.                                  *)
(***************************************************************************)
EXTENDS CloudJob, Integers, Sequences

CONSTANTS
    MaxBatch,   \* jobs in an answer, at most
    Options     \* the transpiler options a user may give

ASSUME BatchAssumption == MaxBatch \in Nat

VARIABLES
    task,     \* how far the call of Task has come
    batch,    \* the jobs of the answer
    jobs,     \* the slice that is being made
    handed,   \* the jobs the scheduler was given
    made      \* how many jobs of the answer have been converted

intakeVars == <<task, batch, jobs, handed, made>>

JobsJobTypes == {"sampling", "estimation", "multi_manual", "sse"}

JobsJobStatuses == {"submitted", "ready", "running", "succeeded", "failed",
                    "cancelled"}

\* empty: the list of programs is.
CloudJobs == [type : JobsJobTypes, ti : Options, status : JobsJobStatuses,
              empty : BOOLEAN]

Batches == UNION {[1 .. n -> CloudJobs] : n \in 0 .. MaxBatch}

InitIntake ==
    /\ task = "request"
    /\ batch = <<>>
    /\ jobs = <<>>
    /\ handed = <<>>
    /\ made = 0

\* A status that is not expected, which is what "cancelled" is, means FAILED.
convertFromCloudStatus(st) ==
    CASE st = "submitted" -> "SUBMITTED"
      [] st = "ready"     -> "READY"
      [] st = "running"   -> "RUNNING"
      [] st = "succeeded" -> "SUCCEEDED"
      [] OTHER            -> "FAILED"

\* The names of the job types that startCore registers.
JobType(type) ==
    CASE type = "sampling"     -> "SamplingJob"
      [] type = "estimation"   -> "EstimationJob"
      [] type = "multi_manual" -> "ManualJob"
      [] type = "sse"          -> "SSEJob"

\* Mutated form of NewJobFromJobDataWithValidation: an invalid job is made too.
NewJobFromJobData(i) ==
    [id |-> i, kind |-> JobType(batch[i].type),
     status |-> convertFromCloudStatus(batch[i].status)]

\* The job that is made of the i-th job of the answer.
NewJobFromJobDataWithValidation(i) ==
    IF PassesValidation(batch[i].ti)
    THEN [id |-> i, kind |-> JobType(batch[i].type),
          status |-> convertFromCloudStatus(batch[i].status)]
    ELSE [id |-> i, kind |-> "UnknownJob", status |-> "FAILED"]

\* The request fails, or the answer is decoded.
Request ==
    /\ task = "request"
    /\ \/ /\ batch' \in Batches
          /\ task' = "convert"
       \/ /\ task' = "done"
          /\ UNCHANGED batch
    /\ UNCHANGED <<jobs, handed, made>>

\* ConvertFromCloudJob takes the first program of a job of any type but one.
ConversionPanics(i) == batch[i].empty /\ batch[i].type # "multi_manual"

\* Mutated form of toJobSlice: an invalid job is treated like an unknown type,
\* which empties the slice.
toJobSliceEmptied ==
    /\ task = "convert" /\ made < Len(batch) /\ ~ConversionPanics(made + 1)
    /\ made' = made + 1
    /\ jobs' = IF PassesValidation(batch[made'].ti)
               THEN Append(jobs, NewJobFromJobDataWithValidation(made'))
               ELSE <<NewJobFromJobDataWithValidation(made')>>
    /\ UNCHANGED <<task, batch, handed>>

\* One round of the loop.  NewJobContext fails only before startCore has set
\* the components and the channels up, and the poller starts after that.
toJobSlice ==
    /\ task = "convert" /\ made < Len(batch) /\ ~ConversionPanics(made + 1)
    /\ made' = made + 1
    /\ jobs' = Append(jobs, NewJobFromJobDataWithValidation(made'))
    /\ UNCHANGED <<task, batch, handed>>

\* Nothing on the way up from the conversion recovers: the process ends.
ConversionCrashes ==
    /\ task = "convert" /\ made < Len(batch) /\ ConversionPanics(made + 1)
    /\ task' = "crashed"
    /\ UNCHANGED <<batch, jobs, handed, made>>

\* The error of the last round was one of the loop's own variable err: the
\* slice is returned without error.
Converted ==
    /\ task = "convert" /\ made = Len(batch)
    /\ task' = "handOver"
    /\ UNCHANGED <<batch, jobs, handed, made>>

\* getJobs calls HandleJob for one job after the other.
HandOver ==
    /\ task = "handOver" /\ Len(handed) < Len(jobs)
    /\ handed' = Append(handed, jobs[Len(handed) + 1])
    /\ UNCHANGED <<task, batch, jobs, made>>

HandedOver ==
    /\ task = "handOver" /\ Len(handed) = Len(jobs)
    /\ task' = "done"
    /\ UNCHANGED <<batch, jobs, handed, made>>

NextIntake ==
    \/ Request
    \/ toJobSlice
    \/ ConversionCrashes
    \/ Converted
    \/ HandOver
    \/ HandedOver

SpecIntake == InitIntake /\ [][NextIntake]_intakeVars

-----------------------------------------------------------------------------
(* Properties.                                                             *)

\* An answer that was decoded is handed over whole and in its order: a job
\* that does not pass the validation takes none of its neighbours with it,
\* although err, jobs and break of the loop are reused for it.  A conversion
\* that panics takes them all: nothing of that answer is handed over.
BatchIsHandedOver ==
    /\ task = "done" =>
          /\ Len(handed) = Len(batch)
          /\ \A i \in DOMAIN handed : handed[i].id = i
    /\ task = "crashed" => handed = <<>>

\* What the scheduler will run, a job handed over READY, was ready in the
\* cloud, is of the type the user chose, and has a transpiler the engine knows
\* or none: Transpile is never given a library it would not accept.
OnlyValidJobsRun ==
    \A i \in DOMAIN handed :
        handed[i].status = "READY" =>
            LET b == batch[handed[i].id]
            IN  /\ b.status = "ready"
                /\ handed[i].kind = JobType(b.type)
                /\ NeedTranspiling(TranspilerLib(b.ti)) =>
                      IsAcceptableTranspilerLib(TranspilerLib(b.ti))
=============================================================================
