----------------------------- MODULE Scheduler -----------------------------
(***************************************************************************)
(* The scheduler of the engine (coreapp/scheduler), the channel to the     *)
(* database manager and the service database that reports to the cloud     *)
(* (coreapp/db).  Four sorts of goroutine interact:                        *)
(*   - one handler per job (HandleJob, handleImpl), at pc[j];              *)
(*   - the queue goroutine (NormalQueue.Setup), which receives from the    *)
(*     unbuffered queueChan and enqueues, or drops when the queue is full; *)
(*   - the worker (Start), which dequeues and runs one job at a time;      *)
(*   - the database goroutine (ServiceDB.Setup), which receives clones     *)
(*     from the unbuffered DBChan and patches the cloud, one at a time.    *)
(* A send on an unbuffered channel is one step of sender and receiver: it  *)
(* needs the receiver to be idle, and until then the sender is blocked.    *)
(***************************************************************************)
EXTENDS Integers, Sequences, JobTypes

CONSTANTS
    Jobs,        \* the jobs the poller hands to the scheduler
    KindOf,      \* the type of each job
    MaxSize,     \* NormalQueue.maxSize
    MaxRounds,   \* bound: how often the result file of an SSE job may say READY
    NoJob        \* nil

ASSUME KindAssumption == KindOf \in [Jobs -> Kinds]
ASSUME MaxSizeAssumption == MaxSize \in Nat
ASSUME MaxRoundsAssumption == MaxRounds \in Nat
ASSUME NoJobAssumption == NoJob \notin Jobs

VARIABLES
    pc,          \* where the handler of each job is
    job,         \* the JobData of each job, shared by handler and worker
    wg,          \* the WaitGroup counter of each job
    hist,        \* statusHistory
    qg,          \* the queue goroutine: where it is, and its job
    fifo,        \* NormalQueue.fifo
    wk,          \* the worker: where it is, and its job
    db,          \* the clone in the hands of the database goroutine
    cloud,       \* the status of each job in the cloud
    dropped,     \* jobs logged as "Normal Queue is full"
    unacked,     \* jobs whose last PATCH the cloud did not answer with success
    panicked     \* jobs logged as "recovered from panic"

vars == <<pc, job, wg, hist, qg, fifo, wk, db, cloud, dropped, unacked, panicked>>

\* Where handleImpl has returned: without writing, after a write of the
\* finished job, and after a recovered panic.
Exits == {"rejected", "finished", "recovered"}

PCs == Exits \cup
       {"absent", "loop", "pre", "sendPre", "toQueue", "waiting", "sendProc",
        "sendProcAgain", "post", "sendPost", "sendPanic"}

Clone(j) == [id |-> j, status |-> job[j].status, useInfo |-> job[j].useInfo]

NoMsg == [id |-> NoJob, status |-> "READY", useInfo |-> FALSE]

Finished(j) == IsFinished(KindOf[j], job[j])

TypeOK ==
    /\ pc \in [Jobs -> PCs]
    /\ job \in [Jobs -> JobData]
    /\ wg \in [Jobs -> {0, 1}]
    /\ hist \in [Jobs -> Seq(Status)]
    /\ qg \in [at : {"receive", "check", "enqueue"}, job : Jobs \cup {NoJob}]
    /\ fifo \in Seq(Jobs)
    /\ wk \in [at : {"idle", "sendRunning", "process", "sendPanic"},
               job : Jobs \cup {NoJob}]
    /\ db \in [id : Jobs \cup {NoJob}, status : Status, useInfo : BOOLEAN]
    /\ cloud \in [Jobs -> CloudStatus]
    /\ dropped \subseteq Jobs
    /\ unacked \subseteq Jobs
    /\ panicked \subseteq Jobs

Init ==
    /\ pc = [j \in Jobs |-> "absent"]
    /\ job = [j \in Jobs |-> NewJobData("READY")]
    /\ wg = [j \in Jobs |-> 0]
    /\ hist = [j \in Jobs |-> << >>]
    /\ qg = [at |-> "receive", job |-> NoJob]
    /\ fifo = << >>
    /\ wk = [at |-> "idle", job |-> NoJob]
    /\ db = NoMsg
    /\ cloud = [j \in Jobs |-> "ready"]
    /\ dropped = {}
    /\ unacked = {}
    /\ panicked = {}

-----------------------------------------------------------------------------
(* The handler of job j.                                                   *)

Goto(j, l) == pc' = [pc EXCEPT ![j] = l]

Record(j, s) == hist' = [hist EXCEPT ![j] = Append(@, s)]

\* DBChan <- j.Clone(), when the database goroutine is ready to receive.
SendToDB(j) == db.id = NoJob /\ db' = Clone(j)

\* The poller hands over a job: one that failed validation is FAILED already.
HandleJob(j, s) ==
    /\ pc[j] = "absent"
    /\ Goto(j, "loop")
    /\ job' = [job EXCEPT ![j] = NewJobData(s)]
    /\ UNCHANGED <<wg, hist, qg, fifo, wk, db, cloud, dropped, unacked, panicked>>

\* Mutated form of LoopHead: a job in any status is handled.
LoopHeadAnyStatus(j) ==
    /\ pc[j] = "loop"
    /\ job' = [job EXCEPT ![j].useInfo = FALSE]
    /\ Goto(j, "pre")
    /\ Record(j, job[j].status)
    /\ UNCHANGED <<wg, qg, fifo, wk, db, cloud, dropped, unacked, panicked>>

\* The head of the loop: only a READY job is handled, any other is left as it is.
LoopHead(j) ==
    /\ pc[j] = "loop"
    /\ job' = [job EXCEPT ![j].useInfo = FALSE]
    /\ Goto(j, IF job[j].status = "READY" THEN "pre" ELSE "rejected")
    /\ Record(j, job[j].status)
    /\ UNCHANGED <<wg, qg, fifo, wk, db, cloud, dropped, unacked, panicked>>

\* Mutated form of PreProcessJob: UseJobInfoUpdate is left FALSE.
PreProcessJobNoFlag(j) ==
    /\ pc[j] = "pre"
    /\ \E d \in PreProcess(KindOf[j], job[j]) : job' = [job EXCEPT ![j] = d]
    /\ Goto(j, "sendPre")
    /\ UNCHANGED <<wg, hist, qg, fifo, wk, db, cloud, dropped, unacked, panicked>>

PreProcessJob(j) ==
    /\ pc[j] = "pre"
    /\ \E d \in PreProcess(KindOf[j], job[j]) :
          job' = [job EXCEPT ![j] = [d EXCEPT !.useInfo = IsFinished(KindOf[j], d)]]
    /\ Goto(j, "sendPre")
    /\ UNCHANGED <<wg, hist, qg, fifo, wk, db, cloud, dropped, unacked, panicked>>

\* Mutated form of SendPreProcessed: wg.Add(1) is missing.
SendPreProcessedNoAdd(j) ==
    /\ pc[j] = "sendPre"
    /\ SendToDB(j)
    /\ IF Finished(j)
       THEN Goto(j, "finished") /\ Record(j, job[j].status)
       ELSE Goto(j, "toQueue") /\ UNCHANGED hist
    /\ UNCHANGED <<job, wg, qg, fifo, wk, cloud, dropped, unacked, panicked>>

\* The write after pre-processing, then either the return or the WaitGroup.
SendPreProcessed(j) ==
    /\ pc[j] = "sendPre"
    /\ SendToDB(j)
    /\ IF Finished(j)
       THEN Goto(j, "finished") /\ Record(j, job[j].status) /\ UNCHANGED wg
       ELSE Goto(j, "toQueue") /\ wg' = [wg EXCEPT ![j] = @ + 1] /\ UNCHANGED hist
    /\ UNCHANGED <<job, qg, fifo, wk, cloud, dropped, unacked, panicked>>

\* queueChan <- jis, when the queue goroutine is ready to receive.
SendToQueue(j) ==
    /\ pc[j] = "toQueue"
    /\ qg.at = "receive"
    /\ qg' = [at |-> "check", job |-> j]
    /\ Goto(j, "waiting")
    /\ UNCHANGED <<job, wg, hist, fifo, wk, db, cloud, dropped, unacked, panicked>>

\* wg.Wait returns: the result is to be written, or post-processed first.
Resume(j) ==
    /\ pc[j] = "waiting"
    /\ wg[j] = 0
    /\ job' = [job EXCEPT ![j].useInfo = TRUE]
    /\ Goto(j, IF Finished(j) THEN "sendProc" ELSE "post")
    /\ UNCHANGED <<wg, hist, qg, fifo, wk, db, cloud, dropped, unacked, panicked>>

SendProcessed(j) ==
    /\ pc[j] = "sendProc"
    /\ SendToDB(j)
    /\ Record(j, job[j].status)
    /\ Goto(j, "sendProcAgain")
    /\ UNCHANGED <<job, wg, qg, fifo, wk, cloud, dropped, unacked, panicked>>

\* The same clone is written a second time.
SendProcessedAgain(j) ==
    /\ pc[j] = "sendProcAgain"
    /\ SendToDB(j)
    /\ Goto(j, "finished")
    /\ UNCHANGED <<job, wg, hist, qg, fifo, wk, cloud, dropped, unacked, panicked>>

\* A job that is still not finished goes round the loop once more.
PostProcessJob(j) ==
    /\ pc[j] = "post"
    /\ \E d \in PostProcess(KindOf[j], job[j]) :
          /\ job' = [job EXCEPT ![j] = d]
          /\ IF IsFinished(KindOf[j], d)
             THEN Goto(j, "sendPost") /\ Record(j, d.status)
             ELSE Goto(j, "loop") /\ UNCHANGED hist
    /\ UNCHANGED <<wg, qg, fifo, wk, db, cloud, dropped, unacked, panicked>>

SendPostProcessed(j) ==
    /\ pc[j] = "sendPost"
    /\ SendToDB(j)
    /\ Goto(j, "finished")
    /\ UNCHANGED <<job, wg, hist, qg, fifo, wk, cloud, dropped, unacked, panicked>>

\* Mutated form of Recover: the status is not set.
RecoverKeepStatus(j, d) ==
    /\ job' = [job EXCEPT ![j] = d]
    /\ Record(j, "FAILED")
    /\ Goto(j, "sendPanic")
    /\ panicked' = panicked \cup {j}
    /\ UNCHANGED <<wg, qg, fifo, wk, db, cloud, dropped, unacked>>

\* The deferred recover of handleImpl.  UseJobInfoUpdate stays what it was.
Recover(j, d) ==
    /\ job' = [job EXCEPT ![j] = [d EXCEPT !.status = "FAILED"]]
    /\ Record(j, "FAILED")
    /\ Goto(j, "sendPanic")
    /\ panicked' = panicked \cup {j}
    /\ UNCHANGED <<wg, qg, fifo, wk, db, cloud, dropped, unacked>>

PreProcessPanic(j) == pc[j] = "pre" /\ Recover(j, job[j])

PostProcessPanic(j) ==
    /\ pc[j] = "post"
    /\ KindOf[j] \in PostProcessed
    /\ Recover(j, PostProcessPanics(job[j]))

SendRecovered(j) ==
    /\ pc[j] = "sendPanic"
    /\ SendToDB(j)
    /\ Goto(j, "recovered")
    /\ UNCHANGED <<job, wg, hist, qg, fifo, wk, cloud, dropped, unacked, panicked>>

\* The deferred function of HandleJob.
DeleteHistory(j) ==
    /\ pc[j] \in Exits
    /\ hist[j] # << >>
    /\ hist' = [hist EXCEPT ![j] = << >>]
    /\ UNCHANGED <<pc, job, wg, qg, fifo, wk, db, cloud, dropped, unacked, panicked>>

-----------------------------------------------------------------------------
(* The queue goroutine.                                                    *)

\* Mutated form of QueueCheck: off by one in the test for a full queue.
QueueCheckOffByOne ==
    /\ qg.at = "check"
    /\ IF MaxSize < Len(fifo)
       THEN qg' = [at |-> "receive", job |-> NoJob] /\ dropped' = dropped \cup {qg.job}
       ELSE qg' = [qg EXCEPT !.at = "enqueue"] /\ UNCHANGED dropped
    /\ UNCHANGED <<pc, job, wg, hist, fifo, wk, db, cloud, unacked, panicked>>

\* A full queue drops the job: its handler is not told.
QueueCheck ==
    /\ qg.at = "check"
    /\ IF MaxSize <= Len(fifo)
       THEN qg' = [at |-> "receive", job |-> NoJob] /\ dropped' = dropped \cup {qg.job}
       ELSE qg' = [qg EXCEPT !.at = "enqueue"] /\ UNCHANGED dropped
    /\ UNCHANGED <<pc, job, wg, hist, fifo, wk, db, cloud, unacked, panicked>>

QueueEnqueue ==
    /\ qg.at = "enqueue"
    /\ fifo' = Append(fifo, qg.job)
    /\ qg' = [at |-> "receive", job |-> NoJob]
    /\ UNCHANGED <<pc, job, wg, hist, wk, db, cloud, dropped, unacked, panicked>>

-----------------------------------------------------------------------------
(* The worker.                                                             *)

WorkerDequeue ==
    /\ wk.at = "idle"
    /\ fifo # << >>
    /\ wk' = [at |-> "sendRunning", job |-> Head(fifo)]
    /\ fifo' = Tail(fifo)
    /\ Record(Head(fifo), "RUNNING")
    /\ job' = [job EXCEPT ![Head(fifo)].status = "RUNNING"]
    /\ UNCHANGED <<pc, wg, qg, db, cloud, dropped, unacked, panicked>>

WorkerSendRunning ==
    /\ wk.at = "sendRunning"
    /\ SendToDB(wk.job)
    /\ wk' = [wk EXCEPT !.at = "process"]
    /\ UNCHANGED <<pc, job, wg, hist, qg, fifo, cloud, dropped, unacked, panicked>>

\* finished.Done(), and back to the queue.
Done ==
    /\ wg' = [wg EXCEPT ![wk.job] = @ - 1]
    /\ wk' = [at |-> "idle", job |-> NoJob]

\* Each round of a job leaves two entries in its history.
WithinRounds(j, d) == d.status = "READY" => Len(hist[j]) < 2 * MaxRounds

WorkerProcess ==
    /\ wk.at = "process"
    /\ \E d \in Process(KindOf[wk.job], job[wk.job]) :
          /\ WithinRounds(wk.job, d)
          /\ job' = [job EXCEPT ![wk.job] = d]
    /\ Done
    /\ UNCHANGED <<pc, hist, qg, fifo, db, cloud, dropped, unacked, panicked>>

\* Mutated form of WorkerPanic: Done is called before the write.
WorkerPanicEarlyDone ==
    /\ wk.at = "process"
    /\ \E d \in ProcessPanics(KindOf[wk.job], job[wk.job]) :
          job' = [job EXCEPT ![wk.job] = [d EXCEPT !.status = "FAILED"]]
    /\ wk' = [wk EXCEPT !.at = "sendPanic"]
    /\ wg' = [wg EXCEPT ![wk.job] = @ - 1]
    /\ panicked' = panicked \cup {wk.job}
    /\ UNCHANGED <<pc, hist, qg, fifo, db, cloud, dropped, unacked>>

\* The deferred recover of the worker, up to its write.
WorkerPanic ==
    /\ wk.at = "process"
    /\ \E d \in ProcessPanics(KindOf[wk.job], job[wk.job]) :
          job' = [job EXCEPT ![wk.job] = [d EXCEPT !.status = "FAILED"]]
    /\ wk' = [wk EXCEPT !.at = "sendPanic"]
    /\ panicked' = panicked \cup {wk.job}
    /\ UNCHANGED <<pc, wg, hist, qg, fifo, db, cloud, dropped, unacked>>

\* Mutated form of WorkerSendPanic: a panic skips Done.
WorkerSendPanicNoDone ==
    /\ wk.at = "sendPanic"
    /\ SendToDB(wk.job)
    /\ wk' = [at |-> "idle", job |-> NoJob]
    /\ UNCHANGED <<pc, job, wg, hist, qg, fifo, cloud, dropped, unacked, panicked>>

WorkerSendPanic ==
    /\ wk.at = "sendPanic"
    /\ SendToDB(wk.job)
    /\ Done
    /\ UNCHANGED <<pc, job, hist, qg, fifo, cloud, dropped, unacked, panicked>>

-----------------------------------------------------------------------------
(* The database goroutine.                                                 *)

\* Mutated form of Patches: every write is sent to the cloud.
PatchesAlways(m) == TRUE

\* Without UseJobInfoUpdate only RUNNING is sent to the cloud; with it, PATCH
\* job_info overwrites the status whatever it is.
Patches(m) == m.useInfo \/ m.status = "RUNNING"

\* A PATCH without an answer may have been applied all the same; one that is
\* refused is logged and forgotten, or not even logged.
Update ==
    /\ db.id # NoJob
    /\ db' = NoMsg
    /\ \E applied, acked \in BOOLEAN :
          /\ acked => applied
          /\ cloud' = IF Patches(db) /\ applied
                      THEN [cloud EXCEPT ![db.id] = convertToAPIStatus(db.status)]
                      ELSE cloud
          /\ unacked' = IF ~Patches(db) THEN unacked
                        ELSE IF acked THEN unacked \ {db.id}
                        ELSE unacked \cup {db.id}
    /\ UNCHANGED <<pc, job, wg, hist, qg, fifo, wk, dropped, panicked>>

-----------------------------------------------------------------------------

\* No handler can move: each has returned, or waits for a job that was dropped.
Settled(j) == pc[j] \in Exits \/ (j \in dropped /\ pc[j] = "waiting")

Quiescent ==
    /\ \A j \in Jobs : Settled(j)
    /\ db.id = NoJob
    /\ UNCHANGED vars

Handler(j) ==
    \/ LoopHead(j)
    \/ PreProcessJob(j)
    \/ PreProcessPanic(j)
    \/ SendPreProcessed(j)
    \/ SendToQueue(j)
    \/ Resume(j)
    \/ SendProcessed(j)
    \/ SendProcessedAgain(j)
    \/ PostProcessJob(j)
    \/ PostProcessPanic(j)
    \/ SendPostProcessed(j)
    \/ SendRecovered(j)
    \/ DeleteHistory(j)

Queue == QueueCheck \/ QueueEnqueue

Worker ==
    \/ WorkerDequeue
    \/ WorkerSendRunning
    \/ WorkerProcess
    \/ WorkerPanic
    \/ WorkerSendPanic

Next ==
    \/ \E j \in Jobs, s \in {"READY", "FAILED"} : HandleJob(j, s)
    \/ \E j \in Jobs : Handler(j)
    \/ Queue
    \/ Worker
    \/ Update
    \/ Quiescent

Spec == Init /\ [][Next]_vars

(***************************************************************************)
(* Every goroutine keeps running.  A blocked sender is served in the order *)
(* of arrival, so one that is ready to send again and again gets through:  *)
(* strong fairness for the handlers and the worker, which wait for db or   *)
(* qg to be free.  The receivers never block others, weak fairness is      *)
(* enough.  The poller may stop handing over jobs.                         *)
(***************************************************************************)
Fairness ==
    /\ \A j \in Jobs : SF_vars(Handler(j))
    /\ SF_vars(Worker)
    /\ WF_vars(Queue)
    /\ WF_vars(Update)

FairSpec == Spec /\ Fairness

-----------------------------------------------------------------------------
(* Properties.                                                             *)

InFifo(j) == \E i \in 1..Len(fifo) : fifo[i] = j

\* The queue or the worker has a pointer to the job.
Held(j) == qg.job = j \/ InFifo(j) \/ wk.job = j

(***************************************************************************)
(* JobData carries no lock.  It is safe because handler and worker never   *)
(* use it at the same time: as long as the queue goroutine, the queue or   *)
(* the worker holds the job, its handler is blocked in wg.Wait with the    *)
(* counter at 1, and only one of the three holds it, once.                 *)
(***************************************************************************)
JobDataHasOneOwner ==
    /\ \A j \in Jobs : Held(j) => pc[j] = "waiting" /\ wg[j] = 1
    /\ \A j \in Jobs : /\ qg.job = j => ~InFifo(j) /\ wk.job # j
                       /\ wk.job = j => ~InFifo(j)
    /\ \A m, n \in 1..Len(fifo) : fifo[m] = fifo[n] => m = n

(***************************************************************************)
(* A handler in wg.Wait is waiting for something: the queue or the worker  *)
(* holds its job, or Done was called, or the job was dropped by the full   *)
(* queue and logged.  No other path (a panic in Process, in particular)    *)
(* strands a handler.                                                      *)
(***************************************************************************)
NoHandlerStranded ==
    \A j \in Jobs : pc[j] = "waiting" /\ wg[j] = 1 => Held(j) \/ j \in dropped

\* The queue goroutine keeps the queue within maxSize, although it checks the
\* length before it enqueues and the worker dequeues at any time.
QueueBounded == Len(fifo) <= MaxSize

(***************************************************************************)
(* When handleImpl has returned with a finished job and the write is out   *)
(* of DBChan, the cloud shows the final status of the job, unless the last *)
(* PATCH of this job was not answered with success.  The three places that *)
(* return with a finished job set UseJobInfoUpdate in three different      *)
(* ways, and a RUNNING update may still be on its way.                     *)
(***************************************************************************)
FinishedIsReported ==
    \A j \in Jobs :
        pc[j] = "finished" /\ db.id # j /\ j \notin unacked
            => /\ job[j].status \in Terminal
               /\ cloud[j] = convertToAPIStatus(job[j].status)

(***************************************************************************)
(* The status history of a job that is handled, as the tests of the        *)
(* scheduler spell it out: it starts with READY, RUNNING comes only        *)
(* directly after READY, nothing follows a SUCCEEDED or FAILED, and when   *)
(* handleImpl has returned the last entry is the status of the job.        *)
(***************************************************************************)
HistoryLegal ==
    \A j \in Jobs : pc[j] # "rejected" =>
        /\ \A i \in 1..Len(hist[j]) :
              /\ i = 1 => hist[j][i] = "READY"
              /\ hist[j][i] = "RUNNING" => i > 1 /\ hist[j][i - 1] = "READY"
              /\ i < Len(hist[j]) => hist[j][i] \notin Terminal
        /\ pc[j] \in Exits /\ hist[j] # << >> => hist[j][Len(hist[j])] = job[j].status

(***************************************************************************)
(* A job that panicked in any of its phases ends in FAILED, as the test of *)
(* a panic in Process demands.                                             *)
(***************************************************************************)
PanicEndsFailed ==
    \A j \in Jobs : j \in panicked /\ pc[j] \in Exits => job[j].status = "FAILED"

(***************************************************************************)
(* Every job that is handed over is settled some day: its handler returns, *)
(* or it is one the full queue dropped.                                    *)
(***************************************************************************)
EveryJobSettles == \A j \in Jobs : pc[j] = "loop" ~> Settled(j)

(***************************************************************************)
(* The scheduler and the database goroutine keep the promise of JobVerdict *)
(* to the cloud.  The verdict is reached where handleImpl decides to       *)
(* return; a FAILED set by the recover of the worker is not one yet.       *)
(***************************************************************************)
Decided(j) ==
    \/ pc[j] \in {"sendProc", "sendProcAgain", "sendPost", "sendPanic",
                  "finished", "recovered"}
    \/ pc[j] = "sendPre" /\ Finished(j)

Verdict == INSTANCE JobVerdict WITH
    verdict <- [j \in Jobs |-> IF Decided(j)
                              THEN convertToAPIStatus(job[j].status)
                              ELSE "none"],
    view <- cloud

VerdictSpec == Verdict!Spec

(***************************************************************************)
(* The scheduler as the poller sees it, Pipeline: a job is in the hands of *)
(* its handler, of the queue or of the worker, moves from one to the next  *)
(* and is settled or dropped once.                                         *)
(***************************************************************************)
Stage(j) ==
    CASE pc[j] = "absent"                       -> "absent"
      [] pc[j] \in Exits                        -> "settled"
      [] pc[j] = "waiting" /\ qg.job = j        -> "offered"
      [] pc[j] = "waiting" /\ InFifo(j)         -> "queued"
      [] pc[j] = "waiting" /\ wk.job = j        -> "running"
      [] pc[j] = "waiting" /\ j \in dropped     -> "dropped"
      [] OTHER                                  -> "handling"

Abstract == INSTANCE Pipeline WITH stage <- [j \in Jobs |-> Stage(j)]

PipelineSpec == Abstract!SpecPipeline
=============================================================================
