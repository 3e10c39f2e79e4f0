-------------------------- MODULE SchedulerProofs --------------------------
(***************************************************************************)
(* Proofs about Scheduler, for any set of jobs of any types and any queue  *)
(* size.                                                                   *)
(***************************************************************************)
EXTENDS Scheduler, TLAPS

-----------------------------------------------------------------------------
(* What the phases of a job do to its data.                                *)

\* Setting a field keeps the type of the job data.
LEMMA SetField ==
    ASSUME NEW d \in JobData, NEW st \in Status, NEW v \in BOOLEAN
    PROVE  /\ d.status \in Status
           /\ [d EXCEPT !.status = st] \in JobData
           /\ [d EXCEPT !.useInfo = v] \in JobData
           /\ [d EXCEPT !.done = v] \in JobData
BY DEF JobData

\* No phase of any job type leaves the type of the job data.
LEMMA PreProcessType ==
    ASSUME NEW k \in Kinds, NEW d \in JobData, NEW e \in PreProcess(k, d)
    PROVE  e \in JobData
<1> USE DEF SetFailureWithError, JobData, Status
<1>1. CASE k = "normal"
  <2>1. e \in PreProcessNormal(d)
    BY <1>1 DEF PreProcess
  <2>2. QED
    BY <2>1 DEF PreProcessNormal, Transpile
<1>2. CASE k = "sampling"
  <2>1. e \in PreProcessSampling(d)
    BY <1>2 DEF PreProcess
  <2>2. QED
    BY <2>1 DEF PreProcessSampling, NewMitigationInfoFromJobData
<1>3. CASE k = "estimation"
  <2>1. e \in PreProcessEstimation(d)
    BY <1>3 DEF PreProcess
  <2>2. QED
    BY <2>1 DEF PreProcessEstimation
<1>4. CASE k = "manual"
  <2>1. e \in PreProcessManual(d)
    BY <1>4 DEF PreProcess
  <2>2. QED
    BY <2>1 DEF PreProcessManual
<1>5. CASE k = "sse"
  <2>1. e \in PreProcessSSE(d)
    BY <1>5 DEF PreProcess
  <2>2. QED
    BY <2>1 DEF PreProcessSSE
<1>6. QED
  BY <1>1, <1>2, <1>3, <1>4, <1>5 DEF Kinds

LEMMA ProcessType ==
    ASSUME NEW k \in Kinds, NEW d \in JobData, NEW e \in Process(k, d)
    PROVE  e \in JobData
<1>1. CASE k = "estimation"
  <2>1. e \in ProcessEstimation(d)
    BY <1>1 DEF Process
  <2>2. QED
    BY <2>1 DEF ProcessEstimation, JobData, Status
<1>2. CASE k = "sse"
  <2>1. e \in ProcessSSE(d)
    BY <1>2 DEF Process
  <2>2. QED
    BY <2>1 DEF ProcessSSE, JobData, Status
<1>3. CASE k \notin {"estimation", "sse"}
  <2>1. e \in Send(d)
    BY <1>3 DEF Process
  <2>2. QED
    BY <2>1 DEF Send, CallJob, SetFailureWithError, JobData, Status, Terminal
<1>4. QED
  BY <1>1, <1>2, <1>3

LEMMA ProcessPanicsType ==
    ASSUME NEW k \in Kinds, NEW d \in JobData, NEW e \in ProcessPanics(k, d)
    PROVE  e \in JobData
BY DEF ProcessPanics, JobData

LEMMA PostProcessType ==
    ASSUME NEW k \in Kinds, NEW d \in JobData, NEW e \in PostProcess(k, d)
    PROVE  e \in JobData
<1>1. CASE k = "sampling"
  <2>1. e \in PostProcessSampling(d)
    BY <1>1 DEF PostProcess
  <2>2. QED
    BY <2>1 DEF PostProcessSampling, PseudoInverseMitigation, JobData, Status, Terminal
<1>2. CASE k = "estimation"
  <2>1. e \in PostProcessEstimation(d)
    BY <1>2 DEF PostProcess
  <2>2. QED
    BY <2>1 DEF PostProcessEstimation, EstimationPostProcess, JobData, Status, Terminal
<1>3. CASE k = "manual"
  <2>1. e \in PostProcessManual(d)
    BY <1>3 DEF PostProcess
  <2>2. QED
    BY <2>1 DEF PostProcessManual, JobData, Status, Terminal
<1>4. CASE k \notin {"sampling", "estimation", "manual"}
  BY <1>4 DEF PostProcess
<1>5. QED
  BY <1>1, <1>2, <1>3, <1>4

\* The status told to the cloud is one the cloud knows.
LEMMA CloudStatusType ==
    ASSUME NEW st \in Status
    PROVE  convertToAPIStatus(st) \in CloudStatus
BY DEF convertToAPIStatus, CloudStatus, Status

-----------------------------------------------------------------------------
(* Type correctness and ownership of the job data, one inductive invariant. *)

\* Who holds the job data is what makes wg[j] + 1 and wg[j] - 1 stay in {0, 1}.
OwnInv ==
    /\ (wk.at = "idle") <=> (wk.job = NoJob)
    /\ (qg.at = "receive") <=> (qg.job = NoJob)
    /\ \A j \in Jobs : Held(j) => pc[j] = "waiting"
    /\ \A j \in dropped : pc[j] = "waiting" /\ ~Held(j)
    /\ \A j \in Jobs :
          (wg[j] = 1) <=> \/ pc[j] = "toQueue"
                          \/ pc[j] = "waiting" /\ (Held(j) \/ j \in dropped)
    /\ \A j \in Jobs : qg.job = j => ~InFifo(j) /\ wk.job # j
    /\ \A j \in Jobs : wk.job = j => ~InFifo(j)
    /\ \A m, n \in 1..Len(fifo) : fifo[m] = fifo[n] => m = n
    /\ Len(fifo) <= MaxSize
    /\ qg.at = "enqueue" => Len(fifo) < MaxSize

USE KindAssumption, MaxSizeAssumption, MaxRoundsAssumption, NoJobAssumption

LEMMA Labels ==
    /\ {"absent", "loop", "pre", "sendPre", "toQueue", "waiting", "sendProc",
        "sendProcAgain", "post", "sendPost", "sendPanic", "rejected", "finished",
        "recovered"} \subseteq PCs
    /\ {"READY", "RUNNING", "SUCCEEDED", "FAILED"} \subseteq Status
BY DEF PCs, Exits, Status

LEMMA CloneType ==
    ASSUME TypeOK, NEW j \in Jobs
    PROVE  Clone(j) \in [id : Jobs \cup {NoJob}, status : Status, useInfo : BOOLEAN]
BY DEF TypeOK, Clone, JobData

LEMMA TypeInit == Init => TypeOK
BY DEF Init, TypeOK, PCs, Exits, NewJobData, JobData, Status, NoMsg, CloudStatus

\* A handler step moves one program counter and extends or clears one history.
LEMMA HandlerVars ==
    ASSUME TypeOK, NEW j \in Jobs, NEW l \in PCs, NEW st \in Status
    PROVE  /\ Goto(j, l) => pc' \in [Jobs -> PCs]
           /\ Record(j, st) => hist' \in [Jobs -> Seq(Status)]
<1>1. Goto(j, l) => pc' \in [Jobs -> PCs]
  BY DEF TypeOK, Goto
<1>2. Record(j, st) => hist' \in [Jobs -> Seq(Status)]
  BY DEF TypeOK, Record
<1>3. QED
  BY <1>1, <1>2

LEMMA TypeRecover ==
    ASSUME TypeOK, NEW j \in Jobs, NEW d \in JobData, Recover(j, d)
    PROVE  TypeOK'
<1>1. job' \in [Jobs -> JobData]
  <2>1. [d EXCEPT !.status = "FAILED"] \in JobData
    BY SetField, Labels
  <2>2. QED
    BY <2>1 DEF Recover, TypeOK
<1>2. pc' \in [Jobs -> PCs] /\ hist' \in [Jobs -> Seq(Status)]
  BY HandlerVars, Labels DEF Recover
<1>3. panicked' \subseteq Jobs
  BY DEF Recover, TypeOK
<1>4. QED
  BY <1>1, <1>2, <1>3 DEF Recover, TypeOK

LEMMA TypeHandler ==
    ASSUME TypeOK, OwnInv, NEW j \in Jobs, Handler(j)
    PROVE  TypeOK'
<1> USE Labels DEF TypeOK, SendToDB
<1>0. /\ job[j] \in JobData
      /\ job[j].status \in Status
      /\ KindOf[j] \in Kinds
  BY SetField
<1>1. CASE LoopHead(j)
  <2>1. job' \in [Jobs -> JobData]
    BY <1>1, SetField DEF LoopHead
  <2>2. pc' \in [Jobs -> PCs] /\ hist' \in [Jobs -> Seq(Status)]
    <3>1. PICK l \in PCs : Goto(j, l)
      BY <1>1 DEF LoopHead
    <3>2. QED
      BY <1>0, <1>1, <3>1, HandlerVars DEF LoopHead
  <2>3. QED
    BY <1>1, <2>1, <2>2 DEF LoopHead
<1>2. CASE PreProcessJob(j)
  <2>1. PICK d \in PreProcess(KindOf[j], job[j]) :
            job' = [job EXCEPT ![j] = [d EXCEPT !.useInfo = IsFinished(KindOf[j], d)]]
    BY <1>2 DEF PreProcessJob
  <2>2. d \in JobData
    BY <1>0, PreProcessType
  <2>3. IsFinished(KindOf[j], d) \in BOOLEAN
    BY DEF IsFinished
  <2>4. QED
    BY <1>2, <2>1, <2>2, <2>3, SetField DEF PreProcessJob, Goto, Record
<1>3. CASE PreProcessPanic(j)
  BY <1>0, <1>3, TypeRecover DEF PreProcessPanic
<1>4. CASE SendPreProcessed(j)
  <2>1. db' \in [id : Jobs \cup {NoJob}, status : Status, useInfo : BOOLEAN]
    BY <1>4, CloneType DEF SendPreProcessed
  <2>2. CASE Finished(j)
    BY <1>4, <2>1, <2>2, <1>0, HandlerVars DEF SendPreProcessed
  <2>3. CASE ~Finished(j)
    <3>1. wg[j] = 0
      BY <1>4 DEF SendPreProcessed, OwnInv
    <3>2. /\ Goto(j, "toQueue")
          /\ wg' = [wg EXCEPT ![j] = @ + 1]
          /\ UNCHANGED <<job, hist, qg, fifo, wk, cloud, dropped, unacked, panicked>>
      BY <1>4, <2>3 DEF SendPreProcessed
    <3>3. wg' \in [Jobs -> {0, 1}]
      BY <3>1, <3>2
    <3>4. QED
      BY <2>1, <3>2, <3>3, HandlerVars
  <2>4. QED
    BY <2>2, <2>3
<1>5. CASE SendToQueue(j)
  BY <1>5 DEF SendToQueue, Goto, Record
<1>6. CASE Resume(j)
  BY <1>0, <1>6, SetField DEF Resume, Goto, Record
<1>7. CASE SendProcessed(j)
  BY <1>0, <1>7, CloneType DEF SendProcessed, Goto, Record
<1>8. CASE SendProcessedAgain(j)
  BY <1>8, CloneType DEF SendProcessedAgain, Goto, Record
<1>9. CASE PostProcessJob(j)
  <2>1. PICK d \in PostProcess(KindOf[j], job[j]) :
            /\ job' = [job EXCEPT ![j] = d]
            /\ IF IsFinished(KindOf[j], d)
               THEN Goto(j, "sendPost") /\ Record(j, d.status)
               ELSE Goto(j, "loop") /\ UNCHANGED hist
    BY <1>9 DEF PostProcessJob
  <2>2. d \in JobData
    BY <1>0, PostProcessType
  <2>3. d.status \in Status
    BY <2>2, SetField
  <2>4. pc' \in [Jobs -> PCs] /\ hist' \in [Jobs -> Seq(Status)]
    <3>1. CASE IsFinished(KindOf[j], d)
      <4>1. Goto(j, "sendPost") /\ Record(j, d.status)
        BY <2>1, <3>1
      <4>2. QED
        BY <2>3, <4>1, HandlerVars
    <3>2. CASE ~IsFinished(KindOf[j], d)
      <4>1. Goto(j, "loop") /\ UNCHANGED hist
        BY <2>1, <3>2
      <4>2. QED
        BY <4>1, <1>0, HandlerVars
    <3>3. QED
      BY <3>1, <3>2
  <2>5. job' \in [Jobs -> JobData]
    BY <2>1, <2>2
  <2>6. QED
    BY <1>9, <2>4, <2>5 DEF PostProcessJob
<1>10. CASE PostProcessPanic(j)
  <2>1. PostProcessPanics(job[j]) \in JobData
    BY <1>0, SetField DEF PostProcessPanics
  <2>2. QED
    BY <1>10, <2>1, TypeRecover DEF PostProcessPanic
<1>11. CASE SendPostProcessed(j)
  BY <1>11, CloneType DEF SendPostProcessed, Goto, Record
<1>12. CASE SendRecovered(j)
  BY <1>12, CloneType DEF SendRecovered, Goto, Record
<1>13. CASE DeleteHistory(j)
  BY <1>13 DEF DeleteHistory
<1>14. QED
  BY <1>1, <1>2, <1>3, <1>4, <1>5, <1>6, <1>7, <1>8, <1>9, <1>10, <1>11, <1>12,
     <1>13 DEF Handler

LEMMA TypeWorker ==
    ASSUME TypeOK, OwnInv, Worker
    PROVE  TypeOK'
<1>0. /\ fifo \in Seq(Jobs)
      /\ job \in [Jobs -> JobData]
      /\ wg \in [Jobs -> {0, 1}]
      /\ wk.job \in Jobs \cup {NoJob}
      /\ wk.at \in {"idle", "sendRunning", "process", "sendPanic"}
  BY DEF TypeOK
<1>1. CASE WorkerDequeue
  <2>1. Head(fifo) \in Jobs /\ Tail(fifo) \in Seq(Jobs)
    BY <1>0, <1>1 DEF WorkerDequeue
  <2>2. job' \in [Jobs -> JobData]
    BY <1>0, <1>1, <2>1, SetField, Labels DEF WorkerDequeue
  <2>3. hist' \in [Jobs -> Seq(Status)]
    BY <1>1, <2>1, HandlerVars, Labels DEF WorkerDequeue
  <2>4. QED
    BY <1>1, <2>1, <2>2, <2>3 DEF WorkerDequeue, TypeOK
<1>2. ASSUME wk.at # "idle"
      PROVE  /\ wk.job \in Jobs
             /\ KindOf[wk.job] \in Kinds
             /\ job[wk.job] \in JobData
             /\ wg[wk.job] = 1
  <2>1. wk.job \in Jobs
    BY <1>0, <1>2 DEF OwnInv
  <2>2. Held(wk.job)
    BY DEF Held
  <2>3. QED
    BY <1>0, <2>1, <2>2 DEF OwnInv
<1>3. ASSUME wk.at # "idle", Done
      PROVE  /\ wg' \in [Jobs -> {0, 1}]
             /\ wk' \in [at : {"idle", "sendRunning", "process", "sendPanic"},
                         job : Jobs \cup {NoJob}]
  BY <1>0, <1>2, <1>3 DEF Done
<1>4. CASE WorkerSendRunning
  <2>1. db' \in [id : Jobs \cup {NoJob}, status : Status, useInfo : BOOLEAN]
    BY <1>2, <1>4, CloneType DEF WorkerSendRunning, SendToDB
  <2>2. QED
    BY <1>4, <2>1 DEF WorkerSendRunning, TypeOK
<1>5. CASE WorkerProcess
  <2>1. PICK d \in Process(KindOf[wk.job], job[wk.job]) :
            job' = [job EXCEPT ![wk.job] = d]
    BY <1>5 DEF WorkerProcess
  <2>2. d \in JobData
    BY <1>2, <1>5, ProcessType DEF WorkerProcess
  <2>3. job' \in [Jobs -> JobData]
    BY <1>0, <2>1, <2>2
  <2>4. QED
    BY <1>3, <1>5, <2>3 DEF WorkerProcess, TypeOK
<1>6. CASE WorkerPanic
  <2>1. PICK d \in ProcessPanics(KindOf[wk.job], job[wk.job]) :
            job' = [job EXCEPT ![wk.job] = [d EXCEPT !.status = "FAILED"]]
    BY <1>6 DEF WorkerPanic
  <2>2. d \in JobData
    BY <1>2, <1>6, ProcessPanicsType DEF WorkerPanic
  <2>3. [d EXCEPT !.status = "FAILED"] \in JobData
    BY <2>2, SetField, Labels
  <2>4. job' \in [Jobs -> JobData]
    BY <1>0, <2>1, <2>3
  <2>5. wk.job \in Jobs
    BY <1>2, <1>6 DEF WorkerPanic
  <2>6. QED
    BY <1>6, <2>4, <2>5 DEF WorkerPanic, TypeOK
<1>7. CASE WorkerSendPanic
  <2>1. db' \in [id : Jobs \cup {NoJob}, status : Status, useInfo : BOOLEAN]
    BY <1>2, <1>7, CloneType DEF WorkerSendPanic, SendToDB
  <2>2. QED
    BY <1>3, <1>7, <2>1 DEF WorkerSendPanic, TypeOK
<1>8. QED
  BY <1>1, <1>4, <1>5, <1>6, <1>7 DEF Worker

LEMMA TypeNext ==
    ASSUME TypeOK, OwnInv, [Next]_vars
    PROVE  TypeOK'
<1>1. ASSUME NEW j \in Jobs, NEW s \in {"READY", "FAILED"}, HandleJob(j, s)
      PROVE  TypeOK'
  <2>1. NewJobData(s) \in JobData
    BY <1>1 DEF NewJobData, JobData, Status
  <2>2. pc' \in [Jobs -> PCs]
    BY <1>1, HandlerVars, Labels DEF HandleJob
  <2>3. job' \in [Jobs -> JobData]
    BY <1>1, <2>1 DEF HandleJob, TypeOK
  <2>4. QED
    BY <1>1, <2>2, <2>3 DEF HandleJob, TypeOK
<1>2. CASE Queue
  <2>0. /\ qg \in [at : {"receive", "check", "enqueue"}, job : Jobs \cup {NoJob}]
        /\ qg.at # "receive" => qg.job \in Jobs
    BY DEF TypeOK, OwnInv
  <2>1. CASE QueueCheck
    <3>1. dropped' \subseteq Jobs
      BY <2>0, <2>1 DEF QueueCheck, TypeOK
    <3>2. qg' \in [at : {"receive", "check", "enqueue"}, job : Jobs \cup {NoJob}]
      BY <2>0, <2>1 DEF QueueCheck
    <3>3. QED
      BY <2>1, <3>1, <3>2 DEF QueueCheck, TypeOK
  <2>2. CASE QueueEnqueue
    <3>1. fifo' \in Seq(Jobs)
      BY <2>0, <2>2 DEF QueueEnqueue, TypeOK
    <3>2. qg' \in [at : {"receive", "check", "enqueue"}, job : Jobs \cup {NoJob}]
      BY <2>2 DEF QueueEnqueue
    <3>3. QED
      BY <2>2, <3>1, <3>2 DEF QueueEnqueue, TypeOK
  <2>3. QED
    BY <1>2, <2>1, <2>2 DEF Queue
<1>3. CASE Update
  <2>1. db.id \in Jobs /\ db.status \in Status
    BY <1>3 DEF Update, TypeOK
  <2>2. convertToAPIStatus(db.status) \in CloudStatus
    BY <2>1, CloudStatusType
  <2>3. db' \in [id : Jobs \cup {NoJob}, status : Status, useInfo : BOOLEAN]
    BY <1>3, Labels DEF Update, NoMsg
  <2>4. cloud' \in [Jobs -> CloudStatus] /\ unacked' \subseteq Jobs
    <3>1. \/ cloud' = [cloud EXCEPT ![db.id] = convertToAPIStatus(db.status)]
          \/ cloud' = cloud
      BY <1>3 DEF Update
    <3>2. unacked' \subseteq unacked \cup {db.id}
      BY <1>3 DEF Update
    <3>3. cloud \in [Jobs -> CloudStatus] /\ unacked \subseteq Jobs
      BY DEF TypeOK
    <3>4. cloud' \in [Jobs -> CloudStatus]
      BY <2>1, <2>2, <3>1, <3>3
    <3>5. QED
      BY <2>1, <3>2, <3>3, <3>4
  <2>5. QED
    BY <1>3, <2>3, <2>4 DEF Update, TypeOK
<1>4. CASE Quiescent \/ UNCHANGED vars
  BY <1>4 DEF Quiescent, vars, TypeOK
<1>5. QED
  BY <1>1, <1>2, <1>3, <1>4, TypeHandler, TypeWorker DEF Next

-----------------------------------------------------------------------------

LEMMA OwnInit == Init => OwnInv
BY DEF Init, OwnInv, Held, InFifo

LEMMA OwnFrame ==
    ASSUME TypeOK, OwnInv, UNCHANGED <<pc, wg, qg, fifo, wk, dropped>>
    PROVE  OwnInv'
<1>1. \A k \in Jobs : (Held(k)' <=> Held(k)) /\ (InFifo(k)' <=> InFifo(k))
  BY DEF Held, InFifo
<1>2. QED
  BY <1>1 DEF OwnInv, TypeOK

\* A handler that neither enters nor leaves wg.Wait disturbs no ownership.
LEMMA OwnMove ==
    ASSUME TypeOK, OwnInv, NEW j \in Jobs, NEW l,
           pc[j] \notin {"toQueue", "waiting"}, l \notin {"toQueue", "waiting"},
           Goto(j, l), UNCHANGED <<wg, qg, fifo, wk, dropped>>
    PROVE  OwnInv'
<1>1. \A k \in Jobs : Held(k)' <=> Held(k)
  BY DEF Held, InFifo
<1>2. \A k \in Jobs : InFifo(k)' <=> InFifo(k)
  BY DEF InFifo
<1>3. pc \in [Jobs -> PCs] /\ dropped \subseteq Jobs
  BY DEF TypeOK
<1>4. pc'[j] = l /\ \A k \in Jobs \ {j} : pc'[k] = pc[k]
  BY <1>3 DEF Goto
<1>5. QED
  BY <1>1, <1>2, <1>3, <1>4 DEF OwnInv

LEMMA OwnHandler ==
    ASSUME TypeOK, OwnInv, NEW j \in Jobs, Handler(j)
    PROVE  OwnInv'
<1>0. pc \in [Jobs -> PCs] /\ dropped \subseteq Jobs /\ wg \in [Jobs -> {0, 1}]
  BY DEF TypeOK
<1>1. CASE LoopHead(j)
  <2>1. PICK l \in {"pre", "rejected"} : Goto(j, l)
    BY <1>1 DEF LoopHead
  <2>2. QED
    BY <1>1, <2>1, OwnMove DEF LoopHead
<1>2. CASE PreProcessJob(j)
  BY <1>2, OwnMove DEF PreProcessJob
<1>3. CASE PreProcessPanic(j)
  BY <1>3, OwnMove DEF PreProcessPanic, Recover
<1>4. CASE SendPreProcessed(j)
  <2>1. CASE Finished(j)
    BY <1>4, <2>1, OwnMove DEF SendPreProcessed
  <2>2. CASE ~Finished(j)
    <3>1. /\ pc[j] = "sendPre"
          /\ Goto(j, "toQueue")
          /\ wg' = [wg EXCEPT ![j] = @ + 1]
          /\ UNCHANGED <<qg, fifo, wk, dropped>>
      BY <1>4, <2>2 DEF SendPreProcessed
    <3>2. \A k \in Jobs : (Held(k)' <=> Held(k)) /\ (InFifo(k)' <=> InFifo(k))
      BY <3>1 DEF Held, InFifo
    <3>3. /\ pc'[j] = "toQueue"
          /\ \A k \in Jobs \ {j} : pc'[k] = pc[k] /\ wg'[k] = wg[k]
      BY <1>0, <3>1 DEF Goto
    <3>4. wg[j] = 0
      BY <1>0, <3>1 DEF OwnInv
    <3>5. wg'[j] = 1
      BY <1>0, <3>1, <3>4
    <3>6. QED
      BY <1>0, <3>1, <3>2, <3>3, <3>5 DEF OwnInv
  <2>3. QED
    BY <2>1, <2>2
<1>5. CASE SendToQueue(j)
  <2>1. /\ pc[j] = "toQueue" /\ qg.at = "receive"
        /\ qg'.at = "check" /\ qg'.job = j
        /\ UNCHANGED <<wg, fifo, wk, dropped>>
    BY <1>5 DEF SendToQueue
  <2>2. pc'[j] = "waiting" /\ \A k \in Jobs \ {j} : pc'[k] = pc[k]
    BY <1>0, <1>5 DEF SendToQueue, Goto
  <2>3. \A k \in Jobs : InFifo(k)' <=> InFifo(k)
    BY <2>1 DEF InFifo
  <2>4. \A k \in Jobs : Held(k)' <=> Held(k) \/ k = j
    BY <2>1, <2>3 DEF Held, OwnInv
  <2>5. ~Held(j) /\ j \notin dropped /\ wg[j] = 1
    BY <2>1 DEF OwnInv
  <2>6. QED
    BY <1>0, <2>1, <2>2, <2>3, <2>4, <2>5 DEF OwnInv, Held
<1>6. CASE Resume(j)
  <2>1. PICK l \in {"sendProc", "post"} : Goto(j, l)
    BY <1>6 DEF Resume
  <2>2. pc[j] = "waiting" /\ wg[j] = 0 /\ UNCHANGED <<wg, qg, fifo, wk, dropped>>
    BY <1>6 DEF Resume
  <2>3. \A k \in Jobs : (Held(k)' <=> Held(k)) /\ (InFifo(k)' <=> InFifo(k))
    BY <2>2 DEF Held, InFifo
  <2>4. pc'[j] = l /\ \A k \in Jobs \ {j} : pc'[k] = pc[k]
    BY <1>0, <2>1 DEF Goto
  <2>5. ~Held(j) /\ j \notin dropped
    BY <2>2 DEF OwnInv
  <2>6. QED
    BY <1>0, <2>2, <2>3, <2>4, <2>5 DEF OwnInv
<1>7. CASE SendProcessed(j)
  BY <1>7, OwnMove DEF SendProcessed
<1>8. CASE SendProcessedAgain(j)
  BY <1>8, OwnMove DEF SendProcessedAgain
<1>9. CASE PostProcessJob(j)
  <2>1. PICK l \in {"sendPost", "loop"} : Goto(j, l)
    BY <1>9 DEF PostProcessJob
  <2>2. QED
    BY <1>9, <2>1, OwnMove DEF PostProcessJob
<1>10. CASE PostProcessPanic(j)
  BY <1>10, OwnMove DEF PostProcessPanic, Recover
<1>11. CASE SendPostProcessed(j)
  BY <1>11, OwnMove DEF SendPostProcessed
<1>12. CASE SendRecovered(j)
  BY <1>12, OwnMove DEF SendRecovered
<1>13. CASE DeleteHistory(j)
  BY <1>13, OwnFrame DEF DeleteHistory
<1>14. QED
  BY <1>1, <1>2, <1>3, <1>4, <1>5, <1>6, <1>7, <1>8, <1>9, <1>10, <1>11, <1>12,
     <1>13 DEF Handler

LEMMA OwnQueue ==
    ASSUME TypeOK, OwnInv, Queue
    PROVE  OwnInv'
<1>0. PICK q \in Jobs : q = qg.job
  BY DEF TypeOK, OwnInv, Queue, QueueCheck, QueueEnqueue
<1>1. /\ NoJob \notin Jobs /\ fifo \in Seq(Jobs) /\ dropped \subseteq Jobs
      /\ qg \in [at : {"receive", "check", "enqueue"}, job : Jobs \cup {NoJob}]
      /\ Len(fifo) \in Nat
      /\ UNCHANGED <<pc, wg, wk>>
  BY DEF TypeOK, Queue, QueueCheck, QueueEnqueue
<1>2. Held(q) /\ ~InFifo(q) /\ wk.job # q
  BY <1>0 DEF Held, OwnInv
<1>3. CASE QueueCheck /\ MaxSize <= Len(fifo)
  <2>1. /\ dropped' = dropped \cup {q} /\ fifo' = fifo
        /\ qg'.at = "receive" /\ qg'.job = NoJob
    BY <1>0, <1>3 DEF QueueCheck
  <2>2. \A k \in Jobs : InFifo(k)' <=> InFifo(k)
    BY <2>1 DEF InFifo
  <2>3. \A k \in Jobs : Held(k) <=> Held(k)' \/ k = q
    BY <1>0, <1>1, <2>1, <2>2 DEF Held
  <2>4. ~Held(q)'
    BY <1>1, <1>2, <2>1, <2>2 DEF Held
  <2>5. QED
    BY <1>1, <2>1, <2>2, <2>3, <2>4 DEF OwnInv
<1>4. CASE QueueCheck /\ ~(MaxSize <= Len(fifo))
  <2>1. /\ dropped' = dropped /\ fifo' = fifo /\ qg' = [qg EXCEPT !.at = "enqueue"]
        /\ qg.at = "check"
    BY <1>4 DEF QueueCheck
  <2>2. qg'.at = "enqueue" /\ qg'.job = q /\ Len(fifo) < MaxSize
    BY <1>0, <1>1, <1>4, <2>1
  <2>3. \A k \in Jobs : (Held(k)' <=> Held(k)) /\ (InFifo(k)' <=> InFifo(k))
    BY <1>0, <1>1, <2>1, <2>2 DEF Held, InFifo
  <2>4. QED
    BY <1>0, <1>1, <2>1, <2>2, <2>3 DEF OwnInv
<1>5. CASE QueueEnqueue
  <2>1. /\ dropped' = dropped /\ fifo' = Append(fifo, q) /\ qg.at = "enqueue"
        /\ qg'.at = "receive" /\ qg'.job = NoJob
    BY <1>0, <1>5 DEF QueueEnqueue
  <2>2. /\ Len(fifo') = Len(fifo) + 1
        /\ \A i \in 1..Len(fifo) : fifo'[i] = fifo[i]
        /\ fifo'[Len(fifo) + 1] = q
    BY <1>1, <2>1
  <2>3. \A k \in Jobs : InFifo(k)' <=> InFifo(k) \/ k = q
    BY <1>1, <2>2 DEF InFifo
  <2>4. \A k \in Jobs : Held(k)' <=> Held(k)
    BY <1>0, <1>1, <2>1, <2>3 DEF Held
  <2>5. \A m, n \in 1..Len(fifo') : fifo'[m] = fifo'[n] => m = n
    BY <1>1, <1>2, <2>2 DEF OwnInv, InFifo
  <2>6. Len(fifo') <= MaxSize
    BY <1>1, <2>1, <2>2 DEF OwnInv
  <2>7. QED
    BY <1>1, <1>2, <2>1, <2>3, <2>4, <2>5, <2>6 DEF OwnInv
<1>6. QED
  BY <1>3, <1>4, <1>5 DEF Queue, QueueCheck

\* finished.Done() ends the ownership of the worker.
LEMMA OwnDone ==
    ASSUME TypeOK, OwnInv, wk.at # "idle", Done,
           UNCHANGED <<pc, qg, fifo, dropped>>
    PROVE  OwnInv'
<1>1. /\ wk.job \in Jobs /\ wg \in [Jobs -> {0, 1}] /\ dropped \subseteq Jobs
      /\ NoJob \notin Jobs
  BY DEF TypeOK, OwnInv
<1>2. Held(wk.job)
  BY DEF Held
<1>3. wg[wk.job] = 1 /\ wk.job \notin dropped /\ pc[wk.job] = "waiting"
  BY <1>1, <1>2 DEF OwnInv
<1>4. wg'[wk.job] = 0 /\ \A k \in Jobs \ {wk.job} : wg'[k] = wg[k]
  BY <1>1, <1>3 DEF Done
<1>5. wk'.at = "idle" /\ wk'.job = NoJob
  BY DEF Done
<1>6. \A k \in Jobs : InFifo(k)' <=> InFifo(k)
  BY DEF InFifo
<1>7. ~InFifo(wk.job) /\ qg.job # wk.job
  BY <1>1 DEF OwnInv
<1>8. \A k \in Jobs : Held(k)' <=> Held(k) /\ k # wk.job
  BY <1>1, <1>5, <1>6, <1>7 DEF Held
<1>9. QED
  BY <1>1, <1>3, <1>4, <1>5, <1>6, <1>8 DEF OwnInv

LEMMA OwnWorker ==
    ASSUME TypeOK, OwnInv, Worker
    PROVE  OwnInv'
<1>1. CASE WorkerDequeue
  <2>0. PICK h \in Jobs : h = Head(fifo)
    BY <1>1 DEF WorkerDequeue, TypeOK
  <2>1. /\ wk.at = "idle" /\ fifo # << >> /\ fifo' = Tail(fifo)
        /\ wk' = [at |-> "sendRunning", job |-> h]
        /\ UNCHANGED <<pc, wg, qg, dropped>>
    BY <1>1, <2>0 DEF WorkerDequeue
  <2>2. fifo \in Seq(Jobs) /\ dropped \subseteq Jobs /\ NoJob \notin Jobs
    BY DEF TypeOK
  <2>3. /\ h = fifo[1] /\ Len(fifo) \in Nat /\ 1 <= Len(fifo)
        /\ Len(fifo') = Len(fifo) - 1
        /\ \A i \in 1..Len(fifo') : fifo'[i] = fifo[i + 1]
    BY <2>0, <2>1, <2>2
  <2>4. wk.job = NoJob
    BY <2>1 DEF OwnInv
  <2>5. \A m, n \in 1..Len(fifo) : fifo[m] = fifo[n] => m = n
    BY DEF OwnInv
  <2>6. \A k \in Jobs : InFifo(k)' => InFifo(k)
    BY <2>3 DEF InFifo
  <2>7. \A k \in Jobs : InFifo(k) => InFifo(k)' \/ k = h
    <3> SUFFICES ASSUME NEW k \in Jobs, NEW i \in 1..Len(fifo), fifo[i] = k, k # h
                 PROVE  InFifo(k)'
      BY DEF InFifo
    <3>1. i - 1 \in 1..Len(fifo')
      BY <2>3
    <3>2. fifo'[i - 1] = k
      BY <2>3, <3>1
    <3>3. QED
      BY <3>1, <3>2 DEF InFifo
  <2>8. ~InFifo(h)' /\ InFifo(h)
    BY <2>3, <2>5 DEF InFifo
  <2>9. wk'.job = h /\ wk'.at = "sendRunning"
    BY <2>1
  <2>10. \A k \in Jobs : Held(k)' <=> Held(k)
    BY <2>1, <2>2, <2>4, <2>6, <2>7, <2>8, <2>9 DEF Held
  <2>11. \A m, n \in 1..Len(fifo') : fifo'[m] = fifo'[n] => m = n
    BY <2>3, <2>5
  <2>12. Len(fifo') <= MaxSize
    BY <2>3 DEF OwnInv
  <2>13. qg.job # h
    BY <2>8 DEF OwnInv
  <2>14. QED
    BY <2>1, <2>2, <2>6, <2>8, <2>9, <2>10, <2>11, <2>12, <2>13 DEF OwnInv
<1>2. ASSUME wk.at # "idle", UNCHANGED <<pc, wg, qg, fifo, dropped>>,
             NEW l \in {"process", "sendPanic"}, wk' = [wk EXCEPT !.at = l]
      PROVE  OwnInv'
  <2>1. wk'.job = wk.job /\ wk'.at # "idle" /\ dropped \subseteq Jobs
    BY <1>2 DEF TypeOK
  <2>2. \A k \in Jobs : (Held(k)' <=> Held(k)) /\ (InFifo(k)' <=> InFifo(k))
    BY <1>2, <2>1 DEF Held, InFifo
  <2>3. QED
    BY <1>2, <2>1, <2>2 DEF OwnInv
<1>3. CASE WorkerSendRunning
  BY <1>2, <1>3 DEF WorkerSendRunning
<1>4. CASE WorkerProcess
  BY <1>4, OwnDone DEF WorkerProcess
<1>5. CASE WorkerPanic
  BY <1>2, <1>5 DEF WorkerPanic
<1>6. CASE WorkerSendPanic
  BY <1>6, OwnDone DEF WorkerSendPanic
<1>7. QED
  BY <1>1, <1>3, <1>4, <1>5, <1>6 DEF Worker

LEMMA OwnNext ==
    ASSUME TypeOK, OwnInv, [Next]_vars
    PROVE  OwnInv'
<1>1. ASSUME NEW j \in Jobs, NEW s \in {"READY", "FAILED"}, HandleJob(j, s)
      PROVE  OwnInv'
  BY <1>1, OwnMove DEF HandleJob
<1>3. CASE Update \/ Quiescent \/ UNCHANGED vars
  BY <1>3, OwnFrame DEF Update, Quiescent, vars
<1>4. QED
  BY <1>1, <1>3, OwnHandler, OwnQueue, OwnWorker DEF Next

-----------------------------------------------------------------------------
(* What follows for every set of jobs, every queue size and every mix of   *)
(* job types.                                                              *)

LEMMA Inductive == Spec => [](TypeOK /\ OwnInv)
<1>1. Init => TypeOK /\ OwnInv
  BY TypeInit, OwnInit
<1>2. TypeOK /\ OwnInv /\ [Next]_vars => (TypeOK /\ OwnInv)'
  BY TypeNext, OwnNext
<1>3. QED
  BY <1>1, <1>2, PTL DEF Spec

(***************************************************************************)
(* Every variable keeps its type.  In particular no WaitGroup counter ever *)
(* leaves {0, 1}: sync.WaitGroup panics on a negative counter, and a       *)
(* counter of 2 would block the handler for ever.                          *)
(***************************************************************************)
THEOREM TypeCorrect == Spec => []TypeOK
BY Inductive, PTL

(***************************************************************************)
(* The lock-free sharing of JobData between the handler and the worker is  *)
(* safe: while the queue goroutine, the queue or the worker has the job,   *)
(* its handler is blocked in wg.Wait, and only one of them has it.         *)
(***************************************************************************)
THEOREM OneOwner == Spec => []JobDataHasOneOwner
<1>1. TypeOK /\ OwnInv => JobDataHasOneOwner
  <2> SUFFICES ASSUME TypeOK, OwnInv
               PROVE  JobDataHasOneOwner
    OBVIOUS
  <2>1. \A j \in Jobs : Held(j) => pc[j] = "waiting" /\ wg[j] = 1
    BY DEF OwnInv
  <2>2. QED
    BY <2>1 DEF OwnInv, JobDataHasOneOwner
<1>2. QED
  BY <1>1, Inductive, PTL

(***************************************************************************)
(* The full queue is the only thing that leaves a handler in wg.Wait with  *)
(* nobody to call Done: neither a panic in Process nor any interleaving of *)
(* the worker with the queue goroutine does.                               *)
(***************************************************************************)
THEOREM NoneStranded == Spec => []NoHandlerStranded
<1>1. OwnInv => NoHandlerStranded
  BY DEF OwnInv, NoHandlerStranded
<1>2. QED
  BY <1>1, Inductive, PTL

(***************************************************************************)
(* The queue never holds more than maxSize jobs.                           *)
(***************************************************************************)
THEOREM Bounded == Spec => []QueueBounded
<1>1. OwnInv => QueueBounded
  BY DEF OwnInv, QueueBounded
<1>2. QED
  BY <1>1, Inductive, PTL
=============================================================================
