--------------------------- MODULE HistoryProofs ---------------------------
(***************************************************************************)
(* The way of a job through Scheduler, for any set of jobs of any types    *)
(* and any queue size: the statuses that are stored of a job follow each   *)
(* other as they may, a job whose handler panicked is FAILED, and          *)
(* Scheduler implements Pipeline.                                          *)
(***************************************************************************)
EXTENDS VerdictProofs

-----------------------------------------------------------------------------
(* The history of a job, and the fate of one whose handler panicked: what  *)
(* each position of the handler says of the statuses that were stored.     *)

\* The last entry of the history h is s.
Ends(h, s) == h # << >> /\ h[Len(h)] = s

\* The part of HistoryLegal that does not depend on where the handler is.
LegalHistory(h) ==
    \A i \in 1..Len(h) :
        /\ i = 1 => h[i] = "READY"
        /\ h[i] = "RUNNING" => i > 1 /\ h[i - 1] = "READY"
        /\ i < Len(h) => h[i] \notin Terminal

\* The history h of a job in status s when its handler is at l, its WaitGroup
\* counter is n, and running says that the worker has the job.
HistoryAt(l, n, running, h, s) ==
    /\ l # "rejected" => LegalHistory(h)
    /\ l = "absent" => h = << >>
    /\ l = "loop" => h = << >> \/ h[Len(h)] \notin Terminal
    /\ l \in {"pre", "sendPre", "toQueue"} \/ (l = "waiting" /\ n = 1 /\ ~running)
          => Ends(h, "READY")
    /\ l \in {"sendProc", "post"} \/ (l = "waiting" /\ (n = 0 \/ running))
          => Ends(h, "RUNNING")
    /\ l \in {"sendProcAgain", "sendPost", "sendPanic"} => Ends(h, s)
    /\ l \in {"finished", "recovered"} => h = << >> \/ Ends(h, s)

\* A job that panicked is FAILED and on its way out, unless it is an estimation
\* job, whose IsFinished does not look at the status.
PanicFate(j) ==
    j \in panicked /\ KindOf[j] # "estimation" =>
        /\ job[j].status = "FAILED"
        /\ \/ pc[j] \in {"sendPanic", "recovered", "sendProc", "sendProcAgain", "finished"}
           \/ pc[j] = "waiting" /\ (wg[j] = 0 \/ (wk.job = j /\ wk.at = "sendPanic"))

LogOK(j) ==
    /\ HistoryAt(pc[j], wg[j], wk.job = j, hist[j], job[j].status)
    /\ PanicFate(j)

LogInv == \A j \in Jobs : LogOK(j)

\* A legal history stays legal when an entry is added that may follow the last.
LEMMA AppendLegal ==
    ASSUME NEW h \in Seq(Status), NEW st \in Status, LegalHistory(h),
           h = << >> => st = "READY",
           h # << >> => h[Len(h)] \notin Terminal,
           st = "RUNNING" => Ends(h, "READY")
    PROVE  LegalHistory(Append(h, st)) /\ Ends(Append(h, st), st)
<1> DEFINE g == Append(h, st)
<1>0. h = << >> <=> Len(h) = 0
  OBVIOUS
<1>1. /\ Len(h) \in Nat /\ Len(g) = Len(h) + 1 /\ g[Len(h) + 1] = st
      /\ \A i \in 1..Len(h) : g[i] = h[i]
      /\ g # << >>
  <2>1. Len(h) \in Nat /\ Len(g) = Len(h) + 1 /\ g[Len(h) + 1] = st
    OBVIOUS
  <2>2. \A i \in 1..Len(h) : g[i] = h[i]
    OBVIOUS
  <2>3. g # << >>
    BY <2>1
  <2>4. QED
    BY <2>1, <2>2, <2>3
<1> HIDE DEF g
<1>2. ASSUME NEW i \in 1..Len(h)
      PROVE  /\ i = 1 => g[i] = "READY"
             /\ g[i] = "RUNNING" => i > 1 /\ g[i - 1] = "READY"
             /\ i < Len(g) => g[i] \notin Terminal
  BY <1>0, <1>1, <1>2 DEF LegalHistory
<1>3. /\ Len(g) = 1 => g[Len(g)] = "READY"
      /\ g[Len(g)] = "RUNNING" => Len(g) > 1 /\ g[Len(g) - 1] = "READY"
  BY <1>0, <1>1 DEF Ends
<1>4. LegalHistory(g) /\ Ends(g, st)
  BY <1>1, <1>2, <1>3 DEF LegalHistory, Ends
<1>5. QED
  BY <1>4 DEF g

\* Record adds one entry to one history.
LEMMA RecordAppends ==
    ASSUME TypeOK, NEW j \in Jobs, NEW st, Record(j, st)
    PROVE  /\ hist'[j] = Append(hist[j], st)
           /\ \A i \in Jobs \ {j} : hist'[i] = hist[i]
BY DEF TypeOK, Record

\* What is known of the other jobs stays known when one job moves.
LEMMA LogFrame ==
    ASSUME LogInv, NEW j \in Jobs, LogOK(j)',
           \A i \in Jobs \ {j} :
               /\ pc'[i] = pc[i] /\ wg'[i] = wg[i] /\ hist'[i] = hist[i]
               /\ job'[i] = job[i] /\ (i \in panicked' <=> i \in panicked)
               /\ wk'.job = i <=> wk.job = i
               /\ wk.job = i => wk'.at = wk.at
    PROVE  LogInv'
BY DEF LogInv, LogOK, PanicFate

\* A handler touches nothing of another job.
LEMMA HandlerAlone ==
    ASSUME TypeOK, NEW j \in Jobs, Handler(j)
    PROVE  /\ wk' = wk
           /\ \A i \in Jobs \ {j} :
                 /\ pc'[i] = pc[i] /\ wg'[i] = wg[i] /\ hist'[i] = hist[i]
                 /\ job'[i] = job[i] /\ (i \in panicked' <=> i \in panicked)
<1>1. wk' = wk /\ \A i \in Jobs \ {j} : job'[i] = job[i] /\ (i \in panicked' <=> i \in panicked)
  BY DEF TypeOK, Handler, LoopHead, PreProcessJob, PreProcessPanic,
         SendPreProcessed, SendToQueue, Resume, SendProcessed, SendProcessedAgain,
         PostProcessJob, PostProcessPanic, Recover, SendPostProcessed, SendRecovered,
         DeleteHistory
<1>2. \A i \in Jobs \ {j} : pc'[i] = pc[i] /\ wg'[i] = wg[i]
  BY DEF TypeOK, Handler, LoopHead, PreProcessJob, PreProcessPanic,
         SendPreProcessed, SendToQueue, Resume, SendProcessed, SendProcessedAgain,
         PostProcessJob, PostProcessPanic, Recover, SendPostProcessed, SendRecovered,
         DeleteHistory, Goto
<1>3. \A i \in Jobs \ {j} : hist'[i] = hist[i]
  BY DEF TypeOK, Handler, LoopHead, PreProcessJob, PreProcessPanic,
         SendPreProcessed, SendToQueue, Resume, SendProcessed, SendProcessedAgain,
         PostProcessJob, PostProcessPanic, Recover, SendPostProcessed, SendRecovered,
         DeleteHistory, Record
<1>4. QED
  BY <1>1, <1>2, <1>3

\* A FAILED job is finished, unless it is an estimation job.
LEMMA FailedIsFinished ==
    ASSUME NEW k \in Kinds \ {"estimation"}, NEW d, d.status = "FAILED"
    PROVE  IsFinished(k, d)
BY DEF Kinds, IsFinished, IsFinishedNormal, IsFinishedSampling, IsFinishedManual,
   Terminal

LEMMA RecoverLog ==
    ASSUME TypeOK, NEW j \in Jobs, LogOK(j), NEW d \in JobData,
           pc[j] \in {"pre", "post"}, Recover(j, d)
    PROVE  LogOK(j)'
<1>1. /\ Goto(j, "sendPanic") /\ job' = [job EXCEPT ![j] = [d EXCEPT !.status = "FAILED"]]
      /\ Record(j, "FAILED")
  BY DEF Recover
<1>2. pc'[j] = "sendPanic" /\ hist'[j] = Append(hist[j], "FAILED")
  BY <1>1, GotoMoves, RecordAppends
<1>3. job'[j].status = "FAILED"
  <2>1. [d EXCEPT !.status = "FAILED"].status = "FAILED"
    BY DEF JobData
  <2>2. QED
    BY <1>1, <2>1, JobMoves
<1>4. LegalHistory(hist[j]) /\ hist[j] # << >> /\ hist[j][Len(hist[j])] \notin Terminal
  BY DEF LogOK, HistoryAt, Ends, Terminal
<1>5. LegalHistory(hist'[j]) /\ Ends(hist'[j], "FAILED")
  BY <1>2, <1>4, AppendLegal, Labels DEF TypeOK
<1>6. QED
  BY <1>2, <1>3, <1>5 DEF LogOK, HistoryAt, PanicFate

LEMMA HandlerLog ==
    ASSUME TypeOK, OwnInv, JobsOK, LogInv, NEW j \in Jobs, Handler(j)
    PROVE  LogInv'
<1> SUFFICES LogOK(j)'
  BY HandlerAlone, LogFrame
<1>0. /\ job[j] \in JobData /\ KindOf[j] \in Kinds /\ hist[j] \in Seq(Status)
      /\ job[j].status \in Status
      /\ DataOK(KindOf[j], pc[j], wg[j], job[j]) /\ LogOK(j)
      /\ wk' = wk
  <2>1. job[j] \in JobData /\ KindOf[j] \in Kinds /\ hist[j] \in Seq(Status)
    BY KindAssumption DEF TypeOK
  <2>2. job[j].status \in Status
    BY <2>1 DEF JobData
  <2>3. QED
    BY <2>1, <2>2, HandlerAlone DEF JobsOK, LogInv
<1>1. CASE LoopHead(j)
  <2>1. /\ pc[j] = "loop" /\ Record(j, job[j].status) /\ UNCHANGED panicked
        /\ Goto(j, IF job[j].status = "READY" THEN "pre" ELSE "rejected")
        /\ job' = [job EXCEPT ![j] = [job[j] EXCEPT !.useInfo = FALSE]]
    BY <1>1 DEF LoopHead
  <2>2. /\ pc'[j] = IF job[j].status = "READY" THEN "pre" ELSE "rejected"
        /\ hist'[j] = Append(hist[j], job[j].status)
    BY <2>1, GotoMoves, RecordAppends
  <2>3. ~(j \in panicked' /\ KindOf[j] # "estimation")
    BY <1>0, <2>1 DEF LogOK, PanicFate
  <2>4. CASE job[j].status = "READY"
    <3>1. LegalHistory(hist'[j]) /\ Ends(hist'[j], "READY")
      BY <1>0, <2>1, <2>2, <2>4, AppendLegal DEF LogOK, HistoryAt
    <3>2. QED
      BY <2>2, <2>3, <2>4, <3>1 DEF LogOK, HistoryAt, PanicFate
  <2>5. CASE job[j].status # "READY"
    BY <2>2, <2>3, <2>5 DEF LogOK, HistoryAt, PanicFate
  <2>6. QED
    BY <2>4, <2>5
<1>2. CASE PreProcessJob(j)
  <2>1. /\ pc[j] = "pre" /\ pc'[j] = "sendPre" /\ UNCHANGED <<panicked, hist>>
    BY <1>2, GotoMoves DEF PreProcessJob
  <2>2. QED
    BY <1>0, <2>1 DEF LogOK, HistoryAt, PanicFate
<1>3. CASE PreProcessPanic(j)
  BY <1>0, <1>3, RecoverLog DEF PreProcessPanic
<1>4. CASE SendPreProcessed(j)
  <2>1. /\ pc[j] = "sendPre" /\ UNCHANGED <<panicked, job>>
    BY <1>4 DEF SendPreProcessed
  <2>2. CASE Finished(j)
    <3>1. pc'[j] = "finished" /\ hist'[j] = Append(hist[j], job[j].status)
      BY <1>4, <2>2, GotoMoves, RecordAppends DEF SendPreProcessed
    <3>2. job[j].status \in Terminal
      BY <1>0, <2>1, <2>2 DEF Finished, DataOK, Reached
    <3>3. LegalHistory(hist'[j]) /\ Ends(hist'[j], job[j].status)
      <4>1. /\ LegalHistory(hist[j]) /\ hist[j] # << >>
            /\ hist[j][Len(hist[j])] \notin Terminal
        BY <1>0, <2>1 DEF LogOK, HistoryAt, Ends, Terminal
      <4>2. job[j].status # "RUNNING"
        BY <3>2 DEF Terminal
      <4>3. QED
        BY <1>0, <3>1, <4>1, <4>2, AppendLegal
    <3>4. QED
      BY <1>0, <2>1, <3>1, <3>3 DEF LogOK, HistoryAt, PanicFate
  <2>3. CASE ~Finished(j)
    <3>1. pc'[j] = "toQueue" /\ UNCHANGED hist
      BY <1>4, <2>3, GotoMoves DEF SendPreProcessed
    <3>2. QED
      BY <1>0, <2>1, <3>1 DEF LogOK, HistoryAt, PanicFate
  <2>4. QED
    BY <2>2, <2>3
<1>5. CASE SendToQueue(j)
  <2>1. pc[j] = "toQueue" /\ pc'[j] = "waiting" /\ UNCHANGED <<job, wg, hist, panicked>>
    BY <1>5, GotoMoves DEF SendToQueue
  <2>2. wg[j] = 1 /\ wk.job # j
    BY <2>1 DEF OwnInv, Held
  <2>3. QED
    BY <1>0, <2>1, <2>2 DEF LogOK, HistoryAt, PanicFate
<1>6. CASE Resume(j)
  <2>1. /\ pc[j] = "waiting" /\ wg[j] = 0 /\ UNCHANGED <<hist, panicked>>
        /\ job' = [job EXCEPT ![j] = [job[j] EXCEPT !.useInfo = TRUE]]
    BY <1>6 DEF Resume
  <2>2. PICK l \in {"sendProc", "post"} :
            Goto(j, l) /\ (IsFinished(KindOf[j], job[j]) <=> l = "sendProc")
    BY <1>6 DEF Resume, Finished
  <2>3. pc'[j] = l
    BY <2>2, GotoMoves
  <2>4. job'[j].status = job[j].status
    BY <1>0, <2>1, JobMoves DEF JobData
  <2>5. j \in panicked /\ KindOf[j] # "estimation" => l = "sendProc"
    BY <1>0, <2>2, FailedIsFinished DEF LogOK, PanicFate
  <2>6. QED
    BY <1>0, <2>1, <2>3, <2>4, <2>5 DEF LogOK, HistoryAt, PanicFate
<1>7. CASE SendProcessed(j)
  <2>1. /\ pc[j] = "sendProc" /\ pc'[j] = "sendProcAgain" /\ UNCHANGED <<job, panicked>>
        /\ hist'[j] = Append(hist[j], job[j].status)
    BY <1>7, GotoMoves, RecordAppends DEF SendProcessed
  <2>2. job[j].status \in Terminal
    BY <1>0, <2>1 DEF DataOK, Reached
  <2>3. LegalHistory(hist'[j]) /\ Ends(hist'[j], job[j].status)
    <3>1. /\ LegalHistory(hist[j]) /\ hist[j] # << >>
          /\ hist[j][Len(hist[j])] \notin Terminal
      BY <1>0, <2>1 DEF LogOK, HistoryAt, Ends, Terminal
    <3>2. job[j].status # "RUNNING"
      BY <2>2 DEF Terminal
    <3>3. QED
      BY <1>0, <2>1, <3>1, <3>2, AppendLegal
  <2>4. QED
    BY <1>0, <2>1, <2>3 DEF LogOK, HistoryAt, PanicFate
<1>8. CASE SendProcessedAgain(j) \/ SendPostProcessed(j) \/ SendRecovered(j)
  <2>1. PICK l \in {"finished", "recovered"} : Goto(j, l) /\ UNCHANGED <<job, hist, panicked>>
    BY <1>8 DEF SendProcessedAgain, SendPostProcessed, SendRecovered
  <2>2. /\ pc'[j] = l /\ pc[j] \in {"sendProcAgain", "sendPost", "sendPanic"}
        /\ pc[j] # "sendPanic" => l = "finished"
    BY <1>8, <2>1, GotoMoves DEF SendProcessedAgain, SendPostProcessed, SendRecovered
  <2>3. QED
    BY <1>0, <2>1, <2>2 DEF LogOK, HistoryAt, PanicFate
<1>9. CASE PostProcessJob(j)
  <2>1. PICK d \in PostProcess(KindOf[j], job[j]) :
            /\ job' = [job EXCEPT ![j] = d]
            /\ IF IsFinished(KindOf[j], d)
               THEN Goto(j, "sendPost") /\ Record(j, d.status)
               ELSE Goto(j, "loop") /\ UNCHANGED hist
    BY <1>9 DEF PostProcessJob
  <2>2. pc[j] = "post" /\ UNCHANGED panicked
    BY <1>9 DEF PostProcessJob
  <2>3. job'[j] = d /\ d \in JobData /\ d.status \in Status
    BY <1>0, <2>1, JobMoves, PostProcessType, SetField, Labels
  <2>4. ~(j \in panicked' /\ KindOf[j] # "estimation")
    BY <1>0, <2>2 DEF LogOK, PanicFate
  <2>5. /\ LegalHistory(hist[j]) /\ hist[j] # << >>
        /\ hist[j][Len(hist[j])] \notin Terminal
    BY <1>0, <2>2 DEF LogOK, HistoryAt, Ends, Terminal
  <2>6. CASE IsFinished(KindOf[j], d)
    <3>1. pc'[j] = "sendPost" /\ hist'[j] = Append(hist[j], d.status)
      BY <2>1, <2>6, GotoMoves, RecordAppends
    <3>2. d.status # "RUNNING"
      <4>1. DataOK(KindOf[j], "post", wg[j], job[j])
        BY <1>0, <2>2
      <4>2. DataOK(KindOf[j], "sendPost", wg[j], d)
        BY <1>0, <2>6, <4>1, PostProcessData
      <4>3. QED
        BY <4>2 DEF DataOK, Reached, Terminal
    <3>3. LegalHistory(hist'[j]) /\ Ends(hist'[j], d.status)
      BY <1>0, <2>3, <2>5, <3>1, <3>2, AppendLegal
    <3>4. QED
      BY <2>3, <2>4, <3>1, <3>3 DEF LogOK, HistoryAt, PanicFate
  <2>7. CASE ~IsFinished(KindOf[j], d)
    <3>1. pc'[j] = "loop" /\ UNCHANGED hist
      BY <2>1, <2>7, GotoMoves
    <3>2. QED
      BY <2>4, <2>5, <3>1 DEF LogOK, HistoryAt, PanicFate
  <2>8. QED
    BY <2>6, <2>7
<1>10. CASE PostProcessPanic(j)
  <2>1. PostProcessPanics(job[j]) \in JobData
    BY <1>0 DEF PostProcessPanics, JobData
  <2>2. QED
    BY <1>0, <1>10, <2>1, RecoverLog DEF PostProcessPanic
<1>11. CASE DeleteHistory(j)
  <2>1. /\ pc[j] \in {"rejected", "finished", "recovered"} /\ hist'[j] = << >>
        /\ UNCHANGED <<pc, job, wg, panicked>>
    BY <1>11 DEF DeleteHistory, Exits, TypeOK
  <2>2. LegalHistory(<< >>)
    BY DEF LegalHistory
  <2>3. QED
    BY <1>0, <2>1, <2>2 DEF LogOK, HistoryAt, PanicFate
<1>12. QED
  BY <1>1, <1>2, <1>3, <1>4, <1>5, <1>6, <1>7, <1>8, <1>9, <1>10, <1>11 DEF Handler

LEMMA WorkerLog ==
    ASSUME TypeOK, OwnInv, VerdictInv, LogInv, Worker
    PROVE  LogInv'
<1>0. JobsOK /\ PanicOK
  BY DEF VerdictInv
<1>1. CASE WorkerDequeue
  <2>1. PICK h \in Jobs : h = Head(fifo)
    BY <1>1 DEF WorkerDequeue, TypeOK
  <2>2. /\ wk.at = "idle" /\ fifo # << >> /\ wk' = [at |-> "sendRunning", job |-> h]
        /\ job' = [job EXCEPT ![h] = [job[h] EXCEPT !.status = "RUNNING"]]
        /\ Record(h, "RUNNING")
        /\ UNCHANGED <<pc, wg, panicked>>
    BY <1>1, <2>1 DEF WorkerDequeue
  <2>3. Held(h) /\ wk.job = NoJob /\ InFifo(h)
    <3>1. fifo \in Seq(Jobs)
      BY DEF TypeOK
    <3>2. 1 \in 1..Len(fifo) /\ fifo[1] = h
      BY <2>1, <2>2, <3>1
    <3>3. QED
      BY <2>2, <3>2 DEF Held, InFifo, OwnInv
  <2>4. pc[h] = "waiting" /\ wg[h] = 1 /\ wk.job # h
    BY <2>3, NoJobAssumption DEF OwnInv
  <2>5. LogOK(h) /\ hist[h] \in Seq(Status)
    BY DEF LogInv, TypeOK
  <2>6. /\ hist'[h] = Append(hist[h], "RUNNING")
        /\ \A i \in Jobs \ {h} : hist'[i] = hist[i]
    BY <2>2, RecordAppends
  <2>7. LegalHistory(hist'[h]) /\ Ends(hist'[h], "RUNNING")
    <3>1. LegalHistory(hist[h]) /\ Ends(hist[h], "READY")
      BY <2>4, <2>5 DEF LogOK, HistoryAt
    <3>2. QED
      BY <2>5, <2>6, <3>1, AppendLegal, Labels DEF Ends, Terminal
  <2>8. ~(h \in panicked' /\ KindOf[h] # "estimation")
    BY <2>2, <2>4, <2>5 DEF LogOK, PanicFate
  <2>9. LogOK(h)'
    BY <2>2, <2>4, <2>7, <2>8 DEF LogOK, HistoryAt, PanicFate
  <2>10. \A i \in Jobs \ {h} : job'[i] = job[i]
    BY <2>2, JobMoves
  <2>11. wk'.job = h /\ wk.job \notin Jobs
    BY <2>2, <2>3, NoJobAssumption
  <2>12. QED
    BY <2>2, <2>6, <2>9, <2>10, <2>11, LogFrame
<1>2. ASSUME wk.at # "idle"
      PROVE  /\ wk.job \in Jobs /\ pc[wk.job] = "waiting" /\ wg[wk.job] = 1
             /\ LogOK(wk.job) /\ Ends(hist[wk.job], "RUNNING")
             /\ LegalHistory(hist[wk.job])
  <2>1. wk.job \in Jobs /\ pc[wk.job] = "waiting" /\ wg[wk.job] = 1
    BY <1>0, <1>2, WorkersJob
  <2>2. LogOK(wk.job)
    BY <2>1 DEF LogInv
  <2>3. QED
    BY <2>1, <2>2 DEF LogOK, HistoryAt
<1>3. CASE WorkerSendRunning
  <2>1. PICK w \in Jobs : w = wk.job
    BY <1>2, <1>3 DEF WorkerSendRunning
  <2>2. /\ wk.at = "sendRunning" /\ wk'.job = w /\ UNCHANGED <<pc, job, wg, hist, panicked>>
    BY <1>3, <2>1 DEF WorkerSendRunning, TypeOK
  <2>3. LogOK(w)'
    BY <1>2, <2>1, <2>2 DEF LogOK, HistoryAt, PanicFate
  <2>4. QED
    BY <2>1, <2>2, <2>3, LogFrame
<1>4. CASE WorkerProcess
  <2>1. PICK w \in Jobs : w = wk.job
    BY <1>2, <1>4 DEF WorkerProcess
  <2>2. PICK d \in Process(KindOf[w], job[w]) : job' = [job EXCEPT ![w] = d]
    BY <1>4, <2>1 DEF WorkerProcess
  <2>3. wk.at = "process" /\ Done /\ UNCHANGED <<pc, hist, panicked>>
    BY <1>4 DEF WorkerProcess
  <2>4. wg'[w] = 0 /\ \A i \in Jobs \ {w} : wg'[i] = wg[i] /\ job'[i] = job[i]
    BY <1>2, <2>1, <2>2, <2>3, DoneCounts, JobMoves
  <2>5. wk'.job = NoJob
    BY <2>3 DEF Done
  <2>6. ~(w \in panicked' /\ KindOf[w] # "estimation")
    BY <1>2, <2>1, <2>3 DEF LogOK, PanicFate
  <2>7. LogOK(w)'
    BY <1>2, <2>1, <2>3, <2>4, <2>5, <2>6 DEF LogOK, HistoryAt, PanicFate
  <2>8. QED
    BY <2>1, <2>3, <2>4, <2>5, <2>7, NoJobAssumption, LogFrame
<1>5. CASE WorkerPanic
  <2>1. PICK w \in Jobs : w = wk.job
    BY <1>2, <1>5 DEF WorkerPanic
  <2>2. PICK d \in ProcessPanics(KindOf[w], job[w]) :
            job' = [job EXCEPT ![w] = [d EXCEPT !.status = "FAILED"]]
    BY <1>5, <2>1 DEF WorkerPanic
  <2>3. /\ wk.at = "process" /\ wk'.at = "sendPanic" /\ wk'.job = w
        /\ panicked' = panicked \cup {w}
        /\ UNCHANGED <<pc, wg, hist>>
    BY <1>5, <2>1 DEF WorkerPanic, TypeOK
  <2>4. job'[w].status = "FAILED" /\ \A i \in Jobs \ {w} : job'[i] = job[i]
    <3>1. d \in JobData
      BY KindAssumption, ProcessPanicsType DEF TypeOK
    <3>2. [d EXCEPT !.status = "FAILED"].status = "FAILED"
      BY <3>1 DEF JobData
    <3>3. QED
      BY <2>2, <3>2, JobMoves
  <2>5. LogOK(w)'
    BY <1>2, <2>1, <2>3, <2>4 DEF LogOK, HistoryAt, PanicFate
  <2>6. QED
    BY <2>1, <2>3, <2>4, <2>5, LogFrame
<1>6. CASE WorkerSendPanic
  <2>1. PICK w \in Jobs : w = wk.job
    BY <1>2, <1>6 DEF WorkerSendPanic
  <2>2. wk.at = "sendPanic" /\ Done /\ UNCHANGED <<pc, job, hist, panicked>>
    BY <1>6 DEF WorkerSendPanic
  <2>3. wg'[w] = 0 /\ \A i \in Jobs \ {w} : wg'[i] = wg[i]
    BY <1>2, <2>1, <2>2, DoneCounts
  <2>4. wk'.job = NoJob
    BY <2>2 DEF Done
  <2>5. LogOK(w)'
    BY <1>2, <2>1, <2>2, <2>3, <2>4 DEF LogOK, HistoryAt, PanicFate
  <2>6. QED
    BY <2>1, <2>2, <2>3, <2>4, <2>5, NoJobAssumption, LogFrame
<1>7. QED
  BY <1>1, <1>3, <1>4, <1>5, <1>6 DEF Worker

LEMMA LogNext ==
    ASSUME TypeOK, OwnInv, VerdictInv, LogInv, [Next]_vars
    PROVE  LogInv'
<1>1. ASSUME NEW j \in Jobs, NEW s \in {"READY", "FAILED"}, HandleJob(j, s)
      PROVE  LogInv'
  <2>1. /\ pc[j] = "absent" /\ Goto(j, "loop")
        /\ job' = [job EXCEPT ![j] = NewJobData(s)]
        /\ UNCHANGED <<wg, hist, wk, panicked>>
    BY <1>1 DEF HandleJob
  <2>2. pc'[j] = "loop" /\ \A i \in Jobs \ {j} : pc'[i] = pc[i] /\ job'[i] = job[i]
    BY <2>1, GotoMoves, JobMoves
  <2>3. LogOK(j)
    BY DEF LogInv
  <2>4. LogOK(j)'
    BY <2>1, <2>2, <2>3 DEF LogOK, HistoryAt, PanicFate
  <2>5. QED
    BY <2>1, <2>2, <2>4, LogFrame
<1>2. ASSUME NEW j \in Jobs, Handler(j)
      PROVE  LogInv'
  BY <1>2, HandlerLog DEF VerdictInv
<1>3. CASE Queue \/ Update \/ Quiescent \/ UNCHANGED vars
  <2>1. UNCHANGED <<pc, job, wg, hist, wk, panicked>>
    BY <1>3 DEF Queue, QueueCheck, QueueEnqueue, Update, Quiescent, vars
  <2>2. QED
    BY <2>1 DEF LogInv, LogOK, PanicFate
<1>4. QED
  BY <1>1, <1>2, <1>3, WorkerLog DEF Next

LEMMA LogInit == Init => LogInv
BY DEF Init, LogInv, LogOK, HistoryAt, LegalHistory, PanicFate

LEMMA LogInductive == Spec => []LogInv
<1>1. TypeOK /\ OwnInv /\ VerdictInv /\ LogInv /\ [Next]_vars => LogInv'
  BY LogNext
<1>2. QED
  BY <1>1, LogInit, VerdictInductive, PTL DEF Spec

(***************************************************************************)
(* The status history of every job that is handled is legal, whatever the  *)
(* phases answer and however often an SSE job goes round the loop: handler *)
(* and worker append to it in turn, and the entry the worker appends comes *)
(* directly after the READY of the same round.                             *)
(***************************************************************************)
THEOREM HistoriesLegal == Spec => []HistoryLegal
<1>1. LogInv => HistoryLegal
  BY DEF LogInv, LogOK, HistoryAt, LegalHistory, HistoryLegal, Exits, Ends
<1>2. QED
  BY <1>1, LogInductive, PTL

\* A job that is not an estimation job ends in FAILED once it has panicked.
PanicFails == \A j \in Jobs :
    /\ KindOf[j] # "estimation" /\ j \in panicked /\ pc[j] \in Exits
    => job[j].status = "FAILED"

(***************************************************************************)
(* A panic in any phase of a job ends it in FAILED, also among estimation  *)
(* jobs, as long as the job itself is not one: the recover of the worker   *)
(* sets FAILED before Done, and every other type is then finished.         *)
(***************************************************************************)
THEOREM PanicOfOthersFails == Spec => []PanicFails
<1>1. LogInv => PanicFails
  BY DEF LogInv, LogOK, PanicFate, PanicFails
<1>2. QED
  BY <1>1, LogInductive, PTL

(***************************************************************************)
(* Without estimation jobs every panic ends in FAILED.  The hypothesis     *)
(* cannot be dropped: the counts an estimation job has collected before    *)
(* the panic are post-processed, and the job may end in SUCCEEDED.         *)
(***************************************************************************)
THEOREM PanicAlwaysFails ==
    ASSUME \A j \in Jobs : KindOf[j] # "estimation"
    PROVE  Spec => []PanicEndsFailed
<1>1. PanicFails => PanicEndsFailed
  BY DEF PanicFails, PanicEndsFailed
<1>2. QED
  BY <1>1, PanicOfOthersFails, PTL

-----------------------------------------------------------------------------
(* Scheduler implements Pipeline.  The stage of a job is read off the      *)
(* state of the four sorts of goroutine; the ownership invariant says that *)
(* the readings exclude each other, and that the jobs in the queue are as  *)
(* many as it is long.                                                     *)

INSTANCE FiniteSetTheorems

stages == [j \in Jobs |-> Stage(j)]

\* Under the invariant the stage of a job is where it is held.
StageIs(j) ==
    /\ (Stage(j) = "absent") <=> (pc[j] = "absent")
    /\ (Stage(j) = "settled") <=> (pc[j] \in Exits)
    /\ (Stage(j) = "offered") <=> (qg.job = j)
    /\ (Stage(j) = "queued") <=> InFifo(j)
    /\ (Stage(j) = "running") <=> (wk.job = j)
    /\ (Stage(j) = "dropped") <=> (j \in dropped)
    /\ Stage(j) \in {"absent", "settled", "offered", "queued", "running", "dropped", "handling"}

LEMMA StageHeld ==
    ASSUME TypeOK, OwnInv, NEW j \in Jobs
    PROVE  StageIs(j)
<1>1. /\ qg.job = j => pc[j] = "waiting" /\ ~InFifo(j) /\ wk.job # j /\ j \notin dropped
      /\ InFifo(j) => pc[j] = "waiting" /\ qg.job # j /\ wk.job # j /\ j \notin dropped
      /\ wk.job = j => pc[j] = "waiting" /\ ~InFifo(j) /\ qg.job # j /\ j \notin dropped
      /\ j \in dropped => pc[j] = "waiting" /\ ~InFifo(j) /\ qg.job # j /\ wk.job # j
  BY DEF OwnInv, Held
<1>2. QED
  BY <1>1 DEF StageIs, Stage, Exits

\* The same in the next state.
LEMMA StageHeldNext ==
    ASSUME TypeOK', OwnInv', NEW j \in Jobs
    PROVE  StageIs(j)'
<1>1. /\ qg'.job = j => pc'[j] = "waiting" /\ ~InFifo(j)' /\ wk'.job # j /\ j \notin dropped'
      /\ InFifo(j)' => pc'[j] = "waiting" /\ qg'.job # j /\ wk'.job # j /\ j \notin dropped'
      /\ wk'.job = j => pc'[j] = "waiting" /\ ~InFifo(j)' /\ qg'.job # j /\ j \notin dropped'
      /\ j \in dropped' => pc'[j] = "waiting" /\ ~InFifo(j)' /\ qg'.job # j /\ wk'.job # j
  BY DEF OwnInv, Held
<1>2. QED
  BY <1>1 DEF StageIs, Stage, Exits

\* The queue holds each job once, so its length counts the queued jobs.
LEMMA QueuedJobs ==
    ASSUME TypeOK, OwnInv
    PROVE  Cardinality({j \in Jobs : InFifo(j)}) = Len(fifo)
<1> DEFINE S == 1..Len(fifo)
           T == {j \in Jobs : InFifo(j)}
<1>1. fifo \in Seq(Jobs) /\ Len(fifo) \in Nat
  BY DEF TypeOK
<1>2. fifo \in [S -> T] /\ \A t \in T : \E i \in S : fifo[i] = t
  BY <1>1 DEF InFifo
<1>3. \A m, n \in S : fifo[m] = fifo[n] => m = n
  BY DEF OwnInv
<1>4. fifo \in Bijection(S, T)
  BY <1>2, <1>3 DEF Bijection, Injection, Surjection, IsInjective
<1>5. ExistsBijection(S, T)
  BY <1>4 DEF ExistsBijection
<1>6. IsFiniteSet(S) /\ Cardinality(S) = Len(fifo)
  BY <1>1, FS_Interval
<1>7. QED
  BY <1>5, <1>6, FS_Bijection

-----------------------------------------------------------------------------
(* The steps of the abstract scheduler, told by the stages.                *)

\* Nothing moves.
LEMMA Stutters ==
    ASSUME \A k \in Jobs : Stage(k)' = Stage(k)
    PROVE  stages' = stages
BY DEF stages

\* One job moves.
LEMMA Moves ==
    ASSUME NEW j \in Jobs, NEW from, NEW to, Stage(j) = from, Stage(j)' = to,
           \A k \in Jobs \ {j} : Stage(k)' = Stage(k)
    PROVE  Abstract!Move(j, from, to)
BY DEF Abstract!Move

\* What a step of the scheduler is to the abstract one.
AbstractStep == Abstract!NextPipeline \/ stages' = stages

\* Where the job is with its handler, in nobody else's hands.
HandlerPCs == PCs \ (Exits \cup {"absent", "waiting"})

\* A handler goes on, and the queue and the worker do nothing.
LEMMA HandlerMoves ==
    ASSUME TypeOK, OwnInv, TypeOK', OwnInv', NEW j \in Jobs, NEW l \in PCs,
           pc[j] \in HandlerPCs \cup Exits, l \in HandlerPCs \cup Exits,
           pc[j] \in Exits => l = pc[j],
           Goto(j, l), UNCHANGED <<qg, fifo, wk, dropped>>
    PROVE  AbstractStep
<1>1. pc'[j] = l /\ \A k \in Jobs \ {j} : pc'[k] = pc[k]
  BY DEF TypeOK, Goto
<1>2. \A k \in Jobs : InFifo(k)' = InFifo(k)
  BY DEF InFifo
<1>3. \A k \in Jobs \ {j} : Stage(k)' = Stage(k)
  BY <1>1, <1>2 DEF Stage
<1>4. CASE l \in Exits /\ pc[j] \notin Exits
  <2>1. Stage(j) = "handling" /\ Stage(j)' = "settled"
    BY <1>1, <1>4 DEF Stage, HandlerPCs, Exits
  <2>2. Abstract!Settle(j)
    BY <1>3, <2>1, Moves DEF Abstract!Settle
  <2>3. QED
    BY <2>2 DEF AbstractStep, Abstract!NextPipeline, Abstract!Travel
<1>5. CASE l \notin Exits \/ pc[j] \in Exits
  <2>1. Stage(j)' = Stage(j)
    BY <1>1, <1>5 DEF Stage, HandlerPCs, Exits
  <2>2. QED
    BY <1>3, <2>1, Stutters DEF AbstractStep
<1>6. QED
  BY <1>4, <1>5

\* Steps that touch nothing the stages are read off.
LEMMA Framed ==
    ASSUME UNCHANGED <<pc, qg, fifo, wk, dropped>>
    PROVE  AbstractStep
<1>1. \A k \in Jobs : Stage(k)' = Stage(k)
  BY DEF Stage, InFifo
<1>2. QED
  BY <1>1, Stutters DEF AbstractStep

-----------------------------------------------------------------------------
(* The handlers.                                                           *)

LEMMA AcceptStep ==
    ASSUME TypeOK, OwnInv, TypeOK', OwnInv', NEW j \in Jobs,
           NEW s \in {"READY", "FAILED"}, HandleJob(j, s)
    PROVE  AbstractStep
<1>1. pc[j] = "absent" /\ pc'[j] = "loop" /\ \A k \in Jobs \ {j} : pc'[k] = pc[k]
  BY DEF HandleJob, TypeOK, Goto
<1>2. UNCHANGED <<qg, fifo, wk, dropped>> /\ \A k \in Jobs : InFifo(k)' = InFifo(k)
  BY DEF HandleJob, InFifo
<1>3. \A k \in Jobs \ {j} : Stage(k)' = Stage(k)
  BY <1>1, <1>2 DEF Stage
<1>4. Stage(j) = "absent" /\ Stage(j)' = "handling"
  BY <1>1 DEF Stage, Exits
<1>5. Abstract!Accept(j)
  BY <1>3, <1>4, Moves DEF Abstract!Accept
<1>6. QED
  BY <1>5 DEF AbstractStep, Abstract!NextPipeline

\* The queue goroutine is ready to receive, so no other job is offered.
LEMMA OfferStep ==
    ASSUME TypeOK, OwnInv, TypeOK', OwnInv', NEW j \in Jobs, SendToQueue(j)
    PROVE  AbstractStep
<1>1. /\ pc[j] = "toQueue" /\ pc'[j] = "waiting" /\ \A k \in Jobs \ {j} : pc'[k] = pc[k]
      /\ qg.job = NoJob /\ qg'.job = j /\ UNCHANGED <<fifo, wk, dropped>>
  BY DEF SendToQueue, TypeOK, OwnInv, Goto
<1>2. \A k \in Jobs : InFifo(k)' = InFifo(k)
  BY <1>1 DEF InFifo
<1>3. \A k \in Jobs \ {j} : Stage(k)' = Stage(k)
  BY <1>1, <1>2, NoJobAssumption DEF Stage
<1>4. Stage(j) = "handling" /\ Stage(j)' = "offered"
  <2>1. Stage(j) = "handling"
    BY <1>1 DEF Stage, Exits
  <2>2. StageIs(j)'
    BY StageHeldNext
  <2>3. QED
    BY <1>1, <2>1, <2>2 DEF StageIs
<1>5. \A k \in Jobs : Stage(k) # "offered"
  <2>1. \A k \in Jobs : StageIs(k)
    BY StageHeld
  <2>2. QED
    BY <1>1, <2>1, NoJobAssumption DEF StageIs
<1>6. Abstract!At("offered") = {}
  BY <1>5 DEF Abstract!At
<1>7. Abstract!Offer(j)
  BY <1>3, <1>4, <1>6, Moves DEF Abstract!Offer
<1>8. QED
  BY <1>7 DEF AbstractStep, Abstract!NextPipeline, Abstract!Travel

\* Done was called: the job is with its handler before and after wg.Wait returns.
LEMMA ResumeStep ==
    ASSUME TypeOK, OwnInv, TypeOK', OwnInv', NEW j \in Jobs, Resume(j)
    PROVE  AbstractStep
<1>1. /\ pc[j] = "waiting" /\ pc'[j] \in {"sendProc", "post"}
      /\ \A k \in Jobs \ {j} : pc'[k] = pc[k]
      /\ UNCHANGED <<qg, fifo, wk, dropped>>
  BY DEF Resume, TypeOK, Goto
<1>2. \A k \in Jobs : InFifo(k)' = InFifo(k)
  BY <1>1 DEF InFifo
<1>3. ~Held(j) /\ j \notin dropped
  <2>1. wg[j] = 0
    BY DEF Resume
  <2>2. QED
    BY <1>1, <2>1 DEF OwnInv
<1>4. Stage(j) = "handling" /\ Stage(j)' = "handling"
  BY <1>1, <1>3 DEF Stage, Exits, Held
<1>5. \A k \in Jobs : Stage(k)' = Stage(k)
  BY <1>1, <1>2, <1>4 DEF Stage
<1>6. QED
  BY <1>5, Stutters DEF AbstractStep

LEMMA HandlerStep ==
    ASSUME TypeOK, OwnInv, TypeOK', OwnInv', NEW j \in Jobs, Handler(j)
    PROVE  AbstractStep
<1> DEFINE A == {"loop", "pre", "sendPre", "toQueue", "sendProc", "sendProcAgain",
                 "post", "sendPost", "sendPanic"}
<1>0. A \subseteq PCs /\ A \subseteq HandlerPCs /\ Exits \subseteq PCs
  BY DEF HandlerPCs, PCs, Exits
<1>1. CASE SendToQueue(j)
  BY <1>1, OfferStep
<1>2. CASE Resume(j)
  BY <1>2, ResumeStep
<1>3. CASE DeleteHistory(j)
  BY <1>3, Framed DEF DeleteHistory
<1>4. CASE LoopHead(j) \/ PreProcessJob(j) \/ PreProcessPanic(j) \/ SendPreProcessed(j)
           \/ SendProcessed(j) \/ SendProcessedAgain(j) \/ PostProcessJob(j)
           \/ PostProcessPanic(j) \/ SendPostProcessed(j) \/ SendRecovered(j)
  <2>1. UNCHANGED <<qg, fifo, wk, dropped>>
    BY <1>4
       DEF LoopHead, PreProcessJob, PreProcessPanic, SendPreProcessed, SendProcessed,
                SendProcessedAgain, PostProcessJob, PostProcessPanic, SendPostProcessed,
                SendRecovered, Recover
  <2>2. pc[j] \in A
    BY <1>4
       DEF LoopHead, PreProcessJob, PreProcessPanic, SendPreProcessed, SendProcessed,
                SendProcessedAgain, PostProcessJob, PostProcessPanic, SendPostProcessed,
                SendRecovered
  <2>3. PICK l \in A \cup Exits : Goto(j, l)
    BY <1>4
       DEF LoopHead, PreProcessJob, PreProcessPanic, SendPreProcessed, SendProcessed,
                SendProcessedAgain, PostProcessJob, PostProcessPanic, SendPostProcessed,
                SendRecovered, Recover, Exits
  <2>4. pc[j] \notin Exits
    BY <2>2 DEF Exits
  <2>5. QED
    BY <1>0, <2>1, <2>2, <2>3, <2>4, HandlerMoves
<1>5. QED
  BY <1>1, <1>2, <1>3, <1>4 DEF Handler

-----------------------------------------------------------------------------
(* The queue goroutine and the worker.                                     *)

\* Pipeline counts with the same operator.
LEMMA SameCardinality == \A S : Abstract!Cardinality(S) = Cardinality(S)
BY DEF Abstract!Cardinality, Cardinality

\* The abstract scheduler counts the queued jobs where the code takes a length.
LEMMA QueuedCount ==
    ASSUME TypeOK, OwnInv
    PROVE  Cardinality(Abstract!At("queued")) = Len(fifo)
<1>1. \A k \in Jobs : StageIs(k)
  BY StageHeld
<1>2. Abstract!At("queued") = {k \in Jobs : InFifo(k)}
  BY <1>1 DEF StageIs, Abstract!At
<1>3. QED
  BY <1>2, QueuedJobs

LEMMA QueueStep ==
    ASSUME TypeOK, OwnInv, TypeOK', OwnInv', Queue
    PROVE  AbstractStep
<1>0. PICK q \in Jobs : q = qg.job
  BY DEF TypeOK, OwnInv, Queue, QueueCheck, QueueEnqueue
<1>1. /\ UNCHANGED <<pc, wk>> /\ NoJob \notin Jobs /\ fifo \in Seq(Jobs)
      /\ Len(fifo) \in Nat /\ MaxSize \in Nat
      /\ qg \in [at : {"receive", "check", "enqueue"}, job : Jobs \cup {NoJob}]
  BY NoJobAssumption, MaxSizeAssumption DEF Queue, QueueCheck, QueueEnqueue, TypeOK
<1>2. \A k \in Jobs : StageIs(k) /\ StageIs(k)'
  BY StageHeld, StageHeldNext
<1>3. Stage(q) = "offered"
  BY <1>0, <1>2 DEF StageIs
<1>4. CASE QueueCheck /\ MaxSize <= Len(fifo)
  <2>1. qg'.job = NoJob /\ dropped' = dropped \cup {q} /\ fifo' = fifo
    BY <1>0, <1>4 DEF QueueCheck
  <2>2. Stage(q)' = "dropped"
    BY <1>2, <2>1 DEF StageIs
  <2>3. \A k \in Jobs \ {q} : Stage(k)' = Stage(k)
    BY <1>0, <1>1, <2>1 DEF Stage, InFifo
  <2>4. Abstract!Drop(q)
    <3>1. Abstract!Move(q, "offered", "dropped")
      BY <1>3, <2>2, <2>3, Moves
    <3>2. Cardinality(Abstract!At("queued")) >= MaxSize
      BY <1>1, <1>4, QueuedCount
    <3>3. QED
      BY <3>1, <3>2, SameCardinality DEF Abstract!Drop
  <2>5. QED
    BY <2>4 DEF AbstractStep, Abstract!NextPipeline, Abstract!Travel
<1>5. CASE QueueCheck /\ ~(MaxSize <= Len(fifo))
  <2>1. qg'.job = q /\ dropped' = dropped /\ fifo' = fifo
    BY <1>0, <1>1, <1>5 DEF QueueCheck
  <2>2. \A k \in Jobs : Stage(k)' = Stage(k)
    BY <1>0, <1>1, <2>1 DEF Stage, InFifo
  <2>3. QED
    BY <2>2, Stutters DEF AbstractStep
<1>6. CASE QueueEnqueue
  <2>1. qg'.job = NoJob /\ dropped' = dropped /\ fifo' = Append(fifo, q)
    BY <1>0, <1>6 DEF QueueEnqueue
  <2>2. Len(fifo) < MaxSize
    BY <1>6 DEF QueueEnqueue, OwnInv
  <2>3. \A k \in Jobs : InFifo(k)' <=> InFifo(k) \/ k = q
    <3>1. /\ Len(fifo') = Len(fifo) + 1 /\ fifo'[Len(fifo) + 1] = q
          /\ \A n \in 1..Len(fifo) : fifo'[n] = fifo[n]
      BY <1>1, <2>1
    <3>2. QED
      BY <1>1, <3>1 DEF InFifo
  <2>4. Stage(q)' = "queued"
    BY <1>2, <2>3 DEF StageIs
  <2>5. \A k \in Jobs \ {q} : Stage(k)' = Stage(k)
    BY <1>0, <1>1, <2>1, <2>3 DEF Stage
  <2>6. Abstract!Enqueue(q)
    <3>1. Abstract!Move(q, "offered", "queued")
      BY <1>3, <2>4, <2>5, Moves
    <3>2. Cardinality(Abstract!At("queued")) < MaxSize
      BY <2>2, QueuedCount
    <3>3. QED
      BY <3>1, <3>2, SameCardinality DEF Abstract!Enqueue
  <2>7. QED
    BY <2>6 DEF AbstractStep, Abstract!NextPipeline, Abstract!Travel
<1>7. QED
  BY <1>4, <1>5, <1>6 DEF Queue

LEMMA DequeueStep ==
    ASSUME TypeOK, OwnInv, TypeOK', OwnInv', WorkerDequeue
    PROVE  AbstractStep
<1>0. PICK h \in Jobs : h = Head(fifo)
  BY DEF WorkerDequeue, TypeOK
<1>1. /\ UNCHANGED <<pc, qg, dropped>> /\ wk.job = NoJob /\ wk'.job = h
      /\ NoJob \notin Jobs /\ fifo \in Seq(Jobs) /\ fifo # << >> /\ fifo' = Tail(fifo)
  BY <1>0, NoJobAssumption DEF WorkerDequeue, TypeOK, OwnInv
<1>2. \A k \in Jobs : StageIs(k) /\ StageIs(k)'
  BY StageHeld, StageHeldNext
<1>3. /\ h = fifo[1] /\ Len(fifo) \in Nat /\ 1 <= Len(fifo)
      /\ Len(fifo') = Len(fifo) - 1
      /\ \A n \in 1..Len(fifo') : fifo'[n] = fifo[n + 1]
  BY <1>0, <1>1
<1>4. InFifo(h) /\ \A k \in Jobs \ {h} : InFifo(k)' <=> InFifo(k)
  <2>1. InFifo(h)
    BY <1>3 DEF InFifo
  <2>2. ASSUME NEW k \in Jobs \ {h}
        PROVE  InFifo(k)' <=> InFifo(k)
    <3>1. ASSUME InFifo(k)'
          PROVE  InFifo(k)
      BY <1>3, <3>1 DEF InFifo
    <3>2. ASSUME InFifo(k)
          PROVE  InFifo(k)'
      <4>1. PICK n \in 1..Len(fifo) : fifo[n] = k
        BY <3>2 DEF InFifo
      <4>2. n # 1 /\ n - 1 \in 1..Len(fifo') /\ fifo'[n - 1] = k
        BY <1>3, <4>1
      <4>3. QED
        BY <4>2 DEF InFifo
    <3>3. QED
      BY <3>1, <3>2
  <2>3. QED
    BY <2>1, <2>2
<1>5. Stage(h) = "queued" /\ Stage(h)' = "running"
  BY <1>1, <1>2, <1>4 DEF StageIs
<1>6. \A k \in Jobs \ {h} : Stage(k)' = Stage(k)
  BY <1>1, <1>4 DEF Stage
<1>7. Abstract!At("running") = {}
  BY <1>1, <1>2 DEF StageIs, Abstract!At
<1>8. Abstract!Dequeue(h)
  BY <1>5, <1>6, <1>7, Moves DEF Abstract!Dequeue
<1>9. QED
  BY <1>8 DEF AbstractStep, Abstract!NextPipeline, Abstract!Travel

\* Done hands the job back to its handler.
LEMMA ReturnStep ==
    ASSUME TypeOK, OwnInv, TypeOK', OwnInv', wk.at # "idle", Done,
           UNCHANGED <<pc, qg, fifo, dropped>>
    PROVE  AbstractStep
<1>1. PICK w \in Jobs : w = wk.job
  BY DEF TypeOK, OwnInv
<1>2. wk'.job = NoJob /\ NoJob \notin Jobs
  BY NoJobAssumption DEF Done
<1>3. \A k \in Jobs : StageIs(k) /\ StageIs(k)'
  BY StageHeld, StageHeldNext
<1>4. \A k \in Jobs : InFifo(k)' <=> InFifo(k)
  BY DEF InFifo
<1>5. \A k \in Jobs \ {w} : Stage(k)' = Stage(k)
  BY <1>1, <1>2, <1>4 DEF Stage
<1>6. Stage(w) = "running"
  BY <1>1, <1>3 DEF StageIs
<1>7. Stage(w)' = "handling"
  BY <1>1, <1>2, <1>3, <1>4, <1>6 DEF StageIs
<1>8. Abstract!Return(w)
  BY <1>5, <1>6, <1>7, Moves DEF Abstract!Return
<1>9. QED
  BY <1>8 DEF AbstractStep, Abstract!NextPipeline, Abstract!Travel

LEMMA WorkerStep ==
    ASSUME TypeOK, OwnInv, TypeOK', OwnInv', Worker
    PROVE  AbstractStep
<1>1. CASE WorkerDequeue
  BY <1>1, DequeueStep
<1>2. CASE WorkerSendRunning \/ WorkerPanic
  <2>1. UNCHANGED <<pc, qg, fifo, dropped>> /\ wk'.job = wk.job
    BY <1>2 DEF WorkerSendRunning, WorkerPanic, TypeOK
  <2>2. \A k \in Jobs : Stage(k)' = Stage(k)
    BY <2>1 DEF Stage, InFifo
  <2>3. QED
    BY <2>2, Stutters DEF AbstractStep
<1>3. CASE WorkerProcess \/ WorkerSendPanic
  BY <1>3, ReturnStep DEF WorkerProcess, WorkerSendPanic
<1>4. QED
  BY <1>1, <1>2, <1>3 DEF Worker

-----------------------------------------------------------------------------

LEMMA InitMaps == Init => Abstract!InitPipeline
BY DEF Init, Abstract!InitPipeline, Stage, Exits

(***************************************************************************)
(* To the poller the scheduler is the pipeline: one job at a time is       *)
(* offered, at most maxSize are queued, one runs, and a job is settled or  *)
(* dropped once and for all, whatever the four sorts of goroutine do.      *)
(***************************************************************************)
THEOREM ImplementsPipeline == Spec => PipelineSpec
<1>1. TypeOK /\ OwnInv /\ (TypeOK /\ OwnInv)' /\ [Next]_vars
        => [Abstract!NextPipeline]_stages
  <2> SUFFICES ASSUME TypeOK, OwnInv, TypeOK', OwnInv', [Next]_vars
               PROVE  AbstractStep
    BY DEF AbstractStep
  <2>1. CASE Update \/ Quiescent \/ UNCHANGED vars
    BY <2>1, Framed DEF Update, Quiescent, vars
  <2>2. QED
    BY <2>1, AcceptStep, HandlerStep, QueueStep, WorkerStep DEF Next
<1>2. QED
  BY <1>1, InitMaps, Inductive, PTL
     DEF Spec, PipelineSpec, Abstract!SpecPipeline, stages
=============================================================================
