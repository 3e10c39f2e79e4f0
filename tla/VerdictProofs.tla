--------------------------- MODULE VerdictProofs ---------------------------
(***************************************************************************)
(* Scheduler keeps the promise of JobVerdict to the cloud, for any set of  *)
(* jobs of any types and any queue size.  The argument follows one job:    *)
(* what the phases leave in its data at each position of its handler       *)
(* (DataOK), and what of it is in DBChan or in the cloud (CloudOK).        *)
(***************************************************************************)
EXTENDS SchedulerProofs

\* Decided, of a job of type k whose handler is at l and whose data is d.
Reached(k, l, d) ==
    \/ l \in {"sendProc", "sendProcAgain", "sendPost", "sendPanic",
              "finished", "recovered"}
    \/ l = "sendPre" /\ IsFinished(k, d)

\* What the phases have left in the data d of a job of type k when its handler
\* is at l and its WaitGroup counter is n.
DataOK(k, l, n, d) ==
    /\ l \in {"loop", "pre", "toQueue", "post"} \/ (l = "waiting" /\ n = 1)
          => d.done = FALSE
    /\ l = "waiting" /\ n = 0 =>
          /\ d.done = FALSE \/ (k = "estimation" /\ d.status = "FAILED")
          /\ k = "sampling" => d.status \in Terminal
    /\ l = "post" =>
          /\ ~IsFinished(k, d)
          /\ k = "sampling" => d.status \in Terminal
    /\ l = "sendPre" /\ ~IsFinished(k, d) => d.done = FALSE
    /\ l \in {"pre", "toQueue", "waiting"} => d.useInfo = FALSE
    /\ l = "sendPre" => d.useInfo = IsFinished(k, d)
    /\ l \in {"sendProc", "sendProcAgain", "post", "sendPost"} => d.useInfo = TRUE
    /\ Reached(k, l, d) => d.status \in Terminal

\* A verdict the cloud shows, or a write that will show one, is the verdict
\* the handler has reached; a handler that returned with a finished job left
\* the verdict in DBChan or in the cloud.
CloudOK(j) ==
    /\ cloud[j] \in {"succeeded", "failed"} =>
          /\ Decided(j)
          /\ cloud[j] = convertToAPIStatus(job[j].status)
          /\ db.id = j => db.status = job[j].status
    /\ db.id = j /\ db.useInfo = TRUE => Decided(j) /\ db.status = job[j].status
    /\ pc[j] = "finished" =>
          /\ db.id = j => db.useInfo = TRUE /\ db.status = job[j].status
          /\ db.id # j /\ j \notin unacked => cloud[j] = convertToAPIStatus(job[j].status)

\* The verdicts reached so far, as Scheduler maps them to JobVerdict.
verdicts == [j \in Jobs |-> IF Decided(j)
                           THEN convertToAPIStatus(job[j].status)
                           ELSE "none"]

VerdictStep == [Verdict!Next]_<<verdicts, cloud>>

JobsOK == \A j \in Jobs : DataOK(KindOf[j], pc[j], wg[j], job[j]) /\ CloudOK(j)

\* The recover of the worker sets FAILED before it writes.
PanicOK == wk.at = "sendPanic" => job[wk.job].status = "FAILED"

VerdictInv == JobsOK /\ PanicOK

-----------------------------------------------------------------------------
(* The phases of the job types.                                            *)

\* The flags of a job are Booleans, and IsFinished answers one.
LEMMA Flags ==
    ASSUME NEW k \in Kinds, NEW d \in JobData
    PROVE  /\ d.done \in BOOLEAN /\ d.need \in BOOLEAN
           /\ d.useInfo \in BOOLEAN /\ d.counts \in BOOLEAN
           /\ d.status \in Status
           /\ IsFinished(k, d) \in BOOLEAN
BY DEF JobData, IsFinished

\* UseJobInfoUpdate has no part in IsFinished.
LEMMA FlagApart ==
    ASSUME NEW k \in Kinds, NEW d \in JobData, NEW b \in BOOLEAN
    PROVE  LET e == [d EXCEPT !.useInfo = b]
           IN  /\ e.status = d.status /\ e.done = d.done /\ e.need = d.need
               /\ e.useInfo = b
               /\ IsFinished(k, e) <=> IsFinished(k, d)
<1> DEFINE e == [d EXCEPT !.useInfo = b]
<1>1. /\ e.status = d.status /\ e.done = d.done /\ e.need = d.need
      /\ e.useInfo = b
  BY DEF JobData
<1>2. IsFinished(k, e) <=> IsFinished(k, d)
  <2> HIDE DEF e
  <2> QED
    BY <1>1 DEF IsFinished, IsFinishedNormal, IsFinishedSampling,
                IsFinishedEstimation, IsFinishedManual
<1>3. QED
  BY <1>1, <1>2

\* After PreProcess only a refused estimation job has its flag set.
LEMMA PreProcessDone ==
    ASSUME NEW k \in Kinds, NEW d \in JobData, NEW e \in PreProcess(k, d),
           d.done = FALSE
    PROVE  e.done = FALSE \/ (k = "estimation" /\ e.done = TRUE /\ e.status = "FAILED")
<1> USE DEF SetFailureWithError, JobData
<1>1. CASE k = "normal"
  BY <1>1 DEF PreProcess, PreProcessNormal, Transpile
<1>2. CASE k = "sampling"
  BY <1>2 DEF PreProcess, PreProcessSampling, NewMitigationInfoFromJobData
<1>3. CASE k = "estimation"
  BY <1>3 DEF PreProcess, PreProcessEstimation
<1>4. CASE k = "manual"
  BY <1>4 DEF PreProcess, PreProcessManual
<1>5. CASE k = "sse"
  BY <1>5 DEF PreProcess, PreProcessSSE
<1>6. QED
  BY <1>1, <1>2, <1>3, <1>4, <1>5 DEF Kinds

LEMMA PreProcessData ==
    ASSUME NEW k \in Kinds, NEW d \in JobData, NEW e \in PreProcess(k, d),
           d.done = FALSE, NEW n
    PROVE  DataOK(k, "sendPre", n, [e EXCEPT !.useInfo = IsFinished(k, e)])
<1> DEFINE f == [e EXCEPT !.useInfo = IsFinished(k, e)]
<1>1. e \in JobData /\ IsFinished(k, e) \in BOOLEAN
  BY PreProcessType, Flags
<1>2. /\ f.status = e.status /\ f.done = e.done
      /\ f.useInfo = IsFinished(k, e)
      /\ IsFinished(k, f) <=> IsFinished(k, e)
  BY <1>1, FlagApart
<1>3. e.done = FALSE \/ (k = "estimation" /\ e.done = TRUE /\ e.status = "FAILED")
  BY PreProcessDone
<1>4. f \in JobData
  BY <1>1, SetField, Labels
<1>5. f.useInfo = IsFinished(k, f)
  BY <1>1, <1>2, <1>4, Flags
<1> HIDE DEF f
<1>6. IsFinished(k, f) => f.status \in Terminal
  BY <1>2, <1>3 DEF IsFinished, IsFinishedNormal, IsFinishedSampling,
                    IsFinishedEstimation, IsFinishedManual, Terminal
<1>7. ~IsFinished(k, f) => f.done = FALSE
  BY <1>2, <1>3 DEF IsFinished, IsFinishedEstimation
<1>8. DataOK(k, "sendPre", n, f)
  BY <1>5, <1>6, <1>7 DEF DataOK, Reached
<1>9. QED
  BY <1>8 DEF f

LEMMA ProcessData ==
    ASSUME NEW k \in Kinds, NEW d \in JobData, NEW e \in Process(k, d),
           d.done = FALSE, d.useInfo = FALSE
    PROVE  DataOK(k, "waiting", 0, e)
<1>1. /\ e.useInfo = FALSE
      /\ e.done = FALSE \/ (k = "estimation" /\ e.status = "FAILED")
      /\ k = "sampling" => e.status \in Terminal
  <2>1. CASE k = "estimation"
    <3>1. e \in ProcessEstimation(d)
      BY <2>1 DEF Process
    <3>2. QED
      BY <2>1, <3>1 DEF ProcessEstimation, JobData
  <2>2. CASE k = "sse"
    <3>1. e \in ProcessSSE(d)
      BY <2>2 DEF Process
    <3>2. QED
      BY <2>2, <3>1 DEF ProcessSSE, JobData
  <2>3. CASE k \notin {"estimation", "sse"}
    <3>1. e \in Send(d)
      BY <2>3 DEF Process
    <3>2. QED
      BY <3>1 DEF Send, CallJob, SetFailureWithError, JobData, Terminal
  <2>4. QED
    BY <2>1, <2>2, <2>3
<1>2. QED
  BY <1>1 DEF DataOK, Reached

\* A panic in Process leaves a FAILED job, before and after Done.
LEMMA ProcessPanicsData ==
    ASSUME NEW k \in Kinds, NEW d \in JobData, NEW e \in ProcessPanics(k, d),
           d.done = FALSE, d.useInfo = FALSE
    PROVE  LET f == [e EXCEPT !.status = "FAILED"]
           IN  f.status = "FAILED" /\ f.done = FALSE /\ f.useInfo = FALSE
BY DEF ProcessPanics, JobData

\* The result is in: what wg.Wait returns to is either written or
\* post-processed.
LEMMA ResumeData ==
    ASSUME NEW k \in Kinds, NEW d \in JobData, DataOK(k, "waiting", 0, d), NEW n
    PROVE  LET f == [d EXCEPT !.useInfo = TRUE]
           IN  IF IsFinished(k, d) THEN DataOK(k, "sendProc", n, f)
                                   ELSE DataOK(k, "post", n, f)
<1> DEFINE f == [d EXCEPT !.useInfo = TRUE]
<1>1. /\ f.status = d.status /\ f.done = d.done /\ f.useInfo = TRUE
      /\ IsFinished(k, f) <=> IsFinished(k, d)
  BY FlagApart
<1> HIDE DEF f
<1>2. /\ d.done = FALSE \/ (k = "estimation" /\ d.status = "FAILED")
      /\ k = "sampling" => d.status \in Terminal
  BY DEF DataOK
<1>3. CASE IsFinished(k, d)
  <2>1. d.status \in Terminal
    BY <1>2, <1>3 DEF IsFinished, IsFinishedNormal, IsFinishedSampling,
                      IsFinishedEstimation, IsFinishedManual, Terminal
  <2>2. DataOK(k, "sendProc", n, f)
    BY <1>1, <2>1 DEF DataOK, Reached
  <2>3. QED
    BY <1>3, <2>2 DEF f
<1>4. CASE ~IsFinished(k, d)
  <2>0. d.done \in BOOLEAN
    BY Flags
  <2>1. d.done = FALSE
    BY <1>2, <1>4, <2>0 DEF IsFinished, IsFinishedEstimation
  <2>2. DataOK(k, "post", n, f)
    BY <1>1, <1>2, <1>4, <2>1 DEF DataOK, Reached
  <2>3. QED
    BY <1>4, <2>2 DEF f
<1>5. QED
  BY <1>3, <1>4

LEMMA PostProcessData ==
    ASSUME NEW k \in Kinds, NEW d \in JobData, NEW e \in PostProcess(k, d), NEW n,
           DataOK(k, "post", n, d), NEW m
    PROVE  IF IsFinished(k, e) THEN DataOK(k, "sendPost", m, e)
                               ELSE DataOK(k, "loop", m, e)
<1>1. /\ d.done = FALSE /\ d.useInfo = TRUE /\ ~IsFinished(k, d)
      /\ k = "sampling" => d.status \in Terminal
  BY DEF DataOK
<1>2. /\ e.useInfo = TRUE
      /\ e.status \in Terminal \/ ~IsFinished(k, e)
      /\ e.done = FALSE \/ IsFinished(k, e)
  <2>1. CASE k = "sampling"
    <3>1. d.need = TRUE /\ d.status \in Terminal
      <4>1. d.need \in BOOLEAN
        BY Flags
      <4>2. d.need \/ d.status # "SUCCEEDED"
        BY <1>1, <2>1 DEF IsFinished, IsFinishedSampling
      <4>3. d.status # "FAILED" /\ d.status \in Terminal
        BY <1>1, <2>1 DEF IsFinished, IsFinishedSampling
      <4>4. QED
        BY <4>1, <4>2, <4>3 DEF Terminal
    <3>2. e \in PseudoInverseMitigation([d EXCEPT !.done = TRUE])
      BY <2>1, <3>1 DEF PostProcess, PostProcessSampling
    <3>3. e.useInfo = TRUE /\ e.status \in Terminal /\ e.done = TRUE /\ e.need = TRUE
      BY <1>1, <3>1, <3>2 DEF PseudoInverseMitigation, JobData
    <3>4. IsFinished(k, e)
      BY <2>1, <3>3 DEF IsFinished, IsFinishedSampling
    <3>5. QED
      BY <3>3, <3>4
  <2>2. CASE k = "estimation"
    <3>1. e \in PostProcessEstimation(d)
      BY <2>2 DEF PostProcess
    <3>2. e.useInfo = TRUE /\ e.status \in Terminal /\ e.done = TRUE
      BY <1>1, <3>1 DEF PostProcessEstimation, EstimationPostProcess, JobData, Terminal
    <3>3. QED
      BY <2>2, <3>2 DEF IsFinished, IsFinishedEstimation
  <2>3. CASE k = "manual"
    <3>1. e \in PostProcessManual(d)
      BY <2>3 DEF PostProcess
    <3>2. e.useInfo = TRUE /\ e.status \in Terminal /\ e.done = TRUE
      BY <1>1, <3>1 DEF PostProcessManual, JobData, Terminal
    <3>3. QED
      BY <2>3, <3>2 DEF IsFinished, IsFinishedManual
  <2>4. CASE k \notin {"sampling", "estimation", "manual"}
    <3>1. e = d
      BY <2>4 DEF PostProcess
    <3>2. QED
      BY <1>1, <3>1
  <2>5. QED
    BY <2>1, <2>2, <2>3, <2>4
<1>3. QED
  BY <1>2 DEF DataOK, Reached

-----------------------------------------------------------------------------
(* A step of one job, seen from DBChan and the cloud.                      *)

LEMMA DecidedIsReached ==
    ASSUME NEW j \in Jobs
    PROVE  /\ Decided(j) <=> Reached(KindOf[j], pc[j], job[j])
           /\ Decided(j)' <=> Reached(KindOf[j], pc'[j], job'[j])
BY DEF Decided, Reached, Finished

\* A terminal status is a verdict.
LEMMA TerminalIsVerdict ==
    ASSUME NEW st \in Terminal
    PROVE  convertToAPIStatus(st) \in {"succeeded", "failed"}
BY DEF convertToAPIStatus, Terminal

\* Only job j moves, and a verdict it has reached it keeps.
MovesOnly(j) ==
    /\ \A i \in Jobs \ {j} : pc'[i] = pc[i] /\ job'[i] = job[i] /\ wg'[i] = wg[i]
    /\ DataOK(KindOf[j], pc'[j], wg'[j], job'[j])
    /\ Decided(j) => Decided(j)' /\ job'[j].status = job[j].status
    /\ UNCHANGED <<cloud, unacked>>

\* Such a step reaches at most one verdict.
LEMMA MoveDecides ==
    ASSUME TypeOK, NEW j \in Jobs, MovesOnly(j)
    PROVE  VerdictStep
<1>1. \A i \in Jobs \ {j} : verdicts'[i] = verdicts[i]
  <2> SUFFICES ASSUME NEW i \in Jobs \ {j}
               PROVE  verdicts'[i] = verdicts[i]
    OBVIOUS
  <2>1. pc'[i] = pc[i] /\ job'[i] = job[i]
    BY DEF MovesOnly
  <2>2. Decided(i)' <=> Decided(i)
    BY <2>1, DecidedIsReached
  <2>3. QED
    BY <2>1, <2>2 DEF verdicts
<1>2. cloud' = cloud
  BY DEF MovesOnly
<1>3. CASE verdicts'[j] = verdicts[j]
  <2>1. verdicts' = verdicts
    BY <1>1, <1>3 DEF verdicts
  <2>2. QED
    BY <1>2, <2>1 DEF VerdictStep
<1>4. CASE verdicts'[j] # verdicts[j]
  <2>1. ~Decided(j) /\ Decided(j)'
    BY <1>4 DEF MovesOnly, verdicts
  <2>2. job'[j].status \in Terminal
    BY <2>1, DecidedIsReached DEF MovesOnly, DataOK
  <2>3. PICK v \in {"succeeded", "failed"} : v = convertToAPIStatus(job'[j].status)
    BY <2>2, TerminalIsVerdict
  <2>4. verdicts[j] = "none" /\ verdicts'[j] = v
    BY <2>1, <2>3 DEF verdicts
  <2>5. verdicts' = [verdicts EXCEPT ![j] = v]
    BY <1>1, <2>4 DEF verdicts
  <2>6. Verdict!Decide(j, v)
    BY <1>2, <2>4, <2>5 DEF Verdict!Decide, verdicts
  <2>7. Verdict!Next
    BY <2>6 DEF Verdict!Next, Verdict!Verdicts
  <2>8. QED
    BY <2>7 DEF VerdictStep
<1>5. QED
  BY <1>3, <1>4

\* What is known of the other jobs stays known when DBChan does not carry them.
LEMMA OthersOK ==
    ASSUME TypeOK, JobsOK, NEW j \in Jobs, MovesOnly(j), NEW i \in Jobs \ {j},
           db' = db \/ (db.id # i /\ db'.id # i)
    PROVE  DataOK(KindOf[i], pc'[i], wg'[i], job'[i]) /\ CloudOK(i)'
<1>1. pc'[i] = pc[i] /\ job'[i] = job[i] /\ wg'[i] = wg[i] /\ UNCHANGED <<cloud, unacked>>
  BY DEF MovesOnly
<1>2. Decided(i)' <=> Decided(i)
  BY <1>1, DecidedIsReached
<1>3. DataOK(KindOf[i], pc[i], wg[i], job[i]) /\ CloudOK(i)
  BY DEF JobsOK
<1>4. QED
  BY <1>1, <1>2, <1>3 DEF CloudOK

\* A step that writes nothing.
LEMMA SilentOK ==
    ASSUME TypeOK, JobsOK, NEW j \in Jobs, MovesOnly(j), UNCHANGED db,
           pc'[j] = "finished" => pc[j] = "finished"
    PROVE  JobsOK' /\ VerdictStep
<1>1. CloudOK(j)'
  <2>1. CloudOK(j)
    BY DEF JobsOK
  <2>2. CASE Decided(j)
    BY <2>1, <2>2 DEF CloudOK, MovesOnly
  <2>3. CASE ~Decided(j)
    <3>1. cloud[j] \notin {"succeeded", "failed"} /\ ~(db.id = j /\ db.useInfo = TRUE)
      BY <2>1, <2>3 DEF CloudOK
    <3>2. pc'[j] # "finished"
      BY <2>3 DEF Decided
    <3>3. QED
      BY <3>1, <3>2 DEF CloudOK, MovesOnly
  <2>4. QED
    BY <2>2, <2>3
<1>2. DataOK(KindOf[j], pc'[j], wg'[j], job'[j])
  BY DEF MovesOnly
<1>3. JobsOK'
  BY <1>1, <1>2, OthersOK DEF JobsOK
<1>4. QED
  BY <1>3, MoveDecides

\* A step that writes the clone of the job to DBChan.
LEMMA WriteOK ==
    ASSUME TypeOK, JobsOK, NEW j \in Jobs, MovesOnly(j), SendToDB(j), UNCHANGED job,
           job[j].useInfo = TRUE => Decided(j)',
           pc'[j] = "finished" => job[j].useInfo = TRUE
    PROVE  JobsOK' /\ VerdictStep
<1>1. /\ db.id = NoJob /\ db'.id = j
      /\ db'.status = job[j].status /\ db'.useInfo = job[j].useInfo
  BY DEF SendToDB, Clone
<1>2. CloudOK(j)'
  <2>1. CloudOK(j)
    BY DEF JobsOK
  <2>2. QED
    BY <1>1, <2>1 DEF CloudOK, MovesOnly
<1>3. DataOK(KindOf[j], pc'[j], wg'[j], job'[j])
  BY DEF MovesOnly
<1>4. \A i \in Jobs \ {j} : db.id # i /\ db'.id # i
  BY <1>1, NoJobAssumption
<1>5. JobsOK'
  BY <1>2, <1>3, <1>4, OthersOK DEF JobsOK
<1>6. QED
  BY <1>5, MoveDecides

-----------------------------------------------------------------------------
(* The steps of the goroutines.                                            *)

\* Goto moves one handler.
LEMMA GotoMoves ==
    ASSUME TypeOK, NEW j \in Jobs, NEW l, Goto(j, l)
    PROVE  pc'[j] = l /\ \A i \in Jobs \ {j} : pc'[i] = pc[i]
BY DEF TypeOK, Goto

\* An assignment to the data of one job.
LEMMA JobMoves ==
    ASSUME TypeOK, NEW j \in Jobs, NEW d, job' = [job EXCEPT ![j] = d]
    PROVE  job'[j] = d /\ \A i \in Jobs \ {j} : job'[i] = job[i]
BY DEF TypeOK

LEMMA HandleJobOK ==
    ASSUME TypeOK, JobsOK, NEW j \in Jobs, NEW s \in {"READY", "FAILED"}, HandleJob(j, s)
    PROVE  JobsOK' /\ VerdictStep
<1>1. /\ pc[j] = "absent" /\ Goto(j, "loop")
      /\ job' = [job EXCEPT ![j] = NewJobData(s)]
      /\ UNCHANGED <<wg, db, cloud, unacked>>
  BY DEF HandleJob
<1>2. pc'[j] = "loop" /\ \A i \in Jobs \ {j} : pc'[i] = pc[i]
  BY <1>1, GotoMoves
<1>3. job'[j] = NewJobData(s) /\ \A i \in Jobs \ {j} : job'[i] = job[i]
  BY <1>1, JobMoves
<1>4. DataOK(KindOf[j], pc'[j], wg'[j], job'[j])
  BY <1>2, <1>3 DEF DataOK, Reached, NewJobData
<1>5. ~Decided(j)
  BY <1>1 DEF Decided
<1>6. MovesOnly(j)
  BY <1>1, <1>2, <1>3, <1>4, <1>5 DEF MovesOnly
<1>7. QED
  BY <1>1, <1>2, <1>6, SilentOK

\* The deferred recover of handleImpl reaches the verdict FAILED.
LEMMA RecoverOK ==
    ASSUME TypeOK, JobsOK, NEW j \in Jobs, NEW d \in JobData, pc[j] \in {"pre", "post"},
           Recover(j, d)
    PROVE  JobsOK' /\ VerdictStep
<1> DEFINE f == [d EXCEPT !.status = "FAILED"]
<1>1. /\ Goto(j, "sendPanic") /\ job' = [job EXCEPT ![j] = f]
      /\ UNCHANGED <<wg, db, cloud, unacked>>
  BY DEF Recover
<1>2. pc'[j] = "sendPanic" /\ \A i \in Jobs \ {j} : pc'[i] = pc[i]
  BY <1>1, GotoMoves
<1>3. job'[j] = f /\ \A i \in Jobs \ {j} : job'[i] = job[i]
  BY <1>1, JobMoves
<1>4. f.status \in Terminal
  BY DEF JobData, Terminal
<1> HIDE DEF f
<1>5. DataOK(KindOf[j], pc'[j], wg'[j], job'[j])
  BY <1>2, <1>3, <1>4 DEF DataOK
<1>6. ~Decided(j)
  BY DEF Decided
<1>7. MovesOnly(j)
  BY <1>1, <1>2, <1>3, <1>5, <1>6 DEF MovesOnly
<1>8. QED
  BY <1>1, <1>2, <1>7, SilentOK

\* A handler that writes and goes on, its data as it was.
LEMMA WriteAndGo ==
    ASSUME TypeOK, JobsOK, NEW j \in Jobs, NEW l, Goto(j, l), SendToDB(j),
           DataOK(KindOf[j], l, wg'[j], job[j]),
           \A i \in Jobs \ {j} : wg'[i] = wg[i],
           UNCHANGED <<job, cloud, unacked>>,
           Decided(j) \/ job[j].useInfo = TRUE => Reached(KindOf[j], l, job[j]),
           l = "finished" => job[j].useInfo = TRUE
    PROVE  JobsOK' /\ VerdictStep
<1>1. pc'[j] = l /\ \A i \in Jobs \ {j} : pc'[i] = pc[i]
  BY GotoMoves
<1>2. Decided(j) \/ job[j].useInfo = TRUE => Decided(j)'
  BY <1>1, DecidedIsReached
<1>3. MovesOnly(j)
  BY <1>1, <1>2 DEF MovesOnly
<1>4. QED
  BY <1>1, <1>2, <1>3, WriteOK

LEMMA HandlerOK ==
    ASSUME TypeOK, OwnInv, JobsOK, NEW j \in Jobs, Handler(j)
    PROVE  JobsOK' /\ VerdictStep
<1>0. /\ job[j] \in JobData /\ KindOf[j] \in Kinds
      /\ DataOK(KindOf[j], pc[j], wg[j], job[j])
  BY KindAssumption DEF TypeOK, JobsOK
<1>1. CASE LoopHead(j)
  <2>1. PICK l \in {"pre", "rejected"} : Goto(j, l)
    BY <1>1 DEF LoopHead
  <2>2. /\ pc[j] = "loop" /\ job' = [job EXCEPT ![j] = [job[j] EXCEPT !.useInfo = FALSE]]
        /\ UNCHANGED <<wg, db, cloud, unacked>>
    BY <1>1 DEF LoopHead
  <2>3. pc'[j] = l /\ \A i \in Jobs \ {j} : pc'[i] = pc[i]
    BY <2>1, GotoMoves
  <2>4. /\ job'[j] = [job[j] EXCEPT !.useInfo = FALSE]
        /\ \A i \in Jobs \ {j} : job'[i] = job[i]
    BY <2>2, JobMoves
  <2>5. job'[j].done = FALSE /\ job'[j].useInfo = FALSE
    BY <1>0, <2>2, <2>4, FlagApart DEF DataOK
  <2>6. DataOK(KindOf[j], pc'[j], wg'[j], job'[j])
    BY <2>3, <2>5 DEF DataOK, Reached
  <2>7. ~Decided(j)
    BY <2>2 DEF Decided
  <2>8. MovesOnly(j)
    BY <2>2, <2>3, <2>4, <2>6, <2>7 DEF MovesOnly
  <2>9. QED
    BY <2>2, <2>3, <2>8, SilentOK
<1>2. CASE PreProcessJob(j)
  <2>1. PICK d \in PreProcess(KindOf[j], job[j]) :
            job' = [job EXCEPT ![j] = [d EXCEPT !.useInfo = IsFinished(KindOf[j], d)]]
    BY <1>2 DEF PreProcessJob
  <2>2. pc[j] = "pre" /\ Goto(j, "sendPre") /\ UNCHANGED <<wg, db, cloud, unacked>>
    BY <1>2 DEF PreProcessJob
  <2>3. pc'[j] = "sendPre" /\ \A i \in Jobs \ {j} : pc'[i] = pc[i]
    BY <2>2, GotoMoves
  <2>4. /\ job'[j] = [d EXCEPT !.useInfo = IsFinished(KindOf[j], d)]
        /\ \A i \in Jobs \ {j} : job'[i] = job[i]
    BY <2>1, JobMoves
  <2>5. job[j].done = FALSE
    BY <1>0, <2>2 DEF DataOK
  <2>6. DataOK(KindOf[j], pc'[j], wg'[j], job'[j])
    <3>1. DataOK(KindOf[j], "sendPre", wg'[j], [d EXCEPT !.useInfo = IsFinished(KindOf[j], d)])
      BY <1>0, <2>5, PreProcessData, Zenon
    <3>2. QED
      BY <2>3, <2>4, <3>1, Zenon
  <2>7. ~Decided(j)
    BY <2>2 DEF Decided
  <2>8. MovesOnly(j)
    BY <2>2, <2>3, <2>4, <2>6, <2>7 DEF MovesOnly
  <2>9. QED
    BY <2>2, <2>3, <2>8, SilentOK
<1>3. CASE PreProcessPanic(j)
  BY <1>0, <1>3, RecoverOK DEF PreProcessPanic
<1>4. CASE SendPreProcessed(j)
  <2>1. pc[j] = "sendPre" /\ SendToDB(j) /\ UNCHANGED <<job, cloud, unacked>>
    BY <1>4 DEF SendPreProcessed
  <2>2. CASE Finished(j)
    <3>1. Goto(j, "finished") /\ UNCHANGED wg
      BY <1>4, <2>2 DEF SendPreProcessed
    <3>2. IsFinished(KindOf[j], job[j])
      BY <2>2 DEF Finished
    <3>3. job[j].useInfo = TRUE /\ job[j].status \in Terminal
      BY <1>0, <2>1, <3>2 DEF DataOK, Reached
    <3>4. /\ DataOK(KindOf[j], "finished", wg'[j], job[j])
          /\ Reached(KindOf[j], "finished", job[j])
      BY <3>3 DEF DataOK, Reached
    <3>5. QED
      BY <2>1, <3>1, <3>3, <3>4, WriteAndGo
  <2>3. CASE ~Finished(j)
    <3>1. Goto(j, "toQueue") /\ wg' = [wg EXCEPT ![j] = @ + 1]
      BY <1>4, <2>3 DEF SendPreProcessed
    <3>2. ~IsFinished(KindOf[j], job[j]) /\ ~Decided(j)
      BY <2>1, <2>3 DEF Finished, Decided
    <3>3. job[j].useInfo = FALSE /\ job[j].done = FALSE
      <4>1. IsFinished(KindOf[j], job[j]) \in BOOLEAN
        BY <1>0, Flags
      <4>2. job[j].useInfo = IsFinished(KindOf[j], job[j]) /\ job[j].done = FALSE
        BY <1>0, <2>1, <3>2 DEF DataOK
      <4>3. QED
        BY <3>2, <4>1, <4>2
    <3>4. DataOK(KindOf[j], "toQueue", wg'[j], job[j])
      BY <3>3 DEF DataOK, Reached
    <3>5. \A i \in Jobs \ {j} : wg'[i] = wg[i]
      BY <3>1 DEF TypeOK
    <3>6. QED
      BY <2>1, <3>1, <3>2, <3>3, <3>4, <3>5, WriteAndGo
  <2>4. QED
    BY <2>2, <2>3
<1>5. CASE SendToQueue(j)
  <2>1. pc[j] = "toQueue" /\ Goto(j, "waiting") /\ UNCHANGED <<job, wg, db, cloud, unacked>>
    BY <1>5 DEF SendToQueue
  <2>2. pc'[j] = "waiting" /\ \A i \in Jobs \ {j} : pc'[i] = pc[i]
    BY <2>1, GotoMoves
  <2>3. wg[j] = 1
    BY <2>1 DEF OwnInv
  <2>4. job[j].done = FALSE /\ job[j].useInfo = FALSE
    BY <1>0, <2>1 DEF DataOK
  <2>5. DataOK(KindOf[j], pc'[j], wg'[j], job'[j])
    BY <2>1, <2>2, <2>3, <2>4 DEF DataOK, Reached
  <2>6. ~Decided(j)
    BY <2>1 DEF Decided
  <2>7. MovesOnly(j)
    BY <2>1, <2>2, <2>5, <2>6 DEF MovesOnly
  <2>8. QED
    BY <2>1, <2>2, <2>7, SilentOK
<1>6. CASE Resume(j)
  <2>1. /\ pc[j] = "waiting" /\ wg[j] = 0
        /\ job' = [job EXCEPT ![j] = [job[j] EXCEPT !.useInfo = TRUE]]
        /\ UNCHANGED <<wg, db, cloud, unacked>>
    BY <1>6 DEF Resume
  <2>2. PICK l \in {"sendProc", "post"} :
            Goto(j, l) /\ (IsFinished(KindOf[j], job[j]) <=> l = "sendProc")
    BY <1>6 DEF Resume, Finished
  <2>3. pc'[j] = l /\ \A i \in Jobs \ {j} : pc'[i] = pc[i]
    BY <2>2, GotoMoves
  <2>4. /\ job'[j] = [job[j] EXCEPT !.useInfo = TRUE]
        /\ \A i \in Jobs \ {j} : job'[i] = job[i]
    BY <2>1, JobMoves
  <2>5. DataOK(KindOf[j], "waiting", 0, job[j])
    BY <1>0, <2>1
  <2>6. DataOK(KindOf[j], pc'[j], wg'[j], job'[j])
    BY <1>0, <2>2, <2>3, <2>4, <2>5, ResumeData
  <2>7. ~Decided(j)
    BY <2>1 DEF Decided
  <2>8. MovesOnly(j)
    BY <2>1, <2>3, <2>4, <2>6, <2>7 DEF MovesOnly
  <2>9. QED
    BY <2>1, <2>3, <2>8, SilentOK
<1>7. CASE SendProcessed(j) \/ SendProcessedAgain(j) \/ SendPostProcessed(j)
  <2>1. /\ pc[j] \in {"sendProc", "sendProcAgain", "sendPost"} /\ SendToDB(j)
        /\ UNCHANGED <<job, wg, cloud, unacked>>
    BY <1>7 DEF SendProcessed, SendProcessedAgain, SendPostProcessed
  <2>2. PICK l \in {"sendProcAgain", "finished"} : Goto(j, l)
    BY <1>7 DEF SendProcessed, SendProcessedAgain, SendPostProcessed
  <2>3. job[j].useInfo = TRUE /\ job[j].status \in Terminal
    BY <1>0, <2>1 DEF DataOK, Reached
  <2>4. DataOK(KindOf[j], l, wg'[j], job[j]) /\ Reached(KindOf[j], l, job[j])
    BY <2>2, <2>3 DEF DataOK, Reached
  <2>5. QED
    BY <2>1, <2>2, <2>3, <2>4, WriteAndGo
<1>8. CASE PostProcessJob(j)
  <2>1. PICK d \in PostProcess(KindOf[j], job[j]) :
            /\ job' = [job EXCEPT ![j] = d]
            /\ IF IsFinished(KindOf[j], d)
               THEN Goto(j, "sendPost") /\ Record(j, d.status)
               ELSE Goto(j, "loop") /\ UNCHANGED hist
    BY <1>8 DEF PostProcessJob
  <2>2. pc[j] = "post" /\ UNCHANGED <<wg, db, cloud, unacked>>
    BY <1>8 DEF PostProcessJob
  <2>3. PICK l \in {"sendPost", "loop"} :
            Goto(j, l) /\ (IsFinished(KindOf[j], d) <=> l = "sendPost")
    BY <2>1
  <2>4. pc'[j] = l /\ \A i \in Jobs \ {j} : pc'[i] = pc[i]
    BY <2>3, GotoMoves
  <2>5. job'[j] = d /\ \A i \in Jobs \ {j} : job'[i] = job[i]
    BY <2>1, JobMoves
  <2>6. DataOK(KindOf[j], "post", wg[j], job[j])
    BY <1>0, <2>2
  <2>7. DataOK(KindOf[j], pc'[j], wg'[j], job'[j])
    BY <1>0, <2>3, <2>4, <2>5, <2>6, PostProcessData
  <2>8. ~Decided(j)
    BY <2>2 DEF Decided
  <2>9. MovesOnly(j)
    BY <2>2, <2>4, <2>5, <2>7, <2>8 DEF MovesOnly
  <2>10. QED
    BY <2>2, <2>4, <2>9, SilentOK
<1>9. CASE PostProcessPanic(j)
  <2>1. PostProcessPanics(job[j]) \in JobData
    BY <1>0 DEF PostProcessPanics, JobData
  <2>2. QED
    BY <1>9, <2>1, RecoverOK DEF PostProcessPanic
<1>10. CASE SendRecovered(j)
  <2>1. /\ pc[j] = "sendPanic" /\ SendToDB(j) /\ Goto(j, "recovered")
        /\ UNCHANGED <<job, wg, cloud, unacked>>
    BY <1>10 DEF SendRecovered
  <2>2. job[j].status \in Terminal
    BY <1>0, <2>1 DEF DataOK, Reached
  <2>3. /\ DataOK(KindOf[j], "recovered", wg'[j], job[j])
        /\ Reached(KindOf[j], "recovered", job[j])
    BY <2>2 DEF DataOK, Reached
  <2>4. QED
    BY <2>1, <2>3, WriteAndGo
<1>11. CASE DeleteHistory(j)
  <2>1. UNCHANGED <<pc, job, wg, db, cloud, unacked>>
    BY <1>11 DEF DeleteHistory
  <2>2. Decided(j)' <=> Decided(j)
    BY <2>1, DecidedIsReached
  <2>3. MovesOnly(j)
    BY <1>0, <2>1, <2>2 DEF MovesOnly
  <2>4. QED
    BY <2>1, <2>3, SilentOK
<1>12. QED
  BY <1>1, <1>2, <1>3, <1>4, <1>5, <1>6, <1>7, <1>8, <1>9, <1>10, <1>11 DEF Handler

\* The job in the hands of the worker: its handler waits, with the counter at 1.
LEMMA WorkersJob ==
    ASSUME TypeOK, OwnInv, JobsOK, wk.at # "idle"
    PROVE  /\ wk.job \in Jobs /\ pc[wk.job] = "waiting" /\ wg[wk.job] = 1
           /\ job[wk.job] \in JobData /\ KindOf[wk.job] \in Kinds
           /\ job[wk.job].done = FALSE /\ job[wk.job].useInfo = FALSE
           /\ ~Decided(wk.job)
<1>1. wk.job \in Jobs
  BY DEF TypeOK, OwnInv
<1>2. Held(wk.job)
  BY DEF Held
<1>3. pc[wk.job] = "waiting" /\ wg[wk.job] = 1
  BY <1>1, <1>2 DEF OwnInv
<1>4. DataOK(KindOf[wk.job], "waiting", 1, job[wk.job])
  BY <1>1, <1>3 DEF JobsOK
<1>5. job[wk.job].done = FALSE /\ job[wk.job].useInfo = FALSE
  BY <1>4 DEF DataOK
<1>6. ~Decided(wk.job)
  BY <1>3 DEF Decided
<1>7. job[wk.job] \in JobData /\ KindOf[wk.job] \in Kinds
  BY <1>1, KindAssumption DEF TypeOK
<1>8. QED
  BY <1>1, <1>3, <1>5, <1>6, <1>7

\* Done takes the counter of the job of the worker to 0.
LEMMA DoneCounts ==
    ASSUME TypeOK, wk.job \in Jobs, wg[wk.job] = 1, Done
    PROVE  wg'[wk.job] = 0 /\ \A i \in Jobs \ {wk.job} : wg'[i] = wg[i]
BY DEF TypeOK, Done

LEMMA WorkerOK ==
    ASSUME TypeOK, OwnInv, VerdictInv, Worker
    PROVE  VerdictInv' /\ VerdictStep
<1>0. JobsOK /\ PanicOK
  BY DEF VerdictInv
<1>1. CASE WorkerDequeue
  <2>1. PICK h \in Jobs : h = Head(fifo)
    BY <1>1 DEF WorkerDequeue, TypeOK
  <2>2. /\ fifo # << >> /\ wk' = [at |-> "sendRunning", job |-> h]
        /\ job' = [job EXCEPT ![h] = [job[h] EXCEPT !.status = "RUNNING"]]
        /\ UNCHANGED <<pc, wg, db, cloud, unacked>>
    BY <1>1, <2>1 DEF WorkerDequeue
  <2>3. Held(h)
    <3>1. fifo \in Seq(Jobs)
      BY DEF TypeOK
    <3>2. 1 \in 1..Len(fifo) /\ fifo[1] = h
      BY <2>1, <2>2, <3>1
    <3>3. QED
      BY <3>2 DEF Held, InFifo
  <2>4. pc[h] = "waiting" /\ wg[h] = 1
    BY <2>3 DEF OwnInv
  <2>5. DataOK(KindOf[h], "waiting", 1, job[h])
    BY <1>0, <2>4 DEF JobsOK
  <2>6. /\ job'[h] = [job[h] EXCEPT !.status = "RUNNING"]
        /\ \A i \in Jobs \ {h} : job'[i] = job[i]
    BY <2>2, JobMoves
  <2>7. job[h] \in JobData
    BY DEF TypeOK
  <2>8. job'[h].done = FALSE /\ job'[h].useInfo = FALSE
    BY <2>5, <2>6, <2>7 DEF DataOK, JobData
  <2>9. DataOK(KindOf[h], pc'[h], wg'[h], job'[h])
    BY <2>2, <2>4, <2>8 DEF DataOK, Reached
  <2>10. ~Decided(h)
    BY <2>4 DEF Decided
  <2>11. MovesOnly(h)
    BY <2>2, <2>6, <2>9, <2>10 DEF MovesOnly
  <2>12. JobsOK' /\ VerdictStep
    BY <1>0, <2>2, <2>11, SilentOK
  <2>13. PanicOK'
    BY <2>2 DEF PanicOK
  <2>14. QED
    BY <2>12, <2>13 DEF VerdictInv
<1>2. CASE WorkerSendRunning
  <2>1. PICK w \in Jobs : w = wk.job
    BY <1>0, <1>2, WorkersJob DEF WorkerSendRunning
  <2>2. /\ pc[w] = "waiting" /\ job[w].useInfo = FALSE /\ ~Decided(w)
    BY <1>0, <1>2, <2>1, WorkersJob DEF WorkerSendRunning
  <2>3. SendToDB(w) /\ UNCHANGED <<pc, job, wg, cloud, unacked>> /\ wk'.at = "process"
    BY <1>2, <2>1 DEF WorkerSendRunning, TypeOK
  <2>4. MovesOnly(w)
    BY <1>0, <2>2, <2>3 DEF MovesOnly, JobsOK
  <2>5. JobsOK' /\ VerdictStep
    BY <1>0, <2>2, <2>3, <2>4, WriteOK
  <2>6. QED
    BY <2>3, <2>5 DEF VerdictInv, PanicOK
<1>3. CASE WorkerProcess
  <2>1. PICK w \in Jobs : w = wk.job
    BY <1>0, <1>3, WorkersJob DEF WorkerProcess
  <2>2. /\ pc[w] = "waiting" /\ wg[w] = 1 /\ ~Decided(w)
        /\ job[w] \in JobData /\ KindOf[w] \in Kinds
        /\ job[w].useInfo = FALSE /\ job[w].done = FALSE
    BY <1>0, <1>3, <2>1, WorkersJob DEF WorkerProcess
  <2>3. PICK d \in Process(KindOf[w], job[w]) : job' = [job EXCEPT ![w] = d]
    BY <1>3, <2>1 DEF WorkerProcess
  <2>4. Done /\ UNCHANGED <<pc, db, cloud, unacked>>
    BY <1>3 DEF WorkerProcess
  <2>5. job'[w] = d /\ \A i \in Jobs \ {w} : job'[i] = job[i]
    BY <2>3, JobMoves
  <2>6. wg'[w] = 0 /\ \A i \in Jobs \ {w} : wg'[i] = wg[i]
    BY <2>1, <2>2, <2>4, DoneCounts
  <2>7. DataOK(KindOf[w], "waiting", 0, d)
    BY <2>2, ProcessData
  <2>8. MovesOnly(w)
    BY <2>2, <2>4, <2>5, <2>6, <2>7 DEF MovesOnly
  <2>9. JobsOK' /\ VerdictStep
    BY <1>0, <2>2, <2>4, <2>8, SilentOK
  <2>10. PanicOK'
    BY <2>4 DEF PanicOK, Done
  <2>11. QED
    BY <2>9, <2>10 DEF VerdictInv
<1>4. CASE WorkerPanic
  <2>1. PICK w \in Jobs : w = wk.job
    BY <1>0, <1>4, WorkersJob DEF WorkerPanic
  <2>2. /\ pc[w] = "waiting" /\ wg[w] = 1 /\ ~Decided(w)
        /\ job[w] \in JobData /\ KindOf[w] \in Kinds
        /\ job[w].useInfo = FALSE /\ job[w].done = FALSE
    BY <1>0, <1>4, <2>1, WorkersJob DEF WorkerPanic
  <2>3. PICK d \in ProcessPanics(KindOf[w], job[w]) :
            job' = [job EXCEPT ![w] = [d EXCEPT !.status = "FAILED"]]
    BY <1>4, <2>1 DEF WorkerPanic
  <2>4. /\ UNCHANGED <<pc, wg, db, cloud, unacked>>
        /\ wk'.job = w
    BY <1>4, <2>1 DEF WorkerPanic, TypeOK
  <2>5. /\ job'[w] = [d EXCEPT !.status = "FAILED"]
        /\ \A i \in Jobs \ {w} : job'[i] = job[i]
    BY <2>3, JobMoves
  <2>6. job'[w].status = "FAILED" /\ job'[w].done = FALSE /\ job'[w].useInfo = FALSE
    <3> DEFINE f == [d EXCEPT !.status = "FAILED"]
    <3>1. f.status = "FAILED" /\ f.done = FALSE /\ f.useInfo = FALSE
      BY <2>2, ProcessPanicsData, Zenon
    <3>2. job'[w] = f
      BY <2>5
    <3> HIDE DEF f
    <3>3. QED
      BY <3>1, <3>2
  <2>7. DataOK(KindOf[w], pc'[w], wg'[w], job'[w])
    BY <2>2, <2>4, <2>6 DEF DataOK, Reached
  <2>8. MovesOnly(w)
    BY <2>2, <2>4, <2>5, <2>7 DEF MovesOnly
  <2>9. JobsOK' /\ VerdictStep
    BY <1>0, <2>2, <2>4, <2>8, SilentOK
  <2>10. PanicOK'
    BY <2>4, <2>6 DEF PanicOK
  <2>11. QED
    BY <2>9, <2>10 DEF VerdictInv
<1>5. CASE WorkerSendPanic
  <2>1. PICK w \in Jobs : w = wk.job
    BY <1>0, <1>5, WorkersJob DEF WorkerSendPanic
  <2>2. /\ pc[w] = "waiting" /\ wg[w] = 1 /\ ~Decided(w)
        /\ job[w].useInfo = FALSE /\ job[w].done = FALSE
    BY <1>0, <1>5, <2>1, WorkersJob DEF WorkerSendPanic
  <2>3. job[w].status = "FAILED"
    BY <1>0, <1>5, <2>1 DEF WorkerSendPanic, PanicOK
  <2>4. SendToDB(w) /\ Done /\ UNCHANGED <<pc, job, cloud, unacked>>
    BY <1>5, <2>1 DEF WorkerSendPanic
  <2>5. wg'[w] = 0 /\ \A i \in Jobs \ {w} : wg'[i] = wg[i]
    BY <2>1, <2>2, <2>4, DoneCounts
  <2>6. DataOK(KindOf[w], "waiting", 0, job[w])
    BY <2>2, <2>3 DEF DataOK, Reached, Terminal
  <2>7. MovesOnly(w)
    BY <2>2, <2>4, <2>5, <2>6 DEF MovesOnly
  <2>8. JobsOK' /\ VerdictStep
    BY <1>0, <2>2, <2>4, <2>7, WriteOK
  <2>9. PanicOK'
    BY <2>4 DEF PanicOK, Done
  <2>10. QED
    BY <2>8, <2>9 DEF VerdictInv
<1>6. QED
  BY <1>1, <1>2, <1>3, <1>4, <1>5 DEF Worker

\* ServiceDB.Update shows RUNNING or the verdict, or nothing.
LEMMA UpdateOK ==
    ASSUME TypeOK, JobsOK, Update
    PROVE  JobsOK' /\ VerdictStep
<1>1. PICK b \in Jobs : b = db.id
  BY DEF Update, TypeOK
<1>2. /\ UNCHANGED <<pc, job, wg>> /\ db' = NoMsg
      /\ db'.id = NoJob /\ NoJob \notin Jobs
  BY NoJobAssumption DEF Update, NoMsg
<1>3. PICK applied \in BOOLEAN, acked \in BOOLEAN :
          /\ acked => applied
          /\ cloud' = IF Patches(db) /\ applied
                      THEN [cloud EXCEPT ![b] = convertToAPIStatus(db.status)]
                      ELSE cloud
          /\ unacked' = IF ~Patches(db) THEN unacked
                        ELSE IF acked THEN unacked \ {b}
                        ELSE unacked \cup {b}
  BY <1>1 DEF Update
<1>4. \A i \in Jobs : Decided(i)' <=> Decided(i)
  BY <1>2, DecidedIsReached
<1>5. verdicts' = verdicts
  BY <1>2, <1>4 DEF verdicts
<1>6. /\ cloud \in [Jobs -> CloudStatus]
      /\ db.useInfo \in BOOLEAN /\ db.status \in Status
      /\ \A i \in Jobs \ {b} : cloud'[i] = cloud[i] /\ (i \in unacked' <=> i \in unacked)
  BY <1>3 DEF TypeOK
<1>7. CloudOK(b) /\ DataOK(KindOf[b], pc[b], wg[b], job[b])
  BY DEF JobsOK
<1>8. ASSUME NEW i \in Jobs \ {b}
      PROVE  CloudOK(i)'
  <2>1. CloudOK(i)
    BY DEF JobsOK
  <2>2. QED
    BY <1>1, <1>2, <1>4, <1>6, <2>1 DEF CloudOK
<1>9. ASSUME CloudOK(b)'
      PROVE  JobsOK'
  BY <1>2, <1>8, <1>9 DEF JobsOK
<1>10. CASE Patches(db) /\ applied
  <2>1. /\ cloud' = [cloud EXCEPT ![b] = convertToAPIStatus(db.status)]
        /\ cloud'[b] = convertToAPIStatus(db.status)
    BY <1>3, <1>6, <1>10
  <2>2. CASE db.useInfo = TRUE
    <3>1. Decided(b) /\ db.status = job[b].status
      BY <1>1, <1>7, <2>2 DEF CloudOK
    <3>2. CloudOK(b)'
      BY <1>2, <1>4, <2>1, <3>1 DEF CloudOK
    <3>3. job[b].status \in Terminal
      BY <1>7, <3>1, DecidedIsReached DEF DataOK
    <3>4. /\ verdicts[b] = convertToAPIStatus(db.status)
          /\ verdicts[b] \in {"succeeded", "failed"}
      BY <3>1, <3>3, TerminalIsVerdict DEF verdicts
    <3>5. Verdict!ShowVerdict(b)
      BY <1>5, <2>1, <3>4 DEF Verdict!ShowVerdict, Verdict!Verdicts, verdicts
    <3>6. QED
      BY <1>9, <3>2, <3>5 DEF VerdictStep, Verdict!Next
  <2>3. CASE db.useInfo = FALSE
    <3>1. db.status = "RUNNING"
      BY <1>10, <2>3 DEF Patches
    <3>2. cloud'[b] = "running"
      BY <2>1, <3>1 DEF convertToAPIStatus
    <3>3. pc[b] # "finished"
      BY <1>1, <1>7, <2>3 DEF CloudOK
    <3>4. CloudOK(b)'
      BY <1>2, <3>2, <3>3 DEF CloudOK
    <3>5. cloud[b] \notin {"succeeded", "failed"}
      <4>1. Decided(b) => job[b].status # "RUNNING"
        BY <1>7, DecidedIsReached DEF DataOK, Terminal
      <4>2. QED
        BY <1>1, <1>7, <3>1, <4>1 DEF CloudOK
    <3>6. cloud' = [cloud EXCEPT ![b] = "running"]
      BY <2>1, <3>1 DEF convertToAPIStatus
    <3>7. Verdict!ShowRunning(b)
      BY <1>5, <3>5, <3>6 DEF Verdict!ShowRunning, Verdict!Verdicts, verdicts
    <3>8. QED
      BY <1>9, <3>4, <3>7 DEF VerdictStep, Verdict!Next
  <2>4. QED
    BY <1>6, <2>2, <2>3
<1>11. CASE ~(Patches(db) /\ applied)
  <2>1. cloud' = cloud
    BY <1>3, <1>11
  <2>2. pc[b] = "finished" => b \in unacked'
    <3>1. pc[b] = "finished" => Patches(db)
      BY <1>1, <1>7 DEF CloudOK, Patches
    <3>2. QED
      BY <1>3, <1>11, <3>1
  <2>3. CloudOK(b)'
    BY <1>2, <1>4, <1>7, <2>1, <2>2 DEF CloudOK
  <2>4. QED
    BY <1>5, <1>9, <2>1, <2>3 DEF VerdictStep
<1>12. QED
  BY <1>10, <1>11

\* A step that touches neither a job nor DBChan nor the cloud.
LEMMA ElsewhereOK ==
    ASSUME JobsOK, UNCHANGED <<pc, job, wg, db, cloud, unacked>>
    PROVE  JobsOK' /\ VerdictStep
<1>1. \A i \in Jobs : Decided(i)' <=> Decided(i)
  BY DecidedIsReached
<1>2. JobsOK'
  BY <1>1 DEF JobsOK, CloudOK
<1>3. verdicts' = verdicts
  BY <1>1 DEF verdicts
<1>4. QED
  BY <1>2, <1>3 DEF VerdictStep

\* No handler touches the job that the worker has.
LEMMA HandlersKeepAway ==
    ASSUME TypeOK, OwnInv, PanicOK, NEW j \in Jobs,
           Handler(j) \/ \E s \in {"READY", "FAILED"} : HandleJob(j, s)
    PROVE  PanicOK'
<1>1. wk' = wk /\ \A i \in Jobs \ {j} : job'[i] = job[i]
  BY DEF TypeOK, Handler, HandleJob, LoopHead, PreProcessJob, PreProcessPanic,
         SendPreProcessed, SendToQueue, Resume, SendProcessed, SendProcessedAgain,
         PostProcessJob, PostProcessPanic, Recover, SendPostProcessed, SendRecovered,
         DeleteHistory
<1>2. pc[j] # "waiting" \/ wg[j] = 0
  BY DEF Handler, HandleJob, LoopHead, PreProcessJob, PreProcessPanic,
         SendPreProcessed, SendToQueue, Resume, SendProcessed, SendProcessedAgain,
         PostProcessJob, PostProcessPanic, SendPostProcessed, SendRecovered,
         DeleteHistory, Exits
<1>3. ~Held(j)
  BY <1>2 DEF OwnInv
<1>4. wk.at = "sendPanic" => wk.job \in Jobs \ {j}
  BY <1>3 DEF Held, TypeOK, OwnInv
<1>5. QED
  BY <1>1, <1>4 DEF PanicOK

LEMMA VerdictNext ==
    ASSUME TypeOK, OwnInv, VerdictInv, [Next]_vars
    PROVE  VerdictInv' /\ VerdictStep
<1>0. JobsOK /\ PanicOK
  BY DEF VerdictInv
<1>1. ASSUME NEW j \in Jobs, NEW s \in {"READY", "FAILED"}, HandleJob(j, s)
      PROVE  VerdictInv' /\ VerdictStep
  BY <1>0, <1>1, HandleJobOK, HandlersKeepAway DEF VerdictInv
<1>2. ASSUME NEW j \in Jobs, Handler(j)
      PROVE  VerdictInv' /\ VerdictStep
  BY <1>0, <1>2, HandlerOK, HandlersKeepAway DEF VerdictInv
<1>3. CASE Update
  <2>1. PanicOK'
    BY <1>0, <1>3 DEF Update, PanicOK
  <2>2. QED
    BY <1>0, <1>3, <2>1, UpdateOK DEF VerdictInv
<1>4. CASE Queue \/ Quiescent \/ UNCHANGED vars
  <2>1. UNCHANGED <<pc, job, wg, wk, db, cloud, unacked>>
    BY <1>4 DEF Queue, QueueCheck, QueueEnqueue, Quiescent, vars
  <2>2. PanicOK'
    BY <1>0, <2>1 DEF PanicOK
  <2>3. QED
    BY <1>0, <2>1, <2>2, ElsewhereOK DEF VerdictInv
<1>5. QED
  BY <1>1, <1>2, <1>3, <1>4, WorkerOK DEF Next

LEMMA VerdictInit == Init => VerdictInv /\ Verdict!Init
<1> SUFFICES ASSUME Init
             PROVE  VerdictInv /\ Verdict!Init
  OBVIOUS
<1>1. \A j \in Jobs : pc[j] = "absent" /\ cloud[j] = "ready" /\ db.id # j
  BY NoJobAssumption DEF Init, NoMsg
<1>2. \A j \in Jobs : ~Decided(j)
  BY <1>1 DEF Decided
<1>3. JobsOK
  BY <1>1 DEF JobsOK, DataOK, Reached, CloudOK
<1>4. PanicOK
  BY DEF Init, PanicOK
<1>5. Verdict!Init
  BY <1>2 DEF Init, Verdict!Init
<1>6. QED
  BY <1>3, <1>4, <1>5 DEF VerdictInv

-----------------------------------------------------------------------------

LEMMA VerdictInductive == Spec => [](TypeOK /\ OwnInv /\ VerdictInv)
<1>1. Init => VerdictInv
  BY VerdictInit
<1>2. TypeOK /\ OwnInv /\ VerdictInv /\ [Next]_vars => VerdictInv'
  BY VerdictNext
<1>3. QED
  BY <1>1, <1>2, Inductive, PTL DEF Spec

(***************************************************************************)
(* The engine reaches at most one verdict per job, shows the cloud a       *)
(* terminal status only after it has reached that very verdict, and never  *)
(* takes it back, however handlers, worker and database goroutine          *)
(* interleave, whichever phase panics and whichever PATCH is lost.         *)
(***************************************************************************)
THEOREM ImplementsVerdict == Spec => VerdictSpec
<1>1. TypeOK /\ OwnInv /\ VerdictInv /\ [Next]_vars
        => [Verdict!Next]_<<verdicts, cloud>>
  BY VerdictNext DEF VerdictStep
<1>2. Init => Verdict!Init
  BY VerdictInit
<1>3. QED
  BY <1>1, <1>2, VerdictInductive, PTL DEF Spec, VerdictSpec, Verdict!Spec, verdicts

(***************************************************************************)
(* A handler that has returned with a finished job has told the cloud its  *)
(* final status once DBChan no longer carries the job, unless the last     *)
(* PATCH of the job was not answered with success.                         *)
(***************************************************************************)
THEOREM Reported == Spec => []FinishedIsReported
<1>1. VerdictInv => FinishedIsReported
  <2> SUFFICES ASSUME VerdictInv, NEW j \in Jobs,
                      pc[j] = "finished", db.id # j, j \notin unacked
               PROVE  /\ job[j].status \in Terminal
                      /\ cloud[j] = convertToAPIStatus(job[j].status)
    BY DEF FinishedIsReported
  <2>1. DataOK(KindOf[j], "finished", wg[j], job[j]) /\ CloudOK(j)
    BY DEF VerdictInv, JobsOK
  <2>2. QED
    BY <2>1 DEF DataOK, Reached, CloudOK
<1>2. QED
  BY <1>1, VerdictInductive, PTL
=============================================================================
