------------------------------ MODULE JobTypes ------------------------------
(***************************************************************************)
(* The job types of the engine, as the scheduler sees them: the data of a  *)
(* job, and what PreProcess, Process, PostProcess and IsFinished of each   *)
(* type can do to it.  The scheduler calls these methods and never looks   *)
(* at the type itself, so each phase is an operator from the data before   *)
(* the call to the SET of data the call may leave behind.  What decides    *)
(* between the members of such a set lies outside the engine process: the  *)
(* transpiler, the circuit combiner, the QPU gateway, the estimator, the   *)
(* mitigator, the container of a server side execution (SSE) job.          *)
(***************************************************************************)

Status == {"SUBMITTED", "READY", "RUNNING", "SUCCEEDED", "FAILED", "CANCELLED"}

Terminal == {"SUCCEEDED", "FAILED"}

Kinds == {"normal", "sampling", "estimation", "sse", "manual"}

(***************************************************************************)
(* status and useInfo are JobData.Status and JobData.UseJobInfoUpdate.     *)
(* The other fields are the private state that IsFinished reads: need is   *)
(* MitigationInfo.NeedToBeMitigated, done is MitigationInfo.Mitigated of a *)
(* sampling job, finished of an estimation job and postProcessed of a      *)
(* manual job.  counts says whether an estimation job has collected the    *)
(* counts of at least one circuit.                                         *)
(***************************************************************************)
JobData == [status : Status, useInfo : BOOLEAN, need : BOOLEAN,
            done : BOOLEAN, counts : BOOLEAN]

\* A job the way the poll client builds it, in status s.
NewJobData(s) == [status |-> s, useInfo |-> FALSE, need |-> FALSE,
                  done |-> FALSE, counts |-> FALSE]

SetFailureWithError(d) == [d EXCEPT !.status = "FAILED"]

-----------------------------------------------------------------------------
(* NormalJob.                                                              *)

IsFinishedNormal(d) == d.status \in Terminal

\* The transpiler answers, or refuses the program, or cannot be reached.
Transpile(d) == {d, SetFailureWithError(d)}

PreProcessNormal(d) == Transpile(d)

\* The gateway ran the program, with or without success.
CallJob(d) == {[d EXCEPT !.status = s] : s \in Terminal}

\* A QPU that is not connected, or a call that fails, is a failed job.
Send(d) == CallJob(d) \cup {SetFailureWithError(d)}

-----------------------------------------------------------------------------
(* SamplingJob.                                                            *)

IsFinishedSampling(d) ==
    \/ d.status = "FAILED"
    \/ d.need /\ d.done
    \/ ~d.need /\ d.status = "SUCCEEDED"

\* The user asked for read-out error mitigation, or did not.
NewMitigationInfoFromJobData(d) ==
    {[d EXCEPT !.need = n, !.done = FALSE] : n \in BOOLEAN}

\* A fresh MitigationInfo, unless the transpiler refuses the program.
PreProcessSampling(d) ==
    {SetFailureWithError(d)} \cup NewMitigationInfoFromJobData(d)

\* A mitigator that cannot be dialled leaves the status as it was.
PseudoInverseMitigation(d) == {d} \cup {[d EXCEPT !.status = s] : s \in Terminal}

PostProcessSampling(d) ==
    LET e == [d EXCEPT !.done = TRUE]
    IN  IF d.need THEN PseudoInverseMitigation(e) ELSE {e}

-----------------------------------------------------------------------------
(* EstimationJob.                                                          *)

IsFinishedEstimation(d) == d.done

PreProcessEstimation(d) == {d, [SetFailureWithError(d) EXCEPT !.done = TRUE]}

(***************************************************************************)
(* The loop over the circuits: every circuit succeeded, or one failed      *)
(* after any number of successes, or there was no circuit and nothing was  *)
(* sent.                                                                   *)
(***************************************************************************)
ProcessEstimation(d) ==
    {d, [d EXCEPT !.status = "SUCCEEDED", !.counts = TRUE]}
        \cup {[d EXCEPT !.status = "FAILED", !.done = TRUE, !.counts = c]
                : c \in {d.counts, TRUE}}

\* The estimator refuses an empty list of counts and accepts any other.
EstimationPostProcess(d) == IF d.counts THEN Terminal ELSE {"FAILED"}

PostProcessEstimation(d) ==
    {[d EXCEPT !.done = TRUE, !.status = s] : s \in EstimationPostProcess(d)}

-----------------------------------------------------------------------------
(* ManualJob.                                                              *)

IsFinishedManual(d) == d.done \/ d.status = "FAILED"

\* Invalid parameters are refused before UseJobInfoUpdate is set.
PreProcessManual(d) ==
    {d, SetFailureWithError(d), [SetFailureWithError(d) EXCEPT !.useInfo = TRUE]}

PostProcessManual(d) ==
    {[d EXCEPT !.done = TRUE, !.status = s] : s \in Terminal}

-----------------------------------------------------------------------------
(* SSEJob.                                                                 *)

\* Download of the program and the directories for it.
PreProcessSSE(d) == {d, SetFailureWithError(d)}

\* RunSSE takes the status from the result file, or fails.
ProcessSSE(d) == {[d EXCEPT !.status = s] : s \in Status}

-----------------------------------------------------------------------------
(* The methods of the interface Job.                                       *)

IsFinished(k, d) ==
    \/ k \in {"normal", "sse"} /\ IsFinishedNormal(d)
    \/ k = "sampling" /\ IsFinishedSampling(d)
    \/ k = "estimation" /\ IsFinishedEstimation(d)
    \/ k = "manual" /\ IsFinishedManual(d)

PreProcess(k, d) ==
    CASE k = "normal"     -> PreProcessNormal(d)
      [] k = "sampling"   -> PreProcessSampling(d)
      [] k = "estimation" -> PreProcessEstimation(d)
      [] k = "manual"     -> PreProcessManual(d)
      [] k = "sse"        -> PreProcessSSE(d)

Process(k, d) ==
    CASE k = "estimation" -> ProcessEstimation(d)
      [] k = "sse"        -> ProcessSSE(d)
      [] OTHER            -> Send(d)

\* The data at the moment Process panics: the counts of the circuits of an
\* estimation job that were sent before are already appended.
ProcessPanics(k, d) ==
    {[d EXCEPT !.counts = c]
        : c \in {d.counts} \cup (IF k = "estimation" THEN {TRUE} ELSE {})}

\* The types whose PostProcess does anything: the others return at once.
PostProcessed == {"sampling", "estimation", "manual"}

PostProcess(k, d) ==
    CASE k = "sampling"   -> PostProcessSampling(d)
      [] k = "estimation" -> PostProcessEstimation(d)
      [] k = "manual"     -> PostProcessManual(d)
      [] OTHER            -> {d}

\* Every PostProcess that can panic sets its flag before anything else.
PostProcessPanics(d) == [d EXCEPT !.done = TRUE]

-----------------------------------------------------------------------------
(* The status the provider API of the cloud is told.                       *)

CloudStatus == {"submitted", "ready", "running", "succeeded", "failed"}

\* A cancelled job has no status of its own in the API: it is a failed one.
convertToAPIStatus(s) ==
    CASE s = "SUBMITTED" -> "submitted"
      [] s = "READY"     -> "ready"
      [] s = "RUNNING"   -> "running"
      [] s = "SUCCEEDED" -> "succeeded"
      [] OTHER           -> "failed"
=============================================================================
