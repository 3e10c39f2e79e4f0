----------------------------- MODULE SingleJob -----------------------------
(***************************************************************************)
(* One sampling or estimation job from the cloud and back                  *)
(* (sampling/job.go, estimation/job.go, mitig/mitig.go): which program is  *)
(* run, how often, what is done to the counts, and what the cloud is told. *)
(* The options of the job pass through three decoders before they matter.  *)
(* A program is the user's (circuit 0) or one of the circuits the          *)
(* estimator makes of it, laid out by the transpiler or not.               *)
(***************************************************************************)
EXTENDS CloudJob, Integers, Sequences

CONSTANTS MaxGroups   \* the estimator makes at most so many circuits

ASSUME GroupsAssumption == MaxGroups \in Nat

VARIABLES
    pc,        \* the phase the handler has reached
    request,   \* what the user sent, with the circuits the estimator makes
    job,       \* the JobData and the private fields of the job
    faults,    \* what went wrong
    report     \* what ServiceDB.Update told the cloud

vars == <<pc, request, job, faults, report>>

Programs == [circuit : 0 .. MaxGroups, laid : BOOLEAN]

\* The empty string of JobData.TranspiledQASM.
NoProgram == [circuit |-> -1, laid |-> FALSE]

UserProgram == [circuit |-> 0, laid |-> FALSE]

\* Counts remember the program that was run and the program, if any, for
\* which the mitigator corrected them.
CountsOf(p) == [of |-> p, by |-> NoProgram]

Requests == [kind : {"sampling", "estimation"}, ti : TranspilerInfos,
             mi : MitigationInfos, groups : 0 .. MaxGroups]

NoReport == [status |-> "none"]

\* A service failed or could not be reached, the transpiler answered without a
\* program, or a phase of the job panicked.
Faults == {"service", "noProgram", "panic"}

\* ConvertFromCloudJob, and New of the job type.
Init ==
    /\ pc = "received"
    /\ request \in Requests
    /\ PassesValidation(request.ti)
    /\ request.kind = "sampling" => request.groups = 0
    /\ job = [status |-> "READY", use |-> FALSE, lib |-> TranspilerLib(request.ti),
              mitigation |-> ConvertToMitigationInfo(request.mi),
              qasm |-> UserProgram, tqasm |-> NoProgram, codes |-> <<>>,
              need |-> FALSE, counts |-> CountsOf(NoProgram), list |-> <<>>,
              value |-> <<>>]
    /\ faults = {}
    /\ report = NoReport

\* The job has FAILED, and the handler, which finds it finished, sets
\* UseJobInfoUpdate before it writes it.
Fail(failed) ==
    /\ job' = [failed EXCEPT !.status = "FAILED", !.use = TRUE]
    /\ faults' = faults \cup {"service"}
    /\ pc' = "report"
    /\ UNCHANGED <<request, report>>

-----------------------------------------------------------------------------
(* PreProcess.                                                             *)

\* Mutated form of Transpiled: every job is transpiled.
TranspiledAlways(d) == [d EXCEPT !.tqasm = [circuit |-> 0, laid |-> TRUE]]

\* The job after Transpile, which is skipped for a job without a library.
Transpiled(d) ==
    IF NeedTranspiling(d.lib)
    THEN [d EXCEPT !.tqasm = [circuit |-> 0, laid |-> TRUE]]
    ELSE d

\* PreProcess or PostProcess panics: the recover of handleImpl sets FAILED and
\* writes the job.  UseJobInfoUpdate is what it was, FALSE before wg.Wait.
HandlerPanics ==
    /\ \/ pc \in {"received", "post"} /\ job' = [job EXCEPT !.status = "FAILED"]
       \/ pc = "received" /\ job' = [Transpiled(job) EXCEPT !.status = "FAILED"]
    /\ faults' = faults \cup {"panic"}
    /\ pc' = "report"
    /\ UNCHANGED <<request, report>>

\* An answer of the transpiler with a status it should not have is logged and
\* taken for a success; it may have no program.  One whose mapping cannot be
\* read fails the job with the program stored.
PreProcessSampling ==
    /\ pc = "received" /\ request.kind = "sampling"
    /\ \/ /\ job' = [Transpiled(job) EXCEPT
                        !.need = NeedToBeMitigated(job.mitigation)]
          /\ pc' = "queued"
          /\ UNCHANGED <<request, faults, report>>
       \/ /\ NeedTranspiling(job.lib)
          /\ job' = [job EXCEPT !.need = NeedToBeMitigated(job.mitigation)]
          /\ faults' = faults \cup {"noProgram"}
          /\ pc' = "queued"
          /\ UNCHANGED <<request, report>>
       \/ NeedTranspiling(job.lib) /\ (Fail(job) \/ Fail(Transpiled(job)))

\* usedQASM: the program the estimator makes its circuits from.
usedQASM(d) == IF NeedTranspiling(d.lib) THEN d.tqasm ELSE d.qasm

\* Mutated form of preprocess: one circuit too many.
preprocessTooMany(p) == [i \in 1 .. request.groups + 1 |-> [p EXCEPT !.circuit = i]]

\* The circuits the estimator makes of the program it is given.
preprocess(p) == [i \in 1 .. request.groups |-> [p EXCEPT !.circuit = i]]

\* The transpiler may refuse the program, the operators may not parse, and
\* the estimator may have no program to read or not answer within a second.
PreProcessEstimation ==
    /\ pc = "received" /\ request.kind = "estimation"
    /\ \/ /\ job' = [Transpiled(job) EXCEPT
                        !.codes = preprocess(usedQASM(Transpiled(job)))]
          /\ pc' = "queued"
          /\ UNCHANGED <<request, faults, report>>
       \/ NeedTranspiling(job.lib) /\ Fail(job)
       \/ Fail(Transpiled(job))

\* The worker takes the job from the queue.
UpdateStatusToRunning ==
    /\ pc = "queued"
    /\ job' = [job EXCEPT !.status = "RUNNING"]
    /\ pc' = "process"
    /\ UNCHANGED <<request, faults, report>>

-----------------------------------------------------------------------------
(* Process.                                                                *)

\* The program that CallJob and the mitigator are given.
ProgramToBeSent(d) == IF d.tqasm = NoProgram THEN d.qasm ELSE d.tqasm

\* The gateway ran the program of the job.
Called(d) == [d EXCEPT !.status = "SUCCEEDED",
                       !.counts = CountsOf(ProgramToBeSent(d))]

\* The worker is done with the job: the handler, back from wg.Wait, sets
\* UseJobInfoUpdate.
Processed(d) == [d EXCEPT !.use = TRUE]

\* After Process IsFinished decides whether the job is post-processed.  A
\* panic that the worker recovers from leaves a job that has FAILED, too.
ProcessSampling ==
    /\ pc = "process" /\ request.kind = "sampling"
    /\ \/ /\ job' = Processed(Called(job))
          /\ pc' = IF job.need THEN "post" ELSE "report"
          /\ UNCHANGED <<request, faults, report>>
       \/ Fail(job)

\* Process of an estimation job puts each circuit in the place of the program.
WithCircuit(d, i) ==
    IF NeedTranspiling(d.lib) THEN [d EXCEPT !.tqasm = d.codes[i]]
                              ELSE [d EXCEPT !.qasm = d.codes[i]]

\* Mutated form of ProcessCircuit: the first circuit that fails
\* ends the loop, not the job.
ProcessCircuitOrSkip ==
    /\ pc = "process" /\ request.kind = "estimation"
    /\ Len(job.list) < Len(job.codes)
    /\ \/ /\ LET d == Called(WithCircuit(job, Len(job.list) + 1))
             IN  job' = [d EXCEPT !.list = Append(@, d.counts)]
          /\ UNCHANGED <<pc, request, faults, report>>
       \/ /\ job' = Processed(job)
          /\ pc' = "post"
          /\ UNCHANGED <<request, faults, report>>

\* One round of the loop; the first circuit that fails ends the job.
ProcessCircuit ==
    /\ pc = "process" /\ request.kind = "estimation"
    /\ Len(job.list) < Len(job.codes)
    /\ \/ /\ LET d == Called(WithCircuit(job, Len(job.list) + 1))
             IN  job' = [d EXCEPT !.list = Append(@, d.counts)]
          /\ UNCHANGED <<pc, request, faults, report>>
       \/ Fail(WithCircuit(job, Len(job.list) + 1))

\* A circuit makes Process panic.  The worker recovers and sets FAILED, but
\* IsFinished of an estimation job looks only at a flag of its own: the job
\* is post-processed with the counts it has.
ProcessCircuitPanics ==
    /\ pc = "process" /\ request.kind = "estimation"
    /\ Len(job.list) < Len(job.codes)
    /\ LET d == WithCircuit(job, Len(job.list) + 1)
       IN  job' = Processed([d EXCEPT !.status = "FAILED"])
    /\ faults' = faults \cup {"panic"}
    /\ pc' = "post"
    /\ UNCHANGED <<request, report>>

ProcessEnds ==
    /\ pc = "process" /\ request.kind = "estimation"
    /\ Len(job.list) = Len(job.codes)
    /\ job' = Processed(job)
    /\ pc' = "post"
    /\ UNCHANGED <<request, faults, report>>

-----------------------------------------------------------------------------
(* PostProcess, and the report.                                            *)

\* Mutated form of Mitigated: the mitigator is given the user's program.
MitigatedForUser(d) == [d.counts EXCEPT !.by = d.qasm]

\* The mitigator corrects the counts for the qubits the program measures.
Mitigated(d) == [d.counts EXCEPT !.by = ProgramToBeSent(d)]

\* The option is decoded a second time.  PseudoInverseMitigation: mitigated;
\* or counts of no use or a mitigator that does not answer, which fail the
\* job; or an address that cannot be dialled, which leaves it as it is.
PostProcessSampling ==
    /\ pc = "post" /\ request.kind = "sampling"
    /\ LET shouldMitigate == NeedToBeMitigated(job.mitigation)
       IN  \/ /\ job' = IF shouldMitigate
                        THEN [job EXCEPT !.status = "SUCCEEDED",
                                         !.counts = Mitigated(job)]
                        ELSE job
              /\ pc' = "report"
              /\ UNCHANGED <<request, faults, report>>
           \/ shouldMitigate /\ Fail(job)
           \/ /\ shouldMitigate
              /\ faults' = faults \cup {"service"}
              /\ pc' = "report"
              /\ UNCHANGED <<request, job, report>>

\* The i-th counts as the estimator is given them.  They are mitigated in a
\* copy of the job, which has the program of the last circuit; a mitigation
\* that fails in the copy goes unnoticed.
CountsForEstimator(i) ==
    IF ShouldMitigateEstimation(job.mitigation)
    THEN {job.list[i], Mitigated([job EXCEPT !.counts = job.list[i]])}
    ELSE {job.list[i]}

\* The estimator pairs the counts with the groups of operators in order; it
\* has no first counts to take the shots from when the list is empty.
PostProcessEstimation ==
    /\ pc = "post" /\ request.kind = "estimation"
    /\ \/ /\ job.list # <<>>
          /\ \E cs \in [DOMAIN job.list ->
                            UNION {CountsForEstimator(i) : i \in DOMAIN job.list}] :
                /\ \A i \in DOMAIN cs : cs[i] \in CountsForEstimator(i)
                /\ job' = [job EXCEPT !.status = "SUCCEEDED", !.value = cs]
          /\ pc' = "report"
          /\ UNCHANGED <<request, faults, report>>
       \/ Fail(job)

\* A failed job has no result, a job without a library has no transpile
\* result, a default library is put to the cloud.
ConvertToCloudJob ==
    [status |-> job.status,
     counts |-> IF request.kind = "sampling" /\ job.status = "SUCCEEDED"
                THEN job.counts ELSE CountsOf(NoProgram),
     value |-> IF job.status = "SUCCEEDED" THEN job.value ELSE <<>>,
     transpiled |-> IF NeedTranspiling(job.lib) THEN job.tqasm ELSE NoProgram,
     putInfo |-> NeedsUpdateTranspilerInfo(request.ti)]

\* Without UseJobInfoUpdate a job that is over is only logged.
Update ==
    /\ pc = "report"
    /\ report' = IF job.use THEN ConvertToCloudJob ELSE report
    /\ pc' = "done"
    /\ UNCHANGED <<request, job, faults>>

Next ==
    \/ HandlerPanics
    \/ PreProcessSampling
    \/ PreProcessEstimation
    \/ UpdateStatusToRunning
    \/ ProcessSampling
    \/ ProcessCircuit
    \/ ProcessCircuitPanics
    \/ ProcessEnds
    \/ PostProcessSampling
    \/ PostProcessEstimation
    \/ Update

Spec == Init /\ [][Next]_vars

-----------------------------------------------------------------------------
(* Properties.                                                             *)

Counts == [of : Programs \cup {NoProgram}, by : Programs \cup {NoProgram}]

\* The fields of the job and of the report have the values the code can give
\* them; the lists are never longer than the estimator makes them.
TypeOK ==
    /\ pc \in {"received", "queued", "process", "post", "report", "done"}
    /\ request \in Requests
    /\ job \in [status : {"READY", "RUNNING", "SUCCEEDED", "FAILED"},
                use : BOOLEAN, lib : TranspilerInfos \cup {"nil"},
                mitigation : {ConvertToMitigationInfo(mi) : mi \in MitigationInfos},
                qasm : Programs, tqasm : Programs \cup {NoProgram},
                codes : Seq(Programs), need : BOOLEAN, counts : Counts,
                list : Seq(Counts), value : Seq(Counts)]
    /\ Len(job.codes) <= MaxGroups
    /\ faults \subseteq Faults

\* Program p is laid out as the user's transpiler_lib asks: null means "run it
\* as it is", a name or no member means a transpiler.  A value that is not a
\* string asks for nothing the engine understands.
AsAsked(p) ==
    /\ request.ti = "nullLib" => ~p.laid
    /\ request.ti \notin {"nullLib", "notAString"} => p.laid \/ "noProgram" \in faults

\* What the gateway ran (CallJob takes the transpiled program if there is one)
\* was laid out by the transpiler if and only if the user's option asks for it,
\* for the one program of a sampling job and for every circuit of an
\* estimation job, whose loop puts its circuits into the same two fields.  The
\* one exception is an answer of the transpiler without a program.
RanAsAsked ==
    /\ job.counts.of # NoProgram => AsAsked(job.counts.of)
    /\ \A i \in DOMAIN job.list : AsAsked(job.list[i].of)

\* A sampling job that succeeds with every service in order reports counts
\* that were mitigated exactly when the user asked for pseudo_inverse, and
\* for the program that was run: the text of the option survives
\* ConvertToMitigationInfo, NewMitigationInfoFromJobData and PostProcess.
MitigatedExactlyWhenAsked ==
    report.status = "SUCCEEDED" /\ request.kind = "sampling" /\ faults = {} =>
        report.counts.by = IF request.mi = "pseudo_inverse"
                           THEN report.counts.of ELSE NoProgram

\* The expectation value of an estimation job that is reported SUCCEEDED comes
\* from the counts of the circuits the estimator made, each in its place, and
\* from all of them: a circuit that fails never leaves a gap, which the
\* estimator, which zips counts and operators, would not notice.  Only when
\* Process panicked does it come from the circuits before that one alone.
ValueFromEveryGroup ==
    report.status = "SUCCEEDED" /\ request.kind = "estimation" =>
        /\ \/ Len(report.value) = request.groups
           \/ "panic" \in faults /\ Len(report.value) < request.groups
        /\ \A i \in DOMAIN report.value :
              report.value[i].of.circuit = i /\ AsAsked(report.value[i].of)

\* The counts of an estimation job are mitigated when the user asked for it
\* and every service is in order (TestEstimationPostProcessMitigation).
EstimationMitigatedWhenAsked ==
    /\ report.status = "SUCCEEDED" /\ request.kind = "estimation"
    /\ request.mi = "pseudo_inverse" /\ faults = {}
    => \A i \in DOMAIN report.value : report.value[i].by # NoProgram
=============================================================================
