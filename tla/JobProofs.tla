----------------------------- MODULE JobProofs -----------------------------
(***************************************************************************)
(* A sampling or an estimation job from the answer of the cloud to its     *)
(* report: the properties of JobIntake for answers of any length and any   *)
(* options, and those of SingleJob for any number of circuits.             *)
(***************************************************************************)
EXTENDS SingleJob, JobIntake, SequenceTheorems, TLAPS

-----------------------------------------------------------------------------
(* JobIntake.                                                              *)

Kinds == {"SamplingJob", "EstimationJob", "ManualJob", "SSEJob", "UnknownJob"}
Statuses == {"SUBMITTED", "READY", "RUNNING", "SUCCEEDED", "FAILED"}

MadeJobs == [id : Nat, kind : Kinds, status : Statuses]

SliceTyped ==
    /\ task \in {"request", "convert", "handOver", "done", "crashed"}
    /\ batch \in Seq(CloudJobs)
    /\ jobs \in Seq(MadeJobs)
    /\ handed \in Seq(MadeJobs)
    /\ made \in 0 .. Len(batch)

\* The slice has one job for every job that was converted, in order.
SliceMade ==
    /\ Len(jobs) = made
    /\ \A i \in 1 .. made : jobs[i] = NewJobFromJobDataWithValidation(i)

\* The scheduler was given the first jobs of the slice.
SliceHanded ==
    /\ Len(handed) <= Len(jobs)
    /\ \A i \in 1 .. Len(handed) : handed[i] = jobs[i]

Phases ==
    /\ task = "request" => batch = <<>>
    /\ task \in {"request", "convert", "crashed"} => handed = <<>>
    /\ task \in {"handOver", "done"} => made = Len(batch)
    /\ task = "done" => Len(handed) = Len(jobs)

IntakeInv == SliceTyped /\ SliceMade /\ SliceHanded /\ Phases

LEMMA BatchesAreSequences == Batches \subseteq Seq(CloudJobs)
  BY BatchAssumption, SeqDef DEF Batches

LEMMA NewJobType ==
    ASSUME batch \in Seq(CloudJobs), NEW i \in 1 .. Len(batch)
    PROVE  NewJobFromJobDataWithValidation(i) \in MadeJobs
  <1>1. batch[i] \in CloudJobs
    OBVIOUS
  <1>2. JobType(batch[i].type) \in Kinds
    <2>1. batch[i].type \in JobsJobTypes
      BY <1>1 DEF CloudJobs
    <2> QED
      BY <2>1 DEF JobType, JobsJobTypes, Kinds
  <1>3. convertFromCloudStatus(batch[i].status) \in Statuses
    BY DEF convertFromCloudStatus, Statuses
  <1>4. i \in Nat
    OBVIOUS
  <1> QED
    BY <1>2, <1>3, <1>4
       DEF NewJobFromJobDataWithValidation, MadeJobs, Kinds, Statuses

LEMMA IntakeInit == InitIntake => IntakeInv
  BY DEF InitIntake, IntakeInv, SliceTyped, SliceMade, SliceHanded, Phases

LEMMA IntakeRequest ==
    ASSUME IntakeInv, Request
    PROVE  IntakeInv'
  <1>1. batch' \in Seq(CloudJobs)
    BY BatchesAreSequences DEF Request, IntakeInv, SliceTyped
  <1>2. batch = <<>> /\ handed = <<>> /\ made = 0 /\ jobs = <<>>
    BY DEF Request, IntakeInv, SliceTyped, SliceMade, Phases
  <1>3. UNCHANGED <<jobs, handed, made>> /\ task' \in {"convert", "done"}
    BY DEF Request
  <1>4. task' = "done" => batch' = <<>>
    BY <1>2 DEF Request
  <1> QED
    BY <1>1, <1>2, <1>3, <1>4 DEF IntakeInv, SliceTyped, SliceMade, SliceHanded, Phases

LEMMA IntakeToJobSlice ==
    ASSUME IntakeInv, toJobSlice
    PROVE  IntakeInv'
  <1> DEFINE new == NewJobFromJobDataWithValidation(made + 1)
  <1>1. made' = made + 1 /\ made' \in 1 .. Len(batch)
    BY DEF toJobSlice, IntakeInv, SliceTyped
  <1>2. jobs' = Append(jobs, new) /\ UNCHANGED <<task, batch, handed>> /\ task = "convert"
    BY <1>1 DEF toJobSlice
  <1>3. new \in MadeJobs
    BY <1>1, NewJobType DEF IntakeInv, SliceTyped
  <1> HIDE DEF new
  <1>4. jobs \in Seq(MadeJobs) /\ Len(jobs) = made
    BY DEF IntakeInv, SliceTyped, SliceMade
  <1>5. /\ jobs' \in Seq(MadeJobs) /\ Len(jobs') = made'
        /\ jobs'[made'] = new /\ \A i \in 1 .. made : jobs'[i] = jobs[i]
    BY <1>1, <1>2, <1>3, <1>4
  <1>6. SliceTyped'
    BY <1>1, <1>2, <1>5 DEF IntakeInv, SliceTyped
  <1>7. SliceMade'
    <2>1. \A i : NewJobFromJobDataWithValidation(i)'
                   = NewJobFromJobDataWithValidation(i)
      BY <1>2 DEF NewJobFromJobDataWithValidation
    <2>2. \A i \in 1 .. made' : i = made' \/ i \in 1 .. made
      BY <1>1, <1>4
    <2>3. \A i \in 1 .. made : jobs[i] = NewJobFromJobDataWithValidation(i)
      BY DEF IntakeInv, SliceMade
    <2>4. new = NewJobFromJobDataWithValidation(made')
      BY <1>1 DEF new
    <2>5. \A i \in 1 .. made' : jobs'[i] = NewJobFromJobDataWithValidation(i)
      BY <1>5, <2>2, <2>3, <2>4
    <2> QED
      BY <1>5, <2>1, <2>5 DEF SliceMade
  <1>8. SliceHanded' /\ Phases'
    BY <1>1, <1>2, <1>4, <1>5 DEF IntakeInv, SliceTyped, SliceHanded, Phases
  <1> QED
    BY <1>6, <1>7, <1>8 DEF IntakeInv

LEMMA IntakeHandOver ==
    ASSUME IntakeInv, HandOver
    PROVE  IntakeInv'
  <1> DEFINE n == Len(handed) + 1
  <1>1. n \in 1 .. Len(jobs) /\ jobs[n] \in MadeJobs /\ handed \in Seq(MadeJobs)
    BY DEF HandOver, IntakeInv, SliceTyped
  <1>2. handed' = Append(handed, jobs[n]) /\ UNCHANGED <<task, batch, jobs, made>>
    BY DEF HandOver
  <1>3. /\ handed' \in Seq(MadeJobs) /\ Len(handed') = n /\ handed'[n] = jobs[n]
        /\ \A i \in 1 .. Len(handed) : handed'[i] = handed[i]
    BY <1>1, <1>2
  <1>4. SliceTyped' /\ Phases'
    BY <1>1, <1>2, <1>3 DEF IntakeInv, SliceTyped, Phases, HandOver
  <1>5. SliceMade'
    BY <1>2 DEF IntakeInv, SliceMade, NewJobFromJobDataWithValidation
  <1>6. SliceHanded'
    BY <1>1, <1>2, <1>3 DEF IntakeInv, SliceHanded
  <1> QED
    BY <1>4, <1>5, <1>6 DEF IntakeInv

LEMMA IntakeNext ==
    ASSUME IntakeInv, [NextIntake]_intakeVars
    PROVE  IntakeInv'
  <1>1. CASE Request
    BY <1>1, IntakeRequest
  <1>2. CASE toJobSlice
    BY <1>2, IntakeToJobSlice
  <1>3. CASE HandOver
    BY <1>3, IntakeHandOver
  <1>4. CASE ConversionCrashes \/ Converted \/ HandedOver \/ UNCHANGED intakeVars
    BY <1>4 DEF ConversionCrashes, Converted, HandedOver, intakeVars, IntakeInv,
       SliceTyped, SliceMade, SliceHanded, Phases,
       NewJobFromJobDataWithValidation
  <1> QED
    BY <1>1, <1>2, <1>3, <1>4 DEF NextIntake

\* For answers of any length: an answer that was decoded is handed over whole
\* and in its order, whichever of its jobs fail the validation, or nothing of
\* it because a conversion panicked.
THEOREM HandedOverWhole == SpecIntake => []BatchIsHandedOver
  <1>1. IntakeInv => BatchIsHandedOver
    BY DEF IntakeInv, SliceTyped, SliceMade, SliceHanded, Phases,
       BatchIsHandedOver,
       NewJobFromJobDataWithValidation
  <1>2. IntakeInv /\ [NextIntake]_intakeVars => IntakeInv'
    BY IntakeNext
  <1> QED
    BY <1>1, <1>2, IntakeInit, PTL DEF SpecIntake

\* For answers of any length and any options: a job handed over READY was
\* ready, has its type, and a transpiler library the engine accepts or none.
THEOREM ValidOnly == SpecIntake => []OnlyValidJobsRun
  <1>1. ASSUME IntakeInv, NEW i \in DOMAIN handed, handed[i].status = "READY"
        PROVE  LET b == batch[handed[i].id]
               IN  /\ b.status = "ready"
                   /\ handed[i].kind = JobType(b.type)
                   /\ NeedTranspiling(TranspilerLib(b.ti)) =>
                         IsAcceptableTranspilerLib(TranspilerLib(b.ti))
    <2>1. i \in 1 .. made /\ handed[i] = NewJobFromJobDataWithValidation(i)
      BY <1>1 DEF IntakeInv, SliceTyped, SliceMade, SliceHanded
    <2>2. PassesValidation(batch[i].ti) /\ handed[i].id = i
          /\ handed[i].kind = JobType(batch[i].type)
          /\ handed[i].status = convertFromCloudStatus(batch[i].status)
      BY <1>1, <2>1 DEF NewJobFromJobDataWithValidation
    <2>3. batch[i].status = "ready"
      BY <1>1, <2>2 DEF convertFromCloudStatus
    <2> QED
      BY <2>2, <2>3 DEF PassesValidation, NeedTranspiling
  <1>2. IntakeInv => OnlyValidJobsRun
    BY <1>1 DEF OnlyValidJobsRun
  <1>3. IntakeInv /\ [NextIntake]_intakeVars => IntakeInv'
    BY IntakeNext
  <1> QED
    BY <1>2, <1>3, IntakeInit, PTL DEF SpecIntake

-----------------------------------------------------------------------------
(* SingleJob.                                                              *)

JobRecords == [status : {"READY", "RUNNING", "SUCCEEDED", "FAILED"},
               use : BOOLEAN, lib : TranspilerInfos \cup {"nil"},
               mitigation : {ConvertToMitigationInfo(mi) : mi \in MitigationInfos},
               qasm : Programs, tqasm : Programs \cup {NoProgram},
               codes : Seq(Programs), need : BOOLEAN, counts : Counts,
               list : Seq(Counts), value : Seq(Counts)]

AsksForTranspiler == request.ti \notin {"nullLib", "notAString"}

\* Circuit c, laid out or not as the user's option says and the transpiler does.
Asked(c) == [circuit |-> c, laid |-> AsksForTranspiler /\ "noProgram" \notin faults]

\* The options the job carries are those of the request.
OptionsKept ==
    /\ PassesValidation(request.ti)
    /\ job.lib = TranspilerLib(request.ti)
    /\ job.mitigation = ConvertToMitigationInfo(request.mi)

\* A sampling job at each phase: the program it will run, then the counts.
SamplingInv ==
    request.kind = "sampling" =>
        /\ job.qasm = UserProgram /\ job.list = <<>>
        /\ pc = "received" => job.tqasm = NoProgram /\ faults = {}
        /\ pc \in {"received", "queued", "process"} => job.counts = CountsOf(NoProgram)
        /\ pc \in {"queued", "process", "post"} =>
              /\ ProgramToBeSent(job) = Asked(0)
              /\ job.need <=> request.mi = "pseudo_inverse"
        /\ pc = "post" => job.need /\ job.counts = CountsOf(Asked(0))
        /\ job.counts.of \in {NoProgram, Asked(0)}
        /\ pc = "report" /\ faults = {} =>
              job.counts.by = IF request.mi = "pseudo_inverse"
                              THEN job.counts.of ELSE NoProgram

\* An estimation job at each phase: the circuits in their order, the counts of
\* those that were run, and the value made of them.
EstimationInv ==
    request.kind = "estimation" =>
        /\ "noProgram" \notin faults
        /\ pc = "received" =>
              job.tqasm = NoProgram /\ job.qasm = UserProgram /\ faults = {}
        /\ pc \in {"received", "queued"} => job.list = <<>>
        /\ pc \in {"queued", "process", "post"} =>
              /\ Len(job.codes) = request.groups
              /\ \A i \in 1 .. request.groups : job.codes[i] = Asked(i)
              /\ NeedTranspiling(job.lib) <=> job.tqasm # NoProgram
              /\ Len(job.list) <= request.groups
        /\ pc = "post" => \/ Len(job.list) = request.groups
                          \/ "panic" \in faults /\ Len(job.list) < request.groups
        /\ \A i \in 1 .. Len(job.list) : job.list[i] = CountsOf(Asked(i))
        /\ job.counts.of = NoProgram
              \/ \E c \in 1 .. MaxGroups : job.counts.of = Asked(c)
        /\ pc = "report" /\ job.status = "SUCCEEDED" =>
              /\ \/ Len(job.value) = request.groups
                 \/ "panic" \in faults /\ Len(job.value) < request.groups
              /\ \A i \in 1 .. Len(job.value) : job.value[i].of = Asked(i)

\* Nothing is reported before the end, and then what the job had.
ReportInv ==
    /\ pc # "done" => report = NoReport
    /\ pc = "done" => MitigatedExactlyWhenAsked /\ ValueFromEveryGroup

IInv == TypeOK /\ OptionsKept /\ SamplingInv /\ EstimationInv /\ ReportInv

\* What the options mean once the job has passed the validation.
LEMMA LaidAsAsked ==
    ASSUME TypeOK, OptionsKept
    PROVE  /\ NeedTranspiling(job.lib) <=> AsksForTranspiler
           /\ NeedToBeMitigated(job.mitigation) <=> request.mi = "pseudo_inverse"
<1>1. request.ti \in TranspilerInfos /\ request.mi \in MitigationInfos
  BY DEF TypeOK, Requests
<1>2. NeedTranspiling(TranspilerLib(request.ti)) <=> AsksForTranspiler
  BY <1>1
     DEF OptionsKept, TranspilerInfos, NeedTranspiling, TranspilerLib, useTranspiler,
         useDefaultTranspiler, ConvertToTranspilerInfo, PassesValidation,
         IsAcceptableTranspilerLib, AsksForTranspiler
<1>3. NeedToBeMitigated(ConvertToMitigationInfo(request.mi))
         <=> request.mi = "pseudo_inverse"
  BY <1>1 DEF MitigationInfos, NeedToBeMitigated, ConvertToMitigationInfo, JsonText
<1>4. QED
  BY <1>2, <1>3 DEF OptionsKept

LEMMA AskedType ==
    ASSUME NEW c \in 0 .. MaxGroups
    PROVE  /\ Asked(c) \in Programs /\ Asked(c) # NoProgram
           /\ Asked(c).circuit = c
           /\ CountsOf(Asked(c)) \in Counts
           /\ CountsOf(Asked(c)).of = Asked(c)
           /\ CountsOf(Asked(c)).by = NoProgram
<1>1. Asked(c) \in Programs /\ Asked(c).circuit = c
  BY DEF Asked, Programs
<1>2. Asked(c) # NoProgram
  <2>1. NoProgram.circuit = -1
    BY DEF NoProgram
  <2>2. c # -1
    OBVIOUS
  <2>3. QED
    BY <1>1, <2>1, <2>2
<1>3. QED
  BY <1>1, <1>2 DEF CountsOf, Counts

LEMMA InitIInv == Init => IInv
<1> SUFFICES ASSUME Init
             PROVE  IInv
  OBVIOUS
<1> USE GroupsAssumption
<1>1. request.ti \in TranspilerInfos /\ request.mi \in MitigationInfos
  BY DEF Init, Requests
<1>2. UserProgram \in Programs /\ CountsOf(NoProgram) \in Counts
  BY DEF UserProgram, Programs, CountsOf, Counts
<1>3. TranspilerLib(request.ti) \in TranspilerInfos \cup {"nil"}
  BY <1>1 DEF TranspilerLib, ConvertToTranspilerInfo, TranspilerInfos
<1>4. TypeOK
  <2>1. job \in JobRecords
    BY <1>1, <1>2, <1>3 DEF Init, JobRecords
  <2>2. Len(job.codes) <= MaxGroups
    BY DEF Init
  <2>3. QED
    BY <2>1, <2>2 DEF Init, TypeOK, JobRecords
<1>5. OptionsKept
  BY DEF Init, OptionsKept
<1>6. SamplingInv /\ EstimationInv
  BY DEF Init, SamplingInv, EstimationInv, CountsOf
<1>7. ReportInv
  BY DEF Init, ReportInv
<1>8. QED
  BY <1>4, <1>5, <1>6, <1>7 DEF IInv

LEMMA AskedKept ==
    ASSUME UNCHANGED request, ("noProgram" \in faults)' <=> "noProgram" \in faults
    PROVE  \A c : Asked(c)' = Asked(c)
<1>1. (AsksForTranspiler /\ "noProgram" \notin faults)'
         <=> AsksForTranspiler /\ "noProgram" \notin faults
  BY DEF AsksForTranspiler
<1>2. (AsksForTranspiler /\ "noProgram" \notin faults)'
         = (AsksForTranspiler /\ "noProgram" \notin faults)
  BY <1>1
<1>3. QED
  BY <1>2 DEF Asked

\* A failed job keeps what was run before; so does one that panicked.
LEMMA FailedIInv ==
    ASSUME IInv, pc # "done", pc' = "report",
           job' \in JobRecords, job'.status = "FAILED",
           job'.lib = job.lib, job'.mitigation = job.mitigation,
           job'.list = job.list, job'.counts = job.counts,
           Len(job'.codes) <= MaxGroups,
           request.kind = "sampling" => job'.qasm = job.qasm,
           NEW f \in {"service", "panic"}, faults' = faults \cup {f},
           UNCHANGED <<request, report>>
    PROVE  IInv'
<1>1. faults \subseteq Faults /\ f \in Faults /\ f # "noProgram"
  BY DEF IInv, TypeOK, Faults
<1>2. faults' \subseteq Faults /\ faults' # {}
  BY <1>1
<1>3. ("noProgram" \in faults)' <=> "noProgram" \in faults
  BY <1>1
<1>4. TypeOK'
  BY <1>2 DEF IInv, TypeOK, JobRecords
<1>5. OptionsKept'
  BY DEF IInv, OptionsKept
<1>6. \A c : Asked(c)' = Asked(c)
  BY <1>3, AskedKept
<1>7. SamplingInv' /\ EstimationInv'
  BY <1>2, <1>3, <1>6 DEF IInv, SamplingInv, EstimationInv
<1>8. ReportInv'
  BY DEF IInv, ReportInv
<1>9. QED
  BY <1>4, <1>5, <1>7, <1>8 DEF IInv

LEMMA FailIInv ==
    ASSUME IInv, NEW d \in JobRecords, Fail(d), pc # "done",
           d.lib = job.lib, d.mitigation = job.mitigation,
           d.list = job.list, d.counts = job.counts,
           Len(d.codes) <= MaxGroups,
           request.kind = "sampling" => d.qasm = job.qasm
    PROVE  IInv'
<1>1. /\ job' = [d EXCEPT !.status = "FAILED", !.use = TRUE]
      /\ faults' = faults \cup {"service"} /\ pc' = "report"
      /\ UNCHANGED <<request, report>>
  BY DEF Fail
<1>2. /\ job' \in JobRecords /\ job'.status = "FAILED"
      /\ job'.lib = d.lib /\ job'.mitigation = d.mitigation /\ job'.list = d.list
      /\ job'.counts = d.counts /\ job'.codes = d.codes /\ job'.qasm = d.qasm
  BY <1>1 DEF JobRecords
<1>3. QED
  BY <1>1, <1>2, FailedIInv

\* The job after Transpile.
LEMMA TranspiledIs ==
    ASSUME IInv, pc = "received"
    PROVE  /\ Transpiled(job) \in JobRecords
           /\ Transpiled(job).lib = job.lib
           /\ Transpiled(job).mitigation = job.mitigation
           /\ Transpiled(job).list = job.list /\ Transpiled(job).counts = job.counts
           /\ Transpiled(job).codes = job.codes /\ Transpiled(job).qasm = job.qasm
           /\ Transpiled(job).status = job.status
           /\ NeedTranspiling(job.lib) => Transpiled(job).tqasm = Asked(0)
           /\ ~NeedTranspiling(job.lib) => Transpiled(job).tqasm = NoProgram /\ Asked(0) = UserProgram
<1>1. job \in JobRecords /\ job.tqasm = NoProgram /\ faults = {}
  <2>1. request.kind \in {"sampling", "estimation"}
    BY DEF IInv, TypeOK, Requests
  <2>2. QED
    BY <2>1 DEF IInv, TypeOK, JobRecords, SamplingInv, EstimationInv
<1>2. NeedTranspiling(job.lib) <=> AsksForTranspiler
  BY LaidAsAsked DEF IInv
<1>3. Asked(0) \in Programs
  BY AskedType, GroupsAssumption
<1>4. CASE NeedTranspiling(job.lib)
  <2>1. Asked(0) = [circuit |-> 0, laid |-> TRUE]
    BY <1>1, <1>2, <1>4 DEF Asked
  <2>2. Transpiled(job) = [job EXCEPT !.tqasm = Asked(0)]
    BY <1>4, <2>1 DEF Transpiled
  <2>3. QED
    BY <1>1, <1>3, <1>4, <2>2 DEF JobRecords
<1>5. CASE ~NeedTranspiling(job.lib)
  <2>1. Asked(0) = UserProgram
    BY <1>2, <1>5 DEF Asked, UserProgram
  <2>2. QED
    BY <1>1, <1>5, <2>1 DEF Transpiled
<1>6. QED
  BY <1>4, <1>5

LEMMA HandlerPanicsIInv ==
    ASSUME IInv, HandlerPanics
    PROVE  IInv'
<1>0. /\ pc \in {"received", "post"} /\ pc' = "report" /\ UNCHANGED <<request, report>>
      /\ faults' = faults \cup {"panic"} /\ job \in JobRecords
      /\ Len(job.codes) <= MaxGroups
  BY DEF HandlerPanics, IInv, TypeOK, JobRecords
<1>1. ASSUME NEW d \in JobRecords, job' = [d EXCEPT !.status = "FAILED"],
             d.lib = job.lib, d.mitigation = job.mitigation, d.list = job.list,
             d.counts = job.counts, d.codes = job.codes, d.qasm = job.qasm
      PROVE  IInv'
  <2>1. /\ job' \in JobRecords /\ job'.status = "FAILED"
        /\ job'.lib = d.lib /\ job'.mitigation = d.mitigation /\ job'.list = d.list
        /\ job'.counts = d.counts /\ job'.codes = d.codes /\ job'.qasm = d.qasm
    BY <1>1 DEF JobRecords
  <2>2. QED
    BY <1>0, <1>1, <2>1, FailedIInv
<1>2. CASE job' = [job EXCEPT !.status = "FAILED"]
  BY <1>0, <1>1, <1>2
<1>3. CASE pc = "received" /\ job' = [Transpiled(job) EXCEPT !.status = "FAILED"]
  <2> DEFINE t == Transpiled(job)
  <2>1. /\ t \in JobRecords /\ t.lib = job.lib /\ t.mitigation = job.mitigation
        /\ t.list = job.list /\ t.counts = job.counts /\ t.codes = job.codes
        /\ t.qasm = job.qasm /\ job' = [t EXCEPT !.status = "FAILED"]
    BY <1>3, TranspiledIs
  <2> HIDE DEF t
  <2>2. QED
    BY <1>1, <2>1
<1>4. QED
  BY <1>2, <1>3 DEF HandlerPanics

\* A step that reports nothing: what remains to be shown.
LEMMA StepIInv ==
    ASSUME IInv, job' \in JobRecords, pc # "done",
           pc' \in {"queued", "process", "post", "report"},
           UNCHANGED <<request, report>>, faults' \subseteq faults \cup Faults,
           job'.lib = job.lib, job'.mitigation = job.mitigation,
           Len(job'.codes) <= MaxGroups,
           SamplingInv', EstimationInv'
    PROVE  IInv'
<1>1. TypeOK'
  BY DEF IInv, TypeOK, JobRecords
<1>2. OptionsKept'
  BY DEF IInv, OptionsKept
<1>3. ReportInv'
  BY DEF IInv, ReportInv
<1>4. QED
  BY <1>1, <1>2, <1>3 DEF IInv

LEMMA PreProcessSamplingIInv ==
    ASSUME IInv, PreProcessSampling
    PROVE  IInv'
<1> DEFINE t == Transpiled(job)
<1>0. /\ pc = "received" /\ request.kind = "sampling" /\ SamplingInv
      /\ Len(job.codes) <= MaxGroups /\ job \in JobRecords
  BY DEF PreProcessSampling, IInv, TypeOK, JobRecords
<1>1. CASE NeedTranspiling(job.lib) /\ (Fail(job) \/ Fail(t))
  <2>1. /\ t \in JobRecords /\ t.lib = job.lib /\ t.mitigation = job.mitigation
        /\ t.list = job.list /\ t.counts = job.counts /\ t.codes = job.codes
        /\ t.qasm = job.qasm
    BY <1>0, TranspiledIs
  <2> HIDE DEF t
  <2>2. QED
    BY <1>0, <1>1, <2>1, FailIInv
<1>2. CASE /\ job' = [t EXCEPT !.need = NeedToBeMitigated(job.mitigation)]
           /\ pc' = "queued" /\ UNCHANGED <<request, faults, report>>
  <2>1. /\ t \in JobRecords /\ t.lib = job.lib /\ t.mitigation = job.mitigation
        /\ t.list = job.list /\ t.counts = job.counts /\ t.codes = job.codes
        /\ t.qasm = job.qasm
        /\ NeedTranspiling(job.lib) => t.tqasm = Asked(0)
        /\ ~NeedTranspiling(job.lib) => t.tqasm = NoProgram /\ Asked(0) = UserProgram
    BY <1>0, TranspiledIs
  <2>2. NeedToBeMitigated(job.mitigation) <=> request.mi = "pseudo_inverse"
    BY LaidAsAsked DEF IInv
  <2>3. PICK n \in BOOLEAN : /\ n <=> request.mi = "pseudo_inverse"
                             /\ job' = [t EXCEPT !.need = n]
    BY <1>2, <2>2 DEF NeedToBeMitigated
  <2> HIDE DEF t
  <2>4. /\ job' \in JobRecords /\ job'.need = n /\ job'.lib = t.lib
        /\ job'.mitigation = t.mitigation /\ job'.list = t.list /\ job'.counts = t.counts
        /\ job'.codes = t.codes /\ job'.qasm = t.qasm /\ job'.tqasm = t.tqasm
    BY <2>1, <2>3 DEF JobRecords
  <2>5. Asked(0) # NoProgram
    BY AskedType, GroupsAssumption
  <2>6. ProgramToBeSent(job') = Asked(0)
    BY <1>0, <2>1, <2>4, <2>5 DEF ProgramToBeSent, SamplingInv
  <2>7. SamplingInv'
    BY <1>0, <1>2, <2>1, <2>3, <2>4, <2>6, AskedKept DEF SamplingInv, ProgramToBeSent
  <2>8. EstimationInv'
    BY <1>0, <1>2 DEF EstimationInv
  <2>9. QED
    BY <1>0, <1>2, <2>1, <2>4, <2>7, <2>8, StepIInv
<1>3. CASE /\ NeedTranspiling(job.lib)
           /\ job' = [job EXCEPT !.need = NeedToBeMitigated(job.mitigation)]
           /\ faults' = faults \cup {"noProgram"}
           /\ pc' = "queued" /\ UNCHANGED <<request, report>>
  <2>1. NeedToBeMitigated(job.mitigation) <=> request.mi = "pseudo_inverse"
    BY LaidAsAsked DEF IInv
  <2>2. PICK n \in BOOLEAN : /\ n <=> request.mi = "pseudo_inverse"
                             /\ job' = [job EXCEPT !.need = n]
    BY <1>3, <2>1 DEF NeedToBeMitigated
  <2>3. /\ job' \in JobRecords /\ job'.need = n /\ job'.lib = job.lib
        /\ job'.mitigation = job.mitigation /\ job'.list = job.list
        /\ job'.counts = job.counts
        /\ job'.codes = job.codes /\ job'.qasm = job.qasm /\ job'.tqasm = job.tqasm
    BY <1>0, <2>2 DEF JobRecords
  <2>4. job.tqasm = NoProgram /\ job.qasm = UserProgram /\ faults' = {"noProgram"}
        /\ job.counts = CountsOf(NoProgram) /\ job.list = <<>>
    BY <1>0, <1>3 DEF SamplingInv
  <2>5. Asked(0)' = UserProgram
    BY <2>4 DEF Asked, UserProgram
  <2>6. ProgramToBeSent(job') = UserProgram
    BY <2>3, <2>4 DEF ProgramToBeSent
  <2>7. SamplingInv'
    BY <1>0, <1>3, <2>2, <2>3, <2>4, <2>5, <2>6 DEF SamplingInv, ProgramToBeSent, CountsOf
  <2>8. EstimationInv'
    BY <1>0, <1>3 DEF EstimationInv
  <2>9. faults' \subseteq Faults
    BY <2>4 DEF Faults
  <2>10. QED
    BY <1>0, <1>3, <2>3, <2>7, <2>8, <2>9, StepIInv
<1>4. QED
  BY <1>1, <1>2, <1>3 DEF PreProcessSampling

LEMMA PreProcessEstimationIInv ==
    ASSUME IInv, PreProcessEstimation
    PROVE  IInv'
<1> DEFINE t == Transpiled(job)
           codes == preprocess(usedQASM(t))
<1>0. /\ pc = "received" /\ request.kind = "estimation" /\ EstimationInv
      /\ Len(job.codes) <= MaxGroups /\ job \in JobRecords
      /\ request.groups \in 0 .. MaxGroups
  BY DEF PreProcessEstimation, IInv, TypeOK, JobRecords, Requests
<1>1. /\ t \in JobRecords /\ t.lib = job.lib /\ t.mitigation = job.mitigation
      /\ t.list = job.list /\ t.counts = job.counts /\ t.codes = job.codes
      /\ t.qasm = job.qasm
      /\ NeedTranspiling(job.lib) => t.tqasm = Asked(0)
      /\ ~NeedTranspiling(job.lib) => t.tqasm = NoProgram /\ Asked(0) = UserProgram
  BY <1>0, TranspiledIs
<1>2. CASE NeedTranspiling(job.lib) /\ Fail(job)
  BY <1>0, <1>2, FailIInv
<1>3. CASE Fail(t)
  <2> HIDE DEF t
  <2> QED
    BY <1>0, <1>1, <1>3, FailIInv
<1>4. CASE /\ job' = [t EXCEPT !.codes = codes]
           /\ pc' = "queued" /\ UNCHANGED <<request, faults, report>>
  <2>1. usedQASM(t) = Asked(0)
    <3> HIDE DEF t
    <3> QED
      BY <1>0, <1>1 DEF usedQASM, EstimationInv
  <2>2. /\ codes = [i \in 1 .. request.groups |-> Asked(i)]
    <3>1. codes = [i \in 1 .. request.groups |-> [Asked(0) EXCEPT !.circuit = i]]
      BY <2>1 DEF preprocess
    <3>2. \A i : [Asked(0) EXCEPT !.circuit = i] = Asked(i)
      BY DEF Asked
    <3>3. QED
      BY <3>1, <3>2
  <2> HIDE DEF codes, t
  <2>3. \A i \in 1 .. request.groups : Asked(i) \in Programs
    BY <1>0, AskedType, GroupsAssumption
  <2>4. codes \in Seq(Programs) /\ Len(codes) = request.groups
    BY <1>0, <2>2, <2>3, GroupsAssumption
  <2>5. /\ job' \in JobRecords /\ job'.lib = t.lib /\ job'.mitigation = t.mitigation
        /\ job'.list = t.list /\ job'.counts = t.counts /\ job'.codes = codes
        /\ job'.tqasm = t.tqasm
    BY <1>1, <1>4, <2>4 DEF JobRecords
  <2>6. Asked(0) # NoProgram
    BY AskedType, GroupsAssumption
  <2>7. EstimationInv'
    <3>1. \A i \in 1 .. request.groups : job'.codes[i] = Asked(i)
      BY <2>2, <2>5
    <3>2. job'.list = <<>> /\ Len(job'.list) = 0
      BY <1>0, <1>1, <2>5 DEF EstimationInv
    <3>3. NeedTranspiling(job'.lib) <=> job'.tqasm # NoProgram
      BY <1>1, <2>5, <2>6
    <3>4. QED
      BY <1>0, <1>1, <1>4, <2>4, <2>5, <3>1, <3>2, <3>3, AskedKept DEF EstimationInv
  <2>8. SamplingInv'
    BY <1>0, <1>4 DEF SamplingInv
  <2>9. QED
    BY <1>0, <1>1, <1>4, <2>4, <2>5, <2>7, <2>8, StepIInv
<1>5. QED
  BY <1>2, <1>3, <1>4 DEF PreProcessEstimation

LEMMA UpdateStatusIInv ==
    ASSUME IInv, UpdateStatusToRunning
    PROVE  IInv'
<1>0. /\ pc = "queued" /\ pc' = "process" /\ UNCHANGED <<request, faults, report>>
      /\ job' = [job EXCEPT !.status = "RUNNING"]
      /\ Len(job.codes) <= MaxGroups /\ job \in JobRecords
  BY DEF UpdateStatusToRunning, IInv, TypeOK, JobRecords
<1>1. /\ job' \in JobRecords /\ job'.lib = job.lib /\ job'.mitigation = job.mitigation
      /\ job'.list = job.list /\ job'.counts = job.counts /\ job'.codes = job.codes
      /\ job'.tqasm = job.tqasm /\ job'.qasm = job.qasm /\ job'.need = job.need
  BY <1>0 DEF JobRecords
<1>2. SamplingInv'
  BY <1>0, <1>1, AskedKept DEF IInv, SamplingInv, ProgramToBeSent
<1>3. EstimationInv'
  BY <1>0, <1>1, AskedKept DEF IInv, EstimationInv
<1>4. QED
  BY <1>0, <1>1, <1>2, <1>3, StepIInv

LEMMA ProcessSamplingIInv ==
    ASSUME IInv, ProcessSampling
    PROVE  IInv'
<1>0. /\ pc = "process" /\ request.kind = "sampling" /\ SamplingInv
      /\ Len(job.codes) <= MaxGroups /\ job \in JobRecords
  BY DEF ProcessSampling, IInv, TypeOK, JobRecords
<1>1. CASE Fail(job)
  BY <1>0, <1>1, FailIInv
<1>2. CASE /\ job' = Processed(Called(job))
           /\ pc' = IF job.need THEN "post" ELSE "report"
           /\ UNCHANGED <<request, faults, report>>
  <2>1. ProgramToBeSent(job) = Asked(0)
    BY <1>0 DEF SamplingInv
  <2>2. job' = [job EXCEPT !.status = "SUCCEEDED", !.counts = CountsOf(Asked(0)),
                           !.use = TRUE]
    BY <1>0, <1>2, <2>1 DEF Called, Processed, JobRecords
  <2>3. /\ CountsOf(Asked(0)) \in Counts /\ CountsOf(Asked(0)).of = Asked(0)
        /\ CountsOf(Asked(0)).by = NoProgram
    BY AskedType, GroupsAssumption
  <2>4. /\ job' \in JobRecords /\ job'.lib = job.lib /\ job'.mitigation = job.mitigation
        /\ job'.list = job.list /\ job'.counts = CountsOf(Asked(0))
        /\ job'.codes = job.codes
        /\ job'.tqasm = job.tqasm /\ job'.qasm = job.qasm /\ job'.need = job.need
    BY <1>0, <2>2, <2>3 DEF JobRecords
  <2>5. SamplingInv'
    BY <1>0, <1>2, <2>1, <2>3, <2>4, AskedKept
       DEF SamplingInv, ProgramToBeSent, CountsOf
  <2>6. EstimationInv'
    BY <1>0, <1>2 DEF EstimationInv
  <2>7. QED
    BY <1>0, <1>2, <2>4, <2>5, <2>6, StepIInv
<1>3. QED
  BY <1>1, <1>2 DEF ProcessSampling

\* The i-th circuit in the place of the program: what the gateway is given.
LEMMA CircuitIsSent ==
    ASSUME IInv, pc = "process", request.kind = "estimation",
           NEW i \in 1 .. request.groups
    PROVE  /\ WithCircuit(job, i) \in JobRecords
           /\ ProgramToBeSent(WithCircuit(job, i)) = Asked(i)
           /\ WithCircuit(job, i).lib = job.lib
           /\ WithCircuit(job, i).mitigation = job.mitigation
           /\ WithCircuit(job, i).list = job.list
           /\ WithCircuit(job, i).counts = job.counts
           /\ WithCircuit(job, i).codes = job.codes
           /\ NeedTranspiling(job.lib) <=> WithCircuit(job, i).tqasm # NoProgram
<1>1. /\ job \in JobRecords /\ job.codes[i] = Asked(i)
      /\ NeedTranspiling(job.lib) <=> job.tqasm # NoProgram
  BY DEF IInv, TypeOK, JobRecords, EstimationInv
<1>2. i \in 0 .. MaxGroups
  BY GroupsAssumption DEF IInv, TypeOK, Requests
<1>3. Asked(i) \in Programs /\ Asked(i) # NoProgram
  BY <1>2, AskedType
<1>4. CASE NeedTranspiling(job.lib)
  <2>1. WithCircuit(job, i) = [job EXCEPT !.tqasm = Asked(i)]
    BY <1>1, <1>4 DEF WithCircuit
  <2>2. QED
    BY <1>1, <1>3, <1>4, <2>1 DEF JobRecords, ProgramToBeSent
<1>5. CASE ~NeedTranspiling(job.lib)
  <2>1. WithCircuit(job, i) = [job EXCEPT !.qasm = Asked(i)]
    BY <1>1, <1>5 DEF WithCircuit
  <2>2. QED
    BY <1>1, <1>3, <1>5, <2>1 DEF JobRecords, ProgramToBeSent
<1>6. QED
  BY <1>4, <1>5

LEMMA ProcessCircuitIInv ==
    ASSUME IInv, ProcessCircuit
    PROVE  IInv'
<1> DEFINE i == Len(job.list) + 1
           w == WithCircuit(job, i)
<1>0. /\ pc = "process" /\ request.kind = "estimation" /\ EstimationInv
      /\ Len(job.codes) <= MaxGroups /\ job \in JobRecords
      /\ Len(job.list) < Len(job.codes) /\ Len(job.codes) = request.groups
      /\ request.groups \in 0 .. MaxGroups /\ Len(job.list) \in Nat
  BY DEF ProcessCircuit, IInv, TypeOK, JobRecords, Requests, EstimationInv
<1>1. i \in 1 .. request.groups /\ i \in 0 .. MaxGroups /\ i \in 1 .. MaxGroups
  BY <1>0, GroupsAssumption
<1>2. /\ w \in JobRecords /\ ProgramToBeSent(w) = Asked(i)
      /\ w.lib = job.lib /\ w.mitigation = job.mitigation
      /\ w.list = job.list /\ w.counts = job.counts /\ w.codes = job.codes
      /\ NeedTranspiling(job.lib) <=> w.tqasm # NoProgram
  BY <1>0, <1>1, CircuitIsSent
<1>3. CASE Fail(w)
  <2> HIDE DEF w
  <2> QED
    BY <1>0, <1>2, <1>3, FailIInv
<1>4. CASE /\ job' = [Called(w) EXCEPT !.list = Append(@, Called(w).counts)]
           /\ UNCHANGED <<pc, request, faults, report>>
  <2> DEFINE c == CountsOf(Asked(i))
  <2>1. c \in Counts /\ c.of = Asked(i)
    BY <1>1, AskedType
  <2>2. Called(w) = [w EXCEPT !.status = "SUCCEEDED", !.counts = c]
    BY <1>2 DEF Called
  <2>3. job' = [Called(w) EXCEPT !.list = Append(@, Called(w).counts)]
    BY <1>4
  <2> HIDE DEF w, c
  <2>4. /\ Called(w) \in JobRecords /\ Called(w).counts = c /\ Called(w).list = job.list
        /\ Called(w).lib = job.lib /\ Called(w).mitigation = job.mitigation
        /\ Called(w).codes = job.codes /\ Called(w).tqasm = w.tqasm
    BY <1>2, <2>1, <2>2 DEF JobRecords
  <2>5. /\ job'.lib = job.lib /\ job'.mitigation = job.mitigation
        /\ job'.list = Append(job.list, c) /\ job'.counts = c
        /\ job'.codes = job.codes /\ job'.tqasm = w.tqasm
    BY <2>3, <2>4 DEF JobRecords
  <2>6. job.list \in Seq(Counts)
    BY <1>0 DEF JobRecords
  <2>7. /\ Append(job.list, c) \in Seq(Counts)
        /\ Len(Append(job.list, c)) = i
        /\ Append(job.list, c)[i] = c
        /\ \A k \in 1 .. Len(job.list) : Append(job.list, c)[k] = job.list[k]
    BY <2>1, <2>6, AppendProperties
  <2>8. job' \in JobRecords
    BY <2>3, <2>4, <2>7 DEF JobRecords
  <2>9. \A k \in 1 .. Len(job'.list) : job'.list[k] = CountsOf(Asked(k))
    <3>1. \A k \in 1 .. Len(job.list) : job.list[k] = CountsOf(Asked(k))
      BY <1>0 DEF EstimationInv
    <3>2. \A k \in 1 .. i : k = i \/ k \in 1 .. Len(job.list)
      BY <1>0
    <3>3. job'.list[i] = CountsOf(Asked(i))
      BY <2>5, <2>7 DEF c
    <3>4. QED
      BY <2>5, <2>7, <3>1, <3>2, <3>3
  <2>10. EstimationInv'
    <3>1. \A k \in 1 .. request.groups : job'.codes[k] = Asked(k)
      BY <1>0, <2>5 DEF EstimationInv
    <3>2. NeedTranspiling(job'.lib) <=> job'.tqasm # NoProgram
      BY <1>2, <2>5
    <3>3. Len(job'.list) <= request.groups
      BY <1>1, <2>5, <2>7
    <3>4. job'.counts.of = Asked(i)
      BY <2>1, <2>5
    <3>5. QED
      BY <1>0, <1>1, <1>4, <2>5, <2>9, <3>1, <3>2, <3>3, <3>4, AskedKept
         DEF EstimationInv
  <2>11. SamplingInv'
    BY <1>0, <1>4 DEF SamplingInv
  <2>12. QED
    BY <1>0, <1>4, <2>5, <2>8, <2>10, <2>11, StepIInv
<1>5. QED
  BY <1>3, <1>4 DEF ProcessCircuit

LEMMA ProcessCircuitPanicsIInv ==
    ASSUME IInv, ProcessCircuitPanics
    PROVE  IInv'
<1> DEFINE i == Len(job.list) + 1
           w == WithCircuit(job, i)
<1>0. /\ pc = "process" /\ request.kind = "estimation" /\ EstimationInv
      /\ Len(job.codes) <= MaxGroups /\ job \in JobRecords /\ faults \subseteq Faults
      /\ Len(job.list) < Len(job.codes) /\ Len(job.codes) = request.groups
      /\ request.groups \in 0 .. MaxGroups /\ Len(job.list) \in Nat
  BY DEF ProcessCircuitPanics, IInv, TypeOK, JobRecords, Requests, EstimationInv
<1>1. i \in 1 .. request.groups
  BY <1>0, GroupsAssumption
<1>2. /\ w \in JobRecords
      /\ w.lib = job.lib /\ w.mitigation = job.mitigation
      /\ w.list = job.list /\ w.counts = job.counts /\ w.codes = job.codes
      /\ NeedTranspiling(job.lib) <=> w.tqasm # NoProgram
  BY <1>0, <1>1, CircuitIsSent
<1>3. /\ job' = [[w EXCEPT !.status = "FAILED"] EXCEPT !.use = TRUE]
      /\ pc' = "post" /\ faults' = faults \cup {"panic"} /\ UNCHANGED <<request, report>>
  BY DEF ProcessCircuitPanics, Processed
<1> HIDE DEF w, i
<1>4. /\ job' \in JobRecords /\ job'.lib = job.lib /\ job'.mitigation = job.mitigation
      /\ job'.list = job.list /\ job'.counts = job.counts /\ job'.codes = job.codes
      /\ job'.tqasm = w.tqasm
  BY <1>2, <1>3 DEF JobRecords
<1>5. /\ faults' \subseteq Faults /\ "panic" \in faults'
      /\ ("noProgram" \in faults)' <=> "noProgram" \in faults
  BY <1>0, <1>3 DEF Faults
<1>6. \A c : Asked(c)' = Asked(c)
  BY <1>3, <1>5, AskedKept
<1>7. EstimationInv'
  BY <1>0, <1>2, <1>3, <1>4, <1>5, <1>6 DEF EstimationInv
<1>8. SamplingInv'
  BY <1>0, <1>3 DEF SamplingInv
<1>9. QED
  BY <1>0, <1>3, <1>4, <1>5, <1>7, <1>8, StepIInv

LEMMA ProcessEndsIInv ==
    ASSUME IInv, ProcessEnds
    PROVE  IInv'
<1>0. /\ pc = "process" /\ request.kind = "estimation" /\ EstimationInv
      /\ Len(job.codes) <= MaxGroups /\ job \in JobRecords /\ faults \subseteq Faults
      /\ pc' = "post" /\ UNCHANGED <<request, faults, report>>
      /\ job' = [job EXCEPT !.use = TRUE]
      /\ Len(job.list) = Len(job.codes)
  BY DEF ProcessEnds, Processed, IInv, TypeOK, JobRecords
<1>1. /\ job' \in JobRecords /\ job'.lib = job.lib /\ job'.mitigation = job.mitigation
      /\ job'.list = job.list /\ job'.counts = job.counts /\ job'.codes = job.codes
      /\ job'.tqasm = job.tqasm
  BY <1>0 DEF JobRecords
<1>2. \A c : Asked(c)' = Asked(c)
  BY <1>0, AskedKept
<1>3. EstimationInv'
  BY <1>0, <1>1, <1>2 DEF EstimationInv
<1>4. SamplingInv'
  BY <1>0 DEF SamplingInv
<1>5. QED
  BY <1>0, <1>1, <1>3, <1>4, StepIInv

LEMMA PostProcessSamplingIInv ==
    ASSUME IInv, PostProcessSampling
    PROVE  IInv'
<1>0. /\ pc = "post" /\ request.kind = "sampling" /\ SamplingInv
      /\ Len(job.codes) <= MaxGroups /\ job \in JobRecords
  BY DEF PostProcessSampling, IInv, TypeOK, JobRecords
<1>1. NeedToBeMitigated(job.mitigation) /\ request.mi = "pseudo_inverse"
  BY <1>0, LaidAsAsked DEF IInv, SamplingInv
<1>2. CASE Fail(job)
  BY <1>0, <1>2, FailIInv
<1>3. CASE /\ faults' = faults \cup {"service"} /\ pc' = "report"
           /\ UNCHANGED <<request, job, report>>
  <2>0. /\ faults' \subseteq Faults /\ faults' # {}
        /\ ("noProgram" \in faults)' <=> "noProgram" \in faults
    BY <1>3 DEF IInv, TypeOK, Faults
  <2>1. SamplingInv'
    <3>1. \A c : Asked(c)' = Asked(c)
      BY <1>3, <2>0, AskedKept
    <3>2. QED
      BY <1>0, <1>3, <2>0, <3>1 DEF SamplingInv, ProgramToBeSent
  <2>2. EstimationInv'
    BY <1>0, <1>3 DEF EstimationInv
  <2>3. TypeOK' /\ OptionsKept' /\ ReportInv'
    BY <1>0, <1>3, <2>0 DEF IInv, TypeOK, OptionsKept, ReportInv
  <2>4. QED
    BY <2>1, <2>2, <2>3 DEF IInv
<1>4. CASE /\ job' = [job EXCEPT !.status = "SUCCEEDED", !.counts = Mitigated(job)]
           /\ pc' = "report" /\ UNCHANGED <<request, faults, report>>
  <2> DEFINE m == Mitigated(job)
  <2>1. ProgramToBeSent(job) = Asked(0) /\ job.counts = CountsOf(Asked(0))
    BY <1>0 DEF SamplingInv
  <2>2. Asked(0) \in Programs /\ job.counts \in Counts
    BY <1>0, AskedType, GroupsAssumption DEF JobRecords
  <2>3. m \in Counts /\ m.of = Asked(0) /\ m.by = Asked(0)
    BY <2>1, <2>2 DEF Mitigated, CountsOf, Counts
  <2> HIDE DEF m
  <2>4. /\ job' \in JobRecords /\ job'.lib = job.lib /\ job'.mitigation = job.mitigation
        /\ job'.list = job.list /\ job'.counts = m /\ job'.codes = job.codes
        /\ job'.qasm = job.qasm
    BY <1>0, <1>4, <2>3 DEF JobRecords, m
  <2>5. SamplingInv'
    BY <1>0, <1>1, <1>4, <2>3, <2>4, AskedKept DEF SamplingInv
  <2>6. EstimationInv'
    BY <1>0, <1>4 DEF EstimationInv
  <2>7. QED
    BY <1>0, <1>4, <2>4, <2>5, <2>6, StepIInv
<1>5. QED
  BY <1>1, <1>2, <1>3, <1>4 DEF PostProcessSampling

LEMMA PostProcessEstimationIInv ==
    ASSUME IInv, PostProcessEstimation
    PROVE  IInv'
<1>0. /\ pc = "post" /\ request.kind = "estimation" /\ EstimationInv
      /\ Len(job.codes) <= MaxGroups /\ job \in JobRecords
      /\ \/ Len(job.list) = request.groups
         \/ "panic" \in faults /\ Len(job.list) < request.groups
      /\ request.groups \in 0 .. MaxGroups
  BY DEF PostProcessEstimation, IInv, TypeOK, JobRecords, EstimationInv, Requests
<1>1. CASE Fail(job)
  BY <1>0, <1>1, FailIInv
<1>2. ASSUME NEW cs \in [DOMAIN job.list ->
                            UNION {CountsForEstimator(i) : i \in DOMAIN job.list}],
             \A i \in DOMAIN cs : cs[i] \in CountsForEstimator(i),
             job' = [job EXCEPT !.status = "SUCCEEDED", !.value = cs],
             pc' = "report", UNCHANGED <<request, faults, report>>
      PROVE  IInv'
  <2>1. job.list \in Seq(Counts) /\ job.qasm \in Programs
        /\ job.tqasm \in Programs \cup {NoProgram}
    BY <1>0 DEF JobRecords
  <2>2. ASSUME NEW i \in 1 .. Len(job.list)
        PROVE  cs[i] \in Counts /\ cs[i].of = Asked(i)
    <3>1. i \in DOMAIN job.list /\ job.list[i] = CountsOf(Asked(i)) /\ job.list[i] \in Counts
      BY <1>0, <2>1 DEF EstimationInv
    <3>2. job.list[i].of = Asked(i)
      BY <3>1 DEF CountsOf
    <3>3. cs[i] \in {job.list[i], Mitigated([job EXCEPT !.counts = job.list[i]])}
      BY <1>2, <3>1 DEF CountsForEstimator
    <3>4. ProgramToBeSent([job EXCEPT !.counts = job.list[i]]) \in Programs \cup {NoProgram}
      BY <1>0, <2>1 DEF ProgramToBeSent, JobRecords
    <3>5. [job EXCEPT !.counts = job.list[i]].counts = job.list[i]
      BY <1>0 DEF JobRecords
    <3>6. Mitigated([job EXCEPT !.counts = job.list[i]]) =
             [job.list[i] EXCEPT !.by = ProgramToBeSent([job EXCEPT !.counts = job.list[i]])]
      BY <3>5 DEF Mitigated
    <3>7. QED
      BY <3>1, <3>2, <3>3, <3>4, <3>6 DEF Counts
  <2>3. cs \in Seq(Counts) /\ Len(cs) = Len(job.list)
    <3> DEFINE n == Len(job.list)
    <3>1. DOMAIN cs = 1 .. n /\ n \in Nat
      BY <2>1
    <3>2. cs \in [1 .. n -> Counts]
      BY <2>2, <3>1
    <3> HIDE DEF n
    <3>3. cs \in Seq(Counts)
      BY <3>1, <3>2, SeqDef
    <3> USE DEF n
    <3>4. QED
      BY <3>1, <3>2, <3>3
  <2>4. /\ job' \in JobRecords /\ job'.lib = job.lib /\ job'.mitigation = job.mitigation
        /\ job'.list = job.list /\ job'.counts = job.counts /\ job'.codes = job.codes
        /\ job'.value = cs
    BY <1>0, <1>2, <2>3 DEF JobRecords
  <2>5. EstimationInv'
    BY <1>0, <1>2, <2>2, <2>3, <2>4, AskedKept DEF EstimationInv
  <2>6. SamplingInv'
    BY <1>0, <1>2 DEF SamplingInv
  <2>7. QED
    BY <1>0, <1>2, <2>4, <2>5, <2>6, StepIInv
<1>3. QED
  BY <1>1, <1>2 DEF PostProcessEstimation

LEMMA UpdateIInv ==
    ASSUME IInv, Update
    PROVE  IInv'
<1>0. /\ pc = "report" /\ pc' = "done" /\ UNCHANGED <<request, job, faults>>
      /\ job \in JobRecords /\ report = NoReport
  BY DEF Update, IInv, TypeOK, JobRecords, ReportInv
<1>1. TypeOK' /\ OptionsKept'
  BY <1>0 DEF IInv, TypeOK, OptionsKept
<1>2. SamplingInv' /\ EstimationInv'
  BY <1>0, AskedKept DEF IInv, SamplingInv, EstimationInv
<1>3. CASE job.use
  <2>1. /\ report'.status = job.status
        /\ report'.counts = IF request.kind = "sampling" /\ job.status = "SUCCEEDED"
                            THEN job.counts ELSE CountsOf(NoProgram)
        /\ report'.value = IF job.status = "SUCCEEDED" THEN job.value ELSE <<>>
    BY <1>3 DEF Update, ConvertToCloudJob
  <2>2. MitigatedExactlyWhenAsked'
    BY <1>0, <2>1 DEF IInv, SamplingInv, MitigatedExactlyWhenAsked
  <2>3. ValueFromEveryGroup'
    <3>1. job.value \in Seq(Counts)
      BY <1>0 DEF JobRecords
    <3> SUFFICES ASSUME report'.status = "SUCCEEDED", request.kind = "estimation"
                 PROVE  /\ \/ Len(report'.value) = request.groups
                           \/ "panic" \in faults /\ Len(report'.value) < request.groups
                        /\ \A i \in DOMAIN report'.value :
                              /\ report'.value[i].of.circuit = i
                              /\ AsAsked(report'.value[i].of)
      BY <1>0 DEF ValueFromEveryGroup, AsAsked
    <3>2. \A c : Asked(c).circuit = c /\ AsAsked(Asked(c))
      BY DEF Asked, AsAsked, AsksForTranspiler
    <3>3. report'.value = job.value /\ DOMAIN job.value = 1 .. Len(job.value)
      BY <2>1, <3>1
    <3>4. /\ \/ Len(job.value) = request.groups
             \/ "panic" \in faults /\ Len(job.value) < request.groups
          /\ \A i \in 1 .. Len(job.value) : job.value[i].of = Asked(i)
      BY <1>0, <2>1 DEF IInv, EstimationInv
    <3>5. QED
      BY <3>2, <3>3, <3>4
  <2>4. QED
    BY <1>0, <1>1, <1>2, <2>2, <2>3 DEF IInv, ReportInv
<1>4. CASE ~job.use
  <2>1. report' = NoReport
    BY <1>0, <1>4 DEF Update
  <2>2. MitigatedExactlyWhenAsked' /\ ValueFromEveryGroup'
    BY <2>1 DEF MitigatedExactlyWhenAsked, ValueFromEveryGroup, NoReport
  <2>3. QED
    BY <1>0, <1>1, <1>2, <2>2 DEF IInv, ReportInv
<1>5. QED
  BY <1>3, <1>4

LEMMA NextIInv == IInv /\ [Next]_vars => IInv'
<1> SUFFICES ASSUME IInv, [Next]_vars
             PROVE  IInv'
  OBVIOUS
<1>1. CASE Next
  BY <1>1, HandlerPanicsIInv, PreProcessSamplingIInv, PreProcessEstimationIInv,
     UpdateStatusIInv, ProcessSamplingIInv, ProcessCircuitIInv, ProcessCircuitPanicsIInv,
     ProcessEndsIInv, PostProcessSamplingIInv, PostProcessEstimationIInv, UpdateIInv
     DEF Next
<1>2. CASE UNCHANGED vars
  <2>1. /\ UNCHANGED <<pc, request, job, faults, report>> /\ \A c : Asked(c)' = Asked(c)
    BY <1>2, AskedKept DEF vars
  <2>2. TypeOK' /\ OptionsKept'
    BY <2>1 DEF IInv, TypeOK, OptionsKept
  <2>3. SamplingInv'
    BY <2>1 DEF IInv, SamplingInv
  <2>4. EstimationInv'
    BY <2>1 DEF IInv, EstimationInv
  <2>5. ReportInv'
    BY <2>1
       DEF IInv, ReportInv, MitigatedExactlyWhenAsked, ValueFromEveryGroup, AsAsked
  <2>6. QED
    BY <2>2, <2>3, <2>4, <2>5 DEF IInv
<1>3. QED
  BY <1>1, <1>2

LEMMA AlwaysIInv == Spec => []IInv
BY InitIInv, NextIInv, PTL DEF Spec

-----------------------------------------------------------------------------
(* The theorems.                                                           *)

\* The fields of a job and of its report are of their types at every phase.
THEOREM JobTypeOK == Spec => []TypeOK
BY AlwaysIInv, PTL DEF IInv

\* Whatever the number of circuits, what the gateway ran was laid out by the
\* transpiler exactly when the user's option asks for it, unless the transpiler
\* answered without a program.
THEOREM JobsRunAsAsked == Spec => []RanAsAsked
<1>1. IInv => RanAsAsked
  <2> SUFFICES ASSUME IInv
               PROVE  RanAsAsked
    OBVIOUS
  <2>1. /\ request.kind \in {"sampling", "estimation"}
        /\ job.list \in Seq(Counts)
    BY DEF IInv, TypeOK, Requests, SamplingInv, EstimationInv
  <2>2. \A c : AsAsked(Asked(c))
    BY DEF Asked, AsAsked, AsksForTranspiler
  <2>3. CASE request.kind = "sampling"
    BY <2>1, <2>2, <2>3 DEF IInv, SamplingInv, RanAsAsked
  <2>4. CASE request.kind = "estimation"
    <3>1. \A i \in DOMAIN job.list : job.list[i].of = Asked(i)
      <4>1. \A i \in 1 .. Len(job.list) : job.list[i] = CountsOf(Asked(i))
        BY <2>4 DEF IInv, EstimationInv
      <4>2. DOMAIN job.list = 1 .. Len(job.list)
        BY <2>1
      <4>3. \A p : CountsOf(p).of = p
        BY DEF CountsOf
      <4>4. QED
        BY <4>1, <4>2, <4>3
    <3>2. job.counts.of = NoProgram \/ \E c \in 1 .. MaxGroups : job.counts.of = Asked(c)
      BY <2>4 DEF IInv, EstimationInv
    <3>3. \A i \in DOMAIN job.list : AsAsked(job.list[i].of)
      BY <2>2, <3>1
    <3>4. job.counts.of # NoProgram => AsAsked(job.counts.of)
      BY <2>2, <3>2
    <3>5. QED
      BY <3>3, <3>4 DEF RanAsAsked
  <2>5. QED
    BY <2>1, <2>3, <2>4
<1>2. QED
  BY <1>1, AlwaysIInv, PTL

\* A sampling job that succeeds with every service in order reports mitigated
\* counts exactly when the user asked for pseudo_inverse.
THEOREM JobsMitigatedAsAsked == Spec => []MitigatedExactlyWhenAsked
<1>1. IInv => MitigatedExactlyWhenAsked
  BY DEF IInv, ReportInv, MitigatedExactlyWhenAsked, NoReport
<1>2. QED
  BY <1>1, AlwaysIInv, PTL

\* The value of an estimation job that succeeds is made of the counts of
\* every circuit, each in its place; or, when Process panicked, of those of
\* the circuits before the one that did.
THEOREM ValuesFromEveryGroup == Spec => []ValueFromEveryGroup
<1>1. IInv => ValueFromEveryGroup
  BY DEF IInv, ReportInv, ValueFromEveryGroup, NoReport
<1>2. QED
  BY <1>1, AlwaysIInv, PTL
=============================================================================
