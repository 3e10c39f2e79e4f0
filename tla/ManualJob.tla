----------------------------- MODULE ManualJob -----------------------------
(***************************************************************************)
(* One multi-programming job from the cloud and back                       *)
(* (multiprog/manual/job.go): several circuits are combined into one, the  *)
(* one is laid out on the physical qubits by the transpiler and run by the *)
(* gateway, and the counts are divided among the circuits again.  The      *)
(* scheduler calls PreProcess, Process and PostProcess in this order and   *)
(* hands what is finished to the database goroutine; Scheduler.tla has the *)
(* concurrency of that, this module has the data.                          *)
(***************************************************************************)
EXTENDS ResultDivider, CloudJob

CONSTANTS
    CircuitLists,   \* the programs a user may send
    Options,        \* the transpiler options a user may give
    MaxQubits,      \* DeviceInfo.MaxQubits
    MaxShots,       \* DeviceInfo.MaxShots
    Physical        \* the physical qubits of the device are 0 .. Physical - 1

\* A circuit measures its qubit k into its classical bit k, if at all.
ASSUME CircuitsAssumption ==
    \A circuits \in CircuitLists :
        /\ circuits \in Seq([qubits : Nat, clbits : Nat])
        /\ \A i \in DOMAIN circuits : circuits[i].clbits <= circuits[i].qubits

ASSUME SizesAssumption == MaxQubits \in Nat /\ MaxShots \in Nat /\ Physical \in Nat

VARIABLES
    pc,        \* the phase the handler has reached
    request,   \* what the user sent
    job,       \* the JobData and the private fields of the ManualJob
    outcome,   \* what the circuits measured, by classical bit
    fault,     \* whether a service failed, or a phase panicked for another
               \* reason than that the job names no transpiler
    report     \* what ServiceDB.Update told the cloud

vars == <<pc, request, job, outcome, fault, report>>

NoCounts == [s \in {} |-> 0]

Requests == [circuits : CircuitLists, ti : Options, shots : 0 .. MaxShots + 1]

NoReport == [status |-> "none"]

Init ==
    /\ pc = "received"
    /\ request \in Requests
    /\ PassesValidation(request.ti)
    /\ job = [status |-> "READY", use |-> FALSE, qasm |-> "original",
              lengths |-> <<>>, vpm |-> <<>>, counts |-> NoCounts, divided |-> <<>>]
    /\ outcome = NoCounts
    /\ fault = FALSE
    /\ report = NoReport

lib == TranspilerLib(request.ti)

\* SetFailureWithError and rollbackQASM; then the handler, which finds the job
\* finished, sets UseJobInfoUpdate and reports it.
Fail(failed) ==
    /\ job' = [failed EXCEPT !.use = TRUE]
    /\ pc' = "report"
    /\ UNCHANGED <<request, outcome, report>>

FailWithRollback ==
    Fail([job EXCEPT !.status = "FAILED", !.qasm = "original"])

\* PreProcess or PostProcess panics: the recover of handleImpl sets FAILED,
\* rolls nothing back and writes the job.  UseJobInfoUpdate is what it was,
\* FALSE before wg.Wait.
Panics(panicked) ==
    /\ job' = [panicked EXCEPT !.status = "FAILED"]
    /\ pc' = "report"
    /\ UNCHANGED <<request, outcome, report>>

HandlerPanics ==
    /\ \/ pc \in {"received", "combine", "transpile", "post"} /\ Panics(job)
       \/ pc = "post" /\ Panics([job EXCEPT !.qasm = "both"])
    /\ fault' = TRUE

-----------------------------------------------------------------------------
(* PreProcess.                                                             *)

Valid ==
    /\ request.shots \in 1 .. MaxShots
    /\ lib = "nil" \/ IsAcceptableTranspilerLib(lib)

validateJobParam ==
    /\ pc = "received"
    /\ \/ /\ ~Valid
          /\ Fail([job EXCEPT !.status = "FAILED"])
       \/ /\ Valid
          /\ pc' = "combine"
          /\ UNCHANGED <<request, job, outcome, report>>
    /\ UNCHANGED fault

NumClbits(circuits) == [i \in DOMAIN circuits |-> circuits[i].clbits]
NumQubits(circuits) == [i \in DOMAIN circuits |-> circuits[i].qubits]

\* Mutated form of CombineFails: the size of the device is not looked at.
CombineNeverFails(circuits) == FALSE

CombineFails(circuits) == Sum(NumQubits(circuits)) > MaxQubits

\* Mutated form of combine_circuits: the list is in the order of the circuits.
combine_in_order(circuits) == NumClbits(circuits)

\* combined_qubits_list of the service: the last circuit comes first.
combine_circuits(circuits) ==
    [i \in DOMAIN circuits |-> NumClbits(circuits)[Len(circuits) - i + 1]]

sendJobdata ==
    /\ pc = "combine"
    /\ \/ /\ ~CombineFails(request.circuits)
          /\ job' = [job EXCEPT !.lengths = combine_circuits(request.circuits),
                                !.qasm = "combined"]
          /\ pc' = "transpile"
          /\ UNCHANGED <<request, outcome, fault, report>>
       \/ /\ CombineFails(request.circuits)
          /\ FailWithRollback
          /\ UNCHANGED fault
       \/ /\ FailWithRollback     \* no answer within a second, or a failure
          /\ fault' = TRUE

\* The layouts of the combined circuit on the device.
Layouts ==
    {l \in [0 .. Sum(NumQubits(request.circuits)) - 1 -> 0 .. Physical - 1] :
        \A v, w \in DOMAIN l : l[v] = l[w] => v = w}

\* Transpile dereferences the name of the library: without a name it panics.
\* The transpiler answers with success or an error, and no other status.
Transpile ==
    /\ pc = "transpile"
    /\ \/ /\ ~NeedTranspiling(lib)
          /\ Panics(job)
          /\ UNCHANGED fault
       \/ /\ NeedTranspiling(lib)
          /\ \E l \in Layouts : job' = [job EXCEPT !.vpm = l]
          /\ pc' = "process"
          /\ UNCHANGED <<request, outcome, fault, report>>
       \/ /\ NeedTranspiling(lib)
          /\ FailWithRollback
          /\ fault' = TRUE

-----------------------------------------------------------------------------
(* Process.  A circuit measures its qubit k into its classical bit k.      *)

Before(lengths, i) == Sum(SubSeq(lengths, 1, i - 1))

\* The qubits of the combined circuit that are measured, by classical bit:
\* circuit i has the qubits and the bits that follow those of circuit i - 1.
MeasuredQubit(circuits) ==
    LET owner(b) == CHOOSE i \in DOMAIN circuits :
                       /\ Before(NumClbits(circuits), i) <= b
                       /\ b < Before(NumClbits(circuits), i + 1)
    IN  [b \in 0 .. Sum(NumClbits(circuits)) - 1 |->
            Before(NumQubits(circuits), owner(b))
               + b - Before(NumClbits(circuits), owner(b))]

\* The gateway sorts the measured bits by physical qubit.
DeviceKey(s) ==
    LET at == [b \in 0 .. Len(s) - 1 |->
                  job.vpm[MeasuredQubit(request.circuits)[b]]]
        rank(b) == Cardinality({c \in DOMAIN at : at[c] < at[b]})
    IN  FromBits(Len(s), [r \in DOMAIN at |->
            BitAt(s, CHOOSE b \in DOMAIN at : rank(b) = r)])

\* All shots measured the same bits, or all but one did.
Outcomes ==
    LET strings == [1 .. Sum(NumClbits(request.circuits)) -> Bits]
    IN  {[s \in {t} |-> request.shots] : t \in strings}
        \cup UNION {{[s \in {t, u} |-> IF s = t THEN 1 ELSE request.shots - 1]
                        : t \in strings \ {u}}
                     : u \in IF request.shots > 1 THEN strings ELSE {}}

\* Send: the gateway ran the program, or ran it without success, which is no
\* error to Process, or did not answer.  A panic that the worker recovers from
\* leaves the job like a run without success.
Process ==
    /\ pc = "process"
    /\ \/ \E o \in Outcomes :
            /\ outcome' = o
            /\ job' = [job EXCEPT
                  !.status = "SUCCEEDED",
                  !.use = TRUE,       \* back from wg.Wait
                  !.counts = [k \in {DeviceKey(s) : s \in DOMAIN o} |->
                      o[CHOOSE s \in DOMAIN o : DeviceKey(s) = k]]]
            /\ pc' = "post"
            /\ UNCHANGED <<request, fault, report>>
       \/ /\ Fail([job EXCEPT !.status = "FAILED"])
          /\ fault' = TRUE
       \/ /\ FailWithRollback
          /\ fault' = TRUE

-----------------------------------------------------------------------------
(* PostProcess, and the report.                                            *)

\* setQASMJson keeps both programs; the swapped counts replace the counts.
PostProcess ==
    /\ pc = "post"
    /\ LET failed == DivideResultFails(job.counts, job.vpm, job.lengths)
           swapped == IF SwapFails(job.counts, job.vpm) THEN job.counts
                      ELSE swapVirtualPhysical(job.counts, job.vpm)
       IN  job' = [job EXCEPT
             !.status = IF failed THEN "FAILED" ELSE "SUCCEEDED",
             !.qasm = "both",
             !.counts = swapped,
             !.divided = IF failed THEN <<>>
                         ELSE DividedCounts(swapped, job.lengths)]
    /\ pc' = "report"
    /\ UNCHANGED <<request, outcome, fault, report>>

\* The combined program is found only where setQASMJson put it, and Update
\* resets the result of a failed job.
ConvertToCloudJob ==
    [status |-> job.status,
     combined |-> job.qasm = "both",
     transpiled |-> NeedTranspiling(lib),
     putInfo |-> NeedsUpdateTranspilerInfo(request.ti),
     counts |-> IF job.status = "FAILED" THEN NoCounts ELSE job.counts,
     divided |-> IF job.status = "FAILED" THEN <<>> ELSE job.divided]

\* Without UseJobInfoUpdate a job that is over is only logged.
Update ==
    /\ pc = "report"
    /\ report' = IF job.use THEN ConvertToCloudJob ELSE report
    /\ pc' = "done"
    /\ UNCHANGED <<request, job, outcome, fault>>

Next ==
    \/ HandlerPanics
    \/ validateJobParam
    \/ sendJobdata
    \/ Transpile
    \/ Process
    \/ PostProcess
    \/ Update

Spec == Init /\ [][Next]_vars

-----------------------------------------------------------------------------
(* Properties.                                                             *)

\* The fields of the job have the values the code can give them; what the
\* combiner accepts fits the device, and every count is a number of shots.
TypeOK ==
    /\ pc \in {"received", "combine", "transpile", "process", "post",
               "report", "done"}
    /\ request \in Requests
    /\ job.status \in {"READY", "SUCCEEDED", "FAILED"}
    /\ job.use \in BOOLEAN
    /\ job.qasm \in {"original", "combined", "both"}
    /\ job.lengths # <<>> =>
          /\ Len(job.lengths) = Len(request.circuits)
          /\ Sum(job.lengths) <= MaxQubits
    /\ job.vpm # <<>> => job.vpm \in Layouts
    /\ \A s \in DOMAIN job.counts :
          /\ s \in [1 .. Sum(job.lengths) -> Bits]
          /\ job.counts[s] \in 1 .. MaxShots
    /\ fault \in BOOLEAN

\* What circuit c of the list measured, read off the outcome directly.
Marginal(c) ==
    LET first == Before(NumClbits(request.circuits), c + 1)
        own(s) == FromBits(request.circuits[c + 1].clbits,
                           [k \in 0 .. request.circuits[c + 1].clbits - 1 |->
                                BitAt(s, first + k)])
    IN  [p \in {own(s) : s \in DOMAIN outcome} |->
            TotalCount(outcome, {s \in DOMAIN outcome : own(s) = p})]

\* Only the last circuit may leave qubits unmeasured.  The divider keeps the
\* lowest virtual qubits, and those of the last circuit are the highest.
UnmeasuredComeLast ==
    \A c \in 1 .. Len(request.circuits) - 1 :
        request.circuits[c].clbits = request.circuits[c].qubits

\* A job that is reported SUCCEEDED gives every circuit exactly the counts it
\* measured, whatever qubits the transpiler chose: the order of the
\* combiner's list, the swap to virtual qubits and the division of the
\* strings (result_divider.go) undo the combination and the layout, as long
\* as no circuit but the last leaves a qubit unmeasured.  The report has the
\* combined program and the counts in virtual order with it.
ReportedIsMarginal ==
    report.status = "SUCCEEDED" /\ UnmeasuredComeLast =>
        /\ report.combined
        /\ report.counts = outcome
        /\ report.divided = [c \in 0 .. Len(request.circuits) - 1 |-> Marginal(c)]

Acceptable == Valid /\ ~CombineFails(request.circuits)

\* A job that names a transpiler, passes the checks and meets no failure is
\* reported SUCCEEDED: "inconsistent qubits" and the range errors of
\* swapVirtualPhysical cannot come of the engine's own data.
ServedWhenNothingFails ==
    pc = "done" /\ Acceptable /\ ~fault /\ lib # "nil" => report.status = "SUCCEEDED"

\* So is a job that names none: validateJobParam lets it pass with the words
\* "use no transpiler".
ServedWithoutTranspiler ==
    pc = "done" /\ Acceptable /\ ~fault /\ lib = "nil" => report.status = "SUCCEEDED"
=============================================================================
