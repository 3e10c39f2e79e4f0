------------------------------- MODULE SSERun -------------------------------
(***************************************************************************)
(* A server side execution (SSE) job: sse/job.go fetches the program of    *)
(* the user, sse/sserun.go runs it in a container of its own and takes the *)
(* result and the log out of it, and sse/router answers the requests the   *)
(* program makes of the QPU from inside the container.  Any call to the    *)
(* container engine, the file system or the cloud may fail; the program    *)
(* may fail or run for ever.                                               *)
(***************************************************************************)
EXTENDS Naturals, FiniteSets

CONSTANTS
    UserWrites,    \* statuses the program itself writes to the result file
    MaxRequests,   \* bound: requests of the program to the router
    MaxRounds      \* bound: how often a job goes round the loop of handleImpl

\* The statuses core.ToStatus knows.
ResultStatus == {"submitted", "ready", "running", "succeeded", "failed", "cancelled"}

ASSUME UserWritesAssumption == UserWrites \subseteq ResultStatus
ASSUME BoundsAssumption == MaxRequests \in Nat /\ MaxRounds \in Nat

VARIABLES
    pc,         \* where the job is
    status,     \* JobData.Status
    dir,        \* the directories under HostPath
    vol,        \* the tmpfs volume: whether it exists, and conDef.volume
    con,        \* the container
    proc,       \* the process of each exec
    reader,     \* the goroutine of each exec
    timedOut,   \* the execs whose timer fired first
    execErr,    \* the error of the program, kept for later
    copyErr,    \* the error of the copy of the result, kept for later
    file,       \* the result file in the container, and the copy of it
    log,        \* the log in the container, the copy of it, and the upload
    router,     \* the handler of the router
    requests,   \* number of requests so far
    rounds,     \* number of rounds so far
    failed      \* the clean-up calls that failed

vars == <<pc, status, dir, vol, con, proc, reader, timedOut, execErr, copyErr,
          file, log, router, requests, rounds, failed>>

Execs == {"init", "user"}

\* PreProcess has failed, RunSSE has returned, the full queue dropped the job.
Ends == {"preFailed", "ended", "dropped"}

Stages == {"new", "queued", "convert", "volume", "create", "start", "execInit",
           "waitInit", "copyIn", "execUser", "waitUser", "copyOut", "saveLog",
           "upload", "result", "stop", "remove", "delVolume", "delDir", "failing"}

NoFile == "none"

NewRun ==
    /\ proc = [e \in Execs |-> "none"]
    /\ reader = [e \in Execs |-> "none"]
    /\ timedOut = {}
    /\ execErr = FALSE
    /\ copyErr = FALSE
    /\ file = [inside |-> NoFile, copy |-> NoFile]
    /\ log = [inside |-> "empty", copy |-> NoFile, uploaded |-> NoFile]

Init ==
    /\ pc = "new"
    /\ status = "ready"
    /\ dir = {}
    /\ vol = [made |-> FALSE, known |-> FALSE]
    /\ con = "none"
    /\ NewRun
    /\ router = "idle"
    /\ requests = 0
    /\ rounds = 0
    /\ failed = {}

run == <<proc, reader, timedOut, execErr, copyErr, file, log>>
requesting == <<router, requests>>

-----------------------------------------------------------------------------
(* PreProcess, and the queue of the scheduler.                             *)

\* The three ways in which preProcessImpl fails, with the directories it leaves:
\* the program is not there; one or both directories cannot be made; or the
\* program cannot be decoded or written, and the directories are deleted again.
DownloadFails == UNCHANGED <<dir, failed>>
MakeTmpDirFails == dir' \in {dir, {"in"}} /\ UNCHANGED failed
MakeUserProgramFileFails ==
    \/ dir' = {} /\ UNCHANGED failed
    \/ dir' = {"in", "out"} /\ failed' = failed \cup {"dir"}

PreProcess ==
    /\ pc = "new"
    /\ \/ pc' = "queued" /\ dir' = {"in", "out"} /\ UNCHANGED <<status, failed>>
       \/ /\ pc' = "preFailed"
          /\ status' = "failed"
          /\ DownloadFails \/ MakeTmpDirFails \/ MakeUserProgramFileFails
    /\ UNCHANGED <<vol, con, run, requesting, rounds>>

\* The worker takes the job, or it finds the queue full.
Dequeue ==
    /\ pc = "queued"
    /\ \/ pc' = "convert" /\ status' = "running"
       \/ pc' = "dropped" /\ UNCHANGED status
    /\ UNCHANGED <<dir, vol, con, run, requesting, rounds, failed>>

-----------------------------------------------------------------------------
(* RunSSE.                                                                 *)

\* The clean-up calls.
CleanUps == {"stop", "remove", "volume", "dir"}

\* The processes of a container that no longer runs are killed.
Killed(c) == [e \in Execs |-> IF c # "running" /\ proc[e] \in {"running", "waiting"}
                              THEN "killed" ELSE proc[e]]

\* RunSSE returns an error, and Process sets the status.
ReturnError == pc' = "ended" /\ status' = "failed"

ErrBeforeContainerMake ==
    /\ ReturnError
    /\ \/ dir' = {} /\ UNCHANGED failed
       \/ failed' = failed \cup {"dir"} /\ UNCHANGED dir

\* The job cannot be converted, or there is no client of the container engine.
ConvertJson ==
    /\ pc = "convert"
    /\ \/ pc' = "volume" /\ UNCHANGED <<status, dir, failed>>
       \/ ErrBeforeContainerMake
    /\ UNCHANGED <<vol, con, run, requesting, rounds>>

\* The step at pc = l succeeds and goes on at n, or fails.
GoesOn(l, n) == pc = l /\ pc' = n
Fails(l) == pc = l /\ pc' = "failing"

\* A volume whose creation is not answered is not known to the engine.
CreateVolume ==
    /\ \/ GoesOn("volume", "create") /\ vol' = [made |-> TRUE, known |-> TRUE]
       \/ Fails("volume") /\ vol' \in {vol, [made |-> TRUE, known |-> FALSE]}
    /\ UNCHANGED <<status, dir, con, run, requesting, rounds, failed>>

\* Mutated form of ContainerCreate: the error is taken for one before anything
\* was made, and the volume is left.
ContainerCreateBefore ==
    /\ \/ GoesOn("create", "start") /\ con' = "created" /\ UNCHANGED <<status, dir>>
       \/ pc = "create" /\ ReturnError /\ dir' = {} /\ UNCHANGED con
    /\ UNCHANGED <<vol, run, requesting, rounds, failed>>

\* startContainer, in its two calls.
ContainerCreate ==
    /\ \/ GoesOn("create", "start") /\ con' = "created"
       \/ Fails("create") /\ con' \in {con, "created"}
    /\ UNCHANGED <<status, dir, vol, run, requesting, rounds, failed>>

ContainerStart ==
    /\ \/ GoesOn("start", "execInit") /\ con' = "running"
       \/ Fails("start") /\ con' \in {con, "running"}
    /\ UNCHANGED <<status, dir, vol, run, requesting, rounds, failed>>

CopyUserProgram ==
    /\ GoesOn("copyIn", "execUser") \/ Fails("copyIn")
    /\ UNCHANGED <<status, dir, vol, con, run, requesting, rounds, failed>>

-----------------------------------------------------------------------------
(* execCommandInContainer: init.sh, then the program.                      *)

ExecAt(e) == IF e = "init" THEN "execInit" ELSE "execUser"
WaitAt(e) == IF e = "init" THEN "waitInit" ELSE "waitUser"

\* An error of init.sh ends the run, one of the program is kept.
ExecReturns(e, err) ==
    IF e = "init" THEN pc' = (IF err THEN "failing" ELSE "copyIn") /\ UNCHANGED execErr
                  ELSE pc' = "copyOut" /\ execErr' = err

\* Mutated form of ExecStart: the goroutine is started before the exec is
\* attached to.
ExecStartReaderFirst(e) ==
    /\ pc = ExecAt(e)
    /\ reader' = [reader EXCEPT ![e] = "reading"]
    /\ \/ /\ pc' = WaitAt(e)
          /\ proc' = [proc EXCEPT ![e] = "running"]
          /\ UNCHANGED execErr
       \/ ExecReturns(e, TRUE) /\ UNCHANGED proc
    /\ UNCHANGED <<status, dir, vol, con, timedOut, copyErr, file, log,
                   requesting, rounds, failed>>

\* The exec is created and attached to, and the goroutine started; or not.
ExecStart(e) ==
    /\ pc = ExecAt(e)
    /\ \/ /\ pc' = WaitAt(e)
          /\ proc' = [proc EXCEPT ![e] = "running"]
          /\ reader' = [reader EXCEPT ![e] = "reading"]
          /\ UNCHANGED execErr
       \/ ExecReturns(e, TRUE) /\ UNCHANGED <<proc, reader>>
    /\ UNCHANGED <<status, dir, vol, con, timedOut, copyErr, file, log,
                   requesting, rounds, failed>>

\* The goroutine has read to the end of the stream, or the stream broke.
ReaderEnds(e) ==
    /\ reader[e] = "reading"
    /\ \/ proc[e] \in {"ok", "error", "killed"}
          /\ reader' = [reader EXCEPT ![e] = "sending"]
       \/ reader' = [reader EXCEPT ![e] = "sendingError"]
    /\ UNCHANGED <<pc, status, dir, vol, con, proc, timedOut, execErr, copyErr,
                   file, log, requesting, rounds, failed>>

\* The exit code is asked for; the answer may be an error.
ExecEnds(e) ==
    /\ pc = WaitAt(e)
    /\ reader[e] \in {"sending", "sendingError"}
    /\ reader' = [reader EXCEPT ![e] = "gone"]
    /\ \E err \in BOOLEAN :
          /\ reader[e] = "sendingError" \/ proc[e] # "ok" => err
          /\ ExecReturns(e, err)
    /\ UNCHANGED <<status, dir, vol, con, proc, timedOut, copyErr, file, log,
                   requesting, rounds, failed>>

\* Mutated form of ExecTimeout: the stream is read to its end before the timer
\* is looked at.
ExecTimeoutAfterRead(e) ==
    /\ pc = WaitAt(e)
    /\ reader[e] # "reading"
    /\ timedOut' = timedOut \cup {e}
    /\ ExecReturns(e, TRUE)
    /\ UNCHANGED <<status, dir, vol, con, proc, reader, copyErr, file, log,
                   requesting, rounds, failed>>

\* The timer of SSETimeout: nobody will receive from the goroutine.
ExecTimeout(e) ==
    /\ pc = WaitAt(e)
    /\ timedOut' = timedOut \cup {e}
    /\ ExecReturns(e, TRUE)
    /\ UNCHANGED <<status, dir, vol, con, proc, reader, copyErr, file, log,
                   requesting, rounds, failed>>
-----------------------------------------------------------------------------
(* The result, the log, and the end.                                       *)

\* The result file is copied, or not, or only in part, or the archive cannot
\* be read on after the whole of it.
CopyResult ==
    /\ pc = "copyOut"
    /\ pc' = "saveLog"
    /\ \/ /\ file.inside # NoFile
          /\ file' = [file EXCEPT !.copy = file.inside]
          /\ copyErr' = FALSE
       \/ /\ copyErr' = TRUE
          /\ \/ UNCHANGED file
             \/ /\ file.inside # NoFile
                /\ \E copy \in {file.inside, "truncated"} :
                      file' = [file EXCEPT !.copy = copy]
    /\ UNCHANGED <<status, dir, vol, con, proc, reader, timedOut, execErr, log,
                   requesting, rounds, failed>>

\* After an error of the program the stream is read to its end for the log of
\* the engine, and what is left of it is copied to the file.
SaveContainerLog ==
    /\ \/ /\ GoesOn("saveLog", "upload")
          /\ log' = [log EXCEPT !.copy = IF execErr THEN "empty" ELSE log.inside]
       \/ Fails("saveLog") /\ UNCHANGED log
    /\ UNCHANGED <<status, dir, vol, con, proc, reader, timedOut, execErr, copyErr,
                   file, requesting, rounds, failed>>

\* NewSseApiClient and s3Upload.
Upload ==
    /\ \/ GoesOn("upload", "result") /\ log' = [log EXCEPT !.uploaded = log.copy]
       \/ Fails("upload") /\ UNCHANGED log
    /\ UNCHANGED <<status, dir, vol, con, proc, reader, timedOut, execErr, copyErr,
                   file, requesting, rounds, failed>>

\* Mutated form of SetResultToOutputJob: the status is taken as it is.
SetResultUnchecked ==
    /\ \/ /\ file.copy # NoFile
          /\ GoesOn("result", "stop")
          /\ status' = file.copy
       \/ Fails("result") /\ UNCHANGED status
    /\ UNCHANGED <<dir, vol, con, run, requesting, rounds, failed>>

\* The file is read and parsed, and the status in it is one ToStatus knows.
SetResultToOutputJob ==
    /\ \/ /\ file.copy \in ResultStatus
          /\ GoesOn("result", "stop")
          /\ status' = file.copy
       \/ Fails("result") /\ UNCHANGED status
    /\ UNCHANGED <<dir, vol, con, run, requesting, rounds, failed>>

\* A call of the regular clean-up fails: RunSSE returns, and leaves the rest.
\* A removal may have been carried out all the same.
CleanUpFails(l, call) ==
    /\ pc = l
    /\ failed' = failed \cup {call}
    /\ ReturnError
    /\ UNCHANGED <<dir, run, requesting, rounds>>

StopContainer ==
    \/ /\ GoesOn("stop", "remove")
       /\ con' = "exited"
       /\ proc' = Killed("exited")
       /\ UNCHANGED <<status, dir, vol, reader, timedOut, execErr, copyErr, file,
                      log, requesting, rounds, failed>>
    \/ CleanUpFails("stop", "stop") /\ UNCHANGED <<con, vol>>

RemoveContainer ==
    \/ /\ con = "exited"
       /\ GoesOn("remove", "delVolume")
       /\ con' = "none"
       /\ UNCHANGED <<status, dir, vol, run, requesting, rounds, failed>>
    \/ CleanUpFails("remove", "remove") /\ con' \in {con, "none"} /\ UNCHANGED vol

DelVolume ==
    \/ /\ GoesOn("delVolume", "delDir")
       /\ vol' = [made |-> FALSE, known |-> FALSE]
       /\ UNCHANGED <<status, dir, con, run, requesting, rounds, failed>>
    \/ CleanUpFails("delVolume", "volume") /\ UNCHANGED <<con, vol>>

\* Mutated form of DelDirectory: the error of the program is forgotten.
DelDirectoryForgetsError ==
    \/ /\ GoesOn("delDir", "ended")
       /\ dir' = {}
       /\ status' = IF copyErr THEN "failed" ELSE status
       /\ UNCHANGED <<vol, con, run, requesting, rounds, failed>>
    \/ CleanUpFails("delDir", "dir") /\ UNCHANGED <<con, vol>>

\* At last the errors that were kept are returned.
DelDirectory ==
    \/ /\ GoesOn("delDir", "ended")
       /\ dir' = {}
       /\ status' = IF execErr \/ copyErr THEN "failed" ELSE status
       /\ UNCHANGED <<vol, con, run, requesting, rounds, failed>>
    \/ CleanUpFails("delDir", "dir") /\ UNCHANGED <<con, vol>>

\* Every clean-up call is made, whatever became of the one before.  A forced
\* removal needs no stop; a volume in use is not removed.
ErrAfterContainerMake ==
    /\ pc = "failing"
    /\ \E bad \in SUBSET CleanUps :
          /\ failed' = failed \cup bad
          /\ con' = IF "remove" \notin bad THEN "none"
                    ELSE IF con = "running" /\ "stop" \notin bad THEN "exited" ELSE con
          /\ vol' = IF vol.known /\ con' = "none" /\ "volume" \notin bad
                    THEN [made |-> FALSE, known |-> FALSE] ELSE vol
          /\ dir' = IF "dir" \in bad THEN dir ELSE {}
    /\ proc' = Killed(con')
    /\ ReturnError
    /\ UNCHANGED <<reader, timedOut, execErr, copyErr, file, log, requesting, rounds>>

\* A job that is READY once more goes round the loop of handleImpl.
Again ==
    /\ pc = "ended"
    /\ status = "ready"
    /\ rounds < MaxRounds
    /\ pc' = "new"
    /\ rounds' = rounds + 1
    /\ proc' = [e \in Execs |-> "none"]
    /\ reader' = [e \in Execs |-> "none"]
    /\ timedOut' = {}
    /\ execErr' = FALSE
    /\ copyErr' = FALSE
    /\ file' = [inside |-> NoFile, copy |-> NoFile]
    /\ log' = [inside |-> "empty", copy |-> NoFile, uploaded |-> NoFile]
    /\ UNCHANGED <<status, dir, vol, con, requesting, failed>>

RunSSE ==
    \/ ConvertJson
    \/ CreateVolume
    \/ ContainerCreate
    \/ ContainerStart
    \/ CopyUserProgram
    \/ \E e \in Execs : ExecStart(e) \/ ExecEnds(e)
    \/ CopyResult
    \/ SaveContainerLog
    \/ Upload
    \/ SetResultToOutputJob
    \/ StopContainer
    \/ RemoveContainer
    \/ DelVolume
    \/ DelDirectory
    \/ ErrAfterContainerMake

Timer == \E e \in Execs : ExecTimeout(e)

-----------------------------------------------------------------------------
(* The processes in the container, and the router.                         *)

OnlyProc == UNCHANGED <<pc, status, dir, vol, con, reader, timedOut, execErr,
                        copyErr, rounds, failed>>

\* A process ends, in its own time.
ProcessEnds(e) ==
    /\ proc[e] = "running"
    /\ \E x \in {"ok", "error"} : proc' = [proc EXCEPT ![e] = x]
    /\ UNCHANGED <<file, log, requesting>>
    /\ OnlyProc

\* The program writes to the log, or a result file of its own.
ProgramWrites ==
    /\ proc["user"] = "running"
    /\ \/ log' = [log EXCEPT !.inside = "text"] /\ UNCHANGED file
       \/ /\ \E s \in UserWrites : file' = [file EXCEPT !.inside = s]
          /\ UNCHANGED log
    /\ UNCHANGED <<proc, requesting>>
    /\ OnlyProc

\* req_transpile_and_exec calls TranspileAndExec, without a deadline.
ProgramRequests ==
    /\ proc["user"] = "running"
    /\ router = "idle"
    /\ requests < MaxRequests
    /\ requests' = requests + 1
    /\ router' = "validate"
    /\ proc' = [proc EXCEPT !["user"] = "waiting"]
    /\ UNCHANGED <<file, log>>
    /\ OnlyProc

\* TranspileAndExec.  The status is failed until the QPU is done.
RouterStep(from, to) ==
    /\ router = from
    /\ router' \in {to, "failed"}
    /\ UNCHANGED <<proc, file, log, requests>>
    /\ OnlyProc

RouterValidates == RouterStep("validate", "transpile")
RouterTranspiles == RouterStep("transpile", "send")
RouterSends == RouterStep("send", "succeeded")

WriteResult(s) == file' = [file EXCEPT !.inside = s]

\* The runtime writes the answer to the result file before it raises an error,
\* which the program may catch.  Nobody may be waiting any more.
RouterAnswers ==
    /\ router \in {"succeeded", "failed"}
    /\ router' = "idle"
    /\ IF proc["user"] = "waiting"
       THEN /\ WriteResult(router)
            /\ \E x \in {"running"} \cup (IF router = "failed" THEN {"error"} ELSE {}) :
                  proc' = [proc EXCEPT !["user"] = x]
       ELSE UNCHANGED <<file, proc>>
    /\ UNCHANGED <<log, requests>>
    /\ OnlyProc

Router == RouterValidates \/ RouterTranspiles \/ RouterSends \/ RouterAnswers

Next ==
    \/ PreProcess
    \/ Dequeue
    \/ RunSSE
    \/ Timer
    \/ \E e \in Execs : ReaderEnds(e) \/ ProcessEnds(e)
    \/ ProgramWrites
    \/ ProgramRequests
    \/ Router
    \/ Again

Spec == Init /\ [][Next]_vars

(***************************************************************************)
(* Calls to the container engine, the file system and the cloud return,    *)
(* and the timer of an exec fires.  The processes in the container, the    *)
(* goroutines that read from them and the router may stop.                 *)
(***************************************************************************)
FairSpec == Spec /\ WF_vars(RunSSE) /\ WF_vars(Timer) /\ WF_vars(PreProcess)
                 /\ WF_vars(Dequeue)

-----------------------------------------------------------------------------
(* Properties.                                                             *)

\* Every variable has its type; the status of the job is one core.ToStatus
\* knows, whatever the program writes to the result file.
TypeOK ==
    /\ pc \in Stages \cup Ends
    /\ status \in ResultStatus
    /\ dir \in SUBSET {"in", "out"}
    /\ vol \in [made : BOOLEAN, known : BOOLEAN]
    /\ con \in {"none", "created", "running", "exited"}
    /\ proc \in [Execs -> {"none", "running", "waiting", "ok", "error", "killed"}]
    /\ reader \in [Execs -> {"none", "reading", "sending", "sendingError", "gone"}]
    /\ timedOut \in SUBSET Execs
    /\ execErr \in BOOLEAN
    /\ copyErr \in BOOLEAN
    /\ file \in [inside : ResultStatus \cup {NoFile},
                 copy : ResultStatus \cup {NoFile, "truncated"}]
    /\ log \in [inside : {"empty", "text"}, copy : {"empty", "text", NoFile},
                uploaded : {"empty", "text", NoFile}]
    /\ router \in {"idle", "validate", "transpile", "send", "succeeded", "failed"}
    /\ requests \in 0 .. MaxRequests
    /\ rounds \in 0 .. MaxRounds
    /\ failed \in SUBSET CleanUps

\* What a job that is over leaves behind.  A container stays only when it could
\* not be stopped or removed, a volume only when that or its own removal failed
\* or its creation was never answered, the directories only when a clean-up
\* call failed, the second of them could not be made (makeTmpDir) or the full
\* queue dropped the job (errAfterContainerMake, removeContainer, delDirectory).
LeaksOnlyAfterFailedCleanUp ==
    pc \in Ends =>
        /\ con # "none" => failed \cap {"stop", "remove"} # {}
        /\ vol.made => ~vol.known \/ failed \cap {"stop", "remove", "volume"} # {}
        /\ dir # {} => failed # {} \/ dir = {"in"} \/ pc = "dropped"

\* RunSSE accepts a run (Process keeps the status of the result file) only when
\* the program ended by itself without error, the status is the last one that
\* the program left in the file and the uploaded log is all the program wrote,
\* and nothing is left: neither the container nor the volume, the directories
\* or a goroutine.
AcceptedRunIsComplete ==
    pc = "ended" /\ status # "failed" =>
        /\ proc["user"] = "ok" /\ timedOut = {} /\ failed = {}
        /\ status = file.inside /\ log.uploaded = log.inside
        /\ con = "none" /\ ~vol.made /\ dir = {}
        /\ \A e \in Execs : reader[e] = "gone"

\* The goroutine of an exec outlives execCommandInContainer only when the timer
\* fired first: nothing else leaves a goroutine blocked on resultChan.
ReaderOutlivesOnlyTimeout ==
    \A e \in Execs :
        reader[e] \in {"reading", "sending", "sendingError"} =>
            pc = WaitAt(e) \/ e \in timedOut

\* RunSSE returns, although the program may run for ever and the router may
\* never answer it: the worker of the scheduler is free again.
RunEnds == (pc = "convert") ~> (pc = "ended")
=============================================================================
