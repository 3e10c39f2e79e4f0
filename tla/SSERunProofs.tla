---------------------------- MODULE SSERunProofs ----------------------------
(***************************************************************************)
(* Proofs about SSERun, for any result files the program writes and any    *)
(* number of requests and rounds.                                          *)
(***************************************************************************)
EXTENDS SSERun, TLAPS

CleaningUp == {"stop", "remove", "delVolume", "delDir"}
Uploaded == {"result"} \cup CleaningUp
LogSaved == {"upload"} \cup Uploaded
Copied == {"saveLog"} \cup LogSaved
UserOver == {"copyOut"} \cup Copied
ToUser == {"copyIn", "execUser", "waitUser"}
InitOver == ToUser \cup UserOver
ToInit == {"new", "queued", "convert", "volume", "create", "start", "execInit",
           "waitInit"}

\* What the run holds at each stage of RunSSE.
Holds ==
    /\ pc \notin Ends => failed = {}
    /\ pc \in {"new", "queued", "convert", "volume"} => con = "none" /\ ~vol.made
    /\ pc = "new" => dir = {}
    /\ pc = "remove" => con = "exited"
    /\ pc \in {"delVolume", "delDir"} => con = "none"
    /\ pc = "delDir" => ~vol.made

\* What is known of a run that has met no error so far.
NoErrorSoFar ==
    /\ pc \in ToInit => timedOut = {}
    /\ pc \in ToUser => "user" \notin timedOut
    /\ pc \in InitOver => reader["init"] = "gone" /\ "init" \notin timedOut
    /\ pc \in UserOver /\ ~execErr =>
          proc["user"] = "ok" /\ reader["user"] = "gone" /\ "user" \notin timedOut
    /\ pc \in Copied /\ ~execErr /\ ~copyErr => file.copy = file.inside
    /\ pc \in LogSaved /\ ~execErr => log.copy = log.inside
    /\ pc \in Uploaded /\ ~execErr => log.uploaded = log.inside
    /\ pc \in CleaningUp => status = file.copy

IInv ==
    /\ TypeOK
    /\ Holds
    /\ NoErrorSoFar
    /\ LeaksOnlyAfterFailedCleanUp
    /\ AcceptedRunIsComplete
    /\ ReaderOutlivesOnlyTimeout

-----------------------------------------------------------------------------
(* One lemma for each action: it keeps the invariant.                      *)

USE DEF Execs, Ends, CleaningUp, Uploaded, LogSaved, Copied, UserOver, InitOver,
        ToUser, ToInit, run, requesting, WaitAt, Stages, CleanUps, ResultStatus,
        NoFile, GoesOn, Fails, CleanUpFails, ReturnError, ExecReturns, Killed, OnlyProc,
        ExecAt, ErrBeforeContainerMake, WriteResult

\* The records of the volume.
LEMMA VolumeType ==
    ASSUME NEW a \in BOOLEAN, NEW b \in BOOLEAN
    PROVE  [made |-> a, known |-> b] \in [made : BOOLEAN, known : BOOLEAN]
BY Zenon

LEMMA NoVolume == ~[made |-> FALSE, known |-> FALSE].made
BY Zenon

\* A job that fails in PreProcess has made no container.
LEMMA PreProcessStep ==
    ASSUME IInv, PreProcess
    PROVE  IInv'
<1> USE DEF IInv, PreProcess, DownloadFails, MakeTmpDirFails,
            MakeUserProgramFileFails
<1>1. TypeOK'
  <2>1. pc' \in Stages \cup Ends /\ status' \in ResultStatus
    BY DEF TypeOK
  <2>2. dir' \in SUBSET {"in", "out"}
    BY DEF TypeOK
  <2>3. failed' \in SUBSET CleanUps
    BY DEF TypeOK
  <2>4. QED
    BY <2>1, <2>2, <2>3 DEF TypeOK
<1>2. Holds'
  BY DEF TypeOK, Holds, AcceptedRunIsComplete
<1>3. NoErrorSoFar'
  BY DEF TypeOK, NoErrorSoFar
<1>4. LeaksOnlyAfterFailedCleanUp'
  BY DEF TypeOK, Holds, LeaksOnlyAfterFailedCleanUp
<1>5. AcceptedRunIsComplete'
  BY DEF TypeOK, Holds, NoErrorSoFar,
         AcceptedRunIsComplete
<1>6. ReaderOutlivesOnlyTimeout'
  BY DEF TypeOK, ReaderOutlivesOnlyTimeout
<1>7. QED
  BY <1>1, <1>2, <1>3, <1>4, <1>5, <1>6

\* Neither the worker nor the full queue touches what the job holds.
LEMMA DequeueStep ==
    ASSUME IInv, Dequeue
    PROVE  IInv'
BY DEF IInv, Dequeue, TypeOK, Holds, NoErrorSoFar, LeaksOnlyAfterFailedCleanUp,
       AcceptedRunIsComplete, ReaderOutlivesOnlyTimeout

\* An error before the container is made leaves at most the directories.
LEMMA ConvertJsonStep ==
    ASSUME IInv, ConvertJson
    PROVE  IInv'
<1> USE DEF IInv, ConvertJson
<1>1. TypeOK'
  <2>1. pc' \in Stages \cup Ends /\ status' \in ResultStatus
    BY DEF TypeOK
  <2>2. dir' \in SUBSET {"in", "out"}
    BY DEF TypeOK
  <2>3. failed' \in SUBSET CleanUps
    BY DEF TypeOK
  <2>4. QED
    BY <2>1, <2>2, <2>3 DEF TypeOK
<1>2. Holds'
  BY DEF TypeOK, Holds, AcceptedRunIsComplete
<1>3. NoErrorSoFar'
  BY DEF TypeOK, NoErrorSoFar
<1>4. LeaksOnlyAfterFailedCleanUp'
  BY DEF TypeOK, Holds, LeaksOnlyAfterFailedCleanUp
<1>5. AcceptedRunIsComplete'
  BY DEF TypeOK, Holds, NoErrorSoFar,
         AcceptedRunIsComplete
<1>6. ReaderOutlivesOnlyTimeout'
  BY DEF TypeOK, ReaderOutlivesOnlyTimeout
<1>7. QED
  BY <1>1, <1>2, <1>3, <1>4, <1>5, <1>6

\* A volume exists from here on, known to the engine or not.
LEMMA CreateVolumeStep ==
    ASSUME IInv, CreateVolume
    PROVE  IInv'
<1> USE DEF IInv, CreateVolume
<1>1. TypeOK'
  <2>1. pc' \in Stages \cup Ends /\ status' \in ResultStatus
    BY DEF TypeOK
  <2>2. vol' \in [made : BOOLEAN, known : BOOLEAN]
    BY VolumeType, Zenon DEF TypeOK
  <2>3. QED
    BY <2>1, <2>2 DEF TypeOK
<1>2. Holds'
  BY DEF TypeOK, Holds, AcceptedRunIsComplete
<1>3. NoErrorSoFar'
  BY DEF TypeOK, NoErrorSoFar
<1>4. LeaksOnlyAfterFailedCleanUp'
  BY DEF TypeOK, Holds, LeaksOnlyAfterFailedCleanUp
<1>5. AcceptedRunIsComplete'
  BY DEF TypeOK, Holds, NoErrorSoFar,
         AcceptedRunIsComplete
<1>6. ReaderOutlivesOnlyTimeout'
  BY DEF TypeOK, ReaderOutlivesOnlyTimeout
<1>7. QED
  BY <1>1, <1>2, <1>3, <1>4, <1>5, <1>6

\* A container exists from here on.
LEMMA ContainerCreateStep ==
    ASSUME IInv, ContainerCreate
    PROVE  IInv'
BY DEF IInv, ContainerCreate, TypeOK, Holds, NoErrorSoFar, LeaksOnlyAfterFailedCleanUp,
       AcceptedRunIsComplete, ReaderOutlivesOnlyTimeout

\* The container runs from here on.
LEMMA ContainerStartStep ==
    ASSUME IInv, ContainerStart
    PROVE  IInv'
BY DEF IInv, ContainerStart, TypeOK, Holds, NoErrorSoFar, LeaksOnlyAfterFailedCleanUp,
       AcceptedRunIsComplete, ReaderOutlivesOnlyTimeout

\* Copying the program in changes nothing the engine holds.
LEMMA CopyUserProgramStep ==
    ASSUME IInv, CopyUserProgram
    PROVE  IInv'
BY DEF IInv, CopyUserProgram, TypeOK, Holds, NoErrorSoFar, LeaksOnlyAfterFailedCleanUp,
       AcceptedRunIsComplete, ReaderOutlivesOnlyTimeout

\* A goroutine reads only while the exec is waited for.
LEMMA ExecStartStep ==
    ASSUME IInv, NEW e \in Execs, ExecStart(e)
    PROVE  IInv'
<1> USE DEF IInv, ExecStart
<1>1. TypeOK'
  <2>1. pc' \in Stages \cup Ends /\ status' \in ResultStatus
    BY DEF TypeOK
  <2>2. proc' \in [Execs -> {"none", "running", "waiting", "ok", "error", "killed"}]
    BY DEF TypeOK
  <2>3. reader' \in [Execs -> {"none", "reading", "sending", "sendingError", "gone"}]
    BY DEF TypeOK
  <2>4. execErr' \in BOOLEAN
    BY DEF TypeOK
  <2>5. QED
    BY <2>1, <2>2, <2>3, <2>4 DEF TypeOK
<1>2. Holds'
  BY DEF TypeOK, Holds, AcceptedRunIsComplete
<1>3. NoErrorSoFar'
  BY DEF TypeOK, NoErrorSoFar
<1>4. LeaksOnlyAfterFailedCleanUp'
  BY DEF TypeOK, Holds, LeaksOnlyAfterFailedCleanUp
<1>5. AcceptedRunIsComplete'
  BY DEF TypeOK, Holds, NoErrorSoFar,
         AcceptedRunIsComplete
<1>6. ReaderOutlivesOnlyTimeout'
  BY DEF TypeOK, ReaderOutlivesOnlyTimeout
<1>7. QED
  BY <1>1, <1>2, <1>3, <1>4, <1>5, <1>6

\* An exec without error means that the process has ended well.
LEMMA ExecEndsStep ==
    ASSUME IInv, NEW e \in Execs, ExecEnds(e)
    PROVE  IInv'
<1> USE DEF IInv, ExecEnds
<1>1. TypeOK'
  BY DEF TypeOK
<1>2. Holds'
  BY DEF TypeOK, Holds, AcceptedRunIsComplete
<1>3. NoErrorSoFar'
  <2>1. PICK err \in BOOLEAN :
          /\ reader[e] = "sendingError" \/ proc[e] # "ok" => err
          /\ ExecReturns(e, err)
    OBVIOUS
  <2>2. CASE e = "init"
    BY <2>1, <2>2 DEF TypeOK, NoErrorSoFar
  <2>3. CASE e = "user"
    <3>1. ~execErr' => proc["user"] = "ok"
      BY <2>1, <2>3
    <3>2. reader'["user"] = "gone" /\ reader'["init"] = reader["init"]
      BY <2>3 DEF TypeOK
    <3>3. "user" \notin timedOut
      BY <2>3 DEF NoErrorSoFar
    <3>4. QED
      BY <3>1, <3>2, <3>3, <2>1, <2>3 DEF TypeOK, NoErrorSoFar
  <2>4. QED
    BY <2>2, <2>3
<1>4. LeaksOnlyAfterFailedCleanUp'
  BY DEF TypeOK, Holds, LeaksOnlyAfterFailedCleanUp
<1>5. AcceptedRunIsComplete'
  BY DEF TypeOK, Holds, NoErrorSoFar,
         AcceptedRunIsComplete
<1>6. ReaderOutlivesOnlyTimeout'
  BY DEF TypeOK, ReaderOutlivesOnlyTimeout
<1>7. QED
  BY <1>1, <1>2, <1>3, <1>4, <1>5, <1>6

\* The timer is the one way to leave the goroutine behind.
LEMMA ExecTimeoutStep ==
    ASSUME IInv, NEW e \in Execs, ExecTimeout(e)
    PROVE  IInv'
<1> USE DEF IInv, ExecTimeout
<1>1. TypeOK'
  <2>1. pc' \in Stages \cup Ends /\ status' \in ResultStatus
    BY DEF TypeOK
  <2>2. timedOut' \in SUBSET Execs
    BY DEF TypeOK
  <2>3. execErr' \in BOOLEAN
    BY DEF TypeOK
  <2>4. QED
    BY <2>1, <2>2, <2>3 DEF TypeOK
<1>2. Holds'
  BY DEF TypeOK, Holds, AcceptedRunIsComplete
<1>3. NoErrorSoFar'
  BY DEF TypeOK, NoErrorSoFar
<1>4. LeaksOnlyAfterFailedCleanUp'
  BY DEF TypeOK, Holds, LeaksOnlyAfterFailedCleanUp
<1>5. AcceptedRunIsComplete'
  BY DEF TypeOK, Holds, NoErrorSoFar,
         AcceptedRunIsComplete
<1>6. ReaderOutlivesOnlyTimeout'
  BY DEF TypeOK, ReaderOutlivesOnlyTimeout
<1>7. QED
  BY <1>1, <1>2, <1>3, <1>4, <1>5, <1>6

\* A goroutine that comes to the end is still waited for, or was given up.
LEMMA ReaderEndsStep ==
    ASSUME IInv, NEW e \in Execs, ReaderEnds(e)
    PROVE  IInv'
BY DEF IInv, ReaderEnds, TypeOK, Holds, NoErrorSoFar, LeaksOnlyAfterFailedCleanUp,
       AcceptedRunIsComplete, ReaderOutlivesOnlyTimeout

\* The copy is taken when the program has ended, or there is an error.
LEMMA CopyResultStep ==
    ASSUME IInv, CopyResult
    PROVE  IInv'
<1> USE DEF IInv, CopyResult
<1>1. TypeOK'
  <2>1. pc' \in Stages \cup Ends /\ status' \in ResultStatus
    BY DEF TypeOK
  <2>2. file' \in [inside : ResultStatus \cup {NoFile},
                copy : ResultStatus \cup {NoFile, "truncated"}]
    BY DEF TypeOK
  <2>3. copyErr' \in BOOLEAN
    BY DEF TypeOK
  <2>4. QED
    BY <2>1, <2>2, <2>3 DEF TypeOK
<1>2. Holds'
  BY DEF TypeOK, Holds, AcceptedRunIsComplete
<1>3. NoErrorSoFar'
  BY DEF TypeOK, NoErrorSoFar
<1>4. LeaksOnlyAfterFailedCleanUp'
  BY DEF TypeOK, Holds, LeaksOnlyAfterFailedCleanUp
<1>5. AcceptedRunIsComplete'
  BY DEF TypeOK, Holds, NoErrorSoFar,
         AcceptedRunIsComplete
<1>6. ReaderOutlivesOnlyTimeout'
  BY DEF TypeOK, ReaderOutlivesOnlyTimeout
<1>7. QED
  BY <1>1, <1>2, <1>3, <1>4, <1>5, <1>6

\* The log of a program without error is saved as it is.
LEMMA SaveContainerLogStep ==
    ASSUME IInv, SaveContainerLog
    PROVE  IInv'
BY DEF IInv, SaveContainerLog, TypeOK, Holds, NoErrorSoFar, LeaksOnlyAfterFailedCleanUp,
       AcceptedRunIsComplete, ReaderOutlivesOnlyTimeout

\* The log that was saved is the log that is uploaded.
LEMMA UploadStep ==
    ASSUME IInv, Upload
    PROVE  IInv'
BY DEF IInv, Upload, TypeOK, Holds, NoErrorSoFar, LeaksOnlyAfterFailedCleanUp,
       AcceptedRunIsComplete, ReaderOutlivesOnlyTimeout

\* The status is the one of the copy.
LEMMA SetResultToOutputJobStep ==
    ASSUME IInv, SetResultToOutputJob
    PROVE  IInv'
BY DEF IInv, SetResultToOutputJob, TypeOK, Holds, NoErrorSoFar,
   LeaksOnlyAfterFailedCleanUp,
       AcceptedRunIsComplete, ReaderOutlivesOnlyTimeout

\* Stopping kills nothing that has ended.
LEMMA StopContainerStep ==
    ASSUME IInv, StopContainer
    PROVE  IInv'
<1> USE DEF IInv, StopContainer
<1>1. TypeOK'
  <2>1. pc' \in Stages \cup Ends /\ status' \in ResultStatus
    BY DEF TypeOK
  <2>2. proc' \in [Execs -> {"none", "running", "waiting", "ok", "error", "killed"}]
    BY DEF TypeOK
  <2>3. con' \in {"none", "created", "running", "exited"}
    BY DEF TypeOK
  <2>4. failed' \in SUBSET CleanUps
    BY DEF TypeOK
  <2>5. QED
    BY <2>1, <2>2, <2>3, <2>4 DEF TypeOK
<1>2. Holds'
  BY DEF TypeOK, Holds, AcceptedRunIsComplete
<1>3. NoErrorSoFar'
  BY DEF TypeOK, NoErrorSoFar
<1>4. LeaksOnlyAfterFailedCleanUp'
  BY DEF TypeOK, Holds, LeaksOnlyAfterFailedCleanUp
<1>5. AcceptedRunIsComplete'
  BY DEF TypeOK, Holds, NoErrorSoFar,
         AcceptedRunIsComplete
<1>6. ReaderOutlivesOnlyTimeout'
  BY DEF TypeOK, ReaderOutlivesOnlyTimeout
<1>7. QED
  BY <1>1, <1>2, <1>3, <1>4, <1>5, <1>6

\* A container that was stopped is removed.
LEMMA RemoveContainerStep ==
    ASSUME IInv, RemoveContainer
    PROVE  IInv'
<1> USE DEF IInv, RemoveContainer
<1>1. TypeOK'
  <2>1. pc' \in Stages \cup Ends /\ status' \in ResultStatus
    BY DEF TypeOK
  <2>2. con' \in {"none", "created", "running", "exited"}
    BY DEF TypeOK
  <2>3. failed' \in SUBSET CleanUps
    BY DEF TypeOK
  <2>4. QED
    BY <2>1, <2>2, <2>3 DEF TypeOK
<1>2. Holds'
  BY DEF TypeOK, Holds, AcceptedRunIsComplete
<1>3. NoErrorSoFar'
  BY DEF TypeOK, NoErrorSoFar
<1>4. LeaksOnlyAfterFailedCleanUp'
  BY DEF TypeOK, Holds, LeaksOnlyAfterFailedCleanUp
<1>5. AcceptedRunIsComplete'
  BY DEF TypeOK, Holds, NoErrorSoFar,
         AcceptedRunIsComplete
<1>6. ReaderOutlivesOnlyTimeout'
  BY DEF TypeOK, ReaderOutlivesOnlyTimeout
<1>7. QED
  BY <1>1, <1>2, <1>3, <1>4, <1>5, <1>6

\* The volume of a container that was removed is removed.
LEMMA DelVolumeStep ==
    ASSUME IInv, DelVolume
    PROVE  IInv'
<1> USE DEF IInv, DelVolume
<1>1. TypeOK'
  <2>1. pc' \in Stages \cup Ends /\ status' \in ResultStatus
    BY DEF TypeOK
  <2>2. vol' \in [made : BOOLEAN, known : BOOLEAN]
    BY VolumeType, Zenon DEF TypeOK
  <2>3. con' \in {"none", "created", "running", "exited"}
    BY DEF TypeOK
  <2>4. failed' \in SUBSET CleanUps
    BY DEF TypeOK
  <2>5. QED
    BY <2>1, <2>2, <2>3, <2>4 DEF TypeOK
<1>2. Holds'
  BY NoVolume DEF TypeOK, Holds
<1>3. NoErrorSoFar'
  BY DEF TypeOK, NoErrorSoFar
<1>4. LeaksOnlyAfterFailedCleanUp'
  BY DEF TypeOK, Holds, LeaksOnlyAfterFailedCleanUp
<1>5. AcceptedRunIsComplete'
  BY DEF TypeOK, Holds, NoErrorSoFar,
         AcceptedRunIsComplete
<1>6. ReaderOutlivesOnlyTimeout'
  BY DEF TypeOK, ReaderOutlivesOnlyTimeout
<1>7. QED
  BY <1>1, <1>2, <1>3, <1>4, <1>5, <1>6

\* Nothing is left when the run is accepted.
LEMMA DelDirectoryStep ==
    ASSUME IInv, DelDirectory
    PROVE  IInv'
<1> USE DEF IInv, DelDirectory
<1>1. TypeOK'
  <2>1. pc' \in Stages \cup Ends /\ status' \in ResultStatus
    BY DEF TypeOK
  <2>2. vol' \in [made : BOOLEAN, known : BOOLEAN]
    BY VolumeType, Zenon DEF TypeOK
  <2>3. con' \in {"none", "created", "running", "exited"}
    BY DEF TypeOK
  <2>4. dir' \in SUBSET {"in", "out"}
    BY DEF TypeOK
  <2>5. failed' \in SUBSET CleanUps
    BY DEF TypeOK
  <2>6. QED
    BY <2>1, <2>2, <2>3, <2>4, <2>5 DEF TypeOK
<1>2. Holds'
  BY DEF TypeOK, Holds, AcceptedRunIsComplete
<1>3. NoErrorSoFar'
  BY DEF TypeOK, NoErrorSoFar
<1>4. LeaksOnlyAfterFailedCleanUp'
  BY DEF TypeOK, Holds, LeaksOnlyAfterFailedCleanUp
<1>5. AcceptedRunIsComplete'
  <2>1. SUFFICES ASSUME status' # "failed"
                 PROVE  AcceptedRunIsComplete'
    BY DEF AcceptedRunIsComplete
  <2>2. ~execErr /\ ~copyErr /\ pc = "delDir" /\ status' = status /\ dir' = {}
    BY <2>1
  <2>3. proc["user"] = "ok" /\ timedOut = {} /\ \A e \in Execs : reader[e] = "gone"
    BY <2>2 DEF TypeOK, NoErrorSoFar
  <2>4. status = file.inside /\ log.uploaded = log.inside
    BY <2>2 DEF NoErrorSoFar
  <2>5. con = "none" /\ ~vol.made /\ failed = {} /\ UNCHANGED <<con, vol, failed>>
    BY <2>1, <2>2 DEF Holds
  <2>6. QED
    BY <2>2, <2>3, <2>4, <2>5 DEF AcceptedRunIsComplete
<1>6. ReaderOutlivesOnlyTimeout'
  BY DEF TypeOK, ReaderOutlivesOnlyTimeout
<1>7. QED
  BY <1>1, <1>2, <1>3, <1>4, <1>5, <1>6

\* What is left after an error was named by a call that failed.
LEMMA ErrAfterContainerMakeStep ==
    ASSUME IInv, ErrAfterContainerMake
    PROVE  IInv'
<1> USE DEF IInv, ErrAfterContainerMake
<1>1. TypeOK'
  BY DEF TypeOK
<1>2. Holds'
  BY DEF TypeOK, Holds, AcceptedRunIsComplete
<1>3. NoErrorSoFar'
  BY DEF TypeOK, NoErrorSoFar
<1>4. LeaksOnlyAfterFailedCleanUp'
  <2>1. PICK bad \in SUBSET CleanUps :
          /\ failed' = failed \cup bad
          /\ con' = IF "remove" \notin bad THEN "none"
                    ELSE IF con = "running" /\ "stop" \notin bad THEN "exited" ELSE con
          /\ vol' = IF vol.known /\ con' = "none" /\ "volume" \notin bad
                    THEN [made |-> FALSE, known |-> FALSE] ELSE vol
          /\ dir' = IF "dir" \in bad THEN dir ELSE {}
    OBVIOUS
  <2>2. con' # "none" => "remove" \in failed'
    BY <2>1
  <2>3. vol'.made => ~vol'.known \/ {"remove", "volume"} \cap failed' # {}
    <3>1. CASE vol.known /\ con' = "none" /\ "volume" \notin bad
      BY <3>1, <2>1, NoVolume
    <3>2. CASE ~(vol.known /\ con' = "none" /\ "volume" \notin bad)
      <4>1. vol' = vol
        BY <3>2, <2>1, Zenon
      <4>2. ~vol.known \/ con' # "none" \/ "volume" \in failed'
        BY <3>2, <2>1
      <4>3. QED
        BY <4>1, <4>2, <2>2
    <3>3. QED
      BY <3>1, <3>2
  <2>4. dir' # {} => failed' # {}
    BY <2>1
  <2>5. QED
    BY <2>2, <2>3, <2>4 DEF LeaksOnlyAfterFailedCleanUp
<1>5. AcceptedRunIsComplete'
  BY DEF TypeOK, Holds, NoErrorSoFar,
         AcceptedRunIsComplete
<1>6. ReaderOutlivesOnlyTimeout'
  BY DEF TypeOK, ReaderOutlivesOnlyTimeout
<1>7. QED
  BY <1>1, <1>2, <1>3, <1>4, <1>5, <1>6

\* A process that ends had not ended before.
LEMMA ProcessEndsStep ==
    ASSUME IInv, NEW e \in Execs, ProcessEnds(e)
    PROVE  IInv'
BY DEF IInv, ProcessEnds, TypeOK, Holds, NoErrorSoFar, LeaksOnlyAfterFailedCleanUp,
       AcceptedRunIsComplete, ReaderOutlivesOnlyTimeout

\* A program that writes has not ended.
LEMMA ProgramWritesStep ==
    ASSUME IInv, ProgramWrites
    PROVE  IInv'
<1> USE DEF IInv, ProgramWrites
<1>1. TypeOK'
  <2>1. file' \in [inside : ResultStatus \cup {NoFile},
                copy : ResultStatus \cup {NoFile, "truncated"}]
    BY UserWritesAssumption DEF TypeOK
  <2>2. log' \in [inside : {"empty", "text"}, copy : {"empty", "text", NoFile},
               uploaded : {"empty", "text", NoFile}]
    BY DEF TypeOK
  <2>3. QED
    BY <2>1, <2>2 DEF TypeOK
<1>2. Holds'
  BY DEF TypeOK, Holds, AcceptedRunIsComplete
<1>3. NoErrorSoFar'
  BY DEF TypeOK, NoErrorSoFar
<1>4. LeaksOnlyAfterFailedCleanUp'
  BY DEF TypeOK, Holds, LeaksOnlyAfterFailedCleanUp
<1>5. AcceptedRunIsComplete'
  BY DEF TypeOK, Holds, NoErrorSoFar,
         AcceptedRunIsComplete
<1>6. ReaderOutlivesOnlyTimeout'
  BY DEF TypeOK, ReaderOutlivesOnlyTimeout
<1>7. QED
  BY <1>1, <1>2, <1>3, <1>4, <1>5, <1>6

\* A program that asks the router has not ended.
LEMMA ProgramRequestsStep ==
    ASSUME IInv, ProgramRequests
    PROVE  IInv'
<1> USE DEF IInv, ProgramRequests
<1>1. TypeOK'
  <2>1. proc' \in [Execs -> {"none", "running", "waiting", "ok", "error", "killed"}]
    BY DEF TypeOK
  <2>2. requests' \in 0 .. MaxRequests
    BY BoundsAssumption DEF TypeOK
  <2>3. QED
    BY <2>1, <2>2 DEF TypeOK
<1>2. Holds'
  BY DEF TypeOK, Holds, AcceptedRunIsComplete
<1>3. NoErrorSoFar'
  BY DEF TypeOK, NoErrorSoFar
<1>4. LeaksOnlyAfterFailedCleanUp'
  BY DEF TypeOK, Holds, LeaksOnlyAfterFailedCleanUp
<1>5. AcceptedRunIsComplete'
  BY DEF TypeOK, Holds, NoErrorSoFar,
         AcceptedRunIsComplete
<1>6. ReaderOutlivesOnlyTimeout'
  BY DEF TypeOK, ReaderOutlivesOnlyTimeout
<1>7. QED
  BY <1>1, <1>2, <1>3, <1>4, <1>5, <1>6

\* The router touches nothing of the run.
LEMMA RouterWorksStep ==
    ASSUME IInv, RouterValidates \/ RouterTranspiles \/ RouterSends
    PROVE  IInv'
<1>1. /\ router' \in {"transpile", "send", "succeeded", "failed"}
      /\ UNCHANGED <<proc, file, log, requests>> /\ OnlyProc
  BY DEF RouterValidates, RouterTranspiles, RouterSends, RouterStep
<1>2. QED
  BY <1>1 DEF IInv, TypeOK, Holds, NoErrorSoFar, LeaksOnlyAfterFailedCleanUp,
              AcceptedRunIsComplete, ReaderOutlivesOnlyTimeout

\* An answer reaches only a program that waits for it.
LEMMA RouterAnswersStep ==
    ASSUME IInv, RouterAnswers
    PROVE  IInv'
BY DEF IInv, RouterAnswers, TypeOK, Holds, NoErrorSoFar, LeaksOnlyAfterFailedCleanUp,
       AcceptedRunIsComplete, ReaderOutlivesOnlyTimeout

\* Only a run that was accepted is followed by another.
LEMMA AgainStep ==
    ASSUME IInv, Again
    PROVE  IInv'
<1> USE DEF IInv, Again
<1>1. TypeOK'
  <2>1. pc' \in Stages \cup Ends /\ status' \in ResultStatus
    BY DEF TypeOK
  <2>2. proc' \in [Execs -> {"none", "running", "waiting", "ok", "error", "killed"}]
    BY DEF TypeOK
  <2>3. reader' \in [Execs -> {"none", "reading", "sending", "sendingError", "gone"}]
    BY DEF TypeOK
  <2>4. file' \in [inside : ResultStatus \cup {NoFile},
                copy : ResultStatus \cup {NoFile, "truncated"}]
    BY DEF TypeOK
  <2>5. log' \in [inside : {"empty", "text"}, copy : {"empty", "text", NoFile},
               uploaded : {"empty", "text", NoFile}]
    BY DEF TypeOK
  <2>6. rounds' \in 0 .. MaxRounds
    BY BoundsAssumption DEF TypeOK
  <2>7. QED
    BY <2>1, <2>2, <2>3, <2>4, <2>5, <2>6 DEF TypeOK
<1>2. Holds'
  BY DEF TypeOK, Holds, AcceptedRunIsComplete
<1>3. NoErrorSoFar'
  BY DEF TypeOK, NoErrorSoFar
<1>4. LeaksOnlyAfterFailedCleanUp'
  BY DEF TypeOK, Holds, LeaksOnlyAfterFailedCleanUp
<1>5. AcceptedRunIsComplete'
  BY DEF TypeOK, Holds, NoErrorSoFar,
         AcceptedRunIsComplete
<1>6. ReaderOutlivesOnlyTimeout'
  BY DEF TypeOK, ReaderOutlivesOnlyTimeout
<1>7. QED
  BY <1>1, <1>2, <1>3, <1>4, <1>5, <1>6

-----------------------------------------------------------------------------
(* The theorems.                                                           *)

LEMMA InitHolds == Init => IInv
<1> SUFFICES ASSUME Init PROVE IInv
  OBVIOUS
<1> USE DEF Init, NewRun
<1>1. vol \in [made : BOOLEAN, known : BOOLEAN] /\ ~vol.made
  BY VolumeType, NoVolume, Zenon
<1>2. TypeOK
  <2>1. proc \in [Execs -> {"none", "running", "waiting", "ok", "error", "killed"}]
    OBVIOUS
  <2>2. reader \in [Execs -> {"none", "reading", "sending", "sendingError", "gone"}]
    OBVIOUS
  <2>3. execErr \in BOOLEAN /\ copyErr \in BOOLEAN
    OBVIOUS
  <2>4. QED
    BY <1>1, <2>1, <2>2, <2>3, BoundsAssumption DEF TypeOK
<1>3. Holds /\ NoErrorSoFar /\ LeaksOnlyAfterFailedCleanUp
  BY <1>1 DEF Holds, NoErrorSoFar, LeaksOnlyAfterFailedCleanUp
<1>4. AcceptedRunIsComplete /\ ReaderOutlivesOnlyTimeout
  BY DEF AcceptedRunIsComplete, ReaderOutlivesOnlyTimeout
<1>5. QED
  BY <1>2, <1>3, <1>4 DEF IInv

\* Every step keeps the invariant.
LEMMA NextHolds == IInv /\ [Next]_vars => IInv'
<1> SUFFICES ASSUME IInv, [Next]_vars PROVE IInv'
  OBVIOUS
<1>1. CASE RunSSE
  BY <1>1, ConvertJsonStep, CreateVolumeStep, ContainerCreateStep,
     ContainerStartStep, CopyUserProgramStep, ExecStartStep, ExecEndsStep,
     CopyResultStep, SaveContainerLogStep, UploadStep, SetResultToOutputJobStep,
     StopContainerStep, RemoveContainerStep, DelVolumeStep, DelDirectoryStep,
     ErrAfterContainerMakeStep DEF RunSSE
<1>2. CASE PreProcess \/ Dequeue \/ Timer \/ Again
  BY <1>2, PreProcessStep, DequeueStep, ExecTimeoutStep, AgainStep DEF Timer
<1>3. CASE \E e \in Execs : ReaderEnds(e) \/ ProcessEnds(e)
  BY <1>3, ReaderEndsStep, ProcessEndsStep
<1>4. CASE ProgramWrites \/ ProgramRequests \/ Router
  BY <1>4, ProgramWritesStep, ProgramRequestsStep, RouterWorksStep,
     RouterAnswersStep DEF Router
<1>5. CASE UNCHANGED vars
  BY <1>5 DEF vars, IInv, TypeOK, Holds, NoErrorSoFar, LeaksOnlyAfterFailedCleanUp,
              AcceptedRunIsComplete, ReaderOutlivesOnlyTimeout
<1>6. QED
  BY <1>1, <1>2, <1>3, <1>4, <1>5 DEF Next

\* The invariant holds in every state of every behaviour.
LEMMA Invariant == Spec => []IInv
BY InitHolds, NextHolds, PTL DEF Spec

\* The status of an SSE job is always one core.ToStatus knows, and every
\* variable keeps its type.
THEOREM SSETyped == Spec => []TypeOK
<1>1. IInv => TypeOK
  BY DEF IInv
<1>2. QED
  BY <1>1, Invariant, PTL

\* errAfterContainerMake, removeContainer and delDirectory leave a container, a
\* volume or a directory behind only when a clean-up call failed, or in the few
\* other cases the property names.
THEOREM NoSilentLeak == Spec => []LeaksOnlyAfterFailedCleanUp
<1>1. IInv => LeaksOnlyAfterFailedCleanUp
  BY DEF IInv
<1>2. QED
  BY <1>1, Invariant, PTL

\* A run RunSSE accepts is complete: the program ended well, its last status and
\* all of its log were taken, and nothing of the run is left.
THEOREM AcceptedComplete == Spec => []AcceptedRunIsComplete
<1>1. IInv => AcceptedRunIsComplete
  BY DEF IInv
<1>2. QED
  BY <1>1, Invariant, PTL

\* Only the timer leaves a goroutine of execCommandInContainer behind.
THEOREM ReaderLeaks == Spec => []ReaderOutlivesOnlyTimeout
<1>1. IInv => ReaderOutlivesOnlyTimeout
  BY DEF IInv
<1>2. QED
  BY <1>1, Invariant, PTL
=============================================================================
