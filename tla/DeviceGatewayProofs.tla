------------------------- MODULE DeviceGatewayProofs -------------------------
(***************************************************************************)
(* Proofs about DeviceGateway, for any set of callers, any device and any  *)
(* number of changes and faults.                                           *)
(***************************************************************************)
EXTENDS DeviceGateway, TLAPS

\* The updates a round of callDeviceAPIOnChange has behind it at l.
Passed(l) == IF l = "status" THEN {}
             ELSE IF l = "info" THEN {"status"}
             ELSE IF l = "device" THEN {"status", "info"} ELSE Parts

\* Within a round of updates: what was done is what the cloud shows, the rest
\* is as the agent remembers it, and what was left out has not changed.
Round ==
    /\ poll.at = "callStatus" => poll.ok = {} /\ poll.failed = {}
    /\ poll.at \in Parts \cup {"callStatus", "remember"} => poll.new \in DeviceInfos
    /\ poll.at \in Parts \cup {"remember"} =>
          /\ poll.ok \cup poll.failed \subseteq Passed(poll.at)
          /\ \A p \in Parts \ lost :
                /\ p \in poll.ok => cloud[p] = Told(poll.new)[p]
                /\ p \notin poll.ok /\ last # NoInfo => cloud[p] = Told(last)[p]
          /\ \A p \in Passed(poll.at) \ (poll.ok \cup poll.failed) :
                last # NoInfo /\ Told(last)[p] = Told(poll.new)[p]

\* Towards the end of a round of the loop: the connection that answered is
\* open until SIGTERM, and a poll that failed has left no device to be seen.
LoopEnd ==
    /\ ticking /\ poll.at \in Parts \cup {"remember", "setCurrent", "setConnected"}
          => conn.open
    /\ poll.at = "setDisconnected" => ~current.known

IInv ==
    /\ TypeOK
    /\ Round
    /\ CloudShowsLast
    /\ LoopEnd
    /\ ConnectedIsUsable
    /\ NoCallOnAbandonedConnection

-----------------------------------------------------------------------------
(* One lemma for each action: it keeps the invariant.                      *)

USE DEF Parts, Passed, PollPCs, PollAt, After

\* What is known of the device and of what the cloud is told.
LEMMA DeviceInfoType ==
    ASSUME NEW d \in Devices, NEW s \in Services
    PROVE  DeviceInfo(d, s) \in DeviceInfos
<1> DEFINE e == [d EXCEPT !.service = s]
<1>1. e \in Devices
  BY DEF Devices
<1>2. DeviceInfo(d, s) = DeviceInfo(e, e.service)
  BY DEF Devices, DeviceInfo
<1> HIDE DEF e
<1>3. QED
  BY <1>1, <1>2 DEF DeviceInfos

LEMMA ReplaceStatus ==
    ASSUME NEW k, NEW old, NEW new, NEW a, NEW b, NEW c, NEW d
    PROVE  [[known |-> k, status |-> old, spec |-> a, calibratedAt |-> b, shots |-> c,
             qubits |-> d] EXCEPT !.status = new]
           = [known |-> k, status |-> new, spec |-> a, calibratedAt |-> b, shots |-> c,
              qubits |-> d]
OBVIOUS

LEMMA StatusType ==
    ASSUME NEW i \in DeviceInfos, NEW s \in Services
    PROVE  [i EXCEPT !.status = mapServiceStatusToDeviceStatus(s)] \in DeviceInfos
<1>1. PICK d \in Devices : i = DeviceInfo(d, d.service)
  BY DEF DeviceInfos
<1> DEFINE old == mapServiceStatusToDeviceStatus(d.service)
           new == mapServiceStatusToDeviceStatus(s)
           yes == TRUE
<1>2. /\ i = [known |-> yes, status |-> old, spec |-> d.spec,
              calibratedAt |-> d.calibratedAt, shots |-> d.shots, qubits |-> d.qubits]
      /\ DeviceInfo(d, s) = [known |-> yes, status |-> new, spec |-> d.spec,
              calibratedAt |-> d.calibratedAt, shots |-> d.shots, qubits |-> d.qubits]
  BY <1>1 DEF DeviceInfo
<1> HIDE DEF old, new, yes
<1>3. [i EXCEPT !.status = new] = DeviceInfo(d, s)
  BY <1>2, ReplaceStatus
<1>4. QED
  BY <1>3, DeviceInfoType DEF new

LEMMA ToldType ==
    ASSUME NEW i \in DeviceInfos
    PROVE  /\ Told(i).status \in {"available", "unavailable"}
           /\ Told(i).info \in Specs \X Times
           /\ Told(i).device \in {<<q>> : q \in Qubits}
<1>1. PICK d \in Devices : i = DeviceInfo(d, d.service)
  BY DEF DeviceInfos
<1>2. i.spec \in Specs /\ i.calibratedAt \in Times /\ i.qubits \in Qubits
  BY <1>1 DEF DeviceInfo, Devices
<1>3. QED
  BY <1>2 DEF Told, toDeviceDeviceStatusUpdateStatus

\* An update that is left out would have told the cloud nothing new.
LEMMA NothingNew ==
    ASSUME NEW p \in Parts, NEW old, NEW new, ~HasChanged(p, old, new)
    PROVE  old # NoInfo /\ Told(old)[p] = Told(new)[p]
BY DEF HasChanged, Told

\* The connection that Reset makes.
LEMMA NewConn == \A n \in Nat : [id |-> n + 1, open |-> TRUE] \in [id : Nat, open : BOOLEAN]
<1>1. \A n \in Nat : [id |-> n, open |-> TRUE] \in [id : Nat, open : BOOLEAN]
  BY Zenon
<1>2. \A n \in Nat : n + 1 \in Nat
  OBVIOUS
<1>3. QED
  BY <1>1, <1>2, Zenon

LEMMA NotSeen == ~UnavailableInfo.known
BY Zenon DEF UnavailableInfo

\* A part of the cloud is overwritten, the others stay.
Clouds == [status : {"available", "unavailable"},
           info   : (Specs \X Times) \cup {<< >>},
           device : {<<q>> : q \in Qubits} \cup {<< >>}]

LEMMA CloudUpdate ==
    ASSUME NEW c \in Clouds, NEW p \in Parts, NEW i \in DeviceInfos
    PROVE  /\ [c EXCEPT ![p] = Told(i)[p]] \in Clouds
           /\ [c EXCEPT ![p] = Told(i)[p]][p] = Told(i)[p]
           /\ \A q \in Parts \ {p} : [c EXCEPT ![p] = Told(i)[p]][q] = c[q]
<1> DEFINE told == Told(i)
<1>1. /\ told.status \in {"available", "unavailable"}
      /\ told.info \in (Specs \X Times) \cup {<< >>}
      /\ told.device \in {<<q>> : q \in Qubits} \cup {<< >>}
  BY ToldType
<1> HIDE DEF told
<1>2. CASE p = "status"
  BY <1>1, <1>2 DEF Clouds, told
<1>3. CASE p = "info"
  BY <1>1, <1>3 DEF Clouds, told
<1>4. CASE p = "device"
  BY <1>1, <1>4 DEF Clouds, told
<1>5. QED
  BY <1>2, <1>3, <1>4

\* The device changes what neither the agent nor the cloud holds.
LEMMA DeviceChangesStep ==
    ASSUME IInv, DeviceChanges
    PROVE  IInv'
<1> USE DEF IInv, DeviceChanges
<1>1. TypeOK'
  <2>1. device' \in Devices
    BY DEF TypeOK, Devices
  <2>2. changes' \in 0 .. MaxChanges
    BY BoundsAssumption DEF TypeOK
  <2>3. QED
    BY <2>1, <2>2 DEF TypeOK
<1>2. Round'
  BY DEF TypeOK, Round, CloudShowsLast, Told
<1>3. CloudShowsLast'
  BY DEF TypeOK, Round, CloudShowsLast, Told
<1>4. LoopEnd'
  BY DEF TypeOK, LoopEnd
<1>5. ConnectedIsUsable'
  BY DEF TypeOK, LoopEnd, ConnectedIsUsable
<1>6. NoCallOnAbandonedConnection'
  BY DEF TypeOK, NoCallOnAbandonedConnection
<1>7. QED
  BY <1>1, <1>2, <1>3, <1>4, <1>5, <1>6

\* Setup leaves a device that is not to be seen.
LEMMA FinishSetupStep ==
    ASSUME IInv, FinishSetup
    PROVE  IInv'
<1> USE DEF IInv, FinishSetup
<1>1. TypeOK'
  BY DEF TypeOK
<1>2. Round'
  BY DEF TypeOK, Round, CloudShowsLast, Told
<1>3. CloudShowsLast'
  BY DEF TypeOK, Round, CloudShowsLast, Told
<1>4. LoopEnd'
  BY NotSeen DEF TypeOK, LoopEnd
<1>5. ConnectedIsUsable'
  BY NotSeen DEF TypeOK, ConnectedIsUsable
<1>6. NoCallOnAbandonedConnection'
  BY DEF TypeOK, NoCallOnAbandonedConnection
<1>7. QED
  BY <1>1, <1>2, <1>3, <1>4, <1>5, <1>6

\* Reset fails the jobs on the connection, and forgets the device or keeps it.
LEMMA CallFailsStep ==
    ASSUME IInv, NEW l \in {"callInfo", "callStatus"}, CallFails(l)
    PROVE  IInv'
<1> USE DEF IInv, CallFails, Reset, Faults, Failed
<1>1. TypeOK'
  <2>1. conn' \in [id : Nat, open : BOOLEAN]
    BY NewConn DEF TypeOK
  <2>2. caller' \in [Callers -> [at : {"idle", "checked", "calling"}, conn : Nat]]
    BY DEF TypeOK
  <2>3. faults' \in 0 .. MaxFaults
    BY BoundsAssumption DEF TypeOK
  <2>4. poll' \in [at : PollPCs, new : DeviceInfos \cup {NoInfo},
                  ok : SUBSET Parts, failed : SUBSET Parts]
    BY DEF TypeOK
  <2>5. last' \in DeviceInfos \cup {NoInfo} /\ lost' \subseteq Parts
    BY DEF TypeOK
  <2>6. QED
    BY <2>1, <2>2, <2>3, <2>4, <2>5 DEF TypeOK
<1>2. Round'
  BY DEF TypeOK, Round, CloudShowsLast, Told
<1>3. CloudShowsLast'
  BY DEF TypeOK, Round, CloudShowsLast, Told
<1>4. LoopEnd'
  BY DEF TypeOK, LoopEnd
<1>5. ConnectedIsUsable'
  BY DEF TypeOK, LoopEnd, ConnectedIsUsable
<1>6. NoCallOnAbandonedConnection'
  BY DEF TypeOK, NoCallOnAbandonedConnection
<1>7. QED
  BY <1>1, <1>2, <1>3, <1>4, <1>5, <1>6

\* A round starts with no update behind it.
LEMMA GetDeviceInfoStep ==
    ASSUME IInv, GetDeviceInfo
    PROVE  IInv'
<1> USE DEF IInv, GetDeviceInfo
<1>1. TypeOK'
  <2>1. DeviceInfo(device, "unknown") \in DeviceInfos
    BY DeviceInfoType DEF TypeOK, Services
  <2>2. poll' \in [at : PollPCs, new : DeviceInfos \cup {NoInfo},
                  ok : SUBSET Parts, failed : SUBSET Parts]
    BY <2>1 DEF TypeOK
  <2>3. QED
    BY <2>1, <2>2 DEF TypeOK
<1>2. Round'
  <2>1. DeviceInfo(device, "unknown") \in DeviceInfos
    BY DeviceInfoType DEF TypeOK, Services
  <2>2. QED
    BY <2>1 DEF Round
<1>3. CloudShowsLast'
  BY DEF TypeOK, Round, CloudShowsLast, Told
<1>4. LoopEnd'
  BY DEF TypeOK, LoopEnd
<1>5. ConnectedIsUsable'
  BY DEF TypeOK, LoopEnd, ConnectedIsUsable
<1>6. NoCallOnAbandonedConnection'
  BY DEF TypeOK, NoCallOnAbandonedConnection
<1>7. QED
  BY <1>1, <1>2, <1>3, <1>4, <1>5, <1>6

\* The gateway has answered, so the connection is open.
LEMMA GetServiceStatusStep ==
    ASSUME IInv, GetServiceStatus
    PROVE  IInv'
<1> USE DEF IInv, GetServiceStatus
<1>1. TypeOK'
  <2>1. [poll.new EXCEPT !.status = mapServiceStatusToDeviceStatus(device.service)]
          \in DeviceInfos
    BY StatusType DEF TypeOK, Round, Devices
  <2>2. poll' \in [at : PollPCs, new : DeviceInfos \cup {NoInfo},
                  ok : SUBSET Parts, failed : SUBSET Parts]
    BY <2>1 DEF TypeOK
  <2>3. QED
    BY <2>1, <2>2 DEF TypeOK
<1>2. Round'
  <2>1. [poll.new EXCEPT !.status = mapServiceStatusToDeviceStatus(device.service)]
          \in DeviceInfos
    BY StatusType DEF TypeOK, Round, Devices
  <2>2. poll'.at = "status" /\ poll'.ok = {} /\ poll'.failed = {}
    BY DEF TypeOK, Round
  <2>3. poll'.new \in DeviceInfos
    BY <2>1 DEF TypeOK
  <2>4. \A p \in Parts \ lost : last # NoInfo => cloud[p] = Told(last)[p]
    BY DEF CloudShowsLast
  <2>5. QED
    BY <2>2, <2>3, <2>4 DEF Round
<1>3. CloudShowsLast'
  BY DEF TypeOK, Round, CloudShowsLast, Told
<1>4. LoopEnd'
  BY DEF TypeOK, LoopEnd
<1>5. ConnectedIsUsable'
  BY DEF TypeOK, LoopEnd, ConnectedIsUsable
<1>6. NoCallOnAbandonedConnection'
  BY DEF TypeOK, NoCallOnAbandonedConnection
<1>7. QED
  BY <1>1, <1>2, <1>3, <1>4, <1>5, <1>6

\* An update is left out because nothing has changed.
LEMMA UnneededStep ==
    ASSUME IInv, NEW p \in Parts, Unneeded(p)
    PROVE  IInv'
<1> USE DEF IInv, Unneeded
<1>1. TypeOK'
  BY DEF TypeOK
<1>2. Round'
  <2>1. /\ poll'.at = After(p) /\ poll'.new = poll.new
        /\ poll'.ok = poll.ok /\ poll'.failed = poll.failed
    BY DEF TypeOK
  <2>2. Passed(After(p)) = Passed(p) \cup {p} /\ After(p) \in Parts \cup {"remember"}
    OBVIOUS
  <2>4. \A q \in Parts \ lost' :
          /\ q \in poll'.ok => cloud'[q] = Told(poll'.new)[q]
          /\ q \notin poll'.ok /\ last' # NoInfo => cloud'[q] = Told(last')[q]
    BY <2>1 DEF Round
  <2>5. \A q \in Passed(poll'.at) \ (poll'.ok \cup poll'.failed) :
          last' # NoInfo /\ Told(last')[q] = Told(poll'.new)[q]
    BY <2>1, <2>2, NothingNew DEF Round
  <2>6. poll'.ok \cup poll'.failed \subseteq Passed(poll'.at)
    BY <2>1, <2>2 DEF Round
  <2>7. poll'.new \in DeviceInfos
    BY <2>1 DEF Round
  <2> HIDE DEF Passed, After
  <2>8. QED
    BY <2>1, <2>2, <2>4, <2>5, <2>6, <2>7 DEF Round
<1>3. CloudShowsLast'
  BY DEF TypeOK, Round, CloudShowsLast, Told
<1>4. LoopEnd'
  BY DEF TypeOK, LoopEnd
<1>5. ConnectedIsUsable'
  BY DEF TypeOK, LoopEnd, ConnectedIsUsable
<1>6. NoCallOnAbandonedConnection'
  BY DEF TypeOK, NoCallOnAbandonedConnection
<1>7. QED
  BY <1>1, <1>2, <1>3, <1>4, <1>5, <1>6

\* The cloud shows the new value.
LEMMA PatchedStep ==
    ASSUME IInv, NEW p \in Parts, Patched(p)
    PROVE  IInv'
<1> USE DEF IInv, Patched
<1>1. TypeOK'
  <2>1. cloud' \in Clouds
    BY CloudUpdate DEF TypeOK, Clouds, Round
  <2>2. poll' \in [at : PollPCs, new : DeviceInfos \cup {NoInfo},
                  ok : SUBSET Parts, failed : SUBSET Parts]
    BY DEF TypeOK
  <2>3. lost' \subseteq Parts
    BY DEF TypeOK
  <2>4. QED
    BY <2>1, <2>2, <2>3 DEF TypeOK, Clouds
<1>2. Round'
  <2>1. /\ poll'.at = After(p) /\ poll'.new = poll.new
        /\ poll'.ok = poll.ok \cup {p} /\ poll'.failed = poll.failed
    BY DEF TypeOK
  <2>2. Passed(After(p)) = Passed(p) \cup {p} /\ After(p) \in Parts \cup {"remember"}
    OBVIOUS
  <2>3. /\ [cloud EXCEPT ![p] = Told(poll.new)[p]][p] = Told(poll.new)[p]
        /\ \A q \in Parts \ {p} : [cloud EXCEPT ![p] = Told(poll.new)[p]][q] = cloud[q]
    BY CloudUpdate DEF TypeOK, Clouds, Round
  <2>4. \A q \in Parts \ lost' :
          /\ q \in poll'.ok => cloud'[q] = Told(poll'.new)[q]
          /\ q \notin poll'.ok /\ last' # NoInfo => cloud'[q] = Told(last')[q]
    BY <2>1, <2>3 DEF Round
  <2>5. \A q \in Passed(poll'.at) \ (poll'.ok \cup poll'.failed) :
          last' # NoInfo /\ Told(last')[q] = Told(poll'.new)[q]
    BY <2>1, <2>2 DEF Round
  <2>6. poll'.ok \cup poll'.failed \subseteq Passed(poll'.at)
    BY <2>1, <2>2 DEF Round
  <2>7. poll'.new \in DeviceInfos
    BY <2>1 DEF Round
  <2> HIDE DEF Passed, After
  <2>8. QED
    BY <2>1, <2>2, <2>4, <2>5, <2>6, <2>7 DEF Round
<1>3. CloudShowsLast'
  BY DEF TypeOK, Round, CloudShowsLast, Told
<1>4. LoopEnd'
  BY DEF TypeOK, LoopEnd
<1>5. ConnectedIsUsable'
  BY DEF TypeOK, LoopEnd, ConnectedIsUsable
<1>6. NoCallOnAbandonedConnection'
  BY DEF TypeOK, NoCallOnAbandonedConnection
<1>7. QED
  BY <1>1, <1>2, <1>3, <1>4, <1>5, <1>6

\* The agent has lost track of a part the cloud has refused.
LEMMA PatchRefusedStep ==
    ASSUME IInv, NEW p \in Parts, PatchRefused(p)
    PROVE  IInv'
<1> USE DEF IInv, PatchRefused, Faults
<1>1. TypeOK'
  <2>1. faults' \in 0 .. MaxFaults
    BY BoundsAssumption DEF TypeOK
  <2>2. poll' \in [at : PollPCs, new : DeviceInfos \cup {NoInfo},
                  ok : SUBSET Parts, failed : SUBSET Parts]
    BY DEF TypeOK
  <2>3. lost' \subseteq Parts
    BY DEF TypeOK
  <2>4. QED
    BY <2>1, <2>2, <2>3 DEF TypeOK, Clouds
<1>2. Round'
  <2>1. /\ poll'.at = After(p) /\ poll'.new = poll.new
        /\ poll'.ok = poll.ok \cup {p} /\ poll'.failed = poll.failed
    BY DEF TypeOK
  <2>2. Passed(After(p)) = Passed(p) \cup {p} /\ After(p) \in Parts \cup {"remember"}
    OBVIOUS
  <2>4. \A q \in Parts \ lost' :
          /\ q \in poll'.ok => cloud'[q] = Told(poll'.new)[q]
          /\ q \notin poll'.ok /\ last' # NoInfo => cloud'[q] = Told(last')[q]
    BY <2>1 DEF Round
  <2>5. \A q \in Passed(poll'.at) \ (poll'.ok \cup poll'.failed) :
          last' # NoInfo /\ Told(last')[q] = Told(poll'.new)[q]
    BY <2>1, <2>2 DEF Round
  <2>6. poll'.ok \cup poll'.failed \subseteq Passed(poll'.at)
    BY <2>1, <2>2 DEF Round
  <2>7. poll'.new \in DeviceInfos
    BY <2>1 DEF Round
  <2> HIDE DEF Passed, After
  <2>8. QED
    BY <2>1, <2>2, <2>4, <2>5, <2>6, <2>7 DEF Round
<1>3. CloudShowsLast'
  BY DEF TypeOK, Round, CloudShowsLast, Told
<1>4. LoopEnd'
  BY DEF TypeOK, LoopEnd
<1>5. ConnectedIsUsable'
  BY DEF TypeOK, LoopEnd, ConnectedIsUsable
<1>6. NoCallOnAbandonedConnection'
  BY DEF TypeOK, NoCallOnAbandonedConnection
<1>7. QED
  BY <1>1, <1>2, <1>3, <1>4, <1>5, <1>6

\* The cloud shows the old value, or the agent has lost track of it.
LEMMA PatchFailsStep ==
    ASSUME IInv, NEW p \in Parts, PatchFails(p)
    PROVE  IInv'
<1> USE DEF IInv, PatchFails, Faults
<1>1. TypeOK'
  <2>1. cloud' \in Clouds
    BY CloudUpdate DEF TypeOK, Clouds, Round
  <2>2. faults' \in 0 .. MaxFaults
    BY BoundsAssumption DEF TypeOK
  <2>3. poll' \in [at : PollPCs, new : DeviceInfos \cup {NoInfo},
                  ok : SUBSET Parts, failed : SUBSET Parts]
    BY DEF TypeOK
  <2>4. lost' \subseteq Parts
    BY DEF TypeOK
  <2>5. QED
    BY <2>1, <2>2, <2>3, <2>4 DEF TypeOK, Clouds
<1>2. Round'
  <2>1. /\ poll'.at = After(p) /\ poll'.new = poll.new
        /\ poll'.ok = poll.ok /\ poll'.failed = poll.failed \cup {p}
    BY DEF TypeOK
  <2>2. Passed(After(p)) = Passed(p) \cup {p} /\ After(p) \in Parts \cup {"remember"}
    OBVIOUS
  <2>3. /\ [cloud EXCEPT ![p] = Told(poll.new)[p]][p] = Told(poll.new)[p]
        /\ \A q \in Parts \ {p} : [cloud EXCEPT ![p] = Told(poll.new)[p]][q] = cloud[q]
    BY CloudUpdate DEF TypeOK, Clouds, Round
  <2> DEFINE new == [cloud EXCEPT ![p] = Told(poll.new)[p]]
  <2>9. p \notin poll.ok
    BY DEF Round
  <2>4. \A q \in Parts \ lost' :
          /\ q \in poll'.ok => cloud'[q] = Told(poll'.new)[q]
          /\ q \notin poll'.ok /\ last' # NoInfo => cloud'[q] = Told(last')[q]
    <3>1. CASE UNCHANGED <<cloud, lost>>
      BY <3>1, <2>1 DEF Round
    <3>2. CASE cloud' = new /\ lost' = lost \cup {p}
      <4> HIDE DEF new
      <4>1. \A q \in Parts \ lost' : cloud'[q] = cloud[q]
        BY <3>2, <2>3 DEF new
      <4>2. QED
        BY <4>1, <3>2, <2>1 DEF Round
    <3>3. QED
      BY <3>1, <3>2
  <2>5. \A q \in Passed(poll'.at) \ (poll'.ok \cup poll'.failed) :
          last' # NoInfo /\ Told(last')[q] = Told(poll'.new)[q]
    BY <2>1, <2>2 DEF Round
  <2>6. poll'.ok \cup poll'.failed \subseteq Passed(poll'.at)
    BY <2>1, <2>2 DEF Round
  <2>7. poll'.new \in DeviceInfos
    BY <2>1 DEF Round
  <2> HIDE DEF Passed, After
  <2>8. QED
    BY <2>1, <2>2, <2>4, <2>5, <2>6, <2>7 DEF Round
<1>3. CloudShowsLast'
  BY DEF TypeOK, Round, CloudShowsLast, Told
<1>4. LoopEnd'
  BY DEF TypeOK, LoopEnd
<1>5. ConnectedIsUsable'
  BY DEF TypeOK, LoopEnd, ConnectedIsUsable
<1>6. NoCallOnAbandonedConnection'
  BY DEF TypeOK, NoCallOnAbandonedConnection
<1>7. QED
  BY <1>1, <1>2, <1>3, <1>4, <1>5, <1>6

\* What failed beside an update that was done is lost.
LEMMA RememberStep ==
    ASSUME IInv, Remember
    PROVE  IInv'
<1> USE DEF IInv, Remember
<1>1. TypeOK'
  BY DEF TypeOK
<1>2. Round'
  BY DEF TypeOK, Round, CloudShowsLast, Told
<1>3. CloudShowsLast'
  <2>1. poll'.at = "setCurrent"
    BY DEF TypeOK
  <2>2. CASE poll.ok # {}
    <3>1. SUFFICES ASSUME NEW p \in Parts \ lost' PROVE cloud[p] = Told(poll.new)[p]
      BY <2>2 DEF CloudShowsLast
    <3>2. p \notin lost /\ p \notin poll.failed
      BY <2>2
    <3>3. QED
      BY <3>2 DEF Round
  <2>3. CASE poll.ok = {}
    BY <2>3 DEF Round, CloudShowsLast
  <2>4. QED
    BY <2>2, <2>3
<1>4. LoopEnd'
  BY DEF TypeOK, LoopEnd
<1>5. ConnectedIsUsable'
  BY DEF TypeOK, LoopEnd, ConnectedIsUsable
<1>6. NoCallOnAbandonedConnection'
  BY DEF TypeOK, NoCallOnAbandonedConnection
<1>7. QED
  BY <1>1, <1>2, <1>3, <1>4, <1>5, <1>6

\* A poll that failed leaves no device to be seen.
LEMMA SetCurrentStep ==
    ASSUME IInv, SetCurrent
    PROVE  IInv'
<1> USE DEF IInv, SetCurrent
<1>1. TypeOK'
  BY DEF TypeOK
<1>2. Round'
  BY DEF TypeOK, Round, CloudShowsLast, Told
<1>3. CloudShowsLast'
  BY DEF TypeOK, Round, CloudShowsLast, Told
<1>4. LoopEnd'
  BY NotSeen DEF TypeOK, LoopEnd
<1>5. ConnectedIsUsable'
  BY DEF TypeOK, LoopEnd, ConnectedIsUsable
<1>6. NoCallOnAbandonedConnection'
  BY DEF TypeOK, NoCallOnAbandonedConnection
<1>7. QED
  BY <1>1, <1>2, <1>3, <1>4, <1>5, <1>6

\* The loop ends with connected as the poll has found it.
LEMMA SetConnectedStep ==
    ASSUME IInv, SetConnected
    PROVE  IInv'
<1> USE DEF IInv, SetConnected
<1>1. TypeOK'
  BY DEF TypeOK
<1>2. Round'
  BY DEF TypeOK, Round, CloudShowsLast, Told
<1>3. CloudShowsLast'
  BY DEF TypeOK, Round, CloudShowsLast, Told
<1>4. LoopEnd'
  BY DEF TypeOK, LoopEnd
<1>5. ConnectedIsUsable'
  BY DEF TypeOK, LoopEnd, ConnectedIsUsable
<1>6. NoCallOnAbandonedConnection'
  BY DEF TypeOK, NoCallOnAbandonedConnection
<1>7. QED
  BY <1>1, <1>2, <1>3, <1>4, <1>5, <1>6

\* The ticker starts the next round.
LEMMA TickStep ==
    ASSUME IInv, Tick
    PROVE  IInv'
BY DEF IInv, Tick, TypeOK, Round, CloudShowsLast, Told, LoopEnd,
       ConnectedIsUsable, NoCallOnAbandonedConnection

\* SIGTERM closes the connection and stops the ticker.
LEMMA CleanUpStep ==
    ASSUME IInv, CleanUp
    PROVE  IInv'
<1> USE DEF IInv, CleanUp, Failed
<1>1. TypeOK'
  <2>1. conn' \in [id : Nat, open : BOOLEAN]
    BY DEF TypeOK
  <2>2. caller' \in [Callers -> [at : {"idle", "checked", "calling"}, conn : Nat]]
    BY DEF TypeOK
  <2>3. ticking' \in BOOLEAN
    BY DEF TypeOK
  <2>4. QED
    BY <2>1, <2>2, <2>3 DEF TypeOK
<1>2. Round'
  BY DEF TypeOK, Round, CloudShowsLast, Told
<1>3. CloudShowsLast'
  BY DEF TypeOK, Round, CloudShowsLast, Told
<1>4. LoopEnd'
  BY DEF TypeOK, LoopEnd
<1>5. ConnectedIsUsable'
  BY DEF TypeOK, LoopEnd, ConnectedIsUsable
<1>6. NoCallOnAbandonedConnection'
  BY DEF TypeOK, NoCallOnAbandonedConnection
<1>7. QED
  BY <1>1, <1>2, <1>3, <1>4, <1>5, <1>6

\* A caller that has found the QPU connected waits for nothing yet.
LEMMA CheckConnectedStep ==
    ASSUME IInv, NEW c \in Callers, CheckConnected(c)
    PROVE  IInv'
<1> USE DEF IInv, CheckConnected
<1>1. TypeOK'
  BY DEF TypeOK
<1>2. Round'
  BY DEF TypeOK, Round, CloudShowsLast, Told
<1>3. CloudShowsLast'
  BY DEF TypeOK, Round, CloudShowsLast, Told
<1>4. LoopEnd'
  BY DEF TypeOK, LoopEnd
<1>5. ConnectedIsUsable'
  BY DEF TypeOK, LoopEnd, ConnectedIsUsable
<1>6. NoCallOnAbandonedConnection'
  BY DEF TypeOK, NoCallOnAbandonedConnection
<1>7. QED
  BY <1>1, <1>2, <1>3, <1>4, <1>5, <1>6

\* A job is called on the connection of the agent.
LEMMA CallJobStep ==
    ASSUME IInv, NEW c \in Callers, CallJob(c)
    PROVE  IInv'
<1> USE DEF IInv, CallJob
<1>1. TypeOK'
  BY DEF TypeOK
<1>2. Round'
  BY DEF TypeOK, Round, CloudShowsLast, Told
<1>3. CloudShowsLast'
  BY DEF TypeOK, Round, CloudShowsLast, Told
<1>4. LoopEnd'
  BY DEF TypeOK, LoopEnd
<1>5. ConnectedIsUsable'
  BY DEF TypeOK, LoopEnd, ConnectedIsUsable
<1>6. NoCallOnAbandonedConnection'
  BY DEF TypeOK, NoCallOnAbandonedConnection
<1>7. QED
  BY <1>1, <1>2, <1>3, <1>4, <1>5, <1>6

\* An answer ends the wait.
LEMMA AnsweredStep ==
    ASSUME IInv, NEW c \in Callers, Answered(c)
    PROVE  IInv'
<1> USE DEF IInv, Answered
<1>1. TypeOK'
  BY DEF TypeOK
<1>2. Round'
  BY DEF TypeOK, Round, CloudShowsLast, Told
<1>3. CloudShowsLast'
  BY DEF TypeOK, Round, CloudShowsLast, Told
<1>4. LoopEnd'
  BY DEF TypeOK, LoopEnd
<1>5. ConnectedIsUsable'
  BY DEF TypeOK, LoopEnd, ConnectedIsUsable
<1>6. NoCallOnAbandonedConnection'
  BY DEF TypeOK, NoCallOnAbandonedConnection
<1>7. QED
  BY <1>1, <1>2, <1>3, <1>4, <1>5, <1>6

-----------------------------------------------------------------------------
(* The theorems.                                                           *)

LEMMA InitHolds == Init => IInv
<1> SUFFICES ASSUME Init PROVE IInv
  OBVIOUS
<1> USE DEF Init
<1>1. conn \in [id : Nat, open : BOOLEAN]
  <2>1. 0 \in Nat
    OBVIOUS
  <2>2. QED
    BY <2>1, Zenon
<1>2. cloud \in Clouds
  BY DEF Clouds, Unregistered
<1>3. caller \in [Callers -> [at : {"idle", "checked", "calling"}, conn : Nat]]
  OBVIOUS
<1>4. poll \in [at : PollPCs, new : DeviceInfos \cup {NoInfo},
                ok : SUBSET Parts, failed : SUBSET Parts]
  OBVIOUS
<1>5. TypeOK
  <2>1. changes \in 0 .. MaxChanges /\ faults \in 0 .. MaxFaults
    BY BoundsAssumption
  <2>2. QED
    BY <1>1, <1>2, <1>3, <1>4, <2>1, Zenon DEF TypeOK, Clouds
<1>6. Round /\ CloudShowsLast /\ LoopEnd /\ ConnectedIsUsable
  BY DEF Round, CloudShowsLast, LoopEnd, ConnectedIsUsable
<1>7. NoCallOnAbandonedConnection
  BY DEF NoCallOnAbandonedConnection
<1>8. QED
  BY <1>5, <1>6, <1>7 DEF IInv

\* Every step keeps the invariant.
LEMMA NextHolds == IInv /\ [Next]_vars => IInv'
<1> SUFFICES ASSUME IInv, [Next]_vars PROVE IInv'
  OBVIOUS
<1>1. CASE Poll
  <2>1. CASE \E l \in {"callInfo", "callStatus"} : CallFails(l)
    BY <2>1, CallFailsStep
  <2>2. CASE \E p \in Parts :
                Unneeded(p) \/ Patched(p) \/ PatchRefused(p) \/ PatchFails(p)
    BY <2>2, UnneededStep, PatchedStep, PatchRefusedStep, PatchFailsStep
  <2>3. CASE GetDeviceInfo \/ GetServiceStatus \/ Remember
    BY <2>3, GetDeviceInfoStep, GetServiceStatusStep, RememberStep
  <2>4. CASE SetCurrent \/ SetConnected \/ Tick
    BY <2>4, SetCurrentStep, SetConnectedStep, TickStep
  <2>5. QED
    BY <1>1, <2>1, <2>2, <2>3, <2>4 DEF Poll
<1>2. CASE DeviceChanges \/ FinishSetup \/ CleanUp
  BY <1>2, DeviceChangesStep, FinishSetupStep, CleanUpStep
<1>3. CASE \E c \in Callers : CheckConnected(c) \/ CallJob(c) \/ Answered(c)
  BY <1>3, CheckConnectedStep, CallJobStep, AnsweredStep
<1>4. CASE UNCHANGED vars
  BY <1>4 DEF vars, IInv, TypeOK, Round, CloudShowsLast, LoopEnd, ConnectedIsUsable,
              NoCallOnAbandonedConnection
<1>5. QED
  BY <1>1, <1>2, <1>3, <1>4 DEF Next

\* The invariant holds in every state of every behaviour.
LEMMA Invariant == Spec => []IInv
BY InitHolds, NextHolds, PTL DEF Spec

\* Every variable keeps its type, whatever the device says: the cloud is told
\* only the statuses the provider API knows.
THEOREM GatewayTyped == Spec => []TypeOK
<1>1. IInv => TypeOK
  BY DEF IInv
<1>2. QED
  BY <1>1, Invariant, PTL

\* The parts callDeviceAPIOnChange leaves out are those the cloud shows already,
\* unless the agent has lost track of them.
THEOREM CloudAsRemembered == Spec => []CloudShowsLast
<1>1. IInv => CloudShowsLast
  BY DEF IInv
<1>2. QED
  BY <1>1, Invariant, PTL

\* Reset and the clean-up of the agent leave no CallJob behind on a connection
\* that was given up.
THEOREM NoJobAbandoned == Spec => []NoCallOnAbandonedConnection
<1>1. IInv => NoCallOnAbandonedConnection
  BY DEF IInv
<1>2. QED
  BY <1>1, Invariant, PTL

\* Between two polls a QPU that counts as connected can be called.
THEOREM Usable == Spec => []ConnectedIsUsable
<1>1. IInv => ConnectedIsUsable
  BY DEF IInv
<1>2. QED
  BY <1>1, Invariant, PTL
==============================================================================
