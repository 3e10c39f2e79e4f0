---------------------------- MODULE DeviceGateway ----------------------------
(***************************************************************************)
(* The QPU behind a gateway: qpu/qpu.go (GatewayQPU) and qpu/gateway.go    *)
(* (DefaultGatewayAgent).  A polling goroutine asks the gateway for the    *)
(* device and its service status, tells the cloud what has changed, and    *)
(* leaves the answer where the rest of the engine reads it.  Jobs are sent *)
(* to the gateway over the same gRPC connection, by the worker of the      *)
(* scheduler and by the handlers of the SSE router.  No lock protects what *)
(* the goroutines share.                                                   *)
(***************************************************************************)
EXTENDS Naturals, FiniteSets

CONSTANTS
    Callers,      \* goroutines that call Send
    Specs,        \* values of device_info
    Times,        \* values of calibrated_at
    BadTimes,     \* those that are not in RFC 3339 format
    Shots,        \* values of max_shots, provider, name and type together
    Qubits,       \* values of max_qubits
    MaxChanges,   \* bound: how often the device changes
    MaxFaults     \* bound: calls that fail, are refused or not answered

ASSUME TimesAssumption == BadTimes \subseteq Times
ASSUME BoundsAssumption == MaxChanges \in Nat /\ MaxFaults \in Nat

VARIABLES
    device,      \* what the gateway says of the device
    conn,        \* gatewayConn: which one, and whether it is open
    last,        \* lastDeviceInfo
    poll,        \* the polling goroutine: where it is, and its local state
    current,     \* currentDeviceInfo
    connected,   \* GatewayQPU.connected
    caller,      \* each caller of Send: where it is, and its connection
    cloud,       \* the device in the cloud
    lost,        \* parts of the device whose last PATCH is lost on the agent
    setup,       \* Setup has returned
    ticking,     \* the ticker runs
    changes,     \* number of changes of the device so far
    faults       \* number of faults so far

vars == <<device, conn, last, poll, current, connected, caller, cloud, lost,
          setup, ticking, changes, faults>>

Services == {"active", "inactive", "maintenance", "unknown"}

DeviceStatus == {"Available", "Unavailable", "QueuePaused"}

Parts == {"status", "info", "device"}

Devices == [service : Services, spec : Specs, calibratedAt : Times,
            shots : Shots, qubits : Qubits]

mapServiceStatusToDeviceStatus(s) ==
    CASE s = "active"      -> "Available"
      [] s = "maintenance" -> "QueuePaused"
      [] OTHER             -> "Unavailable"

DeviceInfo(d, s) == [known |-> TRUE, status |-> mapServiceStatusToDeviceStatus(s),
                     spec |-> d.spec, calibratedAt |-> d.calibratedAt,
                     shots |-> d.shots, qubits |-> d.qubits]

DeviceInfos == {DeviceInfo(d, d.service) : d \in Devices}

\* &DeviceInfo{Status: Unavailable}
UnavailableInfo == [known |-> FALSE, status |-> "Unavailable"]

\* lastDeviceInfo = nil
NoInfo == [known |-> FALSE]

\* Mutated form of toDeviceDeviceStatusUpdateStatus: a paused queue is passed
\* on as such.
toDeviceStatusAsIs(s) ==
    CASE s = "Available" -> "available" [] s = "Unavailable" -> "unavailable"
      [] OTHER -> s

\* The provider API knows two statuses: a paused queue is unavailable.
toDeviceDeviceStatusUpdateStatus(s) ==
    IF s = "Available" THEN "available" ELSE "unavailable"

\* What the three PATCH requests tell the cloud.
Told(di) == [status |-> toDeviceDeviceStatusUpdateStatus(di.status),
             info   |-> <<di.spec, di.calibratedAt>>,
             device |-> <<di.qubits>>]

\* What the cloud shows before the engine has ever told it anything.
Unregistered == [status |-> "unavailable", info |-> << >>, device |-> << >>]

-----------------------------------------------------------------------------

\* After GatewayQPU.Setup has called agent.Setup and started the goroutine.
Init ==
    /\ device \in Devices
    /\ conn = [id |-> 0, open |-> TRUE]
    /\ last = NoInfo
    /\ poll = [at |-> "callInfo", new |-> NoInfo, ok |-> {}, failed |-> {}]
    /\ current = NoInfo
    /\ connected = FALSE
    /\ caller = [c \in Callers |-> [at |-> "idle", conn |-> 0]]
    /\ cloud = Unregistered
    /\ lost = {}
    /\ setup = FALSE
    /\ ticking = TRUE
    /\ changes = 0
    /\ faults = 0

\* One of the values of the device changes by itself.
DeviceChanges ==
    /\ changes < MaxChanges
    /\ \E d \in Devices, f \in DOMAIN device :
          d[f] # device[f] /\ device' = [device EXCEPT ![f] = d[f]]
    /\ changes' = changes + 1
    /\ UNCHANGED <<conn, last, poll, current, connected, caller, cloud, lost,
                   setup, ticking, faults>>

\* Setup writes its own device information after the goroutine has started.
FinishSetup ==
    /\ ~setup
    /\ setup' = TRUE
    /\ current' = UnavailableInfo
    /\ UNCHANGED <<device, conn, last, poll, connected, caller, cloud, lost,
                   ticking, changes, faults>>

-----------------------------------------------------------------------------
(* The connection.                                                         *)

\* The gRPC library fails the calls of a connection that is closed.
Failed(k) == [c \in Callers |-> IF caller[c].at = "calling" /\ caller[c].conn = k
                                THEN [caller[c] EXCEPT !.at = "idle"]
                                ELSE caller[c]]

Faults(n) == faults + n <= MaxFaults /\ faults' = faults + n

\* Mutated form of Reset: the old connection is not closed.
ResetWithoutClose(n) ==
    /\ Faults(n)
    /\ conn' = [id |-> conn.id + 1, open |-> TRUE]
    /\ last' = NoInfo
    /\ lost' = {}
    /\ UNCHANGED caller

\* After n faults: Close, then a new connection and nothing is remembered; or
\* there is no new connection, and the closed one is kept.
Reset(n) ==
    /\ caller' = Failed(conn.id)
    /\ \/ /\ Faults(n)
          /\ conn' = [id |-> conn.id + 1, open |-> TRUE]
          /\ last' = NoInfo
          /\ lost' = {}
       \/ /\ Faults(n + 1)
          /\ conn' = [conn EXCEPT !.open = FALSE]
          /\ UNCHANGED <<last, lost>>

-----------------------------------------------------------------------------
(* The polling goroutine.                                                  *)

PollAt(l) == poll' = [poll EXCEPT !.at = l]

\* GetDeviceInfo or GetServiceStatus returns an error: the gateway does not
\* answer, or the connection is closed.
CallFails(l) ==
    /\ poll.at = l
    /\ PollAt("setUnavailable")
    /\ Reset(IF conn.open THEN 1 ELSE 0)
    /\ UNCHANGED <<device, current, connected, cloud, setup, ticking, changes>>

GetDeviceInfo ==
    /\ poll.at = "callInfo"
    /\ conn.open
    /\ poll' = [at |-> "callStatus", new |-> DeviceInfo(device, "unknown"),
                ok |-> {}, failed |-> {}]
    /\ UNCHANGED <<device, conn, last, current, connected, caller, cloud, lost,
                   setup, ticking, changes, faults>>

\* The device may have changed between the two calls.
GetServiceStatus ==
    /\ poll.at = "callStatus"
    /\ conn.open
    /\ poll' = [poll EXCEPT !.at = "status",
                   !.new.status = mapServiceStatusToDeviceStatus(device.service)]
    /\ UNCHANGED <<device, conn, last, current, connected, caller, cloud, lost,
                   setup, ticking, changes, faults>>

\* Mutated form of HasChanged: the status is sent once only.
HasChangedNotStatus(p, old, new) ==
    old # NoInfo =>
        \/ p = "info" /\ (\/ old.calibratedAt # new.calibratedAt
                          \/ old.spec # new.spec
                          \/ old.shots # new.shots)
        \/ p = "device" /\ old.qubits # new.qubits

\* hasStatusChanged, hasDeviceInfoChanged and hasDeviceChanged.
HasChanged(p, old, new) ==
    old # NoInfo =>
        \/ p = "status" /\ old.status # new.status
        \/ p = "info" /\ (\/ old.calibratedAt # new.calibratedAt
                          \/ old.spec # new.spec
                          \/ old.shots # new.shots)
        \/ p = "device" /\ old.qubits # new.qubits

\* A calibration time that cannot be parsed is an error before the request.
Sendable(p, di) == p = "info" => di.calibratedAt \notin BadTimes

After(p) == CASE p = "status" -> "info" [] p = "info" -> "device"
              [] p = "device" -> "remember"

Unneeded(p) ==
    /\ poll.at = p
    /\ ~HasChanged(p, last, poll.new)
    /\ PollAt(After(p))
    /\ UNCHANGED <<device, conn, last, current, connected, caller, cloud, lost,
                   setup, ticking, changes, faults>>

\* updateDeviceStatus, updateDeviceInfo, updateDevice: the cloud has taken
\* the new value and said so.
Patched(p) ==
    /\ poll.at = p
    /\ HasChanged(p, last, poll.new)
    /\ Sendable(p, poll.new)
    /\ cloud' = [cloud EXCEPT ![p] = Told(poll.new)[p]]
    /\ lost' = lost \ {p}
    /\ poll' = [poll EXCEPT !.at = After(p), !.ok = @ \cup {p}]
    /\ UNCHANGED <<device, conn, last, current, connected, caller, setup,
                   ticking, changes, faults>>

\* An answer of 400, 404 or 500 is a value of the generated client and not
\* an error, and the value is ignored: the update counts as done.
PatchRefused(p) ==
    /\ poll.at = p
    /\ HasChanged(p, last, poll.new)
    /\ Sendable(p, poll.new)
    /\ Faults(1)
    /\ lost' = lost \cup {p}
    /\ poll' = [poll EXCEPT !.at = After(p), !.ok = @ \cup {p}]
    /\ UNCHANGED <<device, conn, last, current, connected, caller, cloud, setup,
                   ticking, changes>>

\* No answer, or no request at all.  The cloud may have taken the value.
PatchFails(p) ==
    /\ poll.at = p
    /\ HasChanged(p, last, poll.new)
    /\ \/ ~Sendable(p, poll.new) /\ UNCHANGED <<cloud, lost, faults>>
       \/ Sendable(p, poll.new) /\ Faults(1) /\ UNCHANGED <<cloud, lost>>
       \/ /\ Sendable(p, poll.new)
          /\ Faults(1)
          /\ cloud' = [cloud EXCEPT ![p] = Told(poll.new)[p]]
          /\ lost' = lost \cup {p}
    /\ poll' = [poll EXCEPT !.at = After(p), !.failed = @ \cup {p}]
    /\ UNCHANGED <<device, conn, last, current, connected, caller, setup,
                   ticking, changes>>

\* Mutated form of Remember: the new information is kept in any case.
RememberAlways ==
    /\ poll.at = "remember"
    /\ last' = poll.new
    /\ PollAt("setCurrent")
    /\ UNCHANGED <<device, conn, current, connected, caller, cloud, lost, setup,
                   ticking, changes, faults>>

\* One update that was done is enough to remember the new information: what
\* failed beside it will not be sent again.
Remember ==
    /\ poll.at = "remember"
    /\ IF poll.ok # {}
       THEN last' = poll.new /\ lost' = lost \cup poll.failed
       ELSE UNCHANGED <<last, lost>>
    /\ PollAt("setCurrent")
    /\ UNCHANGED <<device, conn, current, connected, caller, cloud, setup,
                   ticking, changes, faults>>

\* The two assignments of the loop are two steps for those who read them.
SetCurrent ==
    /\ \/ /\ poll.at = "setCurrent"
          /\ current' = poll.new
          /\ PollAt("setConnected")
       \/ /\ poll.at = "setUnavailable"
          /\ current' = UnavailableInfo
          /\ PollAt("setDisconnected")
    /\ UNCHANGED <<device, conn, last, connected, caller, cloud, lost, setup,
                   ticking, changes, faults>>

\* Mutated form of SetConnected: connected stays TRUE for ever.
SetConnectedSticky ==
    /\ poll.at \in {"setConnected", "setDisconnected"}
    /\ connected' = (connected \/ poll.at = "setConnected")
    /\ PollAt("wait")
    /\ UNCHANGED <<device, conn, last, current, caller, cloud, lost, setup,
                   ticking, changes, faults>>

\* Mutated form of SetConnected: the loop ends with the first error.
SetConnectedThenReturn ==
    /\ poll.at \in {"setConnected", "setDisconnected"}
    /\ connected' = (poll.at = "setConnected")
    /\ PollAt(IF poll.at = "setConnected" THEN "wait" ELSE "returned")
    /\ UNCHANGED <<device, conn, last, current, caller, cloud, lost, setup,
                   ticking, changes, faults>>

SetConnected ==
    /\ poll.at \in {"setConnected", "setDisconnected"}
    /\ connected' = (poll.at = "setConnected")
    /\ PollAt("wait")
    /\ UNCHANGED <<device, conn, last, current, caller, cloud, lost, setup,
                   ticking, changes, faults>>

Tick ==
    /\ poll.at = "wait"
    /\ ticking
    /\ PollAt("callInfo")
    /\ UNCHANGED <<device, conn, last, current, connected, caller, cloud, lost,
                   setup, ticking, changes, faults>>

\* The goroutine of startCleanUpGoroutine gets SIGTERM.  The process goes on:
\* only an interrupt ends the run group.
CleanUp ==
    /\ ticking
    /\ ticking' = FALSE
    /\ conn' = [conn EXCEPT !.open = FALSE]
    /\ caller' = Failed(conn.id)
    /\ UNCHANGED <<device, last, poll, current, connected, cloud, lost, setup,
                   changes, faults>>

Poll ==
    \/ \E l \in {"callInfo", "callStatus"} : CallFails(l)
    \/ GetDeviceInfo
    \/ GetServiceStatus
    \/ \E p \in Parts :
          Unneeded(p) \/ Patched(p) \/ PatchRefused(p) \/ PatchFails(p)
    \/ Remember
    \/ SetCurrent
    \/ SetConnected
    \/ Tick

-----------------------------------------------------------------------------
(* Send.                                                                   *)

\* A job is sent after Setup.  It fails at once when the QPU is not connected.
CheckConnected(c) ==
    /\ setup
    /\ caller[c].at = "idle"
    /\ connected
    /\ caller' = [caller EXCEPT ![c].at = "checked"]
    /\ UNCHANGED <<device, conn, last, poll, current, connected, cloud, lost,
                   setup, ticking, changes, faults>>

\* CallJob has no deadline: it waits on the connection it found.
CallJob(c) ==
    /\ caller[c].at = "checked"
    /\ caller' = [caller EXCEPT ![c] = [at   |-> IF conn.open THEN "calling" ELSE "idle",
                                        conn |-> conn.id]]
    /\ UNCHANGED <<device, conn, last, poll, current, connected, cloud, lost,
                   setup, ticking, changes, faults>>

\* The gateway answers, whatever the answer.
Answered(c) ==
    /\ caller[c].at = "calling"
    /\ caller' = [caller EXCEPT ![c].at = "idle"]
    /\ UNCHANGED <<device, conn, last, poll, current, connected, cloud, lost,
                   setup, ticking, changes, faults>>

Next ==
    \/ DeviceChanges
    \/ FinishSetup
    \/ Poll
    \/ CleanUp
    \/ \E c \in Callers : CheckConnected(c) \/ CallJob(c) \/ Answered(c)

Spec == Init /\ [][Next]_vars

(***************************************************************************)
(* Setup returns, the ticker fires, and a call to the gateway or the cloud *)
(* returns, with an answer or with an error.  The gateway need not answer  *)
(* a job, and nobody need send one.                                        *)
(***************************************************************************)
FairSpec == Spec /\ WF_vars(FinishSetup) /\ WF_vars(Poll)

-----------------------------------------------------------------------------
(* Properties.                                                             *)

PollPCs == Parts \cup {"callInfo", "callStatus", "remember", "setCurrent",
                       "setUnavailable", "setConnected", "setDisconnected", "wait"}

(***************************************************************************)
(* Every variable has its type: among others, the cloud is only ever told  *)
(* the two statuses the provider API knows (updateDeviceStatus).           *)
(***************************************************************************)
TypeOK ==
    /\ device \in Devices
    /\ conn \in [id : Nat, open : BOOLEAN]
    /\ last \in DeviceInfos \cup {NoInfo}
    /\ poll \in [at : PollPCs, new : DeviceInfos \cup {NoInfo},
                 ok : SUBSET Parts, failed : SUBSET Parts]
    /\ current \in DeviceInfos \cup {NoInfo, UnavailableInfo}
    /\ connected \in BOOLEAN
    /\ caller \in [Callers -> [at : {"idle", "checked", "calling"}, conn : Nat]]
    /\ cloud \in [status : {"available", "unavailable"},
                  info   : (Specs \X Times) \cup {<< >>},
                  device : {<<q>> : q \in Qubits} \cup {<< >>}]
    /\ lost \subseteq Parts
    /\ setup \in BOOLEAN
    /\ ticking \in BOOLEAN
    /\ changes \in 0..MaxChanges
    /\ faults \in 0..MaxFaults

(***************************************************************************)
(* Between two rounds of updates, lastDeviceInfo is what the cloud shows,  *)
(* part by part, so that an update can be left out when nothing changed.   *)
(* The exceptions are the parts of which the agent has lost track: it      *)
(* counted a refused update as done, got no answer to one that was done,   *)
(* or forgot one that failed because another one succeeded.                *)
(***************************************************************************)
CloudShowsLast ==
    last # NoInfo /\ poll.at \notin Parts \cup {"remember"}
        => \A p \in Parts \ lost : cloud[p] = Told(last)[p]

(***************************************************************************)
(* No job waits for an answer over a connection the agent has given up:    *)
(* CallJob has no deadline, and only Close, which Reset calls before it    *)
(* makes a new connection, ends a call the gateway will never answer.      *)
(***************************************************************************)
NoCallOnAbandonedConnection ==
    \A c \in Callers : caller[c].at = "calling" => conn.open /\ caller[c].conn = conn.id

(***************************************************************************)
(* While the polling goroutine waits for the ticker, a QPU that counts as  *)
(* connected has an open connection, and the engine does not see a device  *)
(* of which a poll has just failed.  After SIGTERM this does not hold: the *)
(* ticker and the connection are gone, connected and the device stay.      *)
(***************************************************************************)
ConnectedIsUsable ==
    poll.at = "wait" /\ ticking => /\ connected => conn.open
                                   /\ current.known => connected

(***************************************************************************)
(* When the device no longer changes and calls no longer fail, the engine  *)
(* sees the device as it is, for ever, although Setup may have overwritten *)
(* the first answer with Unavailable.                                      *)
(***************************************************************************)
EngineSeesDevice ==
    <>[](~ticking \/ (connected /\ current = DeviceInfo(device, device.service)))

(***************************************************************************)
(* Under the same conditions the cloud shows the device as it is, except   *)
(* for the parts of which the agent has lost track and for a calibration   *)
(* time that cannot be parsed.  A poll of which every update failed is     *)
(* repeated by the next one.                                               *)
(***************************************************************************)
CloudCatchesUp ==
    LET now == DeviceInfo(device, device.service)
    IN  <>[](~ticking \/ \A p \in Parts \ lost :
                            Sendable(p, now) => cloud[p] = Told(now)[p])
=============================================================================
