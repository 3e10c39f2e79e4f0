\* One caller of Send; any value of the device may change.
SPECIFICATION FairSpec
CONSTANTS
    worker = worker
    s1 = s1
    s2 = s2
    t1 = t1
    bad = bad
    Callers = {worker}
    Specs = {s1, s2}
    Times = {t1, bad}
    BadTimes = {bad}
    Shots = {100}
    Qubits = {2}
    MaxChanges = 1
    MaxFaults = 2
INVARIANTS TypeOK CloudShowsLast NoCallOnAbandonedConnection ConnectedIsUsable
PROPERTIES EngineSeesDevice CloudCatchesUp
\* After SIGTERM the polling goroutine waits for a ticker that has stopped.
CHECK_DEADLOCK FALSE
