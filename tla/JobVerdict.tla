----------------------------- MODULE JobVerdict -----------------------------
(***************************************************************************)
(* What the engine promises the cloud about each job, whatever the         *)
(* interleaving of its goroutines and whichever of its writes are lost:    *)
(* it reaches a verdict at most once, it shows a terminal status only      *)
(* after it has reached that verdict, and what it has shown it never takes *)
(* back.  It does not promise that every job gets a verdict.               *)
(***************************************************************************)
CONSTANTS Jobs

VARIABLES
    verdict,   \* what the engine has decided about each job
    view       \* the status of each job in the cloud

Verdicts == {"succeeded", "failed"}

Init ==
    /\ verdict = [j \in Jobs |-> "none"]
    /\ view = [j \in Jobs |-> "ready"]

Decide(j, v) ==
    /\ verdict[j] = "none"
    /\ verdict' = [verdict EXCEPT ![j] = v]
    /\ UNCHANGED view

\* The RUNNING update may reach the cloud after the job has ended.
ShowRunning(j) ==
    /\ view[j] \notin Verdicts
    /\ view' = [view EXCEPT ![j] = "running"]
    /\ UNCHANGED verdict

ShowVerdict(j) ==
    /\ verdict[j] \in Verdicts
    /\ view' = [view EXCEPT ![j] = verdict[j]]
    /\ UNCHANGED verdict

Next ==
    \E j \in Jobs :
        \/ \E v \in Verdicts : Decide(j, v)
        \/ ShowRunning(j)
        \/ ShowVerdict(j)

Spec == Init /\ [][Next]_<<verdict, view>>
=============================================================================
