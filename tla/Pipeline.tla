------------------------------ MODULE Pipeline ------------------------------
(***************************************************************************)
(* The scheduler as the poller sees it: where each job is.  A job that is  *)
(* accepted is in the hands of its handler, which offers it to the queue   *)
(* or settles it; one offered job at a time is queued, or dropped when the *)
(* queue is full; one queued job at a time runs and then returns to its    *)
(* handler.  Scheduler implements this specification.                      *)
(***************************************************************************)
EXTENDS Integers, FiniteSets

CONSTANTS
    Jobs,
    MaxSize     \* NormalQueue.maxSize

VARIABLE stage

Stages == {"absent", "handling", "offered", "queued", "running", "dropped", "settled"}

At(s) == {j \in Jobs : stage[j] = s}

Move(j, from, to) == stage[j] = from /\ stage' = [stage EXCEPT ![j] = to]

InitPipeline == stage = [j \in Jobs |-> "absent"]

Accept(j) == Move(j, "absent", "handling")

\* The job is finished, or refused, or its handler panicked.
Settle(j) == Move(j, "handling", "settled")

\* The queue goroutine receives one job at a time.
Offer(j) == At("offered") = {} /\ Move(j, "handling", "offered")

Enqueue(j) == Cardinality(At("queued")) < MaxSize /\ Move(j, "offered", "queued")

Drop(j) == Cardinality(At("queued")) >= MaxSize /\ Move(j, "offered", "dropped")

\* There is one worker.
Dequeue(j) == At("running") = {} /\ Move(j, "queued", "running")

\* Process has returned, or panicked: the handler may settle or offer it again.
Return(j) == Move(j, "running", "handling")

Travel(j) == Settle(j) \/ Offer(j) \/ Enqueue(j) \/ Drop(j) \/ Dequeue(j) \/ Return(j)

NextPipeline == \E j \in Jobs : Accept(j) \/ Travel(j)

SpecPipeline == InitPipeline /\ [][NextPipeline]_stage
=============================================================================
