---------------------------- MODULE MCScheduler ----------------------------
(* Small instances of Scheduler for TLC: which job is of which type.       *)
EXTENDS Scheduler, TLC

CONSTANTS a, b, c

\* Three jobs: one runs, one is queued, one finds the queue full.
ThreeKinds == a :> "manual" @@ b :> "sampling" @@ c :> "sampling"

ThreeSymmetry == Permutations({b, c})

\* The two types whose Process leaves more than SUCCEEDED and FAILED.
PairKinds == a :> "estimation" @@ b :> "sse"

\* Two types with a private IsFinished, one of which can be revised after a panic.
PanicKinds == a :> "estimation" @@ b :> "sampling"
=============================================================================
