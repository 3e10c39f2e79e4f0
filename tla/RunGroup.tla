------------------------------ MODULE RunGroup ------------------------------
(***************************************************************************)
(* The life of the engine process: Execute of cmd/edge/main.go sets up the *)
(* components, builds the run group from the settings, starts the worker,  *)
(* and runs the group until one actor returns; then the group interrupts   *)
(* all actors and waits for them.  The scheduler's goroutines and the      *)
(* database goroutine are not in the group: they live until the process    *)
(* ends, and share the channel that TearDown closes.                       *)
(***************************************************************************)
EXTENDS Integers, Sequences, FiniteSets

CONSTANTS
    Tasks,     \* periodic tasks
    Servers,   \* internal job servers
    APIs,      \* API servers
    Signal     \* the signal handler

\* An actor is of one kind.
ASSUME KindsAssumption ==
    /\ Tasks \cap (Servers \cup APIs \cup {Signal}) = {}
    /\ Servers \cap (APIs \cup {Signal}) = {}
    /\ Signal \notin APIs

Actors == Tasks \cup Servers \cup APIs \cup {Signal}

Components == <<"transpiler", "scheduler", "db", "qpu", "router">>

VARIABLES
    main,       \* how far Execute has come
    exit,       \* how the process ended
    ready,      \* how many components are set up
    actor,      \* the state of every actor of the group
    cancelled,  \* the actors that have been interrupted
    cleaned,    \* the actors whose clean-up has run
    result,     \* what the first actor to return returned
    open,       \* DBChan is open
    started     \* the worker of the scheduler runs

groupVars == <<main, exit, ready, actor, cancelled, cleaned, result, open, started>>

group == <<actor, cancelled, cleaned, result>>
services == <<open, started>>

InitGroup ==
    /\ main = "settings"
    /\ exit = "none"
    /\ ready = 0
    /\ actor = [a \in Actors |-> "none"]
    /\ cancelled = {}
    /\ cleaned = {}
    /\ result = "none"
    /\ open = TRUE
    /\ started = FALSE

Alive == exit = "none"

\* Execute goes on to the next statement.
Goto(from, to) ==
    /\ Alive /\ main = from
    /\ main' = to
    /\ UNCHANGED exit

End(from, how) ==
    /\ Alive /\ main = from
    /\ exit' = how
    /\ UNCHANGED main

-----------------------------------------------------------------------------
(* The start.                                                              *)

ParseSettingFromPath ==
    /\ Goto("settings", "setup") \/ End("settings", "error")
    /\ UNCHANGED <<ready, group, services>>

\* Mutated form of Setup: one component too many is set up.
SetupOneMore ==
    /\ \/ /\ ready' = ready + 1
          /\ Goto("setup", IF ready' > Len(Components) THEN "context" ELSE "setup")
       \/ /\ End("setup", "panic")
          /\ UNCHANGED ready
    /\ UNCHANGED <<group, services>>

\* The components in their order; the first that fails is a panic.  From here
\* on a return of Execute runs the deferred TearDown.
Setup ==
    /\ \/ /\ ready' = ready + 1
          /\ Goto("setup", IF ready' = Len(Components) THEN "context" ELSE "setup")
       \/ /\ End("setup", "panic")
          /\ UNCHANGED ready
    /\ UNCHANGED <<group, services>>

\* A group, a runner or a parameter the settings get wrong, or a runner whose
\* Setup fails, is an error that Execute returns.
NewRunContextWithSettingPath ==
    /\ \/ /\ Goto("context", "start")
          /\ actor' = [a \in Actors |-> IF a = Signal THEN "none" ELSE "added"]
       \/ /\ Goto("context", "tearDown")
          /\ UNCHANGED actor
    /\ UNCHANGED <<ready, cancelled, cleaned, result, services>>

\* startCore, setupRunGroup, and the call of Run.
StartCore ==
    /\ Goto("start", "run")
    /\ started' = TRUE
    /\ actor' = [a \in Actors |-> "start"]
    /\ UNCHANGED <<ready, cancelled, cleaned, result, open>>

-----------------------------------------------------------------------------
(* The actors.                                                             *)

\* A step of actor a; the group keeps what the first one to return returns.
Act(a, from, to) ==
    /\ Alive /\ actor[a] = from
    /\ actor' = [actor EXCEPT ![a] = to]
    /\ result' = IF result = "none" /\ to \in {"nil", "error"} THEN to ELSE result
    /\ UNCHANGED <<main, exit, ready, cancelled, services>>

Cleanup(a) == cleaned' = cleaned \cup {a}

\* The first round of a task comes before the first tick.
TaskStarts(t) == Act(t, "start", "task") /\ UNCHANGED cleaned

TaskRound(t) == Act(t, "task", "wait") /\ UNCHANGED cleaned

\* select takes either case when both are ready.
TaskTick(t) == Act(t, "wait", "task") /\ UNCHANGED cleaned

\* Mutated form of TaskDone: the task returns without its clean-up.
TaskDoneWithoutCleanup(t) ==
    /\ t \in cancelled
    /\ Act(t, "wait", "error")
    /\ UNCHANGED cleaned

\* Mutated form of TaskDone: the task waits for a context that only the
\* tear-down cancels.
TaskDoneAfterTearDown(t) ==
    /\ ~open
    /\ Act(t, "wait", "error")
    /\ Cleanup(t)

TaskDone(t) ==
    /\ t \in cancelled
    /\ Act(t, "wait", "error")
    /\ Cleanup(t)

AddPeriodicTask(t) == TaskStarts(t) \/ TaskRound(t) \/ TaskTick(t) \/ TaskDone(t)

AddInternalJobServer(s) ==
    \/ Act(s, "start", "wait") /\ UNCHANGED cleaned
    \/ Act(s, "start", "error") /\ UNCHANGED cleaned
    \/ s \in cancelled /\ Act(s, "wait", "nil") /\ Cleanup(s)

\* Serve returns when it fails, when it is done or when it is shut down.
ServeReturns(p) ==
    /\ Act(p, "start", "error") \/ Act(p, "start", "nil")
    /\ UNCHANGED cleaned

\* run.SignalHandler: SIGINT arrives, or another actor has ended.  Both are
\* errors to the group.
SignalHandler == Act(Signal, "start", "error") /\ UNCHANGED cleaned

-----------------------------------------------------------------------------
(* The group and the end.                                                  *)

Returned == {a \in Actors : actor[a] \in {"nil", "error"}}

FirstReturns ==
    /\ Goto("run", "interrupt")
    /\ result # "none"
    /\ UNCHANGED <<ready, group, services>>

Interrupt ==
    /\ Alive /\ main = "interrupt"
    /\ \E a \in Actors \ cancelled :
          /\ cancelled' = cancelled \cup {a}
          /\ main' = IF cancelled' = Actors THEN "wait" ELSE main
    /\ UNCHANGED <<exit, ready, actor, cleaned, result, services>>

\* Mutated form of RunReturns: an error is returned like any other.
RunReturnsError ==
    /\ Returned = Actors
    /\ Goto("wait", "tearDown")
    /\ UNCHANGED <<ready, group, services>>

\* os.Exit(1) runs no deferred call.
RunReturns ==
    /\ Returned = Actors
    /\ \/ result = "error" /\ End("wait", "exit")
       \/ result = "nil" /\ Goto("wait", "tearDown")
    /\ UNCHANGED <<ready, group, services>>

\* The transpiler's connection and the channel are closed.
TearDown ==
    /\ Goto("tearDown", "return")
    /\ open' = FALSE
    /\ UNCHANGED <<ready, group, started>>

ExecuteReturns ==
    /\ End("return", IF result = "nil" THEN "ok" ELSE "error")
    /\ UNCHANGED <<ready, group, services>>

Execute ==
    \/ ParseSettingFromPath
    \/ Setup
    \/ NewRunContextWithSettingPath
    \/ StartCore
    \/ FirstReturns
    \/ Interrupt
    \/ RunReturns
    \/ TearDown
    \/ ExecuteReturns

\* On a closed channel the database goroutine receives a nil job, whose
\* method it calls, and the recover of the worker sends once more.
Crash ==
    /\ Alive /\ ~open
    /\ exit' = "crash"
    /\ UNCHANGED <<main, ready, group, services>>

NextGroup ==
    \/ Execute
    \/ \E t \in Tasks : AddPeriodicTask(t)
    \/ \E s \in Servers : AddInternalJobServer(s)
    \/ \E p \in APIs : ServeReturns(p)
    \/ SignalHandler
    \/ Crash

\* Execute and the actors go on; a task that is always cancelled at its select
\* takes that case in the end; Serve returns once Shutdown was called, and the
\* signal handler once its context is cancelled.
GroupFairness ==
    /\ WF_groupVars(Execute)
    /\ \A t \in Tasks : /\ WF_groupVars(TaskStarts(t)) /\ WF_groupVars(TaskRound(t))
                       /\ SF_groupVars(TaskDone(t))
    /\ \A s \in Servers : WF_groupVars(AddInternalJobServer(s))
    /\ \A p \in APIs : WF_groupVars(p \in cancelled /\ ServeReturns(p))
    /\ WF_groupVars(Signal \in cancelled /\ SignalHandler)

SpecGroup == InitGroup /\ [][NextGroup]_groupVars

FairGroup == SpecGroup /\ GroupFairness

-----------------------------------------------------------------------------
(* Properties.                                                             *)

ActorStates == {"none", "added", "start", "task", "wait", "nil", "error"}

\* Every variable holds a value of its kind.
TypeGroup ==
    /\ main \in {"settings", "setup", "context", "start", "run", "interrupt", "wait",
                 "tearDown", "return"}
    /\ exit \in {"none", "ok", "error", "panic", "exit", "crash"}
    /\ ready \in 0 .. Len(Components)
    /\ actor \in [Actors -> ActorStates]
    /\ cancelled \subseteq Actors
    /\ cleaned \subseteq Actors
    /\ result \in {"none", "nil", "error"}
    /\ open \in BOOLEAN
    /\ started \in BOOLEAN

\* Once the group has run, the process ends or tears down only after every
\* actor has returned, every periodic task has run its Cleanup, and so has
\* every internal job server whose Start succeeded.
GroupStopsWhole ==
    (result # "none" /\ (exit # "none" \/ main \in {"tearDown", "return"})) =>
        /\ Returned = Actors
        /\ Tasks \subseteq cleaned
        /\ \A s \in Servers : actor[s] = "nil" => s \in cleaned

\* Once the worker runs, DBChan is closed under it and the database goroutine,
\* which crashes both, only when an API server was the first to return, and
\* without an error: every other end of the group leaves by os.Exit, which
\* skips the deferred TearDown.  The edge command has no API server.
ChannelOutlivesWorker ==
    started /\ (~open \/ exit = "crash") =>
        result = "nil" /\ \E p \in APIs : actor[p] = "nil"

\* Once one actor of the group has returned, the process ends.
OneEndsAll == result # "none" ~> exit # "none"
=============================================================================
