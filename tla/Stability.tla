----------------------------- MODULE Stability -----------------------------
(***************************************************************************)
(* _wait_for_stable of python/fish/gpu.py: the daemon's first phase.  Two  *)
(* polled signals, CL (`ros2 component list') and EX ("process started     *)
(* with pid" lines of the launch log), must both be found stable before    *)
(* any GPU process is killed.                                              *)
(*                                                                         *)
(* A component list is abstracted to Empty (no output, or the command      *)
(* failed) or the number of its containers, the only thing that the code   *)
(* compares; a missing launch log reads as 0, as in the code.  Which of    *)
(* the checks are due in an iteration is left open, and so is the moment   *)
(* at which the run-mode fallback time is over.                            *)
(***************************************************************************)
EXTENDS Naturals

CONSTANTS
    ClRequired,     \* [daemon] component_list_stability_count
    ExRequired,     \* [daemon] executor_started_stability_count
    Containers,     \* the container counts of non-empty component lists
    Procs,          \* the process counts of the launch log
    MaxChanges,     \* bound: how often the system under test changes
    Empty,          \* the reading of an empty component list
    Unread          \* no reading yet

ASSUME StabilityAssumption ==
    /\ ClRequired \in Nat \ {0} /\ ExRequired \in Nat \ {0}
    /\ Containers \subseteq Nat /\ Procs \subseteq Nat
    /\ MaxChanges \in Nat
    /\ Empty \notin Nat /\ Unread \notin Nat /\ Empty # Unread

VARIABLES
    sut,        \* the system under test: what a poll reads now
    changes,    \* how often it has changed
    session,    \* is_trace_session_active: does `lttng list' find the session?
    late,       \* has run_mode_fallback_s elapsed?
    cl,         \* cl_prev, cl_count, cl_ok and cl_seen_nonempty
    ex,         \* ex_prev, ex_count, ex_ok and ex_seen_nonzero
    stable,     \* the system_stable signal
    clRun       \* history: the last reading of CL and for how many polls it has been so

stabilityVars == <<sut, changes, session, late, cl, ex, stable, clRun>>

Systems == [cl : Containers \cup {Empty}, ex : Procs]

(* Counters are compared with their required value only, so they stop      *)
(* there: beyond it no test can tell the difference.                       *)
Bump(n, required) == IF n < required THEN n + 1 ELSE n

StabilityTypes ==
    /\ sut \in Systems
    /\ changes \in 0..MaxChanges
    /\ session \in BOOLEAN /\ late \in BOOLEAN /\ stable \in BOOLEAN
    /\ cl \in [prev : Containers \cup {Empty, Unread}, count : 0..ClRequired, ok : BOOLEAN, seen : BOOLEAN]
    /\ ex \in [prev : Procs \cup {Unread}, count : 0..ExRequired, ok : BOOLEAN, seen : BOOLEAN]
    /\ clRun \in [value : Containers \cup {Empty, Unread}, length : 0..ClRequired]

StabilityInit ==
    /\ sut \in Systems
    /\ changes = 0
    /\ session \in BOOLEAN
    /\ late = FALSE
    /\ cl = [prev |-> Unread, count |-> 0, ok |-> FALSE, seen |-> FALSE]
    /\ ex = [prev |-> Unread, count |-> 0, ok |-> FALSE, seen |-> FALSE]
    /\ stable = FALSE
    /\ clRun = [value |-> Unread, length |-> 0]

-----------------------------------------------------------------------------
(* Operators named Slip... are plausible slips in the code; no action uses *)
(* them, they show that the properties notice.                             *)

(* computed at the head of the iteration, before either check has polled *)
Fallback == ~cl.seen /\ ~ex.seen /\ late

SlipEmptyAllowed == cl.seen \/ Fallback     \* before 2026-10-04
(* a launch of plain nodes has a stable process count and never a container *)
NoContainerLaunch == ~cl.seen /\ ex.ok /\ late
EmptyAllowed == cl.seen \/ Fallback \/ NoContainerLaunch

AfterEmptyList ==
    LET n == IF cl.prev \in {Empty, Unread} THEN Bump(cl.count, ClRequired) ELSE 1
    IN  [prev |-> Empty, count |-> n, ok |-> n >= ClRequired /\ EmptyAllowed, seen |-> cl.seen]

AfterList(c) ==
    LET n == IF cl.prev = c THEN Bump(cl.count, ClRequired) ELSE 1
    IN  [prev |-> c, count |-> n, ok |-> n >= ClRequired, seen |-> TRUE]

(* zero readings count on, whatever was read before, and leave ex_prev alone *)
AfterZeroProcs ==
    LET n == Bump(ex.count, ExRequired)
    IN  [ex EXCEPT !.count = n, !.ok = n >= ExRequired /\ (ex.seen \/ Fallback)]

AfterProcs(k) ==
    LET n == IF ex.prev = k THEN Bump(ex.count, ExRequired) ELSE 1
    IN  [prev |-> k, count |-> n, ok |-> n >= ExRequired, seen |-> TRUE]

ReadAgain(run, value, required) ==
    [value |-> value, length |-> IF run.value = value THEN Bump(run.length, required) ELSE 1]

PollCl ==
    /\ ~cl.ok
    /\ cl' = IF sut.cl = Empty THEN AfterEmptyList ELSE AfterList(sut.cl)
    /\ clRun' = ReadAgain(clRun, sut.cl, ClRequired)

PollEx ==
    /\ ~ex.ok
    /\ ex' = IF sut.ex = 0 THEN AfterZeroProcs ELSE AfterProcs(sut.ex)

SkipCl == UNCHANGED <<cl, clRun>>
SkipEx == UNCHANGED ex

(* One iteration of the loop: it only sleeps while no session is active.   *)
(* EX is checked after CL and knows what CL has just found only through    *)
(* cl_seen_nonempty, which it does not read.                               *)
Iteration ==
    /\ ~stable
    /\ session
    /\ \/ PollCl /\ SkipEx
       \/ SkipCl /\ PollEx
       \/ PollCl /\ PollEx
    /\ UNCHANGED <<sut, changes, session, late, stable>>

(* the loop is left and the signal file written *)
SignalStable ==
    /\ cl.ok /\ ex.ok /\ ~stable
    /\ stable' = TRUE
    /\ UNCHANGED <<sut, changes, session, late, cl, ex, clRun>>

FallbackElapses ==
    /\ ~late
    /\ late' = TRUE
    /\ UNCHANGED <<sut, changes, session, cl, ex, stable, clRun>>

(* Containers and processes come up and die, a `ros2 component list' fails,*)
(* the wrapper of another ros2 command truncates the launch log.           *)
SystemChanges ==
    /\ changes < MaxChanges
    /\ changes' = changes + 1
    /\ sut' \in Systems \ {sut}
    /\ UNCHANGED <<session, late, cl, ex, stable, clRun>>

(* The session is created late, ends early, or LTTng does not answer.      *)
SessionChanges ==
    /\ session' = ~session
    /\ UNCHANGED <<sut, changes, late, cl, ex, stable, clRun>>

StabilityNext == Iteration \/ SignalStable \/ FallbackElapses \/ SystemChanges \/ SessionChanges

StabilitySpec == StabilityInit /\ [][StabilityNext]_stabilityVars
(* The loop sleeps at most a second and both timers keep coming due; time  *)
(* passes.  The system under test settles because its changes are bounded; *)
(* nothing is promised of the session.                                     *)
FairStabilitySpec ==
    /\ StabilitySpec
    /\ WF_stabilityVars(Iteration /\ PollCl)
    /\ WF_stabilityVars(Iteration /\ PollEx)
    /\ WF_stabilityVars(SignalStable)
    /\ WF_stabilityVars(FallbackElapses)

-----------------------------------------------------------------------------
(* "Each check polls independently and requires N consecutive identical    *)
(* results to declare stable" (fish_settings.ini): when the component list *)
(* is declared stable, its last N readings were equal.                     *)
ClIsStable == cl.ok => clRun.length >= ClRequired

(* Before a launch has shown anything the system looks like `ros2 run': no *)
(* process is killed on the strength of empty readings while a launch may  *)
(* still be spawning.  Until the fallback time is over the system is found *)
(* stable only after both containers and launched processes were seen.     *)
RunModeIsJustified == stable => late \/ (cl.seen /\ ex.seen)

(* The first phase ends when the session comes to stay, whatever the       *)
(* system showed and however the session came and went before; but for one *)
(* case: containers were seen, a launched process never was.  (That case   *)
(* is `launch_test' with containers, for which docs/operating_modes.md 95  *)
(* says that the fallback of EX ends it: LaunchTestIsStable.)              *)
StableUnlessNoLaunch == <>[]session => <>stable \/ <>[](cl.seen /\ ~ex.seen)

(* "Under launch_test only the EX fallback fires (launch_testing never     *)
(* prints 'process started'), i.e. ~60-90 s" (docs/operating_modes.md):    *)
(* false once containers are seen (StabilityLaunchTest.cfg).               *)
LaunchTestIsStable == []session /\ [](sut.ex = 0) => <>stable

=============================================================================
