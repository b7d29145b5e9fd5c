----------------------------- MODULE GpuDaemon -----------------------------
(***************************************************************************)
(* The GPU handling of daemon_loop in python/fish/gpu.py, after the system *)
(* has been found stable (module Stability): scan /proc for ROS 2          *)
(* processes, kill the standalone ones that use CUDA, run them again under *)
(* `nsys profile', and register the process tree of nsys so that it is not *)
(* taken for a new process.                                                *)
(*                                                                         *)
(* A process is <<node, run>>: run 1 is started by its owner (the user or  *)
(* the launch system), every later run by the daemon, as a child of nsys;  *)
(* nsys and the node below it live and die together here.  One scan of     *)
(* /proc is one step; a pid is never used twice; a process that has been   *)
(* sent SIGKILL is gone when kill_process returns; the launch process and  *)
(* nsys outlive their children.  Replay and stop appear as far as they     *)
(* keep the loop from running.                                             *)
(***************************************************************************)
EXTENDS Naturals

CONSTANTS
    Nodes,          \* the ROS 2 nodes of the application
    Applications,   \* the traits that the nodes of an application may have
    Disabled,       \* FISH_NSYS_DISABLE
    AutoStop,       \* [replay] replay_rosbag and auto_stop
    ScanStable,     \* [daemon] scan_stable_count
    FirstStage,     \* how far CUDA initialisation has got when a process can first be seen
    MaxRuns         \* bound: the runs of one node

ASSUME GpuDaemonAssumption ==
    /\ Applications \subseteq [Nodes -> SUBSET {"container", "launch", "wrapped", "denied"}]
    /\ Disabled \in BOOLEAN /\ AutoStop \in BOOLEAN
    /\ ScanStable \in Nat \ {0}
    /\ FirstStage \subseteq {"none", "linked", "context"}
    /\ MaxRuns \in Nat \ {0}

Processes == Nodes \X (1..MaxRuns)

VARIABLES
    traits,     \* of each node: "container" (a component container), "launch" (started by
                \* `ros2 launch' or launch_wrap), "wrapped" (launch_wrap starts it under nsys),
                \* "denied" (the daemon may not signal it)
    state,      \* of each process: "unborn", "starting" (nsys, before it forks the node), "up" or "gone"
    cuda,       \* of each process: "none", "linked" (CUDA libraries mapped) or "context" (a /dev/nvidia* fd)
    active,     \* is_trace_session_active
    pc,         \* where the daemon is
    phase,      \* "initial" (phase 2) or "loop"
    todo,       \* the processes of the scan that have not had their turn
    cudaSeen,   \* those in which the initial scan found CUDA libraries
    cur,        \* the process in hand
    known,      \* known_pids
    children,   \* nsys_children
    noNew,      \* no_new_count
    hadGpu,     \* had_gpu
    signals     \* the signal files written: "gpu_handler_complete", "system_stable"

procVars == <<traits, state, cuda, active>>
daemonVars == <<pc, phase, todo, cudaSeen, cur, known, children, noNew, hadGpu, signals>>
vars == <<traits, state, cuda, active, pc, phase, todo, cudaSeen, cur, known, children, noNew, hadGpu, signals>>

NoProcess == <<"no process", 0>>

Up(p) == state[p] = "up"
Is(p, trait) == trait \in traits[p[1]]
Running(p) == state[p] \in {"starting", "up"}
UpNow == {p \in Processes : Up(p)}
HasLibs(p) == cuda[p] \in {"linked", "context"}

(* What /proc tells of the ancestors: nothing once the process is gone.    *)
NsysAncestor(p) == Up(p) /\ (p[2] > 1 \/ Is(p, "wrapped"))
LaunchAncestor(p) == Up(p) /\ Is(p, "launch") /\ p[2] = 1

TypeOK ==
    /\ traits \in [Nodes -> SUBSET {"container", "launch", "wrapped", "denied"}]
    /\ state \in [Processes -> {"unborn", "starting", "up", "gone"}]
    /\ cuda \in [Processes -> {"none", "linked", "context"}]
    /\ active \in BOOLEAN
    /\ pc \in {"scan", "pick", "handle", "kill", "launch", "register", "replay",
               "poll", "settle", "signal", "exit"}
    /\ phase \in {"initial", "loop"}
    /\ todo \subseteq Processes /\ cudaSeen \subseteq Processes
    /\ cur \in Processes \cup {NoProcess}
    /\ known \subseteq Processes /\ children \subseteq Processes
    /\ noNew \in 0..ScanStable + 1
    /\ hadGpu \in BOOLEAN
    /\ signals \subseteq {"gpu_handler_complete", "system_stable"}

Init ==
    /\ traits \in Applications
    /\ state \in [Processes -> {"unborn", "up"}]
    /\ \A p \in Processes : p[2] > 1 => state[p] = "unborn"
    /\ cuda \in [Processes -> {"none", "linked", "context"}]
    /\ \A p \in Processes : IF Up(p) THEN cuda[p] \in FirstStage ELSE cuda[p] = "none"
    /\ active = TRUE
    /\ pc = "scan" /\ phase = "initial"
    /\ todo = {} /\ cudaSeen = {} /\ cur = NoProcess
    /\ known = {} /\ children = {}
    /\ noNew = 0 /\ hadGpu = FALSE /\ signals = {}

-----------------------------------------------------------------------------
(* Phase 2: every process of one scan, without a second look.              *)
InitialScan ==
    /\ pc = "scan"
    /\ pc' = "pick"
    /\ todo' = UpNow
    /\ cudaSeen' = {p \in UpNow : HasLibs(p)}
    /\ UNCHANGED <<phase, cur, known, children, noNew, hadGpu, signals>>

(* Operators named Slip... are plausible slips in the code; no action uses *)
(* them, they show that the properties notice.  This one skips what        *)
(* register_nsys_process_tree has meanwhile made known.                    *)
SlipInitialTake(p) ==
    /\ pc = "pick" /\ phase = "initial" /\ p \in todo
    /\ todo' = todo \ {p}
    /\ known' = known \cup {p}
    /\ IF p \in cudaSeen \ known THEN cur' = p /\ pc' = "handle" ELSE UNCHANGED <<cur, pc>>
    /\ UNCHANGED <<phase, cudaSeen, children, noNew, hadGpu, signals>>

InitialTake(p) ==
    /\ pc = "pick" /\ phase = "initial" /\ p \in todo
    /\ todo' = todo \ {p}
    /\ known' = known \cup {p}
    /\ IF p \in cudaSeen THEN cur' = p /\ pc' = "handle" ELSE UNCHANGED <<cur, pc>>
    /\ UNCHANGED <<phase, cudaSeen, children, noNew, hadGpu, signals>>

(* The end of phase 2, and phase 3.  system_stable is written when the     *)
(* initial scan found any node, all of which are known by now.             *)
InitialDone ==
    /\ pc = "pick" /\ phase = "initial" /\ todo = {}
    /\ pc' = "replay" /\ phase' = "loop"
    /\ signals' = signals \cup {"gpu_handler_complete"}
                    \cup (IF known # {} THEN {"system_stable"} ELSE {})
    /\ UNCHANGED <<todo, cudaSeen, cur, known, children, noNew, hadGpu>>

(* Phase 4: nothing is polled during the replay; with auto_stop the daemon *)
(* stops the session and exits.                                            *)
EndReplay ==
    /\ pc = "replay"
    /\ pc' = IF AutoStop THEN "exit" ELSE "poll"
    /\ UNCHANGED <<phase, todo, cudaSeen, cur, known, children, noNew, hadGpu, signals>>

(* One scan of the main loop with something new in it: all of it becomes   *)
(* known at once, then the batch settles.                                  *)
PollNew ==
    /\ pc = "poll" /\ active
    /\ UpNow \ known # {}
    /\ children' = {c \in children : Running(c)}
    /\ todo' = UpNow \ known
    /\ known' = known \cup UpNow
    /\ noNew' = 0 /\ hadGpu' = FALSE
    /\ pc' = "settle"
    /\ UNCHANGED <<phase, cudaSeen, cur, signals>>

(* One without: the stable signal is written once, at the required count   *)
(* (the counter is capped above it: nothing compares with more).           *)
PollClean ==
    /\ pc = "poll" /\ active
    /\ UpNow \subseteq known
    /\ children' = {c \in children : Running(c)}
    /\ noNew' = IF noNew <= ScanStable THEN noNew + 1 ELSE noNew
    /\ signals' = IF noNew + 1 = ScanStable THEN signals \cup {"system_stable"} ELSE signals
    /\ UNCHANGED <<pc, phase, todo, cudaSeen, cur, known, hadGpu>>

Settle ==
    /\ pc = "settle"
    /\ pc' = "pick"
    /\ UNCHANGED <<phase, todo, cudaSeen, cur, known, children, noNew, hadGpu, signals>>

(* A slip: the libraries of an earlier scan instead of a second look.      *)
SlipLoopTake(p) ==
    /\ pc = "pick" /\ phase = "loop" /\ p \in todo
    /\ todo' = todo \ {p}
    /\ IF Up(p) /\ p \in cudaSeen
         THEN cur' = p /\ pc' = "handle" /\ hadGpu' = TRUE
         ELSE UNCHANGED <<cur, pc, hadGpu>>
    /\ UNCHANGED <<phase, cudaSeen, known, children, noNew, signals>>

(* A process of the batch: gone, without CUDA context, or to be handled.   *)
LoopTake(p) ==
    /\ pc = "pick" /\ phase = "loop" /\ p \in todo
    /\ todo' = todo \ {p}
    /\ IF Up(p) /\ cuda[p] = "context"
         THEN cur' = p /\ pc' = "handle" /\ hadGpu' = TRUE
         ELSE UNCHANGED <<cur, pc, hadGpu>>
    /\ UNCHANGED <<phase, cudaSeen, known, children, noNew, signals>>

LoopDone ==
    /\ pc = "pick" /\ phase = "loop" /\ todo = {}
    /\ pc' = IF hadGpu THEN "signal" ELSE "poll"
    /\ UNCHANGED <<phase, todo, cudaSeen, cur, known, children, noNew, hadGpu, signals>>

SignalAgain ==
    /\ pc = "signal"
    /\ pc' = "poll"
    /\ signals' = signals \cup {"system_stable"}
    /\ UNCHANGED <<phase, todo, cudaSeen, cur, known, children, noNew, hadGpu>>

-----------------------------------------------------------------------------
(* _handle_gpu_process and _handle_standalone_gpu_process.                 *)
SlipLeftAlone(p) ==     \* slip: an nsys ancestor is not looked for
    \/ Is(p, "container")
    \/ Disabled
    \/ LaunchAncestor(p)

LeftAlone(p) ==
    \/ Is(p, "container")
    \/ Disabled
    \/ LaunchAncestor(p)
    \/ NsysAncestor(p)

Handle ==
    /\ pc = "handle"
    /\ pc' = IF LeftAlone(cur) THEN "pick" ELSE "kill"
    /\ UNCHANGED <<phase, todo, cudaSeen, cur, known, children, noNew, hadGpu, signals>>

SlipKill ==     \* slip: a process that does not heed SIGTERM is left running
    /\ pc = "kill"
    /\ pc' = "launch"
    /\ UNCHANGED <<state, phase, todo, cudaSeen, cur, known, children, noNew, hadGpu, signals>>

(* kill_process: a process that has vanished counts as killed.             *)
Kill ==
    /\ pc = "kill"
    /\ IF Up(cur) /\ Is(cur, "denied")
         THEN pc' = "pick" /\ UNCHANGED state
         ELSE pc' = "launch" /\ state' = [state EXCEPT ![cur] = "gone"]
    /\ UNCHANGED <<phase, todo, cudaSeen, cur, known, children, noNew, hadGpu, signals>>

NextRun(p) == {q \in Processes : q[1] = p[1] /\ state[q] = "unborn"
                                   /\ \A r \in Processes : r[1] = p[1] /\ r[2] < q[2] => state[r] # "unborn"}

(* relaunch_with_nsys after the kill: nsys is started, or cannot be and    *)
(* the node is lost.                                                       *)
Launch ==
    /\ pc = "launch"
    /\ \E q \in NextRun(cur) :
         /\ state' = [state EXCEPT ![q] = "starting"]
         /\ children' = children \cup {q}
         /\ cur' = q
    /\ pc' = "register"
    /\ UNCHANGED <<phase, todo, cudaSeen, known, noNew, hadGpu, signals>>

LaunchFails ==
    /\ pc = "launch"
    /\ pc' = "pick"
    /\ UNCHANGED <<state, phase, todo, cudaSeen, cur, known, children, noNew, hadGpu, signals>>

(* register_nsys_process_tree: the tree, as far as nsys has forked it, and *)
(* whatever else maps a CUDA library at that moment.                       *)
Registered == {p \in UpNow : HasLibs(p)}

Register ==
    /\ pc = "register"
    /\ known' = known \cup ({cur} \cap UpNow) \cup Registered
    /\ pc' = "pick"
    /\ UNCHANGED <<phase, todo, cudaSeen, cur, children, noNew, hadGpu, signals>>

-----------------------------------------------------------------------------
(* The application and the session.                                        *)
Start(n) ==
    /\ state[<<n, 1>>] = "unborn"
    /\ state' = [state EXCEPT ![<<n, 1>>] = "up"]
    /\ \E c \in FirstStage : cuda' = [cuda EXCEPT ![<<n, 1>>] = c]
    /\ UNCHANGED <<daemonVars, traits, active>>

NsysForks(p) ==
    /\ state[p] = "starting"
    /\ state' = [state EXCEPT ![p] = "up"]
    /\ \E c \in FirstStage : cuda' = [cuda EXCEPT ![p] = c]
    /\ UNCHANGED <<daemonVars, traits, active>>

CudaProgress(p) ==
    /\ Up(p) /\ cuda[p] # "context"
    /\ cuda' = [cuda EXCEPT ![p] = IF @ = "none" THEN "linked" ELSE "context"]
    /\ UNCHANGED <<daemonVars, traits, state, active>>

Ends(p) ==
    /\ Running(p)
    /\ state' = [state EXCEPT ![p] = "gone"]
    /\ UNCHANGED <<daemonVars, traits, cuda, active>>

SessionEnds ==
    /\ active
    /\ active' = FALSE
    /\ UNCHANGED <<daemonVars, traits, state, cuda>>

-----------------------------------------------------------------------------
Quiet ==
    \/ InitialScan \/ InitialDone \/ EndReplay
    \/ \E p \in Processes : InitialTake(p) \/ LoopTake(p)
    \/ PollNew \/ PollClean \/ Settle \/ LoopDone \/ SignalAgain
    \/ Handle \/ Register

Relaunch == Kill \/ Launch \/ LaunchFails

Daemon == (Quiet /\ UNCHANGED procVars) \/ (Relaunch /\ UNCHANGED <<traits, cuda, active>>)

Application ==
    \/ \E n \in Nodes : Start(n)
    \/ \E p \in Processes : NsysForks(p) \/ CudaProgress(p) \/ Ends(p)
    \/ SessionEnds

Next == Daemon \/ Application

Spec == Init /\ [][Next]_vars

(* The daemon keeps running and a replay ends; nothing is promised of the  *)
(* application and the session.                                            *)
FairSpec == Spec /\ WF_vars(Daemon)

-----------------------------------------------------------------------------
(* A standalone process of the user, the only kind the daemon is after.    *)
Standalone(p) ==
    /\ p[2] = 1
    /\ traits[p[1]] \cap {"container", "launch", "wrapped"} = {}
    /\ ~Disabled

Candidate(p) == Standalone(p) /\ ~Is(p, "denied")

(* SAFETY.  Kill and relaunch never leave two processes of one node        *)
(* running, whatever ends, starts or is scanned in between.                *)
OneRunAtATime ==
    \A p, q \in Processes : p[1] = q[1] /\ Running(p) /\ Running(q) => p = q

(* SAFETY.  What the daemon has started and is still running is in         *)
(* nsys_children, so graceful_stop_nsys will have its report written.      *)
CopiesAreOwned ==
    \A p \in Processes : p[2] > 1 /\ Running(p) => p \in children

(* SAFETY.  gpu_handler_complete (the replay waits for it) is not written  *)
(* before every standalone GPU process of the initial scan has been        *)
(* stopped or has ended by itself.                                         *)
HandlingPrecedesSignals ==
    "gpu_handler_complete" \in signals => \A p \in cudaSeen : Candidate(p) => ~Up(p)

(* ACTION.  What runs under nsys, started there by launch_wrap or run      *)
(* again by the daemon, is not killed, however late it shows up in a scan  *)
(* and whatever the registration of its tree has missed ("the re-launched  *)
(* copies never produced events", ancestor_is_nsys); nor is a container,   *)
(* nor anything while FISH_NSYS_DISABLE is set.                            *)
UnderNsysIsLeftAlone ==
    [][pc = "kill" /\ pc' = "launch" /\ Up(cur) =>
          cur[2] = 1 /\ traits[cur[1]] \cap {"container", "wrapped"} = {} /\ ~Disabled]_vars

(* LIVENESS.  A GPU process that waits for its turn in a batch gets it:    *)
(* a standalone one does not stay up without nsys.                         *)
SeenIsHandled ==
    \A p \in Processes :
        (p \in todo /\ Candidate(p) /\ IF phase = "initial" THEN p \in cudaSeen ELSE cuda[p] = "context")
            ~> ~Up(p)

(* gpu.py:238-240: "The daemon's kill+relaunch path is for processes       *)
(* started OUTSIDE the launch tree".                                       *)
LaunchOwnedIsNeverRelaunched ==
    [][pc = "launch" /\ pc' = "register" => ~Is(cur, "launch")]_vars

(* docs/operating_modes.md:78: kill and resurrect "is what `ros2 run' and  *)
(* any process the launch inspector did not recognise get".  The code      *)
(* leaves such a process of the launch system alone                        *)
(* (GpuDaemonUnrecognised.cfg).                                            *)
UnrecognisedIsRelaunched ==
    \A p \in Processes :
        (p \in todo /\ phase = "loop" /\ cuda[p] = "context" /\ traits[p[1]] = {"launch"} /\ p[2] = 1) ~> ~Up(p)
=============================================================================
