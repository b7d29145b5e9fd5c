------------------------------ MODULE Mission ------------------------------
(***************************************************************************)
(* fish_orchestrator.py: a mission over several containers.  It may launch *)
(* them, waits until FISH has settled in them, runs the actions of the     *)
(* mission file, stops FISH in every container, waits a little, copies     *)
(* the traces out, stops the containers if it is told to and ends the      *)
(* launch script.  The first interrupt skips the rest of the actions, the  *)
(* second one ends the program where it is.                                *)
(*                                                                         *)
(* Every container has at most one trace session of this mission, which    *)
(* something in the container starts at any time and may also stop (its    *)
(* launch ends, its daemon stops it after a replay); what goes on in there *)
(* is the subject of TraceSession, NsysStop and StopLock.  Here a stop     *)
(* takes any time, a second one waits for the first, and a container that  *)
(* goes down takes a stop under way along.  The containers of one phase    *)
(* are handled one after the other, here in any order.  host_trace_path is *)
(* never read from the mission file, so traces are always copied with      *)
(* docker cp.                                                              *)
(***************************************************************************)
EXTENDS Naturals, Sequences, FiniteSets

CONSTANTS
    Containers,
    Fish,           \* those with `fish: true'
    Older,          \* those that still hold a session of an earlier run
    Targets,        \* finish.fish_stop
    Awaited,        \* ready.fish_stable
    Actions,        \* the actions of the mission, as a sequence of "timed" and "parallel"
    Launches,       \* may there be a launch.command, and may there be none?
    StopContainers, \* finish.stop_containers
    MaxFailures     \* bound: the containers that go down by themselves

ASSUME MissionAssumption ==
    /\ IsFiniteSet(Containers)
    /\ Fish \subseteq Containers /\ Older \subseteq Fish
    /\ Targets \subseteq Containers /\ Awaited \subseteq Containers
    /\ Actions \in Seq({"timed", "parallel"})
    /\ Launches \subseteq BOOLEAN /\ StopContainers \in BOOLEAN
    /\ MaxFailures \in Nat

VARIABLES
    running,        \* the containers that are up
    session,        \* of each: "none", "live", "stopping", "done" or "cut", the session of this mission
    daemon,         \* those whose daemon runs
    signals,        \* those with a file that says that the system is stable
    failures,       \* how many containers have gone down
    launching,      \* does the mission file have a launch.command?
    pc,             \* where the orchestrator is
    todo,           \* the containers that have not had their turn in this phase
    cur,            \* the one whose turn it is, or None
    daemonSeen,     \* daemon_seen of wait_fish_stable
    ready,          \* what wait_fish_stable said of each: "unknown", "signal", "daemon" or "not"
    action, acting, \* how many actions have been begun, and is one under way?
    interrupts,     \* how many SIGINTs have come
    asked,          \* of each, its `fish stop': "no", "sent" (docker exec is called, nothing has begun),
                    \* "idle" (it has found no session to stop) or "working"
    confirmed,      \* those whose fish_stop returned success
    source,         \* what docker cp copies: "older", "part" or "whole", the session as it is
    copied          \* of each: what is in the compose session: "nothing", "unfinished" (a copy under
                    \* way, failed or broken off) or what was copied to its end

worldVars == <<running, session, daemon, signals, failures, launching>>
resultVars == <<asked, ready, confirmed, source, copied>>
vars == <<running, session, daemon, signals, failures, launching, pc, todo, cur, daemonSeen,
          ready, action, acting, interrupts, asked, confirmed, source, copied>>

None == "no container"
Waiting == {"up", "stable", "actions", "stop", "settle", "collect", "cleanup", "terminate"}
Ended == {"over", "aborted", "killed"}
Interrupted == interrupts > 0

TypeOK ==
    /\ running \subseteq Containers /\ daemon \subseteq Containers /\ signals \subseteq Containers
    /\ session \in [Containers -> {"none", "live", "stopping", "done", "cut"}]
    /\ failures \in 0..MaxFailures
    /\ launching \in Launches
    /\ pc \in {"start"} \cup Waiting \cup Ended
    /\ todo \subseteq Containers /\ cur \in Containers \cup {None}
    /\ daemonSeen \in BOOLEAN
    /\ ready \in [Containers -> {"unknown", "signal", "daemon", "not"}]
    /\ action \in 0..Len(Actions) /\ acting \in BOOLEAN /\ interrupts \in 0..1
    /\ asked \in [Containers -> {"no", "sent", "idle", "working"}]
    /\ confirmed \subseteq Containers
    /\ source \in {"older", "part", "whole"}
    /\ copied \in [Containers -> {"nothing", "unfinished", "older", "part", "whole"}]

(* What an earlier run has left: its session directories, and the signal   *)
(* files of one that was not stopped.                                      *)
Init ==
    /\ running \in SUBSET Containers
    /\ session = [c \in Containers |-> "none"]
    /\ daemon = {} /\ signals \in SUBSET Older /\ failures = 0
    /\ launching \in Launches
    /\ pc = "start" /\ todo = {} /\ cur = None /\ daemonSeen = FALSE
    /\ ready = [c \in Containers |-> "unknown"]
    /\ action = 0 /\ acting = FALSE /\ interrupts = 0
    /\ asked = [c \in Containers |-> "no"] /\ confirmed = {}
    /\ source = "older" /\ copied = [c \in Containers |-> "nothing"]

-----------------------------------------------------------------------------
(* The containers.                                                         *)
programVars == <<launching, pc, todo, cur, daemonSeen, ready, action, acting, interrupts,
                 confirmed, source, copied>>
orchestratorVars == <<programVars, asked>>

ContainerUp(c) ==
    /\ launching /\ pc = "up" /\ c \notin running
    /\ running' = running \cup {c}
    /\ UNCHANGED <<session, daemon, signals, failures, orchestratorVars>>

Down(gone) ==
    /\ running' = running \ gone /\ daemon' = daemon \ gone
    /\ session' = [c \in Containers |->
                      IF c \in gone /\ session[c] \in {"live", "stopping"} THEN "cut" ELSE session[c]]
    /\ UNCHANGED signals

ContainerDown(c) ==
    /\ c \in running /\ failures < MaxFailures
    /\ Down({c}) /\ failures' = failures + 1
    /\ UNCHANGED orchestratorVars

SessionStart(c) ==
    /\ c \in running \cap Fish /\ session[c] = "none"
    /\ session' = [session EXCEPT ![c] = "live"] /\ daemon' = daemon \cup {c}
    /\ UNCHANGED <<running, signals, failures, orchestratorVars>>

Settled(c) ==
    /\ c \in daemon /\ session[c] = "live" /\ c \notin signals
    /\ signals' = signals \cup {c}
    /\ UNCHANGED <<running, session, daemon, failures, orchestratorVars>>

OwnStop(c) ==
    /\ c \in running /\ session[c] = "live"
    /\ session' = [session EXCEPT ![c] = "stopping"]
    /\ UNCHANGED <<running, daemon, signals, failures, orchestratorVars>>

StopDone(c) ==
    /\ session[c] = "stopping"
    /\ session' = [session EXCEPT ![c] = "done"]
    /\ daemon' = daemon \ {c} /\ signals' = signals \ {c}
    /\ UNCHANGED <<running, failures, orchestratorVars>>

(* The command that docker exec was told to run begins, perhaps after its  *)
(* caller has given up.                                                    *)
StopBegins(c) ==
    /\ asked[c] = "sent" /\ c \in running
    /\ IF session[c] \in {"live", "stopping"}
         THEN /\ asked' = [asked EXCEPT ![c] = "working"]
              /\ session' = [session EXCEPT ![c] = "stopping"]
         ELSE asked' = [asked EXCEPT ![c] = "idle"] /\ UNCHANGED session
    /\ UNCHANGED <<running, daemon, signals, failures, programVars>>

-----------------------------------------------------------------------------
(* The orchestrator.  A phase begins with the containers it handles.       *)
Phase(from, to, containers) ==
    /\ pc = from /\ pc' = to
    /\ todo' = containers /\ cur' = None
    /\ UNCHANGED <<daemonSeen, acting, interrupts>>

Begin ==
    /\ IF launching THEN Phase("start", "up", {})
       ELSE IF Containers \subseteq running THEN Phase("start", "stable", Awaited)
       ELSE Phase("start", "aborted", {})
    /\ UNCHANGED <<worldVars, action, resultVars>>

(* wait_for_containers.  An interrupt or the timeout ends the mission, and *)
(* only the launch script is terminated, which takes its containers along. *)
AllUp ==
    /\ Containers \subseteq running /\ ~Interrupted
    /\ Phase("up", "stable", Awaited)
    /\ UNCHANGED <<worldVars, action, resultVars>>

Abort ==
    /\ Interrupted \/ ~(Containers \subseteq running)
    /\ Phase("up", "aborted", {})
    /\ Down(running) /\ UNCHANGED <<failures, launching, action, resultVars>>

(* The next container of the phase.                                        *)
Take(phase, c) ==
    /\ pc = phase /\ cur = None /\ c \in todo
    /\ todo' = todo \ {c}
    /\ UNCHANGED <<pc, action, interrupts>>

PhaseOver == todo = {} /\ cur = None

(* wait_fish_stable: a signal file, or at the timeout a daemon that has    *)
(* been seen; the mission goes on whatever it says.                        *)
AwaitStable(c) ==
    /\ Take("stable", c) /\ cur' = c /\ daemonSeen' = FALSE
    /\ UNCHANGED <<worldVars, acting, resultVars>>

SeeDaemon ==
    /\ pc = "stable" /\ cur \in daemon \ signals /\ ~daemonSeen /\ ~Interrupted
    /\ daemonSeen' = TRUE
    /\ UNCHANGED <<worldVars, pc, todo, cur, action, acting, interrupts, resultVars>>

Verdicts ==
    IF Interrupted THEN {"not"}
    ELSE (IF cur \in running \cap signals THEN {"signal"} ELSE {})
         \cup (IF daemonSeen THEN {"daemon"} ELSE {"not"})

StableOver ==
    /\ pc = "stable" /\ cur # None
    /\ \E verdict \in Verdicts : ready' = [ready EXCEPT ![cur] = verdict]
    /\ cur' = None /\ daemonSeen' = FALSE
    /\ UNCHANGED <<worldVars, pc, todo, action, acting, interrupts, asked, confirmed, source, copied>>

BeginActions ==
    /\ PhaseOver /\ Phase("stable", "actions", {})
    /\ UNCHANGED <<worldVars, action, resultVars>>

(* An action is not broken off by an interrupt, except for the commands in *)
(* the containers that get the signal as well.                             *)
BeginAction ==
    /\ pc = "actions" /\ ~acting /\ ~Interrupted /\ action < Len(Actions)
    /\ action' = action + 1 /\ acting' = TRUE
    /\ UNCHANGED <<worldVars, pc, todo, cur, daemonSeen, interrupts, resultVars>>

EndAction ==
    /\ acting /\ acting' = FALSE
    /\ UNCHANGED <<worldVars, pc, todo, cur, daemonSeen, action, interrupts, resultVars>>

SlipEndActions ==   \* slip: an interrupt skips the stop as well
    /\ ~acting /\ (Interrupted \/ action = Len(Actions))
    /\ Phase("actions", IF Interrupted THEN "settle" ELSE "stop", IF Interrupted THEN {} ELSE Targets)
    /\ action' = 0 /\ UNCHANGED <<worldVars, resultVars>>

EndActions ==
    /\ ~acting /\ (Interrupted \/ action = Len(Actions))
    /\ Phase("actions", "stop", Targets) /\ action' = 0
    /\ UNCHANGED <<worldVars, resultVars>>

(* fish_stop: docker exec is called.                                       *)
CallStop(c) ==
    /\ Take("stop", c) /\ cur' = c
    /\ asked' = [asked EXCEPT ![c] = "sent"]
    /\ UNCHANGED <<worldVars, daemonSeen, acting, ready, confirmed, source, copied>>

(* The stop in the container has come to its end, or had nothing to do.    *)
StopReturned ==
    /\ pc = "stop" /\ cur \in running
    /\ asked[cur] = "idle" \/ (asked[cur] = "working" /\ session[cur] = "done")
    /\ confirmed' = confirmed \cup {cur} /\ cur' = None
    /\ UNCHANGED <<worldVars, pc, todo, daemonSeen, action, acting, interrupts, asked, ready, source, copied>>

SlipNoTimeout ==    \* slip: fish_stop without its timeout
    /\ pc = "stop" /\ cur # None /\ cur \notin running /\ cur' = None
    /\ UNCHANGED <<worldVars, pc, todo, daemonSeen, action, acting, interrupts, resultVars>>

(* 120 s are over, the container is gone, docker exec has failed or was    *)
(* interrupted.  The stop in the container may go on, begin after all, or  *)
(* never come.                                                             *)
StopFailed ==
    /\ pc = "stop" /\ cur # None /\ cur' = None
    /\ UNCHANGED <<worldVars, pc, todo, daemonSeen, action, acting, interrupts, resultVars>>

Settle ==
    /\ PhaseOver /\ Phase("stop", "settle", {})
    /\ UNCHANGED <<worldVars, action, resultVars>>

BeginCollecting ==
    /\ Phase("settle", "collect", Fish)
    /\ UNCHANGED <<worldVars, action, resultVars>>

SlipLatest(c) == IF c \in Older THEN "older" ELSE "own"      \* slip: the first of the list, unsorted

(* find_latest_session: the newest session directory of the container.     *)
Latest(c) == IF session[c] # "none" THEN "own" ELSE IF c \in Older THEN "older" ELSE "nothing"

(* That directory is named, and docker cp called; or no directory is found *)
(* (the container is down, docker exec fails).                             *)
Collect(c) ==
    /\ Take("collect", c)
    /\ \/ /\ c \in running /\ Latest(c) # "nothing"
          /\ source' = IF Latest(c) = "older" THEN "older"
                       ELSE IF session[c] = "done" THEN "whole" ELSE "part"
          /\ copied' = [copied EXCEPT ![c] = "unfinished"] /\ cur' = c
       \/ cur' = None /\ UNCHANGED <<source, copied>>
    /\ UNCHANGED <<worldVars, daemonSeen, acting, asked, ready, confirmed>>

(* docker cp ends, or fails and leaves what it has written; its result is  *)
(* dropped, and the manifest names the session all the same.               *)
Copied ==
    /\ pc = "collect" /\ cur # None /\ cur' = None
    /\ copied' \in {copied, [copied EXCEPT ![cur] = source]} /\ source' = "older"
    /\ UNCHANGED <<worldVars, pc, todo, daemonSeen, action, acting, interrupts, asked, ready, confirmed>>

BeginCleanup ==
    /\ PhaseOver /\ Phase("collect", "cleanup", IF StopContainers THEN Containers ELSE {})
    /\ UNCHANGED <<worldVars, action, resultVars>>

(* docker stop, and at last the end of the launch script, which takes its  *)
(* containers along.                                                       *)
StopContainer(c) ==
    /\ Take("cleanup", c) /\ cur' = None
    /\ Down({c})
    /\ UNCHANGED <<failures, launching, daemonSeen, acting, resultVars>>

BeginTerminate ==
    /\ PhaseOver /\ Phase("cleanup", "terminate", {})
    /\ UNCHANGED <<worldVars, action, resultVars>>

Terminate ==
    /\ Phase("terminate", "over", {})
    /\ IF launching THEN Down(running) ELSE UNCHANGED <<running, session, daemon, signals>>
    /\ UNCHANGED <<failures, launching, action, resultVars>>

(* SIGINT: the first one is noted, the second one ends the program.        *)
Interrupt ==
    /\ pc \notin Ended
    /\ interrupts' = 1
    /\ pc' = IF Interrupted THEN "killed" ELSE pc
    /\ UNCHANGED <<worldVars, todo, cur, daemonSeen, action, acting, resultVars>>

World ==
    \E c \in Containers :
        \/ ContainerUp(c) \/ ContainerDown(c)
        \/ SessionStart(c) \/ Settled(c) \/ OwnStop(c) \/ StopBegins(c) \/ StopDone(c)

(* What the program does by itself in bounded time: every wait of it has a *)
(* timeout, but for the commands of a "parallel" action and for docker's   *)
(* own (inspect, cp, stop), which are taken to end.                        *)
Orchestrate ==
    \/ Begin \/ AllUp \/ Abort
    \/ \E c \in Containers : AwaitStable(c) \/ CallStop(c) \/ Collect(c) \/ StopContainer(c)
    \/ StableOver \/ BeginActions \/ BeginAction \/ EndActions
    \/ StopReturned \/ StopFailed \/ Settle \/ BeginCollecting \/ Copied \/ BeginCleanup
    \/ BeginTerminate \/ Terminate

Next == World \/ Orchestrate \/ SeeDaemon \/ EndAction \/ Interrupt

Spec ==
    /\ Init /\ [][Next]_vars /\ WF_vars(Orchestrate)
    /\ WF_vars(EndAction /\ (Interrupted \/ Actions[action] = "timed"))

-----------------------------------------------------------------------------
(* a container in which fish_stop has found a session and stopped it *)
Stopped(c) == c \in confirmed /\ asked[c] = "working"

(* fish_stop may give up, and the traces are copied all the same.  But a   *)
(* container whose session was reported as stopped never has half of that  *)
(* session copied to its end, nor an old one in place of it, whatever else *)
(* goes on in there: it is copied whole, or the copy failed.               *)
ConfirmedIsWhole ==
    \A c \in Containers : Stopped(c) => copied[c] \notin {"part", "older"}

(* No session is forgotten: whatever was interrupted, timed out or went    *)
(* down, once the program has waited for the reports a target records on   *)
(* only if docker exec has not got through to it, which fish_stop has not  *)
(* reported as a success, or if its session began after its stop.          *)
EverySessionIsStopped ==
    pc \in {"settle", "collect", "cleanup", "terminate", "over"} =>
        \A c \in Targets : session[c] = "live" =>
            (asked[c] = "sent" /\ c \notin confirmed) \/ asked[c] = "idle"

(* docker stop and the end of the launch never cut a session short that    *)
(* was reported as stopped.                                                *)
CutOnlyUnconfirmed ==
    [][\A c \in Containers :
          session[c] # "cut" /\ session'[c] = "cut" => ~Stopped(c)]_vars

(* A mission that has been interrupted comes to its end, and so does one   *)
(* whose actions all have timeouts.                                        *)
MissionEnds ==
    Interrupted \/ (\A i \in 1..Len(Actions) : Actions[i] = "timed") ~> pc \in Ended
=============================================================================
