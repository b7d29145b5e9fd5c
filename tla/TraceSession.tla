---------------------------- MODULE TraceSession ----------------------------
(***************************************************************************)
(* Who starts and stops the trace session: the ros2 and launch_test        *)
(* wrappers and trace_session.sh (both written by scripts/install_fish.sh).*)
(* Every wrapper calls `start' and `inc', runs its node and calls `dec';   *)
(* the last dec stops the session.  An operator may call `stop' at any     *)
(* moment, and so does a wrapper that is terminated.                       *)
(*                                                                         *)
(* The calls are processes of their own that share the counter file, the   *)
(* name file (and the directory file, written and removed with it) and the *)
(* stop lock.  An LTTng session is named after the wrapper that creates    *)
(* it: two wrappers of the same second are not distinguished by the code.  *)
(* The stop lock is taken and released as one step each here (module       *)
(* StopLock has its parts), and a stop is not killed.  A wrapper that is   *)
(* killed takes its node along; a call it has under way completes.         *)
(* Nothing orders the calls, and some orders lose a session, a count or a  *)
(* lock; `raced' remembers that one of them has come up.                   *)
(* The stop of the daemon itself (auto_stop) is not among the callers:     *)
(* then the daemon outlives the stop and exits when it returns.            *)
(***************************************************************************)
EXTENDS Integers, FiniteSets

CONSTANTS
    Wrappers,   \* runs of the ros2 or launch_test wrapper
    Stoppers,   \* calls of `ros2 run fish stop'
    MaxKills,   \* bound: how many wrappers are killed
    PastRaces,  \* bound: is a run followed after its calls have raced?
    None

Callers == Wrappers \cup Stoppers

ASSUME SessionAssumption ==
    /\ IsFiniteSet(Wrappers) /\ Wrappers \cap Stoppers = {}
    /\ MaxKills \in Nat /\ PastRaces \in BOOLEAN
    /\ None \notin Callers /\ None \notin Int

VARIABLES
    pc,         \* where each caller is
    count,      \* COUNT, as each wrapper has read it
    counter,    \* /tmp/fish_session_count, or None
    nameFile,   \* /tmp/fish_session_name, or None
    session,    \* the LTTng session that each wrapper may create
    lock,       \* who holds the stop lock, or None
    daemon,     \* does the FISH daemon run?
    explicit,   \* history: has anyone asked for a stop, other than the last dec?
    raced,      \* history: has the order of two calls been one that the scripts do not stand?
    kills       \* how many wrappers have been killed

fileVars == <<counter, nameFile, lock>>
historyVars == <<explicit, raced, kills>>
vars == <<pc, count, counter, nameFile, session, lock, daemon, explicit, raced, kills>>

Creating == {"name", "unlock", "create", "daemon"}
Entering == Creating \cup {"started", "incWrite"}
Stopping == {"freeze", "stopDaemon", "destroy", "cleanup", "release"}
AtWork == {"stop"} \cup Stopping
InStop == {"waiting"} \cup AtWork
Over == {"over", "killed"}

TypeOK ==
    /\ pc \in [Callers -> {"idle", "running", "decWrite"} \cup Entering \cup InStop \cup Over]
    /\ count \in [Wrappers -> Int]
    /\ counter \in Int \cup {None}
    /\ nameFile \in Wrappers \cup {None}
    /\ session \in [Wrappers -> {"none", "live", "frozen", "destroyed"}]
    /\ lock \in Callers \cup {None}
    /\ daemon \in BOOLEAN /\ explicit \in BOOLEAN /\ raced \in BOOLEAN
    /\ kills \in 0..MaxKills

Init ==
    /\ pc = [p \in Callers |-> "idle"]
    /\ count = [w \in Wrappers |-> 0]
    /\ counter = None /\ nameFile = None
    /\ session = [w \in Wrappers |-> "none"]
    /\ lock = None /\ daemon = FALSE
    /\ explicit = FALSE /\ raced = FALSE /\ kills = 0

(* The orders that the scripts do not stand: a start while another one is  *)
(* creating the session, a start while a stop is at work and a stop while  *)
(* a wrapper is entering, and an update of the counter over another one.   *)
Others(p, labels) == \E q \in Callers \ {p} : pc[q] \in labels
RacedIf(race) == raced' = (raced \/ race)

Goto(p, from, to) == pc[p] = from /\ pc' = [pc EXCEPT ![p] = to]
Exists(s) == s # None /\ session[s] \in {"live", "frozen"}     \* lttng list

-----------------------------------------------------------------------------
(* Operators named Slip... are plausible slips in the code; no action uses *)
(* them, they show that the properties notice.                             *)
SlipCheck(w) ==     \* slip: what the name file says is not asked for
    /\ Goto(w, "idle", "name") /\ RacedIf(Others(w, Creating \cup AtWork))
    /\ UNCHANGED <<count, fileVars, session, daemon, explicit, kills>>

(* start_session *)
Check(w) ==
    /\ Goto(w, "idle", IF Exists(nameFile) THEN "started" ELSE "name")
    /\ RacedIf(Others(w, Creating \cup AtWork))
    /\ UNCHANGED <<count, fileVars, session, daemon, explicit, kills>>

WriteName(w) ==
    /\ Goto(w, "name", "unlock")
    /\ nameFile' = w
    /\ UNCHANGED <<count, counter, session, lock, daemon, historyVars>>

(* "stale stop lock from a previous session"; it may be a fresh one *)
ClearLock(w) ==
    /\ Goto(w, "unlock", "create")
    /\ lock' = None
    /\ UNCHANGED <<count, counter, nameFile, session, daemon, historyVars>>

CreateSession(w) ==
    /\ Goto(w, "create", "daemon")
    /\ session' = [session EXCEPT ![w] = "live"]
    /\ UNCHANGED <<count, fileVars, daemon, historyVars>>

StartDaemon(w) ==
    /\ Goto(w, "daemon", "started")
    /\ daemon' = TRUE
    /\ UNCHANGED <<count, fileVars, session, historyVars>>

Start(w) == Check(w) \/ WriteName(w) \/ ClearLock(w) \/ CreateSession(w) \/ StartDaemon(w)

(* increment_counter and decrement_counter: read, then write.  The file is  *)
(* empty for a moment when it is written, and an empty one counts as 0.     *)
Value(absent) == IF counter = None THEN absent ELSE counter
Reads(w, absent) ==
    \E n \in {Value(absent)} \cup {z \in {0} : Others(w, {"incWrite", "decWrite"})} :
        count' = [count EXCEPT ![w] = n]

IncRead(w) ==
    /\ Goto(w, "started", "incWrite")
    /\ Reads(w, 0)
    /\ UNCHANGED <<fileVars, session, daemon, historyVars>>

SlipIncWrite(w) ==  \* slip: the count is written as it was read
    /\ Goto(w, "incWrite", "running")
    /\ counter' = count[w] /\ RacedIf(count[w] # Value(0))
    /\ UNCHANGED <<count, nameFile, session, lock, daemon, explicit, kills>>

IncWrite(w) ==
    /\ Goto(w, "incWrite", "running")
    /\ counter' = count[w] + 1 /\ RacedIf(count[w] # Value(0))
    /\ UNCHANGED <<count, nameFile, session, lock, daemon, explicit, kills>>

(* the node has ended and dec begins *)
DecRead(w) ==
    /\ Goto(w, "running", "decWrite")
    /\ Reads(w, 1)
    /\ UNCHANGED <<fileVars, session, daemon, historyVars>>

SlipDecWrite(w) ==  \* slip: the session is stopped below 0 only
    /\ Goto(w, "decWrite", IF count[w] < 1 THEN "stop" ELSE "over")
    /\ counter' = count[w] - 1
    /\ RacedIf(count[w] # Value(1) \/ (count[w] < 1 /\ Others(w, Entering)))
    /\ UNCHANGED <<count, nameFile, session, lock, daemon, explicit, kills>>

DecWrite(w) ==
    /\ Goto(w, "decWrite", IF count[w] <= 1 THEN "stop" ELSE "over")
    /\ counter' = count[w] - 1
    /\ RacedIf(count[w] # Value(1) \/ (count[w] <= 1 /\ Others(w, Entering)))
    /\ UNCHANGED <<count, nameFile, session, lock, daemon, explicit, kills>>

Counting(w) == IncRead(w) \/ IncWrite(w) \/ DecRead(w) \/ DecWrite(w)

-----------------------------------------------------------------------------
(* stop_session, called by the last dec, by a wrapper's trap or by others. *)
AskForStop(s) ==
    /\ s \in Stoppers
    /\ Goto(s, "idle", "stop")
    /\ explicit' = TRUE /\ RacedIf(Others(s, Entering))
    /\ UNCHANGED <<count, fileVars, session, daemon, kills>>

(* SIGTERM or SIGINT to a wrapper: stop, and exit without dec.  One that   *)
(* arrives during dec has a stop follow it, as AskForStop does.            *)
Trap(w) ==
    /\ w \in Wrappers
    /\ pc[w] \in {"started", "running"} /\ pc' = [pc EXCEPT ![w] = "stop"]
    /\ explicit' = TRUE /\ RacedIf(Others(w, Entering))
    /\ UNCHANGED <<count, fileVars, session, daemon, kills>>

Enter(p) ==
    /\ pc[p] = "stop"
    /\ IF lock = None
         THEN lock' = p /\ pc' = [pc EXCEPT ![p] = "freeze"]
         ELSE lock' = lock /\ pc' = [pc EXCEPT ![p] = "waiting"]
    /\ UNCHANGED <<count, counter, nameFile, session, daemon, historyVars>>

(* the stop of someone else is over *)
Waited(p) ==
    /\ lock = None
    /\ Goto(p, "waiting", "over")
    /\ UNCHANGED <<count, fileVars, session, daemon, historyVars>>

Freeze(p) ==
    /\ Goto(p, "freeze", "stopDaemon")
    /\ session' = IF Exists(nameFile) THEN [session EXCEPT ![nameFile] = "frozen"] ELSE session
    /\ UNCHANGED <<count, fileVars, daemon, historyVars>>

SlipStopDaemon(p) ==    \* slip: the daemon is left to the next session
    /\ Goto(p, "stopDaemon", "destroy")
    /\ UNCHANGED <<count, fileVars, session, daemon, historyVars>>

StopDaemon(p) ==
    /\ Goto(p, "stopDaemon", "destroy")
    /\ daemon' = FALSE
    /\ UNCHANGED <<count, fileVars, session, historyVars>>

(* the name is read again *)
Destroy(p) ==
    /\ Goto(p, "destroy", "cleanup")
    /\ session' = IF Exists(nameFile) THEN [session EXCEPT ![nameFile] = "destroyed"] ELSE session
    /\ UNCHANGED <<count, fileVars, daemon, historyVars>>

SlipCleanup(p) ==       \* slip: the counter file is not removed
    /\ Goto(p, "cleanup", "release")
    /\ nameFile' = None
    /\ UNCHANGED <<count, counter, session, lock, daemon, historyVars>>

Cleanup(p) ==
    /\ Goto(p, "cleanup", "release")
    /\ counter' = None /\ nameFile' = None
    /\ UNCHANGED <<count, session, lock, daemon, historyVars>>

(* the RETURN trap removes the lock directory, whoever owns it by now *)
Release(p) ==
    /\ Goto(p, "release", "over")
    /\ lock' = None
    /\ UNCHANGED <<count, counter, nameFile, session, daemon, historyVars>>

Stop(p) ==
    \/ Enter(p) \/ Waited(p) \/ Freeze(p) \/ StopDaemon(p)
    \/ Destroy(p) \/ Cleanup(p) \/ Release(p)

-----------------------------------------------------------------------------
(* SIGKILL, or SIGTERM before the trap is set *)
Kill(w) ==
    /\ kills < MaxKills
    /\ pc[w] \in {"started", "running"}
    /\ pc' = [pc EXCEPT ![w] = "killed"]
    /\ kills' = kills + 1
    /\ UNCHANGED <<count, fileVars, session, daemon, explicit, raced>>

Next ==
    /\ PastRaces \/ ~raced
    /\ \/ \E w \in Wrappers : Start(w) \/ Counting(w) \/ Trap(w) \/ Kill(w)
       \/ \E s \in Stoppers : AskForStop(s)
       \/ \E p \in Callers : Stop(p)

Spec == Init /\ [][Next]_vars

-----------------------------------------------------------------------------
(* SAFETY.  Until somebody asks for a stop, every node that has been       *)
(* counted runs under a live session: neither a dec nor the death of a     *)
(* wrapper takes the session away from the nodes of the others, whatever   *)
(* is under way together that does not race.                               *)
NodesAreTraced ==
    ~explicit /\ ~raced /\ (\E w \in Wrappers : pc[w] = "running") =>
        Exists(nameFile) /\ session[nameFile] = "live" /\ daemon

(* SAFETY.  docs/operating_modes.md:32: "On exit `trace_session.sh dec' -> *)
(* the last `dec' stops the session".  When all calls are over, no wrapper *)
(* was killed and no calls have raced, no session and no daemon are left,  *)
(* whatever stops and new sessions came in between.                        *)
Quiet == (\A w \in Wrappers : pc[w] \in {"idle", "over"}) /\ (\A s \in Stoppers : pc[s] \in {"idle", "over"})
NothingLeft == ~daemon /\ \A s \in Wrappers : ~Exists(s)
LastDecStops == kills = 0 /\ ~raced /\ Quiet => NothingLeft

(* SAFETY.  There is one LTTng session at a time, and it can be found:     *)
(* the stop that is to destroy it reads its name in the file.              *)
SessionCanBeFound ==
    ~raced => \A s \in Wrappers : Exists(s) => nameFile = s

(* What the sentence of operating_modes.md says of any wrappers: two that  *)
(* read the counter before either has written it lose a count.             *)
LastDecAlwaysStops == kills = 0 /\ Quiet => NothingLeft
=============================================================================
