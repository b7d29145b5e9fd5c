-------------------------- MODULE DaemonSingleton --------------------------
(***************************************************************************)
(* start_daemon, stop_daemon and daemon_status of python/fish/gpu.py: how  *)
(* the FISH daemon is kept single with a flock on /tmp/fish_daemon.lock    *)
(* and a pid file /tmp/fish_daemon_pid.                                    *)
(*                                                                         *)
(* A file is a path and an inode: unlinking the lock file leaves the lock  *)
(* on the old inode, and a write through an open descriptor goes to the    *)
(* inode that was opened.  A flock belongs to the open file description,   *)
(* which the forked daemon shares with the starter.  Inodes are named      *)
(* after the starter that created them, daemons after the starter that     *)
(* forked them.                                                            *)
(*                                                                         *)
(* Calls of every kind overlap.  The history variable raced, which no      *)
(* action reads, notes that one of the three races of the code has         *)
(* happened: a start got the flock while another still had to write its    *)
(* pid; a pid file was removed that another daemon needs; the lock file    *)
(* was removed under a start.                                              *)
(*                                                                         *)
(* Operators named Slip... are plausible slips in the code; no action uses *)
(* them, they show that the properties notice.                             *)
(***************************************************************************)
CONSTANTS
    Starters,   \* calls of start_daemon
    Stoppers,   \* calls of stop_daemon
    Watchers,   \* calls of daemon_status
    Impatient,  \* the stoppers that a daemon may outlive by nsys_report_timeout + 10 s
    None

Callers == Starters \cup Stoppers \cup Watchers

ASSUME DaemonAssumption ==
    /\ Starters \cap Stoppers = {} /\ Starters \cap Watchers = {} /\ Stoppers \cap Watchers = {}
    /\ None \notin Callers
    /\ Impatient \subseteq Stoppers

VARIABLES
    pc,         \* where each call is
    seen,       \* the pid each call has read from the pid file, while it uses it
    lockPath,   \* inode of FISH_DAEMON_LOCK_FILE, or None
    held,       \* who holds the flock on each inode of the lock file
    lockFd,     \* the inode each starter has open as the lock file
    pidFile,    \* FISH_DAEMON_PID_FILE: its inode, or None, and the pid in it
    pidFd,      \* the inode each starter writes its daemon's pid to
    daemon,     \* life of each starter's daemon
    raced       \* history: has one of the three races happened?

daemonVars == <<pc, seen, lockPath, held, lockFd, pidFile, pidFd, daemon, raced>>

Labels == {"idle", "flock", "exists", "read", "probe", "unlink", "fork", "open", "write",
           "unlock", "kill", "wait", "rmPid", "rmLock", "over"}

NoFile == [ino |-> None, text |-> None]
Maybe(S) == S \cup {None}

TypeOK ==
    /\ pc \in [Callers -> Labels]
    /\ seen \in [Callers -> Maybe(Starters)]
    /\ lockPath \in Maybe(Starters)
    /\ held \in [Starters -> Maybe(Starters)]
    /\ lockFd \in [Starters -> Maybe(Starters)]
    /\ pidFile \in [ino : Maybe(Starters), text : Maybe(Starters)]
    /\ pidFd \in [Starters -> Maybe(Starters)]
    /\ daemon \in [Starters -> {"none", "forked", "boot", "loop", "flush", "unpid",
                               "again", "leaving", "dead"}]
    /\ raced \in BOOLEAN

Init ==
    /\ pc = [p \in Callers |-> "idle"]
    /\ seen = [p \in Callers |-> None]
    /\ lockPath = None
    /\ held = [i \in Starters |-> None]
    /\ lockFd = [s \in Starters |-> None]
    /\ pidFile = NoFile
    /\ pidFd = [s \in Starters |-> None]
    /\ daemon = [s \in Starters |-> "none"]
    /\ raced = FALSE

InFlight(p) == pc[p] \notin {"idle", "over"}

Alive(d) == daemon[d] \notin {"none", "dead"}   \* os.kill(pid, 0)
(* from the fork to the removal of its pid file *)
AtWork(d) == daemon[d] \in {"forked", "boot", "loop", "flush"}
NoPidFile == pidFile.ino = None
Goto(p, from, to) == pc[p] = from /\ pc' = [pc EXCEPT ![p] = to]
Released(s) == [i \in Starters |-> IF held[i] = s THEN None ELSE held[i]]

(* whom the pid file leads to, or will lead to once it is written *)
Named(d) == AtWork(d) /\ ~NoPidFile /\ (pidFile.text = d \/ pc[d] = "write")

(* os.remove goes by the path, whoever the file belongs to by now *)
RemovePid(mine) ==
    /\ pidFile' = NoFile
    /\ raced' = IF \E d \in Starters \ mine : Named(d) THEN TRUE ELSE raced
RemoveLock ==
    /\ lockPath' = None
    /\ raced' = IF \E s \in Starters : InFlight(s) THEN TRUE ELSE raced

-----------------------------------------------------------------------------
(* start_daemon *)

OpenLock(s) ==
    /\ Goto(s, "idle", "flock")
    /\ lockPath' = IF lockPath = None THEN s ELSE lockPath
    /\ lockFd' = [lockFd EXCEPT ![s] = lockPath']
    /\ UNCHANGED <<seen, held, pidFile, pidFd, daemon, raced>>

SlipFlock(s) ==         \* a refused flock is taken for a granted one
    /\ Goto(s, "flock", "exists")
    /\ held' = [held EXCEPT ![lockFd[s]] = s]
    /\ raced' = IF \E o \in Starters : pc[o] \in {"open", "write"} THEN TRUE ELSE raced
    /\ UNCHANGED <<seen, lockPath, lockFd, pidFile, pidFd, daemon>>

Flock(s) ==
    /\ pc[s] = "flock"
    /\ \/ /\ held[lockFd[s]] = None
          /\ Goto(s, "flock", "exists")
          /\ held' = [held EXCEPT ![lockFd[s]] = s]
          /\ raced' = IF \E o \in Starters : pc[o] \in {"open", "write"} THEN TRUE ELSE raced
          /\ UNCHANGED lockFd
       \/ /\ held[lockFd[s]] # None     \* "Daemon start already in progress"
          /\ Goto(s, "flock", "over")
          /\ lockFd' = [lockFd EXCEPT ![s] = None]
          /\ UNCHANGED held /\ UNCHANGED raced
    /\ UNCHANGED <<seen, lockPath, pidFile, pidFd, daemon>>

StartExists(s) ==
    /\ Goto(s, "exists", IF NoPidFile THEN "fork" ELSE "read")
    /\ UNCHANGED <<seen, lockPath, held, lockFd, pidFile, pidFd, daemon, raced>>

(* A file that vanished since the test is a FileNotFoundError nobody       *)
(* catches: the starter exits, and its flock goes with it.                 *)
Vanished(s, from) ==
    /\ NoPidFile
    /\ Goto(s, from, "over")
    /\ held' = Released(s)
    /\ lockFd' = [lockFd EXCEPT ![s] = None]
    /\ UNCHANGED <<seen, lockPath, pidFile, pidFd, daemon, raced>>

StartRead(s) ==
    \/ Vanished(s, "read")
    \/ /\ ~NoPidFile
       /\ Goto(s, "read", "probe")
       /\ seen' = [seen EXCEPT ![s] = pidFile.text]
       /\ UNCHANGED <<lockPath, held, lockFd, pidFile, pidFd, daemon, raced>>

(* An empty file is a ValueError and treated as stale. *)
StartProbe(s) ==
    /\ Goto(s, "probe", IF seen[s] # None /\ Alive(seen[s]) THEN "unlock" ELSE "unlink")
    /\ seen' = [seen EXCEPT ![s] = None]
    /\ UNCHANGED <<lockPath, held, lockFd, pidFile, pidFd, daemon, raced>>

StartUnlink(s) ==
    \/ Vanished(s, "unlink")
    \/ /\ ~NoPidFile
       /\ Goto(s, "unlink", "fork")
       /\ pidFile' = NoFile
       /\ UNCHANGED <<seen, lockPath, held, lockFd, pidFd, daemon, raced>>

Fork(s) ==
    /\ Goto(s, "fork", "open")
    /\ daemon' = [daemon EXCEPT ![s] = "forked"]
    /\ UNCHANGED <<seen, lockPath, held, lockFd, pidFile, pidFd, raced>>

(* write_text opens and truncates the file, then writes the pid *)
OpenPid(s) ==
    /\ Goto(s, "open", "write")
    /\ pidFile' = [ino |-> IF NoPidFile THEN s ELSE pidFile.ino, text |-> None]
    /\ pidFd' = [pidFd EXCEPT ![s] = pidFile'.ino]
    /\ UNCHANGED <<seen, lockPath, held, lockFd, daemon, raced>>

SlipWritePid(s) ==      \* the pid is never flushed
    /\ Goto(s, "write", "unlock")
    /\ pidFd' = [pidFd EXCEPT ![s] = None]
    /\ UNCHANGED <<seen, lockPath, held, lockFd, pidFile, daemon, raced>>

WritePid(s) ==
    /\ Goto(s, "write", "unlock")
    /\ pidFile' = IF pidFile.ino = pidFd[s] THEN [pidFile EXCEPT !.text = s] ELSE pidFile
    /\ pidFd' = [pidFd EXCEPT ![s] = None]
    /\ UNCHANGED <<seen, lockPath, held, lockFd, daemon, raced>>

Unlock(s) ==
    /\ Goto(s, "unlock", "over")
    /\ held' = Released(s)
    /\ lockFd' = [lockFd EXCEPT ![s] = None]
    /\ UNCHANGED <<seen, lockPath, pidFile, pidFd, daemon, raced>>

Start(s) ==
    \/ OpenLock(s) \/ Flock(s) \/ StartExists(s) \/ StartRead(s) \/ StartProbe(s)
    \/ StartUnlink(s) \/ Fork(s) \/ OpenPid(s) \/ WritePid(s) \/ Unlock(s)

-----------------------------------------------------------------------------
(* stop_daemon *)

StopExists(t) ==
    /\ Goto(t, "idle", IF NoPidFile THEN "over" ELSE "read")
    /\ UNCHANGED <<seen, lockPath, held, lockFd, pidFile, pidFd, daemon, raced>>

(* a vanished file is an uncaught error, an empty one "Invalid daemon PID file" *)
StopRead(t) ==
    /\ Goto(t, "read", IF pidFile.text = None THEN "over" ELSE "kill")
    /\ seen' = [seen EXCEPT ![t] = pidFile.text]
    /\ UNCHANGED <<lockPath, held, lockFd, pidFile, pidFd, daemon, raced>>

SlipStopKill(t) ==      \* signal 0 instead of SIGTERM
    /\ Goto(t, "kill", IF Alive(seen[t]) THEN "wait" ELSE "rmPid")
    /\ UNCHANGED <<seen, lockPath, held, lockFd, pidFile, pidFd, daemon, raced>>

(* SIGTERM kills a daemon without handlers, and enters shutdown() again in *)
(* one that is in it.                                                      *)
StopKill(t) ==
    /\ pc[t] = "kill"
    /\ \/ /\ Alive(seen[t])
          /\ Goto(t, "kill", "wait")
          /\ daemon' = [daemon EXCEPT ![seen[t]] =
                          CASE @ \in {"forked", "boot", "leaving"} -> "dead"
                            [] @ = "loop" -> "flush"
                            [] @ = "unpid" -> "again"
                            [] OTHER -> @]
          /\ UNCHANGED seen
       \/ /\ ~Alive(seen[t])    \* "Daemon was not running"
          /\ Goto(t, "kill", "rmPid")
          /\ seen' = [seen EXCEPT ![t] = None]
          /\ UNCHANGED daemon
    /\ UNCHANGED <<lockPath, held, lockFd, pidFile, pidFd, raced>>

StopWait(t) ==
    /\ Goto(t, "wait", "rmPid")
    /\ ~Alive(seen[t]) \/ t \in Impatient
    /\ seen' = [seen EXCEPT ![t] = None]
    /\ UNCHANGED <<lockPath, held, lockFd, pidFile, pidFd, daemon, raced>>

StopRmPid(t) ==
    /\ Goto(t, "rmPid", "rmLock")
    /\ RemovePid({})
    /\ UNCHANGED <<seen, lockPath, held, lockFd, pidFd, daemon>>

StopRmLock(t) ==
    /\ Goto(t, "rmLock", "over")
    /\ RemoveLock
    /\ UNCHANGED <<seen, held, lockFd, pidFile, pidFd, daemon>>

Stop(t) == StopExists(t) \/ StopRead(t) \/ StopKill(t) \/ StopWait(t) \/ StopRmPid(t) \/ StopRmLock(t)

-----------------------------------------------------------------------------
(* daemon_status, which removes a pid file it takes for stale *)

StatusExists(w) ==
    /\ Goto(w, "idle", IF NoPidFile THEN "over" ELSE "read")
    /\ UNCHANGED <<seen, lockPath, held, lockFd, pidFile, pidFd, daemon, raced>>

StatusRead(w) ==
    /\ Goto(w, "read", IF NoPidFile THEN "over" ELSE "probe")
    /\ seen' = [seen EXCEPT ![w] = pidFile.text]
    /\ UNCHANGED <<lockPath, held, lockFd, pidFile, pidFd, daemon, raced>>

StatusProbe(w) ==
    /\ Goto(w, "probe", IF seen[w] # None /\ Alive(seen[w]) THEN "over" ELSE "rmPid")
    /\ seen' = [seen EXCEPT ![w] = None]
    /\ UNCHANGED <<lockPath, held, lockFd, pidFile, pidFd, daemon, raced>>

StatusRmPid(w) ==
    /\ Goto(w, "rmPid", "over")
    /\ RemovePid({})
    /\ UNCHANGED <<seen, lockPath, held, lockFd, pidFd, daemon>>

Status(w) == StatusExists(w) \/ StatusRead(w) \/ StatusProbe(w) \/ StatusRmPid(w)

-----------------------------------------------------------------------------
(* the daemon itself *)

Life(d, from, to) == daemon[d] = from /\ daemon' = [daemon EXCEPT ![d] = to]

(* the child's LOCK_UN: the flock is gone for the parent too *)
ChildUnlock(d) ==
    /\ Life(d, "forked", "boot")
    /\ held' = Released(d)
    /\ UNCHANGED <<pc, seen, lockPath, lockFd, pidFile, pidFd, raced>>

(* phases 1 to 4 of daemon_loop are over: the handlers are installed *)
EnterLoop(d) ==
    /\ Life(d, "boot", "loop")
    /\ UNCHANGED <<pc, seen, lockPath, held, lockFd, pidFile, pidFd, raced>>

(* auto_stop after the replay: the pid file is removed, the lock file is   *)
(* not, and the process is still there until sys.exit                      *)
AutoStop(d) ==
    /\ Life(d, "boot", "leaving")
    /\ RemovePid({d})
    /\ UNCHANGED <<pc, seen, lockPath, held, lockFd, pidFd>>

AutoExit(d) ==
    /\ Life(d, "leaving", "dead")
    /\ UNCHANGED <<pc, seen, lockPath, held, lockFd, pidFile, pidFd, raced>>

(* shutdown(): the reports are flushed, then both files are removed *)
Flushed(d) ==
    /\ Life(d, "flush", "unpid") \/ Life(d, "again", "unpid")
    /\ RemovePid({d})
    /\ UNCHANGED <<pc, seen, lockPath, held, lockFd, pidFd>>

Exit(d) ==
    /\ Life(d, "unpid", "dead")
    /\ RemoveLock
    /\ UNCHANGED <<pc, seen, held, lockFd, pidFile, pidFd>>

(* an exception in daemon_loop, or SIGKILL: nothing is cleaned up *)
Crash(d) ==
    /\ Alive(d)
    /\ daemon' = [daemon EXCEPT ![d] = "dead"]
    /\ held' = IF daemon[d] = "forked" /\ ~InFlight(d) THEN Released(d) ELSE held
    /\ UNCHANGED <<pc, seen, lockPath, lockFd, pidFile, pidFd, raced>>

Daemon(d) == ChildUnlock(d) \/ EnterLoop(d) \/ AutoStop(d) \/ AutoExit(d) \/ Flushed(d) \/ Exit(d) \/ Crash(d)

Next ==
    \/ \E s \in Starters : Start(s) \/ Daemon(s)
    \/ \E t \in Stoppers : Stop(t)
    \/ \E w \in Watchers : Status(w)

Spec == Init /\ [][Next]_daemonVars
(* stop_daemon goes on, and a signalled daemon flushes and exits           *)
(* (graceful_stop_nsys kills what does not flush in time).  Nothing says   *)
(* that a daemon ever leaves its start-up phases.                          *)
FairSpec ==
    /\ Spec
    /\ WF_daemonVars(\E t \in Stoppers : pc[t] # "idle" /\ Stop(t))
    /\ WF_daemonVars(\E d \in Starters : Flushed(d) \/ Exit(d))

-----------------------------------------------------------------------------
(* What the flock and the pid file are for: no two daemons are at work     *)
(* together.  The races of the code break it (DaemonStartRace.cfg).        *)
OneAtWork == \A d, e \in Starters : AtWork(d) /\ AtWork(e) => d = e

(* Whatever calls overlap, whoever dies and whichever stop gives up: a     *)
(* second daemon comes to work beside a first one only after one of the    *)
(* three races.                                                            *)
AtMostOneDaemon == ~raced => OneAtWork

(* Without a race a daemon that is at work can be found: when no call is   *)
(* under way the pid file names it, so that the next stop_daemon reaches   *)
(* it and the next start_daemon does not fork.                             *)
DaemonCanBeFound ==
    ~raced /\ (\A p \in Callers : ~InFlight(p)) =>
        \A d \in Starters : daemon[d] \in {"forked", "boot", "loop"} => pidFile.text = d

(* stop_daemon returns: the daemon it waits for goes away, even when       *)
(* another stop has signalled it before, or does so meanwhile.  There are  *)
(* finitely many calls, and in the end no stop is under way.               *)
StopDaemonReturns == <>[](\A t \in Stoppers : ~InFlight(t))

=============================================================================
