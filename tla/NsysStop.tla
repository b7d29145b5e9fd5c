------------------------------ MODULE NsysStop ------------------------------
(***************************************************************************)
(* Flushing the nsys reports at the end of a session: graceful_stop_nsys   *)
(* and stop_daemon of python/fish/gpu.py and the drain loop of             *)
(* stop_session in trace_session.sh (written by scripts/install_fish.sh).  *)
(*                                                                         *)
(* An nsys process writes its report when it is interrupted or when the    *)
(* application below it ends, and the file appears when it is done.  Time  *)
(* is discrete: Tick lets one unit pass for everyone, and only when no one *)
(* has anything to do at once.  A second SIGINT changes nothing for an     *)
(* nsys that is writing.  Only the deadlines of this stop are modelled:    *)
(* who may run it is the matter of StopLock and DaemonSingleton.           *)
(***************************************************************************)
EXTENDS Naturals, FiniteSets

CONSTANTS
    Children,       \* nsys processes that the daemon has started
    Foreign,        \* those that launch_wrap has started
    Settings,       \* the settings in which a stop may take place
    Timeout,        \* [daemon] nsys_report_timeout
    Slack,          \* the 10 s that stop_daemon allows on top
    CollectorTimes, \* how long LiveCollector.stop may take
    MinWait,        \* FISH_NSYS_MIN_WAIT
    StableFor,      \* equal report counts that end the drain
    QuietFor,       \* likewise when no nsys process is left
    Drain,          \* FISH_NSYS_DRAIN
    Never           \* no count yet

ASSUME NsysStopAssumption ==
    /\ IsFiniteSet(Children \cup Foreign) /\ Children \cap Foreign = {}
    /\ \A s \in Settings :
          s.selfStop \in BOOLEAN /\ s.writes \subseteq Nat \ {0} /\ s.writes # {}
    /\ Timeout \in Nat \ {0} /\ Slack \in Nat
    /\ CollectorTimes \subseteq Nat /\ CollectorTimes # {}
    /\ MinWait \in Nat /\ StableFor \in Nat \ {0} /\ QuietFor \in Nat /\ Drain \in Nat
    /\ Never \notin Nat

Nsys == Children \cup Foreign

VARIABLES
    setting,    \* selfStop: auto-stop, the daemon flushes and then runs the
                \* script; writes: how long writing a report may take
    nsys,       \* of each nsys: "recording", "writing", "written" or "killed"
    left,       \* how long it still has to write
    daemon,     \* where the daemon is
    rest,       \* the children that have not been waited for
    cur,        \* the child that is being waited for
    pending,    \* the foreign processes that have not been seen to end
    clock,      \* how long the daemon's present wait may last
    since,      \* history: how long ago SIGINT was sent, up to Timeout
    script,     \* where stop_session is
    patience,   \* how long stop_daemon goes on waiting
    drain       \* REPORT_LAST, REPORT_STABLE_FOR and ELAPSED

nsysVars == <<nsys, left>>
daemonVars == <<daemon, rest, cur, pending, clock, since>>
scriptVars == <<script, patience, drain>>
vars == <<setting, nsys, left, daemon, rest, cur, pending, clock, since, script, patience, drain>>

Nobody == "no child"

Ended(n) == nsys[n] \in {"written", "killed"}
Reports == Cardinality({n \in Nsys : nsys[n] = "written"})

TypeOK ==
    /\ setting \in Settings
    /\ nsys \in [Nsys -> {"recording", "writing", "written", "killed"}]
    /\ left \in [Nsys -> Nat]
    /\ daemon \in {"loop", "collector", "children", "waiting", "foreign", "script", "gone"}
    /\ rest \subseteq Children /\ pending \subseteq Foreign
    /\ cur \in Children \cup {Nobody}
    /\ clock \in Nat /\ patience \in Nat /\ since \in 0..Timeout
    /\ script \in {"idle", "wait", "drain", "sleep", "done"}
    /\ drain \in [last : Nat \cup {Never}, stable : Nat, elapsed : Nat]

Init ==
    /\ setting \in Settings
    /\ nsys = [n \in Nsys |-> "recording"] /\ left = [n \in Nsys |-> 0]
    /\ daemon = "loop" /\ rest = {} /\ cur = Nobody /\ pending = {}
    /\ clock = 0 /\ since = 0
    /\ script = "idle" /\ patience = 0
    /\ drain = [last |-> Never, stable |-> 0, elapsed |-> 0]

-----------------------------------------------------------------------------
(* Operators named Slip... are plausible slips in the code; no action uses *)
(* them, they show that the properties notice.                             *)
SlipStopDaemon ==   \* slip: only the 10 s on top are waited
    /\ ~setting.selfStop /\ script = "idle"
    /\ script' = "wait" /\ patience' = Slack
    /\ daemon' = "collector"
    /\ clock' \in CollectorTimes
    /\ UNCHANGED <<nsys, left, rest, cur, pending, since, drain>>

(* `trace_session.sh stop' and, in it, `gpu daemon stop': SIGTERM.         *)
StopDaemon ==
    /\ ~setting.selfStop /\ script = "idle"
    /\ script' = "wait" /\ patience' = Timeout + Slack
    /\ daemon' = "collector"
    /\ clock' \in CollectorTimes
    /\ UNCHANGED <<nsys, left, rest, cur, pending, since, drain>>

(* After a replay with auto_stop the daemon flushes by itself.             *)
AutoStop ==
    /\ setting.selfStop /\ daemon = "loop"
    /\ daemon' = "collector"
    /\ clock' \in CollectorTimes
    /\ UNCHANGED <<nsys, left, rest, cur, pending, since, scriptVars>>

SlipInterrupt ==    \* slip: the nsys processes of launch_wrap are forgotten
    /\ daemon = "collector" /\ clock = 0
    /\ \E time \in [Nsys -> setting.writes] :
         left' = [n \in Nsys |-> IF nsys[n] = "recording" /\ n \in Children THEN time[n] ELSE left[n]]
    /\ nsys' = [n \in Nsys |-> IF nsys[n] = "recording" /\ n \in Children THEN "writing" ELSE nsys[n]]
    /\ rest' = {n \in Children : ~Ended(n)}
    /\ pending' = {}
    /\ daemon' = "children" /\ since' = 0
    /\ UNCHANGED <<cur, clock, scriptVars>>

(* graceful_stop_nsys: SIGINT to every child and to every foreign nsys of  *)
(* the session that is still there.                                        *)
Interrupt ==
    /\ daemon = "collector" /\ clock = 0
    /\ \E time \in [Nsys -> setting.writes] :
         left' = [n \in Nsys |-> IF nsys[n] = "recording" THEN time[n] ELSE left[n]]
    /\ nsys' = [n \in Nsys |-> IF nsys[n] = "recording" THEN "writing" ELSE nsys[n]]
    /\ rest' = {n \in Children : ~Ended(n)}
    /\ pending' = {n \in Foreign : ~Ended(n)}
    /\ daemon' = "children" /\ since' = 0
    /\ UNCHANGED <<cur, clock, scriptVars>>

(* The children one after the other, each with a timeout of its own.       *)
WaitForChild(c) ==
    /\ daemon = "children" /\ c \in rest
    /\ daemon' = "waiting" /\ cur' = c /\ clock' = Timeout
    /\ UNCHANGED <<nsysVars, rest, pending, since, scriptVars>>

SlipChildEnded ==   \* slip: the child is not taken off the list
    /\ daemon = "waiting" /\ Ended(cur)
    /\ daemon' = "children" /\ cur' = Nobody
    /\ UNCHANGED <<nsysVars, rest, pending, clock, since, scriptVars>>

ChildEnded ==
    /\ daemon = "waiting" /\ Ended(cur)
    /\ daemon' = "children" /\ rest' = rest \ {cur} /\ cur' = Nobody
    /\ UNCHANGED <<nsysVars, pending, clock, since, scriptVars>>

ChildTimedOut ==
    /\ daemon = "waiting" /\ ~Ended(cur) /\ clock = 0
    /\ nsys' = [nsys EXCEPT ![cur] = "killed"]
    /\ daemon' = "children" /\ rest' = rest \ {cur} /\ cur' = Nobody
    /\ UNCHANGED <<left, pending, clock, since, scriptVars>>

(* The foreign ones together, with one more timeout.                       *)
WaitForForeign ==
    /\ daemon = "children" /\ rest = {}
    /\ daemon' = "foreign" /\ clock' = Timeout
    /\ UNCHANGED <<nsysVars, rest, cur, pending, since, scriptVars>>

ForeignEnds(n) ==
    /\ daemon = "foreign" /\ n \in pending /\ Ended(n)
    /\ pending' = pending \ {n}
    /\ UNCHANGED <<nsysVars, daemon, rest, cur, clock, since, scriptVars>>

(* The rest is killed, and the daemon exits or runs the script.            *)
Flushed ==
    /\ daemon = "foreign"
    /\ \A n \in pending : ~Ended(n)
    /\ pending = {} \/ clock = 0
    /\ nsys' = [n \in Nsys |-> IF n \in pending THEN "killed" ELSE nsys[n]]
    /\ pending' = {}
    /\ IF setting.selfStop THEN daemon' = "script" /\ script' = "drain" ELSE daemon' = "gone" /\ UNCHANGED script
    /\ UNCHANGED <<left, rest, cur, clock, since, patience, drain>>

ScriptReturns ==
    /\ daemon = "script" /\ script = "done"
    /\ daemon' = "gone"
    /\ UNCHANGED <<nsysVars, rest, cur, pending, clock, since, scriptVars>>

-----------------------------------------------------------------------------
(* stop_daemon has seen the daemon go, or has waited long enough; either   *)
(* way "Daemon stopped" is printed and the script goes on.                 *)
DaemonStopped ==
    /\ script = "wait"
    /\ daemon = "gone" \/ patience = 0
    /\ script' = "drain"
    /\ UNCHANGED <<nsysVars, daemonVars, patience, drain>>

StableNow == IF Reports = drain.last THEN drain.stable + 1 ELSE 0

Drained ==
    \/ drain.elapsed >= Drain
    \/ Reports = drain.last /\ StableNow >= StableFor /\ drain.elapsed >= MinWait
    \/ drain.elapsed >= MinWait /\ StableNow >= QuietFor /\ \A n \in Nsys : Ended(n)

(* One turn of the drain loop; what follows the loop destroys the session  *)
(* and writes stop_done.txt.                                               *)
DrainTurn ==
    /\ script = "drain"
    /\ script' = IF Drained THEN "done" ELSE "sleep"
    /\ drain' = IF drain.elapsed >= Drain THEN drain
                ELSE [drain EXCEPT !.last = Reports, !.stable = StableNow]
    /\ UNCHANGED <<nsysVars, daemonVars, patience>>

-----------------------------------------------------------------------------
(* The application below an nsys ends by itself.                           *)
ApplicationEnds(n) ==
    /\ nsys[n] = "recording"
    /\ nsys' = [nsys EXCEPT ![n] = "writing"]
    /\ \E t \in setting.writes : left' = [left EXCEPT ![n] = t]
    /\ UNCHANGED <<setting, daemonVars, scriptVars>>

DaemonWaits ==
    \/ daemon \in {"loop", "gone"}
    \/ daemon = "script" /\ script # "done"
    \/ daemon = "collector" /\ clock > 0
    \/ daemon = "waiting" /\ clock > 0 /\ ~Ended(cur)
    \/ daemon = "foreign" /\ clock > 0 /\ pending # {} /\ \A n \in pending : ~Ended(n)

ScriptWaits ==
    \/ script \in {"idle", "sleep", "done"}
    \/ script = "wait" /\ patience > 0 /\ daemon # "gone"

Less(t) == IF t > 0 THEN t - 1 ELSE 0

Tick ==
    /\ DaemonWaits /\ ScriptWaits
    /\ left' = [n \in Nsys |-> IF nsys[n] = "writing" THEN Less(left[n]) ELSE left[n]]
    /\ nsys' = [n \in Nsys |-> IF nsys[n] = "writing" /\ left[n] <= 1 THEN "written" ELSE nsys[n]]
    /\ clock' = Less(clock) /\ patience' = Less(patience)
    /\ since' = IF since < Timeout THEN since + 1 ELSE since
    /\ IF script = "sleep"
         THEN script' = "drain" /\ drain' = [drain EXCEPT !.elapsed = @ + 1]
         ELSE UNCHANGED <<script, drain>>
    /\ UNCHANGED <<setting, daemon, rest, cur, pending>>

-----------------------------------------------------------------------------
Flush ==
    /\ \/ AutoStop \/ Interrupt
       \/ \E c \in Children : WaitForChild(c)
       \/ ChildEnded \/ ChildTimedOut \/ WaitForForeign
       \/ \E n \in Foreign : ForeignEnds(n)
       \/ Flushed \/ ScriptReturns
    /\ UNCHANGED setting

Stop == (StopDaemon \/ DaemonStopped \/ DrainTurn) /\ UNCHANGED setting

Next == Flush \/ Stop \/ Tick \/ \E n \in Nsys : ApplicationEnds(n)

Spec == Init /\ [][Next]_vars

(* Time passes, and whoever can go on does.                                *)
FairSpec == Spec /\ WF_vars(Flush) /\ WF_vars(Stop) /\ WF_vars(Tick)

-----------------------------------------------------------------------------
(* Every report is written within the timeout, and the collector is        *)
(* stopped soon enough.                                                    *)
InTime ==
    \A w \in setting.writes : w <= Timeout /\ \A c \in CollectorTimes : c + w < Timeout + Slack

(* SAFETY.  The drain loop says of itself (scripts/install_fish.sh:384-386)*)
(* "seeing the count stop incrementing for K seconds means all finalisers  *)
(* are done".                                                              *)
DrainedMeansDone == script = "done" => \A n \in Nsys : Ended(n)

(* SAFETY.  When the end-of-stop marker is written every report has been   *)
(* written or given up: what stops the container next loses nothing.  It   *)
(* takes reports in time, or a daemon that waits for all before the script.*)
ReportsBeforeDone == InTime \/ setting.selfStop => DrainedMeansDone

(* SAFETY.  stop_daemon removes the pid file of a daemon that is gone.     *)
FlushedBeforeGivingUp ==
    InTime /\ script \in {"drain", "sleep", "done"} => daemon \in {"script", "gone"}

(* SAFETY.  Nobody is killed before it has had the whole timeout to write  *)
(* its report, whatever the waits for the others have used up.             *)
OnlyLateIsKilled == \A n \in Nsys : nsys[n] = "killed" => since = Timeout

(* SAFETY.  Reports that are written within the timeout are all kept.      *)
NoReportIsLost == InTime => \A n \in Nsys : nsys[n] # "killed"

(* LIVENESS.  A stop that has begun ends, whatever nsys does.              *)
StopEnds == daemon = "collector" ~> script = "done"
=============================================================================
