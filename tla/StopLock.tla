------------------------------ MODULE StopLock ------------------------------
(***************************************************************************)
(* The lock that trace_session.sh takes at the head of stop_session():     *)
(* the directory /tmp/fish_session_dir.stopping with the owner's pid in    *)
(* the file "pid" inside it.  The wrapper's SIGTERM trap, the last `dec',  *)
(* `ros2 run fish stop' and the daemon's auto-stop all call stop_session,  *)
(* each from a shell process of its own: the elements of Shells.             *)
(*                                                                         *)
(* Every shell command that touches the lock is one step.  A stopper may   *)
(* be killed at any step; its RETURN trap does not run then, and its lock  *)
(* stays behind.                                                           *)
(***************************************************************************)
EXTENDS Naturals, FiniteSets

CONSTANTS
    Shells,   \* the processes that call stop_session, once each
    MaxDeaths,  \* bound: how many of them are killed while stopping
    SlowStop,   \* may a live stop last longer than a waiter's 900 polls?
    NoPid       \* content of a pid file that is missing or empty

ASSUME StopLockAssumption ==
    /\ NoPid \notin Shells
    /\ MaxDeaths \in Nat
    /\ SlowStop \in BOOLEAN

VARIABLES
    at,         \* where each stopper is in stop_session
    dir,        \* does the .stopping directory exist?
    ownerPid,   \* the pid in its file "pid", or NoPid
    owner       \* each stopper's shell variable _owner

lockVars == <<at, dir, ownerPid, owner>>

(* At "stopping" the whole shutdown sequence runs under the lock; its      *)
(* steps are the subject of TraceSession.                                  *)
Finished == {"returned", "stopped"}
Places == {"idle", "readOwner", "probeOwner", "stealDir", "stealMkdir",
           "poll", "pollRead", "pollProbe", "pollSteal", "pollMkdir",
           "testPid", "testDir", "claim", "stopping", "dead"} \cup Finished

LockTypes ==
    /\ at \in [Shells -> Places]
    /\ dir \in BOOLEAN
    /\ ownerPid \in Shells \cup {NoPid}
    /\ owner \in [Shells -> Shells \cup {NoPid}]

LockInit ==
    /\ at = [p \in Shells |-> "idle"]
    /\ dir = FALSE
    /\ ownerPid = NoPid
    /\ owner = [p \in Shells |-> NoPid]

(* kill -0 succeeds on a process that has not exited *)
Lives(p) == at[p] \notin Finished \cup {"idle", "dead"}
(* the test [[ -n "$_owner" ]] && ! kill -0 "$_owner" *)
OwnerGone(p) == owner[p] # NoPid /\ ~Lives(owner[p])

Proceed(p, from, to) == at[p] = from /\ at' = [at EXCEPT ![p] = to]
Branch(p, from, test, yes, no) == Proceed(p, from, IF test THEN yes ELSE no)

-----------------------------------------------------------------------------
(* Operators named Slip... are plausible slips in the script.  No action    *)
(* uses them: they are there to show that the properties notice.           *)
SlipMkdirExisting(p, from, got, missed) ==      \* mkdir -p
    Proceed(p, from, got) /\ dir' = TRUE /\ UNCHANGED <<ownerPid, owner>>

Mkdir(p, from, got, missed) ==
    /\ Branch(p, from, dir, missed, got)
    /\ dir' = TRUE
    /\ UNCHANGED <<ownerPid, owner>>

RmRf(p, from, to) ==
    /\ Proceed(p, from, to)
    /\ dir' = FALSE
    /\ ownerPid' = NoPid
    /\ UNCHANGED owner

ReadPid(p, from, to) ==
    /\ Proceed(p, from, to)
    /\ owner' = [owner EXCEPT ![p] = ownerPid]
    /\ UNCHANGED <<dir, ownerPid>>

Test(p, from, test, yes, no) ==
    /\ Branch(p, from, test, yes, no)
    /\ UNCHANGED <<dir, ownerPid, owner>>

SlipProbeOwner(p)  == Test(p, "probeOwner", OwnerGone(p), "stealDir", "returned")  \* no waiting
SlipPollProbe(p)   == Test(p, "pollProbe", FALSE, "pollSteal", "poll")  \* deaths go unnoticed
SlipPollMkdir(p)   == Test(p, "pollMkdir", TRUE, "testPid", "poll")     \* the lock is not taken

(* the first attempt, and the take-over of a stale lock found at once *)
Enter(p)      == Mkdir(p, "idle", "claim", "readOwner")
ReadOwner(p)  == ReadPid(p, "readOwner", "probeOwner")
ProbeOwner(p) == Test(p, "probeOwner", OwnerGone(p), "stealDir", "poll")
StealDir(p)   == RmRf(p, "stealDir", "stealMkdir")
StealMkdir(p) == Mkdir(p, "stealMkdir", "claim", "returned")

(* the waiting loop: leave when the directory is gone, take over when the  *)
(* owner has died, else sleep and poll again                               *)
Poll(p)       == Test(p, "poll", dir, "pollRead", "testPid")
PollRead(p)   == ReadPid(p, "pollRead", "pollProbe")
PollProbe(p)  == Test(p, "pollProbe", OwnerGone(p), "pollSteal", "poll")
PollSteal(p)  == RmRf(p, "pollSteal", "pollMkdir")
PollMkdir(p)  == Mkdir(p, "pollMkdir", "testPid", "poll")

(* 900 polls are over.  Unless stops may be slow this happens only to a    *)
(* waiter whose lock has no pid in it because the owner died before `echo':*)
(* a lock with a pid is released or found stale long before.               *)
PollsOver(p) ==
    /\ SlowStop \/ (ownerPid = NoPid /\ ~\E q \in Shells : at[q] \in {"claim", "stopping"})
    /\ Test(p, "poll", TRUE, "testPid", "testPid")

(* after the loop: "someone else is stopping", "the other stop finished",  *)
(* or fall through and run the shutdown                                    *)
TestPid(p) == Test(p, "testPid", ownerPid # NoPid, "returned", "testDir")
TestDir(p) == Test(p, "testDir", dir, "claim", "returned")

(* echo $$ > .stopping/pid, which fails silently without the directory *)
Claim(p) ==
    /\ Proceed(p, "claim", "stopping")
    /\ ownerPid' = IF dir THEN p ELSE ownerPid
    /\ UNCHANGED <<dir, owner>>

(* the shutdown sequence is over: the RETURN trap removes the directory *)
Release(p) == RmRf(p, "stopping", "stopped")

Die(p) ==
    /\ Cardinality({q \in Shells : at[q] = "dead"}) < MaxDeaths
    /\ Lives(p)
    /\ at' = [at EXCEPT ![p] = "dead"]
    /\ UNCHANGED <<dir, ownerPid, owner>>

Waiting(p) == Poll(p) \/ PollRead(p) \/ PollProbe(p) \/ PollSteal(p) \/ PollMkdir(p)
Step(p) ==
    \/ ReadOwner(p) \/ ProbeOwner(p) \/ StealDir(p) \/ StealMkdir(p)
    \/ Waiting(p) \/ PollsOver(p) \/ TestPid(p) \/ TestDir(p)
    \/ Claim(p) \/ Release(p)

LockNext == \E p \in Shells : Enter(p) \/ Step(p) \/ Die(p)

LockSpec == LockInit /\ [][LockNext]_lockVars
(* A stopper that has entered stop_session keeps running, and the loop     *)
(* `for _i in $(seq 1 900)' ends: Poll alone must not starve PollsOver.    *)
FairLockSpec == LockSpec /\ \A p \in Shells : WF_lockVars(Step(p)) /\ SF_lockVars(PollsOver(p))

-----------------------------------------------------------------------------
Ended(p) == at[p] \in Finished \cup {"dead"}

(* The second caller waits "instead of running a second shutdown snapshot  *)
(* + trace stop in parallel" (install_fish.sh, step 0): two shutdown       *)
(* sequences never run at the same time.                                   *)
MutualExclusion ==
    \A p, q \in Shells : at[p] = "stopping" /\ at[q] = "stopping" => p = q

(* The waiting and the take-over lose no stop: when every caller has ended *)
(* and at most one of them was killed, one of them has run the shutdown    *)
(* sequence to its end.                                                    *)
ShutdownHappens == (\A p \in Shells : Ended(p)) => \E p \in Shells : at[p] = "stopped"

(* No caller waits for ever, whoever dies and wherever: not behind a lock  *)
(* whose owner was killed, not behind one whose owner never wrote its pid. *)
EveryStopReturns == \A p \in Shells : at[p] # "idle" ~> Ended(p)

(* What callers rely on: the shutdown runs once at a time, and a caller    *)
(* that did not run it returns only after another caller has.              *)
Promise == INSTANCE StopOnce WITH
    Callers <- Shells,
    call <- [p \in Shells |->
               CASE at[p] \in {"idle", "stopping", "stopped", "returned", "dead"} -> at[p]
                 [] OTHER -> "pending"]
KeepsPromise == Promise!Spec

=============================================================================
