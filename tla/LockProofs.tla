----------------------------- MODULE LockProofs -----------------------------
(***************************************************************************)
(* The two locks: that of stop_session (StopLock) and the flock with the   *)
(* pid file of the daemon (DaemonSingleton).                               *)
(*                                                                         *)
(* With two callers and stops that end within a waiter's 900 polls the     *)
(* lock of stop_session excludes, wherever either caller is killed, and it *)
(* keeps the promise of StopOnce.  The pair is the case install_fish.sh    *)
(* names (the daemon's auto-stop and the wrapper's trap); for three        *)
(* callers the statement is false (StopLockOverlap.cfg shows it).          *)
(*                                                                         *)
(* When no start overlaps with another call, and stop_daemon does not give *)
(* up on a daemon that is still flushing, there is at most one daemon and  *)
(* it can be found, for any number of calls, crashes and auto-stops.       *)
(***************************************************************************)
EXTENDS StopLock, DaemonSingleton, FiniteSetTheorems, TLAPS

LEMMA LockTypesPreserved == LockTypes /\ [LockNext]_lockVars => LockTypes'
<1> SUFFICES ASSUME LockTypes, [LockNext]_lockVars PROVE LockTypes'
  OBVIOUS
<1>1. CASE UNCHANGED lockVars
  BY <1>1 DEF LockTypes, lockVars
<1>2. ASSUME NEW p \in Shells, Enter(p) \/ Step(p) \/ Die(p) PROVE LockTypes'
  <2>1. CASE Enter(p)
    BY <2>1 DEF Enter, Mkdir, Branch, Proceed, LockTypes, Places, Finished
  <2>2. CASE Step(p)
    <3>1. CASE ReadOwner(p) \/ PollRead(p)
      BY <3>1 DEF ReadOwner, PollRead, ReadPid, Proceed, LockTypes, Places, Finished
    <3>2. CASE StealDir(p) \/ PollSteal(p) \/ Release(p)
      BY <3>2 DEF StealDir, PollSteal, Release, RmRf, Proceed, LockTypes, Places, Finished
    <3>3. CASE StealMkdir(p) \/ PollMkdir(p)
      BY <3>3 DEF StealMkdir, PollMkdir, Mkdir, Branch, Proceed, LockTypes, Places, Finished
    <3>4. CASE ProbeOwner(p) \/ Poll(p) \/ PollProbe(p)
      BY <3>4 DEF ProbeOwner, Poll, PollProbe, Test, Branch, Proceed, LockTypes, Places, Finished
    <3>5. CASE PollsOver(p) \/ TestPid(p) \/ TestDir(p)
      BY <3>5 DEF PollsOver, TestPid, TestDir, Test, Branch, Proceed, LockTypes, Places, Finished
    <3>6. CASE Claim(p)
      BY <3>6 DEF Claim, Proceed, LockTypes, Places, Finished
    <3> QED
      BY <2>2, <3>1, <3>2, <3>3, <3>4, <3>5, <3>6 DEF Step, Waiting
  <2>3. CASE Die(p)
    BY <2>3 DEF Die, LockTypes, Places
  <2> QED
    BY <1>2, <2>1, <2>2, <2>3
<1> QED
  BY <1>1, <1>2 DEF LockNext

(* The variables of the stop lock keep their types. *)
THEOREM LockTypesCorrect == LockSpec => []LockTypes
<1>1. LockInit => LockTypes
  BY StopLockAssumption DEF LockInit, LockTypes, Places
<1> QED
  BY <1>1, LockTypesPreserved, PTL DEF LockSpec

-----------------------------------------------------------------------------
(* The inductive invariant.  What one caller is doing tells what the other *)
(* one may be doing; that is what the pair has and three callers have not. *)
Holding(p) == at[p] \in {"claim", "stopping"}
Waits  == {"readOwner", "probeOwner", "poll", "pollRead", "pollProbe"}
Tests  == {"testPid", "testDir"}
Steals == {"stealDir", "stealMkdir", "pollSteal", "pollMkdir"}

(* the owner of the lock and its pid file *)
LockIsHeld ==
    /\ \A p \in Shells : Holding(p) => dir
    /\ \A p \in Shells : at[p] = "stopping" => ownerPid = p
    /\ ownerPid # NoPid => dir /\ at[ownerPid] \in {"stopping", "dead"}
    /\ \A p \in Shells : at[p] \in {"stealMkdir", "pollMkdir"} => ~dir
    /\ \A p \in Shells : at[p] \in Tests => ownerPid = NoPid
    /\ (\A p \in Shells : at[p] = "idle") => ~dir
(* a pid that was read is that of somebody else who has held the lock *)
OwnerWasHolding ==
    \A p \in Shells : owner[p] # NoPid =>
        owner[p] # p /\ at[owner[p]] \in {"stopping", "stopped", "dead"}
(* the other caller *)
TheOther ==
    \A p, q \in Shells : p # q =>
        /\ Holding(p) => ~Holding(q)
        /\ at[p] \in Waits => at[q] \in {"claim", "stopping", "stopped", "dead"}
        /\ at[p] \in Steals \cup Tests \cup {"returned"} => at[q] \in {"stopped", "dead"}
        /\ at[p] \in Waits \cup Tests /\ at[q] = "dead" => dir
        /\ at[p] = "returned" => at[q] = "stopped"

PairInv == LockTypes /\ LockIsHeld /\ OwnerWasHolding /\ TheOther

(* PairInv is inductive. *)
LEMMA PairInvariance ==
    ASSUME NEW a \in Shells, NEW b \in Shells, a # b, Shells = {a, b}, SlowStop = FALSE
    PROVE  LockSpec => []PairInv
<1> USE StopLockAssumption
<1>1. LockInit => PairInv
  BY DEF LockInit, PairInv, LockTypes, Places, LockIsHeld, OwnerWasHolding, TheOther,
         Holding, Waits, Tests, Steals
<1>2. PairInv /\ [LockNext]_lockVars => PairInv'
  <2> SUFFICES ASSUME PairInv, LockTypes', [LockNext]_lockVars
               PROVE  LockIsHeld' /\ OwnerWasHolding' /\ TheOther'
    BY LockTypesPreserved DEF PairInv
  <2> USE DEF PairInv, LockIsHeld, OwnerWasHolding, TheOther, Holding, Waits, Tests, Steals
  <2>1. CASE UNCHANGED lockVars
    BY <2>1 DEF lockVars
  <2>2. ASSUME NEW p \in Shells, NEW q \in Shells, p # q, Shells = {p, q},
               Enter(p) \/ Step(p) \/ Die(p)
        PROVE  LockIsHeld' /\ OwnerWasHolding' /\ TheOther'
    <3> USE <2>2
    <3>1. CASE Enter(p)
      BY <3>1 DEF Enter, Mkdir, Branch, Proceed, LockTypes, Places, Finished
    <3>2. CASE ReadOwner(p) \/ PollRead(p)
      BY <3>2 DEF ReadOwner, PollRead, ReadPid, Proceed, LockTypes
    <3>3. CASE StealDir(p) \/ PollSteal(p) \/ Release(p)
      BY <3>3 DEF StealDir, PollSteal, Release, RmRf, Proceed, LockTypes
    <3>4. CASE StealMkdir(p) \/ PollMkdir(p)
      BY <3>4 DEF StealMkdir, PollMkdir, Mkdir, Branch, Proceed, LockTypes
    <3>5. CASE ProbeOwner(p) \/ Poll(p) \/ PollProbe(p)
      BY <3>5 DEF ProbeOwner, Poll, PollProbe, Test, Branch, Proceed, OwnerGone, Lives, Finished, LockTypes
    <3>6. CASE PollsOver(p) \/ TestPid(p) \/ TestDir(p)
      BY <3>6 DEF PollsOver, TestPid, TestDir, Test, Branch, Proceed, LockTypes
    <3>7. CASE Claim(p)
      BY <3>7 DEF Claim, Proceed, LockTypes
    <3>8. CASE Die(p)
      BY <3>8 DEF Die, Lives, Finished, LockTypes
    <3> QED
      BY <3>1, <3>2, <3>3, <3>4, <3>5, <3>6, <3>7, <3>8 DEF Step, Waiting
  <2>3. \A p \in Shells : \E q \in Shells : p # q /\ Shells = {p, q}
    OBVIOUS
  <2> QED
    BY <2>1, <2>2, <2>3 DEF LockNext
<1> QED
  BY <1>1, <1>2, PTL DEF LockSpec

(* Two shutdown sequences never run at the same time. *)
THEOREM PairExcludes ==
    ASSUME NEW a \in Shells, NEW b \in Shells, a # b, Shells = {a, b}, SlowStop = FALSE
    PROVE  LockSpec => []MutualExclusion
<1>1. PairInv => MutualExclusion
  BY DEF PairInv, TheOther, Holding, MutualExclusion
<1> QED
  BY <1>1, PairInvariance, PTL

(* Whichever caller is killed and wherever, the stop is not lost: once both *)
(* have ended, the other one of them has run the shutdown to its end.       *)
THEOREM PairShutsDown ==
    ASSUME NEW a \in Shells, NEW b \in Shells, a # b, Shells = {a, b}, SlowStop = FALSE,
           MaxDeaths <= 1
    PROVE  LockSpec => []ShutdownHappens
<1> USE StopLockAssumption
<1> DEFINE OneAlive == \E p \in Shells : at[p] # "dead"
<1>1. LockInit => OneAlive
  BY DEF LockInit
<1>2. PairInv /\ OneAlive /\ [LockNext]_lockVars => OneAlive'
  <2> SUFFICES ASSUME PairInv, OneAlive, [LockNext]_lockVars PROVE OneAlive'
    OBVIOUS
  <2>1. CASE UNCHANGED lockVars
    BY <2>1 DEF lockVars
  <2>2. ASSUME NEW p \in Shells, Die(p) PROVE OneAlive'
    <3> DEFINE Dead == {q \in Shells : at[q] = "dead"}
    <3>1. IsFiniteSet(Dead)
      BY FS_EmptySet, FS_AddElement, FS_Subset, Shells = ({} \cup {a}) \cup {b}
    <3>2. Cardinality(Dead) \in Nat /\ Cardinality(Dead) < 1
      BY <2>2, <3>1, FS_CardinalityType DEF Die
    <3>3. Dead = {}
      BY <3>1, <3>2, FS_EmptySet
    <3>4. PICK q \in Shells : q # p
      OBVIOUS
    <3> QED
      BY <2>2, <3>3, <3>4 DEF Die, PairInv, LockTypes
  <2>3. ASSUME NEW p \in Shells, Enter(p) \/ Step(p) PROVE at'[p] # "dead"
    BY <2>3 DEF Enter, Step, Waiting, ReadOwner, ProbeOwner, StealDir, StealMkdir, Poll, PollRead,
       PollProbe, PollSteal, PollMkdir, PollsOver, TestPid, TestDir, Claim, Release,
       Mkdir, RmRf, ReadPid, Test, Branch, Proceed, PairInv, LockTypes
  <2> QED
    BY <2>1, <2>2, <2>3 DEF LockNext
<1>3. PairInv /\ OneAlive => ShutdownHappens
  BY DEF PairInv, TheOther, ShutdownHappens, Ended, Finished
<1> QED
  BY <1>1, <1>2, <1>3, PairInvariance, PTL DEF LockSpec

(* Every step of the lock is a step of StopOnce or a stutter: the second   *)
(* caller is held back while the first one runs the shutdown and returns   *)
(* without running it only after the first one has finished.               *)
THEOREM PairKeepsPromise ==
    ASSUME NEW a \in Shells, NEW b \in Shells, a # b, Shells = {a, b}, SlowStop = FALSE
    PROVE  LockSpec => KeepsPromise
<1> USE StopLockAssumption
<1> DEFINE call == [p \in Shells |->
               CASE at[p] \in {"idle", "stopping", "stopped", "returned", "dead"} -> at[p]
                 [] OTHER -> "pending"]
<1>1. LockInit => Promise!Init
  BY DEF LockInit, Promise!Init
<1>2. PairInv /\ PairInv' /\ [LockNext]_lockVars => [Promise!Next]_call
  <2> SUFFICES ASSUME PairInv, PairInv', [LockNext]_lockVars PROVE [Promise!Next]_call
    OBVIOUS
  <2>1. CASE UNCHANGED lockVars
    BY <2>1 DEF lockVars
  <2>2. ASSUME NEW p \in Shells, Enter(p) \/ Step(p) \/ Die(p)
        PROVE  \/ UNCHANGED call
               \/ Promise!Call(p) \/ Promise!Begin(p) \/ Promise!Finish(p) \/ Promise!Leave(p) \/ Promise!Die(p)
    <3>1. CASE Enter(p)
      BY <3>1 DEF Enter, Mkdir, Branch, Proceed, Promise!Call, Promise!Change, PairInv, LockTypes
    <3>2. CASE Claim(p)
      BY <3>2 DEF Claim, Proceed, Promise!Begin, Promise!Change, Promise!NoneStopping,
                  PairInv, LockTypes, TheOther, Holding
    <3>3. CASE Release(p)
      BY <3>3 DEF Release, RmRf, Proceed, Promise!Finish, Promise!Change, PairInv, LockTypes
    <3>4. CASE TestPid(p) \/ TestDir(p) \/ StealMkdir(p)
      <4>1. CASE at'[p] = "returned"
        <5>1. PICK q \in Shells : q # p
          OBVIOUS
        <5>2. at[q] = "stopped" /\ (\A r \in Shells : r = p \/ r = q) /\ at[p] \in Tests \cup Steals
          BY <3>4, <4>1, <5>1 DEF TestPid, TestDir, StealMkdir, Test, Mkdir, Branch, Proceed, PairInv,
             LockTypes, LockIsHeld, TheOther, Tests, Steals
        <5>3. Promise!Leave(p)
          BY <3>4, <4>1, <5>1, <5>2 DEF TestPid, TestDir, StealMkdir, Test, Mkdir, Branch, Proceed, PairInv,
             LockTypes, Promise!Leave, Promise!NoneStopping, Promise!Change, Tests, Steals
        <5> QED
          BY <5>3
      <4>2. CASE at'[p] # "returned"
        BY <3>4, <4>2 DEF TestPid, TestDir, StealMkdir, Test, Mkdir, Branch, Proceed, PairInv, LockTypes
      <4> QED
        BY <4>1, <4>2
    <3>5. CASE Die(p)
      BY <3>5 DEF Die, Lives, Finished, Promise!Die, PairInv, LockTypes
    <3>6. CASE ReadOwner(p) \/ StealDir(p) \/ PollRead(p) \/ PollSteal(p) \/ PollMkdir(p)
      BY <3>6 DEF ReadOwner, StealDir, PollRead, PollSteal, PollMkdir, ReadPid, RmRf, Mkdir, Branch, Proceed,
         PairInv, LockTypes
    <3>7. CASE ProbeOwner(p) \/ Poll(p) \/ PollProbe(p) \/ PollsOver(p)
      BY <3>7 DEF ProbeOwner, Poll, PollProbe, PollsOver, Test, Branch, Proceed, PairInv, LockTypes
    <3> QED
      BY <2>2, <3>1, <3>2, <3>3, <3>4, <3>5, <3>6, <3>7 DEF Step, Waiting
  <2> QED
    BY <2>1, <2>2 DEF LockNext, Promise!Next
<1> QED
  BY <1>1, <1>2, PairInvariance, PTL DEF LockSpec, KeepsPromise, Promise!Spec

-----------------------------------------------------------------------------
(* the starters that decide whether to fork, or fork *)
Deciding(s) == pc[s] \in {"exists", "read", "probe", "unlink", "fork", "open", "write"}

(* The flock: whoever is on the way has the lock file open that is there,  *)
(* and whoever decides holds it, up to the child's unlock.                 *)
LockAt(s) ==
    /\ InFlight(s) => lockFd[s] # None /\ lockFd[s] = lockPath
    /\ pc[s] \in {"exists", "read", "probe", "unlink", "fork"} => held[lockFd[s]] = s

OneDecides == \A s, o \in Starters : Deciding(s) /\ Deciding(o) => s = o

(* what a starter knows of the daemons at work *)
StarterAt(s) ==
    /\ pc[s] \in {"idle", "flock", "exists", "read", "probe", "unlink", "fork"} => daemon[s] = "none"
    /\ pc[s] \in {"unlink", "fork"} => \A d \in Starters : ~AtWork(d)
    /\ pc[s] = "probe" => \A d \in Starters : AtWork(d) => seen[s] = d
    /\ pc[s] \in {"open", "write"} => \A d \in Starters : AtWork(d) => d = s
    /\ pc[s] = "write" => pidFd[s] # None
    /\ pc[s] = "write" /\ AtWork(s) => pidFile.ino = pidFd[s]

(* the pid file names the daemon, except while its starter writes it *)
PidFileAt ==
    /\ NoPidFile => pidFile.text = None
    /\ \A d \in Starters : AtWork(d) => pidFile.text = d \/ pc[d] \in {"open", "write"}

Sound ==
    /\ OneAtWork /\ OneDecides /\ PidFileAt
    /\ \A s \in Starters : LockAt(s) /\ StarterAt(s)

DaemonInv == TypeOK /\ (~raced => Sound)
-----------------------------------------------------------------------------
LEMMA TypePreserved == TypeOK /\ [Next]_daemonVars => TypeOK'
<1> USE DaemonAssumption DEF TypeOK, Labels, Maybe, NoFile, Goto, Life, Released, Callers, NoPidFile, RemovePid, RemoveLock, Vanished
<1> SUFFICES ASSUME TypeOK, [Next]_daemonVars PROVE TypeOK'
  OBVIOUS
<1>1. CASE UNCHANGED daemonVars
  BY <1>1 DEF daemonVars
<1>2. ASSUME NEW s \in Starters, Start(s) PROVE TypeOK'
  <2>1. CASE OpenLock(s)
    BY <2>1 DEF OpenLock
  <2>2. CASE Flock(s)
    <3>1. raced' \in BOOLEAN
      BY <2>2 DEF Flock
    <3>2. pc' \in [Callers -> Labels]
      <4>1. pc' = [pc EXCEPT ![s] = "exists"] \/ pc' = [pc EXCEPT ![s] = "over"]
        BY <2>2 DEF Flock
      <4> QED
        BY <4>1
    <3>4. held' \in [Starters -> Maybe(Starters)]
      <4>1. held' = held \/ held' = [held EXCEPT ![lockFd[s]] = s]
        BY <2>2 DEF Flock
      <4> QED
        BY <4>1
    <3>3. lockFd' \in [Starters -> Maybe(Starters)]
      <4>1. lockFd' = lockFd \/ lockFd' = [lockFd EXCEPT ![s] = None]
        BY <2>2 DEF Flock
      <4> QED
        BY <4>1
    <3> QED
      BY <2>2, <3>1, <3>2, <3>3, <3>4 DEF Flock
  <2>3. CASE StartExists(s)
    BY <2>3 DEF StartExists
  <2>4. CASE StartRead(s)
    BY <2>4 DEF StartRead
  <2>5. CASE StartProbe(s)
    BY <2>5 DEF StartProbe
  <2>6. CASE StartUnlink(s)
    BY <2>6 DEF StartUnlink
  <2>7. CASE Fork(s)
    BY <2>7 DEF Fork
  <2>8. CASE OpenPid(s)
    BY <2>8 DEF OpenPid
  <2>9. CASE WritePid(s)
    BY <2>9 DEF WritePid
  <2>10. CASE Unlock(s)
    BY <2>10 DEF Unlock
  <2> QED
    BY <1>2, <2>1, <2>2, <2>3, <2>4, <2>5, <2>6, <2>7, <2>8, <2>9, <2>10 DEF Start
<1>3. ASSUME NEW t \in Stoppers, Stop(t) PROVE TypeOK'
  <2>1. CASE StopExists(t)
    BY <2>1 DEF StopExists
  <2>2. CASE StopRead(t)
    BY <2>2 DEF StopRead
  <2>3. CASE StopKill(t)
    BY <2>3 DEF StopKill
  <2>4. CASE StopWait(t)
    BY <2>4 DEF StopWait
  <2>5. CASE StopRmPid(t)
    BY <2>5 DEF StopRmPid
  <2>6. CASE StopRmLock(t)
    BY <2>6 DEF StopRmLock
  <2> QED
    BY <1>3, <2>1, <2>2, <2>3, <2>4, <2>5, <2>6 DEF Stop
<1>4. ASSUME NEW w \in Watchers, Status(w) PROVE TypeOK'
  <2>1. CASE StatusExists(w)
    BY <2>1 DEF StatusExists
  <2>2. CASE StatusRead(w)
    BY <2>2 DEF StatusRead
  <2>3. CASE StatusProbe(w)
    BY <2>3 DEF StatusProbe
  <2>4. CASE StatusRmPid(w)
    BY <2>4 DEF StatusRmPid
  <2> QED
    BY <1>4, <2>1, <2>2, <2>3, <2>4 DEF Status
<1>5. ASSUME NEW d \in Starters, Daemon(d) PROVE TypeOK'
  <2>1. CASE ChildUnlock(d)
    BY <2>1 DEF ChildUnlock
  <2>2. CASE EnterLoop(d)
    BY <2>2 DEF EnterLoop
  <2>3. CASE AutoStop(d)
    BY <2>3 DEF AutoStop
  <2>4. CASE Flushed(d)
    BY <2>4 DEF Flushed
  <2>5. CASE Exit(d)
    BY <2>5 DEF Exit
  <2>6. CASE Crash(d)
    BY <2>6 DEF Crash
  <2>7. CASE AutoExit(d)
    BY <2>7 DEF AutoExit
  <2> QED
    BY <1>5, <2>1, <2>2, <2>3, <2>4, <2>5, <2>6, <2>7 DEF Daemon
<1> QED
  BY <1>1, <1>2, <1>3, <1>4, <1>5 DEF Next

LEMMA InitTypes == Init => TypeOK
<1> SUFFICES ASSUME Init PROVE TypeOK
  OBVIOUS
<1>1. raced \in BOOLEAN
  BY DEF Init
<1> QED
  BY DaemonAssumption, <1>1 DEF Init, TypeOK, Labels, Maybe, NoFile, Callers

(* The variables keep their types. *)
THEOREM TypeCorrect == Spec => []TypeOK
BY InitTypes, TypePreserved, PTL DEF Spec

(* DaemonInv is inductive. *)
LEMMA DaemonInvariance == Spec => []DaemonInv
<1> USE DaemonAssumption
<1>1. Init => DaemonInv
  <2>1. Init => TypeOK
    BY InitTypes
  <2>2. Init => Sound
    BY DEF Init, NoFile, NoPidFile, Callers, Sound, InFlight, Deciding, LockAt, OneDecides, OneAtWork, AtWork,
           PidFileAt, StarterAt
  <2> QED
    BY <2>1, <2>2 DEF DaemonInv
<1>2. DaemonInv /\ [Next]_daemonVars => DaemonInv'
  <2> SUFFICES ASSUME DaemonInv, TypeOK', [Next]_daemonVars, ~raced' PROVE Sound'
    BY TypePreserved DEF DaemonInv
  <2> USE DEF DaemonInv, Sound, TypeOK, InFlight, Deciding, LockAt, OneDecides, OneAtWork, AtWork, Alive, PidFileAt,
              StarterAt, Callers, NoPidFile, NoFile, Maybe, Goto, Life, RemovePid, RemoveLock, Named, Released,
              Vanished
  <2>1. CASE UNCHANGED daemonVars
    BY <2>1 DEF daemonVars
  <2>2. ASSUME NEW s \in Starters, Start(s) PROVE Sound'
    <3>1. CASE OpenLock(s)
      BY <2>2, <3>1 DEF OpenLock
    <3>2. CASE Flock(s)
      <4>1. CASE held[lockFd[s]] = None /\ pc' = [pc EXCEPT ![s] = "exists"]
        <5>1. ~\E o \in Starters : pc[o] \in {"open", "write"}
          BY <3>2, <4>1 DEF Flock
        <5> QED
          BY <2>2, <3>2, <4>1, <5>1 DEF Flock
      <4>2. CASE held[lockFd[s]] # None
        <5>1. /\ pc[s] = "flock" /\ pc' = [pc EXCEPT ![s] = "over"] /\ lockFd' = [lockFd EXCEPT ![s] = None]
              /\ UNCHANGED <<held, raced, seen, lockPath, pidFile, pidFd, daemon>>
          BY <3>2, <4>2 DEF Flock
        <5> QED
          <6>1. ~raced
            BY <5>1
          <6>2. PidFileAt' /\ OneAtWork'
            BY <2>2, <3>2, <4>2, <5>1, <6>1
          <6>5. OneDecides'
            BY <2>2, <3>2, <4>2, <5>1, <6>1
          <6>3. \A o \in Starters : LockAt(o)'
            BY <2>2, <3>2, <4>2, <5>1, <6>1
          <6>4. \A o \in Starters : StarterAt(o)'
            BY <2>2, <3>2, <4>2, <5>1, <6>1
          <6> QED
            BY <6>2, <6>3, <6>4, <6>5
      <4> QED
        BY <3>2, <4>1, <4>2 DEF Flock
    <3>3. CASE StartExists(s)
      BY <2>2, <3>3 DEF StartExists
    <3>4. CASE StartRead(s)
      BY <2>2, <3>4 DEF StartRead
    <3>5. CASE StartProbe(s)
      BY <2>2, <3>5 DEF StartProbe
    <3>6. CASE StartUnlink(s)
      BY <2>2, <3>6 DEF StartUnlink
    <3>7. CASE Fork(s)
      BY <2>2, <3>7 DEF Fork
    <3>8. CASE OpenPid(s)
      BY <2>2, <3>8 DEF OpenPid
    <3>9. CASE WritePid(s)
      <4>1. OneAtWork'
        BY <2>2, <3>9 DEF WritePid
      <4>4. OneDecides'
        BY <2>2, <3>9 DEF WritePid
      <4>5. PidFileAt'
        <5>1. \A d \in Starters : AtWork(d) => d = s /\ pidFile.ino = pidFd[s]
          BY <3>9 DEF WritePid
        <5> QED
          BY <2>2, <3>9, <5>1 DEF WritePid
      <4>2. \A o \in Starters : LockAt(o)'
        BY <2>2, <3>9 DEF WritePid
      <4>3. \A o \in Starters : StarterAt(o)'
        <5> SUFFICES ASSUME NEW o \in Starters PROVE StarterAt(o)'
          OBVIOUS
        <5>1. CASE o = s
          BY <2>2, <3>9, <5>1 DEF WritePid
        <5>2. CASE o # s
          <6>1. /\ pc'[o] = pc[o] /\ daemon' = daemon /\ ~Deciding(o) /\ StarterAt(o)
            BY <2>2, <3>9, <5>2 DEF WritePid
          <6> QED
            BY <6>1
        <5> QED
          BY <5>1, <5>2
      <4> QED
        BY <4>1, <4>2, <4>3, <4>4, <4>5
    <3>10. CASE Unlock(s)
      BY <2>2, <3>10 DEF Unlock
    <3> QED
      BY <2>2, <3>1, <3>2, <3>3, <3>4, <3>5, <3>6, <3>7, <3>8, <3>9, <3>10 DEF Start
  <2>3. ASSUME NEW t \in Stoppers, Stop(t) PROVE Sound'
    <3>1. CASE StopExists(t)
      BY <2>3, <3>1 DEF StopExists
    <3>2. CASE StopRead(t)
      BY <2>3, <3>2 DEF StopRead
    <3>3. CASE StopKill(t)
      BY <2>3, <3>3 DEF StopKill
    <3>4. CASE StopWait(t)
      BY <2>3, <3>4 DEF StopWait
    <3>5. CASE StopRmPid(t)
      BY <2>3, <3>5 DEF StopRmPid
    <3>6. CASE StopRmLock(t)
      BY <2>3, <3>6 DEF StopRmLock
    <3> QED
      BY <2>3, <3>1, <3>2, <3>3, <3>4, <3>5, <3>6 DEF Stop
  <2>4. ASSUME NEW w \in Watchers, Status(w) PROVE Sound'
    <3>1. CASE StatusExists(w)
      BY <2>4, <3>1 DEF StatusExists
    <3>2. CASE StatusRead(w)
      BY <2>4, <3>2 DEF StatusRead
    <3>3. CASE StatusProbe(w)
      BY <2>4, <3>3 DEF StatusProbe
    <3>4. CASE StatusRmPid(w)
      BY <2>4, <3>4 DEF StatusRmPid
    <3> QED
      BY <2>4, <3>1, <3>2, <3>3, <3>4 DEF Status
  <2>5. ASSUME NEW d \in Starters, Daemon(d) PROVE Sound'
    <3>1. CASE ChildUnlock(d)
      BY <2>5, <3>1 DEF ChildUnlock
    <3>2. CASE EnterLoop(d)
      BY <2>5, <3>2 DEF EnterLoop
    <3>3. CASE AutoStop(d)
      BY <2>5, <3>3 DEF AutoStop
    <3>4. CASE AutoExit(d)
      BY <2>5, <3>4 DEF AutoExit
    <3>5. CASE Flushed(d)
      BY <2>5, <3>5 DEF Flushed
    <3>6. CASE Exit(d)
      BY <2>5, <3>6 DEF Exit
    <3>7. CASE Crash(d)
      BY <2>5, <3>7 DEF Crash
    <3> QED
      BY <2>5, <3>1, <3>2, <3>3, <3>4, <3>5, <3>6, <3>7 DEF Daemon
  <2> QED
    BY <2>1, <2>2, <2>3, <2>4, <2>5 DEF Next
<1> QED
  BY <1>1, <1>2, PTL DEF Spec

(* A second daemon comes to work beside a first one only after a race.     *)
THEOREM OneDaemon == Spec => []AtMostOneDaemon
BY DaemonInvariance, PTL DEF DaemonInv, Sound, AtMostOneDaemon

(* Without a race, the pid file names the daemon at work between calls.    *)
THEOREM DaemonFound == Spec => []DaemonCanBeFound
<1>1. DaemonInv => DaemonCanBeFound
  BY DEF DaemonInv, Sound, DaemonCanBeFound, PidFileAt, AtWork, InFlight, Callers
<1> QED
  BY <1>1, DaemonInvariance, PTL

=============================================================================
