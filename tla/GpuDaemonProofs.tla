--------------------------- MODULE GpuDaemonProofs ---------------------------
(***************************************************************************)
(* For any number of nodes of any kinds: kill and relaunch never leave two *)
(* processes of a node running, nothing that runs under nsys is killed,    *)
(* and the end of phase 2 is not signalled before the standalone GPU       *)
(* processes of the initial scan have been stopped.  The phase before,     *)
(* module Stability, has its theorems at the end.                          *)
(***************************************************************************)
EXTENDS GpuDaemon, Stability, TLAPS

Later(p, q) == p[1] = q[1] /\ p[2] < q[2]

(* the runs of a node are born in order, each after the end of the last    *)
RunsInOrder ==
    \A p, q \in Processes : Later(p, q) /\ state[q] # "unborn" => state[p] = "gone"

(* a process that is waiting or in hand was up when it was scanned, and no *)
(* later run of its node exists                                            *)
Latest(p) ==
    /\ state[p] \in {"up", "gone"}
    /\ \A q \in Processes : Later(p, q) => state[q] = "unborn"

InHand == pc \in {"handle", "kill", "launch"}

TurnsAreOnce ==
    /\ \A p \in todo : Latest(p)
    /\ \A p, q \in todo : p[1] = q[1] => p = q
    /\ InHand => cur \in Processes /\ Latest(cur) /\ (\A p \in todo : p[1] # cur[1])
    /\ pc = "launch" => state[cur] = "gone"
    /\ pc = "register" => cur \in Processes
    /\ pc = "scan" => phase = "initial" /\ todo = {} /\ cudaSeen = {}

KillIsJustified == pc = "kill" /\ Up(cur) => Standalone(cur)

(* the standalone GPU processes of the initial scan *)
InitialInv ==
    /\ \A p \in cudaSeen : state[p] \in {"up", "gone"}
    /\ \A p \in cudaSeen : Candidate(p) /\ Up(p) =>
          phase = "initial" /\ (p \in todo \/ (p = cur /\ pc \in {"handle", "kill"}))
    /\ "gpu_handler_complete" \in signals => phase = "loop"
    /\ pc \in {"replay", "poll", "settle", "signal", "exit"} => phase = "loop"

GpuInv == TypeOK /\ RunsInOrder /\ TurnsAreOnce /\ KillIsJustified /\ InitialInv
-----------------------------------------------------------------------------
LEMMA SameProcess ==
    ASSUME NEW p \in Processes, NEW q \in Processes, p[1] = q[1], p[2] = q[2]
    PROVE  p = q
BY DEF Processes

LEMMA OneLater ==
    ASSUME NEW p \in Processes, NEW q \in Processes, p[1] = q[1], p # q
    PROVE  Later(p, q) \/ Later(q, p)
<1>1. p[2] \in Nat /\ q[2] \in Nat /\ p[2] # q[2]
  BY SameProcess, GpuDaemonAssumption DEF Processes
<1> QED
  BY <1>1 DEF Later

(* what a node is does not change *)
LEMMA KindsStay ==
    ASSUME UNCHANGED traits
    PROVE  \A p : Standalone(p)' = Standalone(p) /\ Candidate(p)' = Candidate(p)
BY DEF Standalone, Candidate, Is

LEMMA InitialInvariant == Init => GpuInv
<1> SUFFICES ASSUME Init PROVE GpuInv
  OBVIOUS
<1>1. TypeOK
  <2>1. state \in [Processes -> {"unborn", "starting", "up", "gone"}]
    BY DEF Init
  <2>2. cuda \in [Processes -> {"none", "linked", "context"}]
    BY DEF Init
  <2>3. active \in BOOLEAN /\ hadGpu \in BOOLEAN
    BY DEF Init
  <2>4. noNew \in 0..ScanStable + 1
    BY GpuDaemonAssumption DEF Init
  <2>5. todo \subseteq Processes /\ cudaSeen \subseteq Processes /\ cur \in Processes \cup {NoProcess}
    BY DEF Init
  <2>6. known \subseteq Processes /\ children \subseteq Processes /\ signals \subseteq {"gpu_handler_complete", "system_stable"}
    BY DEF Init
  <2>7. phase \in {"initial", "loop"} /\ pc = "scan"
    BY DEF Init
  <2>8. traits \in [Nodes -> SUBSET {"container", "launch", "wrapped", "denied"}]
    BY GpuDaemonAssumption DEF Init
  <2> QED
    BY <2>1, <2>2, <2>3, <2>4, <2>5, <2>6, <2>7, <2>8 DEF TypeOK
<1>2. RunsInOrder
  <2> SUFFICES ASSUME NEW p \in Processes, NEW q \in Processes, Later(p, q) PROVE state[q] = "unborn"
    BY DEF RunsInOrder
  <2>1. q[2] > 1
    BY GpuDaemonAssumption DEF Processes, Later
  <2> QED
    BY <2>1 DEF Init
<1>3. TurnsAreOnce /\ KillIsJustified /\ InitialInv
  BY DEF Init, TurnsAreOnce, InHand, KillIsJustified, InitialInv
<1> QED
  BY <1>1, <1>2, <1>3 DEF GpuInv

LEMMA TypePreserved == TypeOK /\ [Next]_vars => TypeOK'
<1> USE GpuDaemonAssumption DEF TypeOK, UpNow
<1> SUFFICES ASSUME TypeOK, [Next]_vars PROVE TypeOK'
  OBVIOUS
<1>1. CASE UNCHANGED vars
  BY <1>1 DEF vars
<1>2. CASE Quiet /\ UNCHANGED procVars
  <2>1. CASE InitialScan \/ InitialDone \/ EndReplay
    BY <1>2, <2>1 DEF InitialScan, InitialDone, EndReplay, procVars
  <2>2. CASE \E p \in Processes : InitialTake(p) \/ LoopTake(p)
    BY <1>2, <2>2 DEF InitialTake, LoopTake, procVars
  <2>3. CASE PollNew
    <3>1. todo' \subseteq Processes /\ known' \subseteq Processes /\ children' \subseteq Processes
      BY <2>3 DEF PollNew
    <3>2. hadGpu' \in BOOLEAN /\ active' \in BOOLEAN
      BY <1>2, <2>3 DEF PollNew, procVars
    <3>3. noNew' \in 0..ScanStable + 1 /\ pc' = "settle"
      BY <2>3 DEF PollNew
    <3> HIDE DEF UpNow
    <3> QED
      BY <1>2, <2>3, <3>1, <3>2, <3>3 DEF PollNew, procVars
  <2>6. CASE Settle \/ LoopDone \/ SignalAgain
    BY <1>2, <2>6 DEF Settle, LoopDone, SignalAgain, procVars
  <2>4. CASE PollClean
    BY <1>2, <2>4 DEF PollClean, procVars
  <2>5. CASE Handle \/ Register
    BY <1>2, <2>5 DEF Handle, Register, Registered, procVars
  <2> QED
    BY <1>2, <2>1, <2>2, <2>3, <2>4, <2>5, <2>6 DEF Quiet
<1>3. CASE Relaunch /\ UNCHANGED <<traits, cuda, active>>
  <2>1. CASE Kill
    BY <1>3, <2>1 DEF Kill
  <2>2. CASE Launch
    <3>1. PICK q \in NextRun(cur) : /\ state' = [state EXCEPT ![q] = "starting"]
                                    /\ children' = children \cup {q}
                                    /\ cur' = q
      BY <2>2 DEF Launch
    <3>2. q \in Processes
      BY DEF NextRun
    <3> QED
      BY <1>3, <2>2, <3>1, <3>2 DEF Launch
  <2>3. CASE LaunchFails
    BY <1>3, <2>3 DEF LaunchFails
  <2> QED
    BY <1>3, <2>1, <2>2, <2>3 DEF Relaunch
<1>4. CASE Application
  <2>1. ASSUME NEW n \in Nodes, Start(n) PROVE TypeOK'
    BY <2>1 DEF Start, daemonVars
  <2>2. ASSUME NEW p \in Processes, NsysForks(p) \/ CudaProgress(p) \/ Ends(p) PROVE TypeOK'
    BY <2>2 DEF NsysForks, CudaProgress, Ends, daemonVars
  <2>3. CASE SessionEnds
    BY <2>3 DEF SessionEnds, daemonVars
  <2> QED
    BY <1>4, <2>1, <2>2, <2>3 DEF Application
<1> QED
  BY <1>1, <1>2, <1>3, <1>4 DEF Next, Daemon

(* The variables keep their types. *)
THEOREM TypeCorrect == Spec => []TypeOK
<1>1. Init => TypeOK
  BY InitialInvariant DEF GpuInv
<1>2. TypeOK /\ [Next]_vars => TypeOK'
  BY TypePreserved
<1> QED
  BY <1>1, <1>2, PTL DEF Spec

-----------------------------------------------------------------------------
(* Steps of the daemon that leave the processes alone.                     *)
LEMMA QuietStep == GpuInv /\ Quiet /\ UNCHANGED procVars => GpuInv'
<1> USE GpuDaemonAssumption DEF procVars, UpNow, Up, InHand
<1> SUFFICES ASSUME GpuInv, Quiet, UNCHANGED procVars PROVE GpuInv'
  OBVIOUS
<1>0. TypeOK /\ RunsInOrder /\ TurnsAreOnce /\ KillIsJustified /\ InitialInv
  BY DEF GpuInv
<1>1. TypeOK'
  BY <1>0, TypePreserved DEF Next, Daemon
<1>2. RunsInOrder'
  BY <1>0 DEF RunsInOrder
<1>3. \A p \in UpNow : p \in Processes /\ Latest(p)
  BY <1>0 DEF Latest, RunsInOrder
<1>4. \A p, q \in UpNow : p[1] = q[1] => p = q
  BY <1>0, OneLater DEF RunsInOrder
<1>5. \A p : Latest(p) => Latest(p)'
  BY DEF Latest
<1>7. \A p : Standalone(p)' = Standalone(p) /\ Candidate(p)' = Candidate(p)
  BY KindsStay
<1>6. TurnsAreOnce' /\ KillIsJustified' /\ InitialInv'
  <2> USE <1>0, <1>5, <1>7 DEF TurnsAreOnce, KillIsJustified, InitialInv, TypeOK
  <2>1. CASE InitialScan
    BY <2>1, <1>3, <1>4 DEF InitialScan, HasLibs
  <2>2. ASSUME NEW p \in Processes, InitialTake(p) PROVE TurnsAreOnce' /\ KillIsJustified' /\ InitialInv'
    <3>1. TurnsAreOnce'
      BY <2>2 DEF InitialTake
    <3>2. KillIsJustified' /\ InitialInv'
      BY <2>2 DEF InitialTake
    <3> QED
      BY <3>1, <3>2
  <2>3. ASSUME NEW p \in Processes, LoopTake(p) PROVE TurnsAreOnce' /\ KillIsJustified' /\ InitialInv'
    <3>1. TurnsAreOnce'
      BY <2>3 DEF LoopTake
    <3>2. KillIsJustified' /\ InitialInv'
      BY <2>3 DEF LoopTake
    <3> QED
      BY <3>1, <3>2
  <2>4. CASE InitialDone
    BY <2>4 DEF InitialDone
  <2>5. CASE EndReplay \/ Settle \/ LoopDone \/ SignalAgain
    BY <2>5 DEF EndReplay, Settle, LoopDone, SignalAgain
  <2>6. CASE PollNew
    <3>1. TurnsAreOnce'
      BY <2>6, <1>3, <1>4 DEF PollNew
    <3>2. KillIsJustified' /\ InitialInv'
      BY <2>6 DEF PollNew
    <3> QED
      BY <3>1, <3>2
  <2>7. CASE PollClean
    BY <2>7 DEF PollClean
  <2>8. CASE Handle
    <3>1. TurnsAreOnce'
      BY <2>8 DEF Handle
    <3>2. ~LeftAlone(cur) /\ Up(cur) => Standalone(cur)
      <4>1. cur[2] \in Nat /\ cur[2] >= 1
        BY <2>8 DEF Handle, Processes
      <4> QED
        BY <4>1 DEF LeftAlone, LaunchAncestor, NsysAncestor, Standalone, Is
    <3>3. LeftAlone(cur) => ~Candidate(cur)
      BY DEF LeftAlone, LaunchAncestor, NsysAncestor, Standalone, Candidate, Is
    <3>4. KillIsJustified' /\ InitialInv'
      BY <2>8, <3>2, <3>3 DEF Handle
    <3> QED
      BY <3>1, <3>4
  <2>9. CASE Register
    BY <2>9 DEF Register
  <2> QED
    BY <2>1, <2>2, <2>3, <2>4, <2>5, <2>6, <2>7, <2>8, <2>9 DEF Quiet
<1> QED
  BY <1>1, <1>2, <1>6 DEF GpuInv

-----------------------------------------------------------------------------
(* Steps that change processes: none undoes the end of a process, and only *)
(* Launch begets one.                                                      *)
LEMMA KillStep == GpuInv /\ Kill /\ UNCHANGED <<traits, cuda, active>> => GpuInv'
<1> USE GpuDaemonAssumption DEF Up, InHand
<1> SUFFICES ASSUME GpuInv, Kill, UNCHANGED <<traits, cuda, active>> PROVE GpuInv'
  OBVIOUS
<1>0. TypeOK /\ RunsInOrder /\ TurnsAreOnce /\ KillIsJustified /\ InitialInv
  BY DEF GpuInv
<1>1. TypeOK'
  BY <1>0, TypePreserved DEF Next, Daemon, Relaunch
<1>2. cur \in Processes /\ Latest(cur) /\ cur \notin todo
  BY <1>0 DEF TurnsAreOnce, Kill
<1>3. \A p \in Processes : state'[p] = state[p] \/ (p = cur /\ state'[p] = "gone" /\ state[p] # "unborn")
  BY <1>0, <1>2 DEF Kill, TypeOK, Latest
<1>4. RunsInOrder'
  BY <1>0, <1>3 DEF RunsInOrder
<1>5. \A p \in Processes : Latest(p) => Latest(p)'
  BY <1>3 DEF Latest, Later
<1>6. TurnsAreOnce'
  <2>1. pc' = "launch" => state'[cur] = "gone"
    BY <1>0, <1>2 DEF Kill, TypeOK
  <2> QED
    BY <1>0, <1>2, <1>5, <2>1 DEF TurnsAreOnce, Kill, TypeOK
<1>7. KillIsJustified'
  BY DEF KillIsJustified, Kill
<1>8. InitialInv'
  <2>1. Candidate(cur) => ~Up(cur)'
    BY <1>0, <1>2 DEF Kill, Candidate, TypeOK
  <2> QED
    BY <1>0, <1>3, <2>1, KindsStay DEF InitialInv, Kill, TypeOK
<1> QED
  BY <1>1, <1>4, <1>6, <1>7, <1>8 DEF GpuInv

LEMMA LaunchStep == GpuInv /\ (Launch \/ LaunchFails) /\ UNCHANGED <<traits, cuda, active>> => GpuInv'
<1> USE GpuDaemonAssumption DEF Up, InHand
<1> SUFFICES ASSUME GpuInv, Launch \/ LaunchFails, UNCHANGED <<traits, cuda, active>> PROVE GpuInv'
  OBVIOUS
<1>0. TypeOK /\ RunsInOrder /\ TurnsAreOnce /\ KillIsJustified /\ InitialInv
  BY DEF GpuInv
<1>1. TypeOK'
  BY <1>0, TypePreserved DEF Next, Daemon, Relaunch
<1>2. CASE LaunchFails
  <2>1. \A p : Latest(p) => Latest(p)'
    BY <1>2 DEF Latest, LaunchFails
  <2>2. RunsInOrder'
    BY <1>0, <1>2 DEF RunsInOrder, LaunchFails
  <2>3. TurnsAreOnce' /\ KillIsJustified' /\ InitialInv'
    BY <1>0, <1>2, <2>1, KindsStay DEF TurnsAreOnce, KillIsJustified, InitialInv, LaunchFails, TypeOK
  <2> QED
    BY <1>1, <2>2, <2>3 DEF GpuInv
<1>3. CASE Launch
  <2>1. PICK q \in NextRun(cur) : state' = [state EXCEPT ![q] = "starting"] /\ cur' = q
    BY <1>3 DEF Launch
  <2>2. /\ q \in Processes /\ q[1] = cur[1] /\ state[q] = "unborn"
        /\ \A r \in Processes : Later(r, q) => state[r] # "unborn"
    BY <1>3 DEF NextRun, Later
  <2>3. cur \in Processes /\ Latest(cur) /\ state[cur] = "gone" /\ \A p \in todo : p[1] # cur[1]
    BY <1>0, <1>3 DEF TurnsAreOnce, Launch
  <2>4. \A p \in Processes : p # q => state'[p] = state[p]
    BY <1>0, <2>1 DEF TypeOK
  <2>5. \A p \in Processes : Later(p, q) => state[p] = "gone"
    <3> SUFFICES ASSUME NEW p \in Processes, Later(p, q) PROVE state[p] = "gone"
      OBVIOUS
    <3>1. p = cur \/ Later(p, cur) \/ Later(cur, p)
      BY <2>2, <2>3, OneLater DEF Later
    <3>2. state[p] # "unborn"
      BY <2>2
    <3> QED
      BY <1>0, <2>3, <3>1, <3>2 DEF Latest, RunsInOrder
  <2>6. \A p \in Processes : Later(q, p) => state[p] = "unborn"
    BY <1>0, <2>2 DEF RunsInOrder
  <2>7. RunsInOrder'
    <3> SUFFICES ASSUME NEW p \in Processes, NEW r \in Processes, Later(p, r), state'[r] # "unborn"
                 PROVE  state'[p] = "gone"
      BY DEF RunsInOrder, Later
    <3>1. p # r
      BY GpuDaemonAssumption DEF Later, Processes
    <3> QED
      BY <1>0, <2>4, <2>5, <2>6, <3>1 DEF RunsInOrder
  <2>8. \A p \in todo : Latest(p)'
    <3> SUFFICES ASSUME NEW p \in todo PROVE Latest(p)'
      OBVIOUS
    <3>1. p \in Processes /\ Latest(p) /\ p[1] # q[1]
      BY <1>0, <2>2, <2>3 DEF TurnsAreOnce, TypeOK
    <3> QED
      BY <2>4, <3>1 DEF Latest, Later
  <2>9. TurnsAreOnce'
    BY <1>0, <1>3, <2>1, <2>2, <2>8 DEF TurnsAreOnce, Launch
  <2>10. KillIsJustified'
    BY <1>3 DEF KillIsJustified, Launch
  <2>11. q \notin cudaSeen
    BY <1>0, <2>2 DEF InitialInv
  <2>12. InitialInv'
    BY <1>0, <1>3, <2>4, <2>11, KindsStay DEF InitialInv, Launch, TypeOK
  <2> QED
    BY <1>1, <2>7, <2>9, <2>10, <2>12 DEF GpuInv
<1> QED
  BY <1>2, <1>3

(* What the application does: first runs begin, processes move on or end.  *)
LEMMA ApplicationStep == GpuInv /\ Application => GpuInv'
<1> USE GpuDaemonAssumption DEF Up, InHand
<1> SUFFICES ASSUME GpuInv, Application PROVE GpuInv'
  OBVIOUS
<1>0. TypeOK /\ RunsInOrder /\ TurnsAreOnce /\ KillIsJustified /\ InitialInv
  BY DEF GpuInv
<1>1. TypeOK'
  BY <1>0, TypePreserved DEF Next
<1>2. UNCHANGED <<daemonVars, traits>>
  BY DEF Application, Start, NsysForks, CudaProgress, Ends, SessionEnds
<1> DEFINE Moves(p) == \/ state'[p] = state[p]
                       \/ state[p] = "unborn" /\ p[2] = 1
                       \/ state[p] = "starting" /\ state'[p] \in {"up", "gone"}
                       \/ state[p] = "up" /\ state'[p] = "gone"
<1>3. \A p \in Processes : Moves(p)
  <2>1. ASSUME NEW n \in Nodes, Start(n) PROVE \A p \in Processes : Moves(p)
    <3>1. \A p \in Processes : p # <<n, 1>> => state'[p] = state[p]
      BY <1>0, <2>1 DEF Start, TypeOK
    <3> QED
      BY <2>1, <3>1 DEF Start
  <2>2. ASSUME NEW q \in Processes, NsysForks(q) \/ CudaProgress(q) \/ Ends(q)
        PROVE  \A p \in Processes : Moves(p)
    BY <1>0, <2>2 DEF NsysForks, CudaProgress, Ends, Running, TypeOK
  <2>3. CASE SessionEnds
    BY <2>3 DEF SessionEnds
  <2> QED
    BY <2>1, <2>2, <2>3 DEF Application
<1>4. \A p \in Processes : p[2] \in Nat /\ p[2] >= 1
  BY DEF Processes
<1>5. RunsInOrder'
  <2> SUFFICES ASSUME NEW p \in Processes, NEW q \in Processes, Later(p, q), state'[q] # "unborn"
               PROVE  state'[p] = "gone"
    BY DEF RunsInOrder, Later
  <2>1. q[2] # 1
    BY <1>4 DEF Later
  <2>2. state[q] # "unborn"
    BY <1>3, <2>1
  <2>3. state[p] = "gone"
    BY <1>0, <2>2 DEF RunsInOrder
  <2> QED
    BY <1>3, <2>3
<1>6. \A p \in Processes : Latest(p) => Latest(p)'
  <2> SUFFICES ASSUME NEW p \in Processes, Latest(p) PROVE Latest(p)'
    OBVIOUS
  <2>1. \A q \in Processes : Later(p, q) => state'[q] = "unborn"
    BY <1>3, <1>4 DEF Latest, Later
  <2>2. state'[p] \in {"up", "gone"}
    BY <1>3 DEF Latest
  <2> QED
    BY <2>1, <2>2 DEF Latest, Later
<1>7. TurnsAreOnce'
  <2>1. todo \subseteq Processes /\ (InHand => cur \in Processes)
    BY <1>0 DEF TypeOK, TurnsAreOnce
  <2>2. pc = "launch" => state'[cur] = "gone"
    BY <1>0, <1>3 DEF TurnsAreOnce
  <2> QED
    BY <1>0, <1>2, <1>6, <2>1, <2>2 DEF TurnsAreOnce, daemonVars
<1>8. KillIsJustified'
  <2>1. pc = "kill" => cur \in Processes /\ state[cur] \in {"up", "gone"}
    BY <1>0 DEF TurnsAreOnce, Latest
  <2> QED
    BY <1>0, <1>2, <1>3, <2>1, KindsStay DEF KillIsJustified, daemonVars
<1>9. InitialInv'
  BY <1>0, <1>2, <1>3, KindsStay DEF InitialInv, daemonVars, TypeOK
<1> QED
  BY <1>1, <1>5, <1>7, <1>8, <1>9 DEF GpuInv

LEMMA GpuInvariance == Spec => []GpuInv
<1>1. Init => GpuInv
  BY InitialInvariant
<1>2. GpuInv /\ [Next]_vars => GpuInv'
  <2>1. GpuInv /\ UNCHANGED vars => GpuInv'
    BY KindsStay DEF vars, GpuInv, TypeOK, RunsInOrder, TurnsAreOnce, InHand, Latest, KillIsJustified,
                     InitialInv, Up
  <2> QED
    BY <2>1, QuietStep, KillStep, LaunchStep, ApplicationStep DEF Next, Daemon, Relaunch
<1> QED
  BY <1>1, <1>2, PTL DEF Spec

(* Kill and relaunch never leave two processes of one node running.        *)
THEOREM OneRun == Spec => []OneRunAtATime
<1>1. GpuInv => OneRunAtATime
  BY OneLater DEF GpuInv, RunsInOrder, OneRunAtATime, Running
<1> QED
  BY <1>1, GpuInvariance, PTL

(* Nothing that runs under nsys, no container, and nothing at all while    *)
(* FISH_NSYS_DISABLE is set, is killed: what is about to be killed and     *)
(* still lives is what the daemon found when it looked at its ancestors.   *)
THEOREM NsysLeftAlone == Spec => UnderNsysIsLeftAlone
<1>1. GpuInv => (pc = "kill" /\ pc' = "launch" /\ Up(cur) =>
                    cur[2] = 1 /\ traits[cur[1]] \cap {"container", "wrapped"} = {} /\ ~Disabled)
  BY DEF GpuInv, KillIsJustified, Standalone
<1> QED
  BY <1>1, GpuInvariance, PTL DEF UnderNsysIsLeftAlone

(* The end of phase 2 is not signalled before the standalone GPU processes *)
(* of the initial scan have been stopped or have ended.                    *)
THEOREM SignalAfterHandling == Spec => []HandlingPrecedesSignals
<1>1. GpuInv => HandlingPrecedesSignals
  BY DEF GpuInv, InitialInv, HandlingPrecedesSignals
<1> QED
  BY <1>1, GpuInvariance, PTL

(* What the daemon has started and is still running is in nsys_children,   *)
(* so graceful_stop_nsys will have its report written.                     *)
THEOREM CopiesOwned == Spec => []CopiesAreOwned
<1>1. Init => CopiesAreOwned
  BY DEF Init, CopiesAreOwned, Running
<1>2. TypeOK /\ CopiesAreOwned /\ [Next]_vars => CopiesAreOwned'
  <2> SUFFICES ASSUME TypeOK, CopiesAreOwned, [Next]_vars, NEW p \in Processes, p[2] > 1, Running(p)'
               PROVE  p \in children'
    BY DEF CopiesAreOwned
  <2> DEFINE Kept == Running(p) /\ (p \in children => p \in children')
  <2>1. Kept => p \in children'
    BY DEF CopiesAreOwned
  <2>2. CASE Quiet /\ UNCHANGED procVars
    <3>1. Running(p) /\ (children' = children \/ children' = {c \in children : Running(c)})
      BY <2>2 DEF Quiet, procVars, Running, InitialScan, InitialDone, EndReplay, InitialTake, LoopTake,
                  PollNew, PollClean, Settle, LoopDone, SignalAgain, Handle, Register
    <3> QED
      BY <2>1, <3>1
  <2>3. CASE Kill \/ LaunchFails
    <3>1. state'[p] = state[p] /\ children' = children
      BY <2>3 DEF Kill, LaunchFails, TypeOK, Running
    <3> QED
      BY <2>1, <3>1 DEF Running
  <2>4. CASE Launch
    <3>1. PICK q \in NextRun(cur) : state' = [state EXCEPT ![q] = "starting"]
                                      /\ children' = children \cup {q}
      BY <2>4 DEF Launch
    <3>2. p = q \/ state'[p] = state[p]
      BY <3>1 DEF TypeOK
    <3> QED
      BY <2>1, <3>1, <3>2 DEF Running
  <2>5. ASSUME NEW n \in Nodes, Start(n)
        PROVE  p \in children'
    <3>1. p # <<n, 1>> /\ children' = children
      BY <2>5 DEF Start, daemonVars
    <3>2. state'[p] = state[p]
      BY <2>5, <3>1 DEF Start, TypeOK
    <3> QED
      BY <2>1, <3>1, <3>2 DEF Running
  <2>6. ASSUME NEW q \in Processes, NsysForks(q) \/ CudaProgress(q) \/ Ends(q)
        PROVE  p \in children'
    <3>1. children' = children
      BY <2>6 DEF NsysForks, CudaProgress, Ends, daemonVars
    <3>2. Running(p)
      BY <2>6 DEF NsysForks, CudaProgress, Ends, Running, TypeOK
    <3> QED
      BY <2>1, <3>1, <3>2
  <2>7. CASE SessionEnds \/ UNCHANGED vars
    BY <2>1, <2>7 DEF SessionEnds, vars, daemonVars, Running
  <2> QED
    BY <2>2, <2>3, <2>4, <2>5, <2>6, <2>7 DEF Next, Daemon, Relaunch, Application
<1> QED
  BY TypeCorrect, <1>1, <1>2, PTL DEF Spec

-----------------------------------------------------------------------------
(***************************************************************************)
(* The phase before: module Stability.  For every required count and every *)
(* system under test the component list is declared stable only on         *)
(* consecutive equal readings, and run mode only with a reason.  The       *)
(* launch log has no such theorem: a zero reading counts on top of equal   *)
(* others (AfterZeroProcs).                                                *)
(***************************************************************************)
LEMMA BumpBound ==
    ASSUME NEW required \in Nat \ {0}, NEW n \in 0..required
    PROVE  Bump(n, required) \in 1..required
BY DEF Bump

LEMMA StabilityInitialTypes == StabilityInit => StabilityTypes
<1> USE StabilityAssumption DEF StabilityInit
<1> SUFFICES ASSUME StabilityInit PROVE StabilityTypes
  OBVIOUS
<1>1. session \in BOOLEAN /\ late \in BOOLEAN /\ stable \in BOOLEAN
  OBVIOUS
<1>2. cl \in [prev : Containers \cup {Empty, Unread}, count : 0..ClRequired, ok : BOOLEAN, seen : BOOLEAN]
  OBVIOUS
<1>3. ex \in [prev : Procs \cup {Unread}, count : 0..ExRequired, ok : BOOLEAN, seen : BOOLEAN]
  OBVIOUS
<1>4. clRun \in [value : Containers \cup {Empty, Unread}, length : 0..ClRequired]
  OBVIOUS
<1>5. sut \in Systems /\ changes \in 0..MaxChanges
  OBVIOUS
<1> QED
  BY <1>1, <1>2, <1>3, <1>4, <1>5 DEF StabilityTypes

LEMMA StabilityTypesKept == StabilityTypes /\ [StabilityNext]_stabilityVars => StabilityTypes'
<1> USE StabilityAssumption DEF StabilityTypes, Systems
<1> SUFFICES ASSUME StabilityTypes, [StabilityNext]_stabilityVars PROVE StabilityTypes'
  OBVIOUS
<1>1. CASE UNCHANGED stabilityVars
  BY <1>1 DEF stabilityVars
<1>2. CASE Iteration
  <2>1. Bump(cl.count, ClRequired) \in 0..ClRequired /\ Bump(ex.count, ExRequired) \in 0..ExRequired
    BY BumpBound
  <2>2. Bump(clRun.length, ClRequired) \in 0..ClRequired
    BY BumpBound
  <2>3. ASSUME PollCl
        PROVE  /\ cl' \in [prev : Containers \cup {Empty, Unread}, count : 0..ClRequired, ok : BOOLEAN, seen : BOOLEAN]
               /\ clRun' \in [value : Containers \cup {Empty, Unread}, length : 0..ClRequired]
    BY <2>1, <2>2, <2>3 DEF PollCl, AfterEmptyList, AfterList, ReadAgain
  <2>4. ASSUME PollEx
        PROVE  ex' \in [prev : Procs \cup {Unread}, count : 0..ExRequired, ok : BOOLEAN, seen : BOOLEAN]
    <3>2. CASE sut.ex = 0
      <4> DEFINE n == Bump(ex.count, ExRequired)
                 passed == n >= ExRequired /\ (ex.seen \/ Fallback)
      <4>1. ex' = [ex EXCEPT !.count = n, !.ok = passed] /\ passed \in BOOLEAN /\ n \in 0..ExRequired
        BY <2>1, <2>4, <3>2 DEF PollEx, AfterZeroProcs
      <4> HIDE DEF n, passed
      <4> QED
        BY <4>1
    <3>3. CASE sut.ex # 0
      BY <2>1, <2>4, <3>3 DEF PollEx, AfterProcs
    <3> QED
      BY <3>2, <3>3
  <2> QED
    BY <1>2, <2>3, <2>4 DEF Iteration, SkipCl, SkipEx
<1>3. CASE SignalStable
  BY <1>3 DEF SignalStable
<1>4. CASE FallbackElapses
  BY <1>4 DEF FallbackElapses
<1>5. CASE SystemChanges
  <2>1. sut' \in Systems /\ changes' \in 0..MaxChanges
    BY <1>5 DEF SystemChanges
  <2> QED
    BY <1>5, <2>1 DEF SystemChanges
<1>6. CASE SessionChanges
  BY <1>6 DEF SessionChanges
<1> QED
  BY <1>1, <1>2, <1>3, <1>4, <1>5, <1>6 DEF StabilityNext

(* The variables keep their types. *)
THEOREM StabilityTypeCorrect == StabilitySpec => []StabilityTypes
<1>1. StabilityInit => StabilityTypes
  BY StabilityInitialTypes
<1> QED
  BY <1>1, StabilityTypesKept, PTL DEF StabilitySpec

-----------------------------------------------------------------------------
(* The component list is counted exactly: cl_count is the length of the    *)
(* current run of equal readings, and cl_prev is what they read.           *)
ClCounts ==
    /\ cl.prev = clRun.value /\ cl.count = clRun.length
    /\ cl.prev = Unread => cl.count = 0
    /\ cl.ok => cl.count >= ClRequired

(* no check passes on empty readings without evidence or the fallback *)
Evidence ==
    /\ cl.ok => cl.seen \/ late
    /\ ex.ok => ex.seen \/ late
    /\ stable => cl.ok /\ ex.ok

StabilityInv == StabilityTypes /\ ClCounts /\ Evidence

LEMMA StabilityInvariance == StabilitySpec => []StabilityInv
<1> USE StabilityAssumption
<1>1. StabilityInit => StabilityInv
  <2>1. StabilityInit => ClCounts /\ Evidence
    BY DEF StabilityInit, ClCounts, Evidence
  <2> QED
    BY <2>1, StabilityInitialTypes DEF StabilityInv
<1>2. StabilityInv /\ [StabilityNext]_stabilityVars => StabilityInv'
  <2> SUFFICES ASSUME StabilityInv, StabilityTypes', [StabilityNext]_stabilityVars PROVE ClCounts' /\ Evidence'
    BY StabilityTypesKept DEF StabilityInv
  <2> USE DEF StabilityInv, StabilityTypes, Systems, ClCounts, Evidence
  <2>1. CASE UNCHANGED stabilityVars
    BY <2>1 DEF stabilityVars
  <2>2. CASE Iteration
    <3>1. ASSUME PollCl PROVE ClCounts' /\ (cl'.ok => cl'.seen \/ late)
      <4>1. CASE sut.cl = Empty
        <5> DEFINE n == IF cl.prev \in {Empty, Unread} THEN Bump(cl.count, ClRequired) ELSE 1
                   passed == n >= ClRequired /\ EmptyAllowed
        <5>1. cl' = [prev |-> Empty, count |-> n, ok |-> passed, seen |-> cl.seen]
          BY <3>1, <4>1 DEF PollCl, AfterEmptyList
        <5>2. passed => n >= ClRequired /\ (cl.seen \/ late)
          BY DEF EmptyAllowed, Fallback, NoContainerLaunch
        <5>3. clRun' = [value |-> Empty, length |-> n]
          BY <3>1, <4>1 DEF PollCl, ReadAgain, Bump
        <5> HIDE DEF n, passed
        <5> QED
          BY <5>1, <5>2, <5>3
      <4>2. CASE sut.cl # Empty
        BY <3>1, <4>2 DEF PollCl, AfterList, ReadAgain, Bump
      <4> QED
        BY <4>1, <4>2
    <3>2. ASSUME PollEx PROVE ex'.ok => ex'.seen \/ late
      BY <3>2 DEF PollEx, AfterZeroProcs, AfterProcs, Fallback
    <3> QED
      BY <2>2, <3>1, <3>2 DEF Iteration, SkipCl, SkipEx
  <2>3. CASE SignalStable \/ FallbackElapses \/ SystemChanges \/ SessionChanges
    BY <2>3 DEF SignalStable, FallbackElapses, SystemChanges, SessionChanges
  <2> QED
    BY <2>1, <2>2, <2>3 DEF StabilityNext
<1> QED
  BY <1>1, <1>2, PTL DEF StabilitySpec

(* When the component list is declared stable, its last ClRequired         *)
(* readings were equal.                                                    *)
THEOREM ClStable == StabilitySpec => []ClIsStable
<1>1. StabilityInv => ClIsStable
  BY DEF StabilityInv, ClCounts, ClIsStable
<1> QED
  BY <1>1, StabilityInvariance, PTL

(* Nothing is declared stable before the fallback time unless containers   *)
(* and launched processes have both been seen.                             *)
THEOREM RunModeJustified == StabilitySpec => []RunModeIsJustified
<1>1. StabilityInv => RunModeIsJustified
  BY DEF StabilityInv, Evidence, RunModeIsJustified
<1> QED
  BY <1>1, StabilityInvariance, PTL
=============================================================================
