---------------------------- MODULE MissionProofs ----------------------------
(***************************************************************************)
(* For any number of containers and actions, any failures and any moment   *)
(* of the interrupts: no target is forgotten, what was confirmed is copied *)
(* whole or not to its end, and nothing that was confirmed is cut.         *)
(***************************************************************************)
EXTENDS Mission, TLAPS

AfterStop == {"settle", "collect", "cleanup", "terminate", "over"}

(* A session lives in a container that is up: docker exec reaches it, or   *)
(* fails.                                                                  *)
LiveRuns == \A c \in Containers : session[c] = "live" => c \in running

(* Every container is asked in its turn, and only what was asked and has   *)
(* begun is confirmed.  A stop that is at work leaves no live session.     *)
AskedInTurn ==
    /\ pc \notin {"stop"} \cup AfterStop \cup Ended =>
          confirmed = {} /\ \A c \in Containers : asked[c] = "no"
    /\ pc = "stop" => \A c \in todo : asked[c] = "no"
    /\ \A c \in confirmed : asked[c] \in {"idle", "working"}
    /\ \A c \in Containers : asked[c] = "working" => session[c] \in {"stopping", "done", "cut"}

(* While the program stops the targets, those that have not been asked     *)
(* have yet to come.                                                       *)
StopsAll ==
    /\ pc = "stop" => \A c \in Targets : asked[c] = "no" => c \in todo
    /\ pc \in AfterStop => \A c \in Targets : asked[c] # "no"

(* A session that was reported as stopped is over.                         *)
ConfirmedIsOver == \A c \in Containers : Stopped(c) => session[c] = "done"

(* Nothing is copied before all stops have returned or been given up.      *)
CopiesComeLast ==
    /\ pc \in {"collect", "cleanup", "terminate"} \cup Ended
          \/ \A c \in Containers : copied[c] = "nothing"
    /\ pc = "collect" /\ cur # None => (Stopped(cur) => source = "whole")
    /\ ConfirmedIsWhole

MissionIInv == TypeOK /\ LiveRuns /\ AskedInTurn /\ StopsAll /\ ConfirmedIsOver /\ CopiesComeLast

(* what is stopped stays so *)
StoppedStay == \A c \in Containers : Stopped(c) => Stopped(c)'

-----------------------------------------------------------------------------
LEMMA ConstantsAreSets ==
    /\ Fish \subseteq Containers /\ Older \subseteq Containers
    /\ Targets \subseteq Containers /\ Awaited \subseteq Containers
    /\ Launches \subseteq BOOLEAN
    /\ Len(Actions) \in Nat /\ MaxFailures \in Nat
BY MissionAssumption

LEMMA InitialInvariant == Init => MissionIInv
<1> SUFFICES ASSUME Init PROVE MissionIInv
  OBVIOUS
<1> USE ConstantsAreSets DEF Init
<1>1. TypeOK
  <2>1. launching \in Launches /\ daemonSeen \in BOOLEAN /\ acting \in BOOLEAN
    BY Zenon
  <2>2. /\ running \subseteq Containers /\ daemon \subseteq Containers /\ signals \subseteq Containers
        /\ session \in [Containers -> {"none", "live", "stopping", "done", "cut"}]
        /\ failures \in 0..MaxFailures /\ pc \in {"start"} \cup Waiting \cup Ended
    OBVIOUS
  <2>3. /\ todo \subseteq Containers /\ cur \in Containers \cup {None}
        /\ ready \in [Containers -> {"unknown", "signal", "daemon", "not"}]
        /\ action \in 0..Len(Actions) /\ interrupts \in 0..1 /\ confirmed \subseteq Containers
        /\ asked \in [Containers -> {"no", "sent", "idle", "working"}] /\ source \in {"older", "part", "whole"}
        /\ copied \in [Containers -> {"nothing", "unfinished", "older", "part", "whole"}]
    OBVIOUS
  <2> QED
    BY <2>1, <2>2, <2>3 DEF TypeOK
<1>2. LiveRuns /\ AskedInTurn /\ StopsAll
  BY DEF LiveRuns, AskedInTurn, StopsAll, AfterStop
<1>3. ConfirmedIsOver /\ CopiesComeLast
  BY DEF ConfirmedIsOver, CopiesComeLast, ConfirmedIsWhole, Stopped
<1> QED
  BY <1>1, <1>2, <1>3 DEF MissionIInv

(* What a container does, or what happens to it, keeps the invariant:      *)
(* sessions begin only before the stops, and a session that is over stays  *)
(* so.                                                                     *)
LEMMA WorldKeeps ==
    ASSUME MissionIInv, World
    PROVE  MissionIInv' /\ StoppedStay
<1> USE ConstantsAreSets
        DEF MissionIInv, TypeOK, LiveRuns, AskedInTurn, StopsAll, ConfirmedIsOver, Stopped, StoppedStay,
            CopiesComeLast, ConfirmedIsWhole, AfterStop, Waiting, Ended, orchestratorVars, programVars
<1>1. PICK c \in Containers : ContainerUp(c) \/ ContainerDown(c) \/ SessionStart(c)
                                \/ Settled(c) \/ OwnStop(c) \/ StopBegins(c) \/ StopDone(c)
  BY DEF World
<1>2. CASE ContainerUp(c)
  <2>1. TypeOK'
    <3>1. (launching \in Launches)' /\ (daemonSeen \in BOOLEAN)' /\ (acting \in BOOLEAN)'
      BY <1>2, Zenon DEF ContainerUp
    <3>2. running' \subseteq Containers
      BY <1>2 DEF ContainerUp
    <3>3. UNCHANGED <<session, daemon, signals, failures, pc, todo, cur, ready, action, interrupts,
                      asked, confirmed, source, copied>>
      BY <1>2 DEF ContainerUp
    <3> QED
      BY <3>1, <3>2, <3>3
  <2>2. LiveRuns' /\ AskedInTurn' /\ StopsAll'
    BY <1>2, SMTT(30) DEF ContainerUp
  <2>3. ConfirmedIsOver' /\ StoppedStay
    BY <1>2, SMTT(30) DEF ContainerUp
  <2>4. CopiesComeLast'
    BY <1>2, SMTT(30) DEF ContainerUp
  <2> QED
    BY <2>1, <2>2, <2>3, <2>4
<1>3. CASE ContainerDown(c)
  <2>1. TypeOK'
    BY <1>3, SMTT(30) DEF ContainerDown, Down
  <2>2. LiveRuns' /\ AskedInTurn' /\ StopsAll'
    BY <1>3, SMTT(30) DEF ContainerDown, Down
  <2>3. ConfirmedIsOver' /\ StoppedStay
    BY <1>3, SMTT(30) DEF ContainerDown, Down
  <2>4. CopiesComeLast'
    BY <1>3, SMTT(30) DEF ContainerDown, Down
  <2> QED
    BY <2>1, <2>2, <2>3, <2>4
<1>4. CASE SessionStart(c)
  BY <1>4, SMTT(30) DEF SessionStart
<1>5. CASE Settled(c)
  BY <1>5, SMTT(30) DEF Settled
<1>6. CASE OwnStop(c)
  BY <1>6, SMTT(30) DEF OwnStop
<1>7. CASE StopDone(c)
  BY <1>7, SMTT(30) DEF StopDone
<1>8. CASE StopBegins(c)
  BY <1>8, SMTT(60) DEF StopBegins
<1> QED
  BY <1>1, <1>2, <1>3, <1>4, <1>5, <1>6, <1>7, <1>8

(* The phases before the stops.                                            *)
LEMMA BeforeStopKeeps ==
    ASSUME MissionIInv,
           \/ Begin \/ AllUp \/ Abort
           \/ \E c \in Containers : AwaitStable(c)
           \/ SeeDaemon \/ StableOver \/ BeginActions \/ BeginAction \/ EndAction \/ EndActions
    PROVE  MissionIInv' /\ StoppedStay
<1> USE ConstantsAreSets
        DEF MissionIInv, TypeOK, LiveRuns, AskedInTurn, StopsAll, ConfirmedIsOver, Stopped, StoppedStay,
            CopiesComeLast, ConfirmedIsWhole, AfterStop, Waiting, Ended, worldVars, resultVars
<1>1. CASE Begin
  <2>1. TypeOK'
    BY <1>1, SMTT(30) DEF Begin, Phase
  <2>2. LiveRuns' /\ AskedInTurn' /\ StopsAll'
    BY <1>1, SMTT(30) DEF Begin, Phase
  <2>3. ConfirmedIsOver' /\ StoppedStay
    BY <1>1, SMTT(30) DEF Begin, Phase
  <2>4. CopiesComeLast'
    BY <1>1, SMTT(30) DEF Begin, Phase
  <2> QED
    BY <2>1, <2>2, <2>3, <2>4
<1>2. CASE AllUp
  <2>1. TypeOK'
    BY <1>2, SMTT(30) DEF AllUp, Phase
  <2>2. LiveRuns' /\ AskedInTurn' /\ StopsAll'
    BY <1>2, SMTT(30) DEF AllUp, Phase
  <2>3. ConfirmedIsOver' /\ StoppedStay
    BY <1>2, SMTT(30) DEF AllUp, Phase
  <2>4. CopiesComeLast'
    BY <1>2, SMTT(30) DEF AllUp, Phase
  <2> QED
    BY <2>1, <2>2, <2>3, <2>4
<1>3. CASE Abort
  BY <1>3, SMTT(60) DEF Abort, Phase, Down
<1>4. ASSUME NEW c \in Containers, AwaitStable(c)
      PROVE  MissionIInv' /\ StoppedStay
  <2>1. TypeOK'
    <3>1. UNCHANGED <<running, session, daemon, signals, failures, launching, pc, action, acting,
                      interrupts, asked, ready, confirmed, source, copied>>
      BY <1>4 DEF AwaitStable, Take
    <3>2. todo' \subseteq Containers /\ cur' \in Containers /\ daemonSeen' = FALSE
      BY <1>4 DEF AwaitStable, Take
    <3> QED
      BY <3>1, <3>2
  <2>2. LiveRuns' /\ AskedInTurn' /\ StopsAll'
    BY <1>4, SMTT(30) DEF AwaitStable, Take
  <2>3. ConfirmedIsOver' /\ StoppedStay
    BY <1>4, SMTT(30) DEF AwaitStable, Take
  <2>4. CopiesComeLast'
    BY <1>4, SMTT(30) DEF AwaitStable, Take
  <2> QED
    BY <2>1, <2>2, <2>3, <2>4
<1>5. CASE SeeDaemon
  BY <1>5, SMTT(30) DEF SeeDaemon
<1>6. CASE StableOver
  <2>1. Verdicts \subseteq {"unknown", "signal", "daemon", "not"}
    BY DEF Verdicts
  <2>2. ready' \in [Containers -> {"unknown", "signal", "daemon", "not"}]
    BY <1>6, <2>1, SMTT(30) DEF StableOver
  <2>3. TypeOK'
    <3>1. UNCHANGED <<running, session, daemon, signals, failures, launching, pc, todo, action, acting,
                      interrupts, asked, confirmed, source, copied>>
      BY <1>6 DEF StableOver
    <3>2. cur' = None /\ daemonSeen' = FALSE
      BY <1>6 DEF StableOver
    <3> QED
      BY <2>2, <3>1, <3>2
  <2>4. LiveRuns' /\ AskedInTurn' /\ StopsAll'
    BY <1>6, SMTT(30) DEF StableOver
  <2>5. ConfirmedIsOver' /\ StoppedStay
    BY <1>6, SMTT(30) DEF StableOver
  <2>6. CopiesComeLast'
    BY <1>6, SMTT(30) DEF StableOver
  <2> QED
    BY <2>3, <2>4, <2>5, <2>6
<1>7. CASE BeginActions
  BY <1>7, SMTT(30) DEF BeginActions, Phase
<1>8. CASE BeginAction
  BY <1>8, SMTT(30) DEF BeginAction
<1>9. CASE EndAction
  <2>1. TypeOK'
    <3>1. acting' = FALSE
      BY <1>9 DEF EndAction
    <3>2. UNCHANGED <<running, session, daemon, signals, failures, launching, pc, todo, cur, daemonSeen,
                      action, interrupts, asked, ready, confirmed, source, copied>>
      BY <1>9 DEF EndAction
    <3> QED
      BY <3>1, <3>2
  <2>2. LiveRuns' /\ AskedInTurn' /\ StopsAll'
    BY <1>9, SMTT(30) DEF EndAction
  <2>3. ConfirmedIsOver' /\ StoppedStay
    BY <1>9, SMTT(30) DEF EndAction
  <2>4. CopiesComeLast'
    BY <1>9, SMTT(30) DEF EndAction
  <2> QED
    BY <2>1, <2>2, <2>3, <2>4
<1>10. CASE EndActions
  BY <1>10, SMTT(30) DEF EndActions, Phase
<1> QED
  BY <1>1, <1>2, <1>3, <1>4, <1>5, <1>6, <1>7, <1>8, <1>9, <1>10

(* The stops, and what comes after them.                                   *)
LEMMA FromStopKeeps ==
    ASSUME MissionIInv,
           \/ \E c \in Containers : CallStop(c) \/ Collect(c) \/ StopContainer(c)
           \/ StopReturned \/ StopFailed \/ Settle \/ BeginCollecting \/ Copied \/ BeginCleanup
           \/ BeginTerminate \/ Terminate
    PROVE  MissionIInv' /\ StoppedStay
<1> USE ConstantsAreSets
        DEF MissionIInv, TypeOK, LiveRuns, AskedInTurn, StopsAll, ConfirmedIsOver, Stopped, StoppedStay,
            CopiesComeLast, ConfirmedIsWhole, AfterStop, Waiting, Ended, worldVars, resultVars
<1>1. ASSUME NEW c \in Containers, CallStop(c)
      PROVE  MissionIInv' /\ StoppedStay
  BY <1>1, SMTT(60) DEF CallStop, Take
<1>2. ASSUME NEW c \in Containers, Collect(c)
      PROVE  MissionIInv' /\ StoppedStay
  BY <1>2, SMTT(60) DEF Collect, Take, Latest
<1>3. ASSUME NEW c \in Containers, StopContainer(c)
      PROVE  MissionIInv' /\ StoppedStay
  BY <1>3, SMTT(60) DEF StopContainer, Take, Down
<1>4. CASE StopReturned
  BY <1>4, SMTT(30) DEF StopReturned
<1>5. CASE StopFailed
  BY <1>5, SMTT(30) DEF StopFailed
<1>6. CASE Settle
  BY <1>6, SMTT(30) DEF Settle, Phase, PhaseOver
<1>7. CASE BeginCollecting
  <2>1. TypeOK'
    BY <1>7, SMTT(30) DEF BeginCollecting, Phase
  <2>2. LiveRuns' /\ AskedInTurn' /\ StopsAll'
    BY <1>7, SMTT(30) DEF BeginCollecting, Phase
  <2>3. ConfirmedIsOver' /\ StoppedStay
    BY <1>7, SMTT(30) DEF BeginCollecting, Phase
  <2>4. CopiesComeLast'
    BY <1>7, SMTT(30) DEF BeginCollecting, Phase
  <2> QED
    BY <2>1, <2>2, <2>3, <2>4
<1>8. CASE BeginCleanup
  BY <1>8, SMTT(30) DEF BeginCleanup, Phase
<1>9. CASE BeginTerminate
  BY <1>9, SMTT(30) DEF BeginTerminate, Phase
<1>10. CASE Terminate
  BY <1>10, SMTT(60) DEF Terminate, Phase, Down
<1>11. CASE Copied
  BY <1>11, SMTT(60) DEF Copied
<1> QED
  BY <1>1, <1>2, <1>3, <1>4, <1>5, <1>6, <1>7, <1>8, <1>9, <1>10, <1>11

LEMMA InterruptKeeps ==
    ASSUME MissionIInv, Interrupt
    PROVE  MissionIInv' /\ StoppedStay
BY SMTT(30)
   DEF MissionIInv, TypeOK, LiveRuns, AskedInTurn, StopsAll, ConfirmedIsOver, Stopped, StoppedStay,
       CopiesComeLast, ConfirmedIsWhole, AfterStop, Waiting, Ended, Interrupt, Interrupted,
       worldVars, resultVars

LEMMA StepKeeps ==
    ASSUME MissionIInv, [Next]_vars
    PROVE  MissionIInv' /\ StoppedStay
<1>1. CASE Next
  BY <1>1, WorldKeeps, BeforeStopKeeps, FromStopKeeps, InterruptKeeps DEF Next, Orchestrate
<1>2. CASE UNCHANGED vars
  BY <1>2, SMTT(30)
     DEF vars, MissionIInv, TypeOK, LiveRuns, AskedInTurn, StopsAll, ConfirmedIsOver, Stopped, StoppedStay,
         CopiesComeLast, ConfirmedIsWhole, Interrupted
<1> QED
  BY <1>1, <1>2

LEMMA Invariant == Spec => []MissionIInv
<1>1. MissionIInv /\ [Next]_vars => MissionIInv'
  BY StepKeeps
<1> QED
  BY InitialInvariant, <1>1, PTL DEF Spec

-----------------------------------------------------------------------------
(* Every variable keeps its type.                                          *)
THEOREM TypeCorrect == Spec => []TypeOK
<1>1. MissionIInv => TypeOK
  BY DEF MissionIInv
<1> QED
  BY Invariant, <1>1, PTL

(* Once the program has waited for the reports, a target records on only   *)
(* where docker exec has not got through, and has said so, or where the    *)
(* session began after the stop.                                           *)
THEOREM EveryTargetIsStopped == Spec => []EverySessionIsStopped
<1>1. MissionIInv => EverySessionIsStopped
  <2> SUFFICES ASSUME MissionIInv, pc \in AfterStop, NEW c \in Targets, session[c] = "live"
               PROVE  (asked[c] = "sent" /\ c \notin confirmed) \/ asked[c] = "idle"
    BY DEF EverySessionIsStopped, AfterStop
  <2>1. asked[c] \in {"no", "sent", "idle", "working"} /\ asked[c] # "no" /\ asked[c] # "working"
    BY ConstantsAreSets DEF MissionIInv, TypeOK, AskedInTurn, StopsAll
  <2> QED
    BY <2>1 DEF MissionIInv, AskedInTurn
<1> QED
  BY Invariant, <1>1, PTL

(* A session that was reported as stopped is copied whole, or the copy did *)
(* not come to its end.                                                    *)
THEOREM ConfirmedCopies == Spec => []ConfirmedIsWhole
<1>1. MissionIInv => ConfirmedIsWhole
  BY DEF MissionIInv, CopiesComeLast
<1> QED
  BY Invariant, <1>1, PTL

(* The clean-up cuts no session that was reported as stopped.              *)
THEOREM ConfirmedIsNotCut == Spec => CutOnlyUnconfirmed
<1>1. MissionIInv /\ [Next]_vars =>
        [\A c \in Containers : session[c] # "cut" /\ session'[c] = "cut" => ~Stopped(c)]_vars
  <2> SUFFICES ASSUME MissionIInv, [Next]_vars, NEW c \in Containers, Stopped(c)
               PROVE  session'[c] # "cut"
    OBVIOUS
  <2>1. Stopped(c)' /\ ConfirmedIsOver'
    BY StepKeeps DEF StoppedStay, MissionIInv
  <2> QED
    BY <2>1 DEF ConfirmedIsOver
<1> QED
  BY Invariant, <1>1, PTL DEF Spec, CutOnlyUnconfirmed
=============================================================================
