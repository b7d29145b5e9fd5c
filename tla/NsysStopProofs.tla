--------------------------- MODULE NsysStopProofs ---------------------------
(***************************************************************************)
(* For any number of nsys processes and any times: nobody is killed before *)
(* it has had the timeout to write its report.  And when every report is   *)
(* written within the timeout and the collector is stopped soon enough,    *)
(* stop_daemon outwaits the daemon, nothing is killed, and every report is *)
(* there when the end-of-stop marker is written.                           *)
(***************************************************************************)
EXTENDS NsysStop, FiniteSetTheorems, TLAPS

Flushing == {"children", "waiting", "foreign"}

(* what the daemon still waits for *)
WaitsForAll ==
    /\ \A n \in Nsys : nsys[n] = "writing" => left[n] > 0
    /\ daemon \in {"loop", "collector"} => \A n \in Nsys : nsys[n] # "killed"
    /\ daemon \notin {"loop", "collector"} => \A n \in Nsys : nsys[n] # "recording"
    /\ daemon \in Flushing => /\ \A n \in Children : ~Ended(n) => n \in rest
                              /\ \A n \in Foreign : ~Ended(n) => n \in pending
    /\ daemon = "waiting" => cur \in rest
    /\ daemon = "foreign" => rest = {}
    /\ daemon \in {"script", "gone"} => \A n \in Nsys : Ended(n)

(* a wait that is over has lasted long enough *)
WaitIsLong == daemon \in {"waiting", "foreign"} => clock + since >= Timeout

(* where the script can be while the daemon is somewhere *)
Places ==
    /\ ~setting.selfStop => (script = "idle" <=> daemon = "loop") /\ daemon # "script"
    /\ setting.selfStop => script # "wait" /\ (script = "idle" <=> daemon \notin {"script", "gone"})

StopInv == Places /\ TypeOK /\ WaitsForAll /\ WaitIsLong /\ OnlyLateIsKilled
-----------------------------------------------------------------------------
LEMMA ReportsType == Reports \in Nat
<1>1. IsFiniteSet(Nsys)
  BY NsysStopAssumption DEF Nsys
<1>2. IsFiniteSet({n \in Nsys : nsys[n] = "written"})
  BY <1>1, FS_Subset
<1> QED
  BY <1>2, FS_CardinalityType DEF Reports

LEMMA WriteTakesTime == TypeOK => \A w \in setting.writes : w \in Nat /\ w > 0
BY NsysStopAssumption DEF TypeOK

LEMMA SettingStays == [Next]_vars => setting' = setting
BY DEF Next, Flush, Stop, Tick, ApplicationEnds, vars

LEMMA StopFromLoop == Places /\ StopDaemon => daemon = "loop"
BY DEF Places, StopDaemon

LEMMA PlacesPreserved == Places /\ [Next]_vars => Places'
<1> USE DEF Places, nsysVars, daemonVars, scriptVars
<1> SUFFICES ASSUME Places, [Next]_vars PROVE Places'
  OBVIOUS
<1>0. setting' = setting
  BY SettingStays
<1> USE <1>0
<1>1. CASE UNCHANGED vars
  BY <1>1 DEF vars
<1>2. CASE Flush
  <2>1. CASE AutoStop \/ Interrupt \/ ChildEnded \/ ChildTimedOut \/ WaitForForeign
    BY <2>1 DEF AutoStop, Interrupt, ChildEnded, ChildTimedOut, WaitForForeign
  <2>2. CASE (\E c \in Children : WaitForChild(c)) \/ \E n \in Foreign : ForeignEnds(n)
    BY <2>2 DEF WaitForChild, ForeignEnds
  <2>3. CASE Flushed
    BY <2>3 DEF Flushed
  <2>4. CASE ScriptReturns
    BY <2>4 DEF ScriptReturns
  <2> QED
    BY <1>2, <2>1, <2>2, <2>3, <2>4 DEF Flush
<1>3. CASE Stop
  BY <1>3 DEF Stop, StopDaemon, DaemonStopped, DrainTurn
<1>4. CASE Tick
  BY <1>4 DEF Tick
<1>5. CASE \E n \in Nsys : ApplicationEnds(n)
  BY <1>5 DEF ApplicationEnds
<1> QED
  BY <1>1, <1>2, <1>3, <1>4, <1>5 DEF Next

LEMMA TypePreserved == TypeOK /\ [Next]_vars => TypeOK'
<1> USE NsysStopAssumption DEF TypeOK
<1> SUFFICES ASSUME TypeOK, [Next]_vars PROVE TypeOK'
  OBVIOUS
<1>0. setting' = setting
  BY SettingStays
<1> USE <1>0
<1>1. CASE UNCHANGED vars
  BY <1>1 DEF vars
<1>2. CASE Flush
  <2> USE DEF nsysVars, scriptVars
  <2>1. CASE AutoStop
    BY <2>1 DEF AutoStop
  <2>2. CASE Interrupt
    <3>1. left' \in [Nsys -> Nat]
      BY <2>2 DEF Interrupt
    <3>2. nsys' \in [Nsys -> {"recording", "writing", "written", "killed"}]
      BY <2>2 DEF Interrupt
    <3> QED
      BY <2>2, <3>1, <3>2 DEF Interrupt
  <2>3. CASE \E c \in Children : WaitForChild(c)
    BY <2>3 DEF WaitForChild
  <2>4. CASE ChildEnded \/ ChildTimedOut
    BY <2>4 DEF ChildEnded, ChildTimedOut
  <2>5. CASE WaitForForeign \/ \E n \in Foreign : ForeignEnds(n)
    BY <2>5 DEF WaitForForeign, ForeignEnds
  <2>6. CASE Flushed
    BY <2>6 DEF Flushed
  <2>7. CASE ScriptReturns
    BY <2>7 DEF ScriptReturns
  <2> QED
    BY <1>2, <2>1, <2>2, <2>3, <2>4, <2>5, <2>6, <2>7 DEF Flush
<1>3. CASE Stop
  <2> USE DEF nsysVars, daemonVars
  <2>1. CASE StopDaemon
    BY <2>1 DEF StopDaemon
  <2>2. CASE DaemonStopped
    BY <2>2 DEF DaemonStopped
  <2>3. CASE DrainTurn
    <3>1. Reports \in Nat /\ StableNow \in Nat
      BY ReportsType DEF StableNow
    <3>2. drain' \in [last : Nat \cup {Never}, stable : Nat, elapsed : Nat]
      BY <2>3, <3>1 DEF DrainTurn
    <3> QED
      BY <2>3, <3>2 DEF DrainTurn
  <2> QED
    BY <1>3, <2>1, <2>2, <2>3 DEF Stop
<1>4. CASE Tick
  <2>1. \A t \in Nat : Less(t) \in Nat
    BY DEF Less
  <2>2. left' \in [Nsys -> Nat] /\ clock' \in Nat /\ patience' \in Nat
    BY <1>4, <2>1 DEF Tick
  <2>3. nsys' \in [Nsys -> {"recording", "writing", "written", "killed"}]
    BY <1>4 DEF Tick
  <2>4. since' \in 0..Timeout
    BY <1>4 DEF Tick
  <2>5. /\ script' \in {"idle", "wait", "drain", "sleep", "done"}
        /\ drain' \in [last : Nat \cup {Never}, stable : Nat, elapsed : Nat]
    BY <1>4 DEF Tick
  <2> QED
    BY <1>4, <2>2, <2>3, <2>4, <2>5 DEF Tick
<1>5. ASSUME NEW n \in Nsys, ApplicationEnds(n) PROVE TypeOK'
  BY <1>5 DEF ApplicationEnds, daemonVars, scriptVars
<1> QED
  BY <1>1, <1>2, <1>3, <1>4, <1>5 DEF Next

LEMMA InitialTypes == Init => TypeOK
<1> SUFFICES ASSUME Init PROVE TypeOK
  OBVIOUS
<1>1. nsys \in [Nsys -> {"recording", "writing", "written", "killed"}] /\ left \in [Nsys -> Nat]
  BY DEF Init
<1>2. drain \in [last : Nat \cup {Never}, stable : Nat, elapsed : Nat]
  BY DEF Init
<1>3. clock \in Nat /\ patience \in Nat /\ since \in 0..Timeout
  BY NsysStopAssumption DEF Init
<1> QED
  BY <1>1, <1>2, <1>3 DEF Init, TypeOK

(* The variables keep their types. *)
THEOREM TypeCorrect == Spec => []TypeOK
BY InitialTypes, TypePreserved, PTL DEF Spec

-----------------------------------------------------------------------------
(* One step of anyone keeps StopInv.                                       *)
LEMMA FlushStep == StopInv /\ Flush => StopInv'
<1> USE NsysStopAssumption DEF TypeOK, nsysVars, scriptVars, Ended, Flushing
<1> SUFFICES ASSUME StopInv, Flush PROVE StopInv'
  OBVIOUS
<1>0. Places /\ TypeOK /\ WaitsForAll /\ WaitIsLong /\ OnlyLateIsKilled
  BY DEF StopInv
<1>1. TypeOK'
  BY <1>0, TypePreserved DEF Next
<1>2. Children \subseteq Nsys /\ Foreign \subseteq Nsys /\ \A n \in Nsys : n \in Children \/ n \in Foreign
  BY DEF Nsys
<1>3. WaitsForAll' /\ WaitIsLong' /\ OnlyLateIsKilled'
  <2> USE <1>0, <1>2 DEF WaitsForAll, WaitIsLong, OnlyLateIsKilled
  <2>1. CASE AutoStop
    BY <2>1 DEF AutoStop
  <2>2. CASE Interrupt
    <3>1. \A n \in Nsys : nsys'[n] = IF nsys[n] = "recording" THEN "writing" ELSE nsys[n]
      BY <2>2 DEF Interrupt
    <3>2. \A n \in Nsys : nsys'[n] = "writing" => left'[n] > 0
      <4>1. PICK time \in [Nsys -> setting.writes] :
                left' = [n \in Nsys |-> IF nsys[n] = "recording" THEN time[n] ELSE left[n]]
        BY <2>2 DEF Interrupt
      <4>2. ASSUME NEW n \in Nsys PROVE time[n] \in Nat /\ time[n] > 0
        <5>1. time[n] \in setting.writes
          OBVIOUS
        <5> QED
          BY <5>1, WriteTakesTime
      <4> QED
        BY <3>1, <4>1, <4>2
    <3>3. /\ \A n \in Nsys : nsys'[n] \notin {"recording", "killed"}
          /\ daemon' = "children"
      BY <2>2, <3>1 DEF Interrupt
    <3>4. /\ \A n \in Children : nsys'[n] \notin {"written", "killed"} => n \in rest'
          /\ \A n \in Foreign : nsys'[n] \notin {"written", "killed"} => n \in pending'
      BY <2>2, <3>1 DEF Interrupt
    <3> QED
      BY <3>2, <3>3, <3>4
  <2>3. CASE \E c \in Children : WaitForChild(c)
    BY <2>3 DEF WaitForChild
  <2>4. CASE ChildEnded
    BY <2>4 DEF ChildEnded
  <2>5. CASE ChildTimedOut
    <3>1. \A n \in Nsys : nsys'[n] = IF n = cur THEN "killed" ELSE nsys[n]
      BY <2>5 DEF ChildTimedOut
    <3>2. since = Timeout
      BY <2>5 DEF ChildTimedOut
    <3> QED
      BY <2>5, <3>1, <3>2 DEF ChildTimedOut
  <2>6. CASE WaitForForeign
    BY <2>6 DEF WaitForForeign
  <2>7. CASE \E n \in Foreign : ForeignEnds(n)
    BY <2>7 DEF ForeignEnds
  <2>8. CASE Flushed
    <3>1. \A n \in Nsys : nsys'[n] = IF n \in pending THEN "killed" ELSE nsys[n]
      BY <2>8 DEF Flushed
    <3>2. pending # {} => since = Timeout
      BY <2>8 DEF Flushed
    <3>3. \A n \in Nsys : nsys'[n] \in {"written", "killed"}
      BY <2>8, <3>1 DEF Flushed
    <3>4. WaitsForAll'
      BY <2>8, <3>3 DEF Flushed
    <3> QED
      BY <2>8, <3>1, <3>2, <3>4 DEF Flushed
  <2>9. CASE ScriptReturns
    BY <2>9 DEF ScriptReturns
  <2> QED
    BY <2>1, <2>2, <2>3, <2>4, <2>5, <2>6, <2>7, <2>8, <2>9 DEF Flush
<1>4. Places'
  BY <1>0, PlacesPreserved DEF Next
<1> QED
  BY <1>1, <1>3, <1>4 DEF StopInv

LEMMA OtherStep == StopInv /\ (Stop \/ Tick \/ \E n \in Nsys : ApplicationEnds(n)) => StopInv'
<1> USE NsysStopAssumption DEF TypeOK, nsysVars, daemonVars, scriptVars, Ended, Flushing
<1> SUFFICES ASSUME StopInv, Stop \/ Tick \/ \E n \in Nsys : ApplicationEnds(n) PROVE StopInv'
  OBVIOUS
<1>0. Places /\ TypeOK /\ WaitsForAll /\ WaitIsLong /\ OnlyLateIsKilled
  BY DEF StopInv
<1>1. TypeOK'
  BY <1>0, TypePreserved DEF Next
<1>2. Children \subseteq Nsys /\ Foreign \subseteq Nsys
  BY DEF Nsys
<1>3. WaitsForAll' /\ WaitIsLong' /\ OnlyLateIsKilled'
  <2> USE <1>0, <1>2 DEF WaitsForAll, WaitIsLong, OnlyLateIsKilled
  <2>1. CASE StopDaemon
    <3>1. daemon = "loop" /\ daemon' = "collector" /\ UNCHANGED <<nsys, left, since>>
      BY <2>1, StopFromLoop DEF StopDaemon
    <3> QED
      BY <3>1
  <2>2. CASE DaemonStopped
    BY <2>2 DEF DaemonStopped
  <2>3. CASE DrainTurn
    BY <2>3 DEF DrainTurn
  <2>4. CASE Tick
    <3>1. \A n \in Nsys : nsys'[n] = nsys[n] \/ (nsys[n] = "writing" /\ nsys'[n] = "written")
      BY <2>4 DEF Tick
    <3>2. \A n \in Nsys : nsys'[n] = "writing" => left'[n] > 0
      BY <2>4 DEF Tick, Less
    <3>3. WaitsForAll'
      BY <2>4, <3>1, <3>2 DEF Tick
    <3>4. WaitIsLong'
      BY <2>4 DEF Tick, DaemonWaits, Less
    <3>5. OnlyLateIsKilled'
      BY <2>4, <3>1 DEF Tick
    <3> QED
      BY <3>3, <3>4, <3>5
  <2>5. ASSUME NEW n \in Nsys, ApplicationEnds(n) PROVE WaitsForAll' /\ WaitIsLong' /\ OnlyLateIsKilled'
    <3>1. \A m \in Nsys : m # n => nsys'[m] = nsys[m] /\ left'[m] = left[m]
      BY <2>5 DEF ApplicationEnds
    <3>2. nsys[n] = "recording" /\ nsys'[n] = "writing" /\ left'[n] > 0
      BY <2>5 DEF ApplicationEnds
    <3> QED
      BY <2>5, <3>1, <3>2 DEF ApplicationEnds
  <2> QED
    BY <2>1, <2>2, <2>3, <2>4, <2>5 DEF Stop
<1>4. Places'
  BY <1>0, PlacesPreserved DEF Next
<1> QED
  BY <1>1, <1>3, <1>4 DEF StopInv

LEMMA StopInvariance == Spec => []StopInv
<1>1. Init => StopInv
  BY InitialTypes DEF Init, StopInv, Places, WaitsForAll, WaitIsLong, OnlyLateIsKilled, Flushing
<1>2. StopInv /\ [Next]_vars => StopInv'
  <2>1. StopInv /\ UNCHANGED vars => StopInv'
    BY DEF vars, StopInv, Places, TypeOK, WaitsForAll, WaitIsLong, OnlyLateIsKilled, Flushing, Ended
  <2> QED
    BY <2>1, FlushStep, OtherStep DEF Next
<1> QED
  BY <1>1, <1>2, PTL DEF Spec

(* Nobody is killed before it has had the timeout to write its report.     *)
THEOREM LateKill == Spec => []OnlyLateIsKilled
<1>1. StopInv => OnlyLateIsKilled
  BY DEF StopInv
<1> QED
  BY <1>1, StopInvariance, PTL

-----------------------------------------------------------------------------
(* When reports take no longer than the timeout.                           *)
OnTime ==
    /\ NoReportIsLost
    /\ daemon \in {"loop", "collector"} =>
          \A n \in Nsys : nsys[n] = "writing" => \E w \in setting.writes : left[n] <= w
    /\ daemon \in Flushing => \A n \in Nsys : nsys[n] = "writing" => left[n] + since <= Timeout

(* stop_daemon has more patience than the daemon needs *)
Patient ==
    /\ script = "wait" /\ daemon = "collector" => \A w \in setting.writes : clock + w < patience
    /\ script = "wait" /\ daemon \in Flushing =>
          patience > 0 /\ \A n \in Nsys : nsys[n] = "writing" => left[n] < patience
    /\ FlushedBeforeGivingUp

LEMMA SomeTime == TypeOK => \E w \in setting.writes : w \in Nat /\ w > 0
BY WriteTakesTime, NsysStopAssumption DEF TypeOK

LEMMA InTimeFlush ==
    ASSUME InTime, StopInv, OnTime, Patient, Flush
    PROVE  OnTime' /\ Patient'
<1> USE DEF TypeOK, nsysVars, scriptVars, Ended, Flushing, OnTime, Patient, NoReportIsLost, FlushedBeforeGivingUp
<1>0. Places /\ TypeOK /\ WaitsForAll /\ WaitIsLong
  BY DEF StopInv
<1>1. Children \subseteq Nsys /\ Foreign \subseteq Nsys
  BY DEF Nsys
<1>2. Timeout \in Nat /\ \A w \in setting.writes : w \in Nat /\ w > 0 /\ w <= Timeout
  BY <1>0, WriteTakesTime, NsysStopAssumption DEF InTime
<1>9. setting' = setting
  BY DEF Flush
<1> USE <1>9
<1>3. CASE AutoStop
  BY <1>0, <1>3 DEF AutoStop, Places
<1>4. CASE Interrupt
  <2>1. PICK time \in [Nsys -> setting.writes] :
            left' = [n \in Nsys |-> IF nsys[n] = "recording" THEN time[n] ELSE left[n]]
    BY <1>4 DEF Interrupt
  <2>2. \A n \in Nsys : nsys'[n] = IF nsys[n] = "recording" THEN "writing" ELSE nsys[n]
    BY <1>4 DEF Interrupt
  <2>3. ASSUME NEW n \in Nsys, nsys'[n] = "writing" PROVE \E w \in setting.writes : left'[n] <= w
    <3>1. CASE nsys[n] = "recording"
      <4>1. time[n] \in setting.writes /\ left'[n] = time[n]
        BY <2>1, <3>1
      <4> QED
        BY <1>2, <4>1
    <3>2. CASE nsys[n] # "recording"
      BY <1>4, <2>1, <2>2, <2>3, <3>2 DEF Interrupt
    <3> QED
      BY <3>1, <3>2
  <2>4. \A n \in Nsys : left'[n] \in Nat
    BY <1>0, <1>4, TypePreserved DEF Next, Flush
  <2>5. OnTime'
    <3>1. since' = 0 /\ daemon' = "children"
      BY <1>4 DEF Interrupt
    <3>2. \A n \in Nsys : nsys'[n] = "writing" => left'[n] + since' <= Timeout
      BY <1>2, <2>3, <2>4, <3>1
    <3> QED
      BY <2>2, <3>1, <3>2
  <2>6. Patient'
    <3>1. script' = script /\ patience' = patience /\ daemon' = "children" /\ clock = 0 /\ patience \in Nat
      BY <1>0, <1>4 DEF Interrupt
    <3>2. script = "wait" => \A w \in setting.writes : w < patience
      BY <1>2, <1>4, <3>1 DEF Interrupt
    <3>3. script = "wait" => patience > 0
      BY <1>0, <1>2, <3>1, <3>2, SomeTime
    <3>4. script = "wait" => \A n \in Nsys : nsys'[n] = "writing" => left'[n] < patience
      BY <1>2, <2>3, <2>4, <3>1, <3>2
    <3>5. FlushedBeforeGivingUp'
      BY <1>4, <3>1 DEF Interrupt
    <3> QED
      BY <3>1, <3>3, <3>4, <3>5
  <2> QED
    BY <2>5, <2>6
<1>5. CASE (\E c \in Children : WaitForChild(c)) \/ ChildEnded \/ WaitForForeign \/ \E n \in Foreign : ForeignEnds(n)
  <2>1. UNCHANGED <<nsys, left, since, script, patience>> /\ daemon \in Flushing /\ daemon' \in Flushing
    BY <1>5 DEF WaitForChild, ChildEnded, WaitForForeign, ForeignEnds
  <2> QED
    BY <2>1
<1>6. CASE ChildTimedOut
  <2>1. cur \in Nsys /\ since = Timeout /\ nsys[cur] = "writing" /\ left[cur] > 0
    BY <1>0, <1>1, <1>2, <1>6 DEF ChildTimedOut, WaitsForAll, WaitIsLong
  <2>2. left[cur] + since <= Timeout /\ left[cur] \in Nat
    BY <1>0, <1>6, <2>1 DEF ChildTimedOut
  <2> QED
    BY <1>2, <2>1, <2>2
<1>7. CASE Flushed
  <2>1. pending = {}
    <3> SUFFICES ASSUME NEW n \in pending PROVE FALSE
      OBVIOUS
    <3>1. n \in Nsys /\ since = Timeout /\ nsys[n] = "writing" /\ left[n] > 0 /\ left[n] \in Nat
      BY <1>0, <1>1, <1>2, <1>7 DEF Flushed, WaitsForAll, WaitIsLong
    <3>2. left[n] + since <= Timeout
      BY <1>7, <3>1 DEF Flushed
    <3> QED
      BY <1>2, <3>1, <3>2
  <2>2. \A n \in Nsys : nsys'[n] = nsys[n]
    BY <1>0, <1>7, <2>1 DEF Flushed
  <2>3. daemon' \in {"script", "gone"}
    BY <1>7 DEF Flushed
  <2> QED
    BY <2>2, <2>3
<1>8. CASE ScriptReturns
  BY <1>8 DEF ScriptReturns
<1> QED
  BY <1>3, <1>4, <1>5, <1>6, <1>7, <1>8 DEF Flush

LEMMA InTimeOther ==
    ASSUME InTime, StopInv, OnTime, Patient, Stop \/ Tick \/ \E n \in Nsys : ApplicationEnds(n)
    PROVE  OnTime' /\ Patient'
<1> USE DEF TypeOK, nsysVars, daemonVars, scriptVars, Ended, Flushing, OnTime, Patient, NoReportIsLost, FlushedBeforeGivingUp
<1>0. Places /\ TypeOK /\ WaitsForAll
  BY DEF StopInv
<1>1. Timeout \in Nat /\ \A w \in setting.writes : w \in Nat /\ w > 0 /\ w <= Timeout
  BY <1>0, WriteTakesTime, NsysStopAssumption DEF InTime
<1>9. setting' = setting
  BY DEF Stop, Tick, ApplicationEnds
<1> USE <1>9
<1>2. Children \subseteq Nsys /\ Foreign \subseteq Nsys
  BY DEF Nsys
<1>3. CASE StopDaemon
  <2>1. daemon = "loop" /\ daemon' = "collector" /\ script' = "wait" /\ UNCHANGED <<nsys, left, since>>
    BY <1>0, <1>3, StopFromLoop DEF StopDaemon
  <2>2. \A w \in setting.writes : clock' + w < patience'
    BY <1>3 DEF StopDaemon, InTime
  <2> QED
    BY <2>1, <2>2
<1>4. CASE DaemonStopped
  <2>1. daemon = "gone"
    <3>1. daemon = "collector" => patience > 0
      BY <1>0, <1>1, <1>4, SomeTime DEF DaemonStopped
    <3>2. daemon \in {"collector", "children", "waiting", "foreign", "gone"}
      BY <1>0, <1>4 DEF DaemonStopped, Places
    <3> QED
      BY <1>0, <1>4, <3>1, <3>2 DEF DaemonStopped
  <2> QED
    BY <1>4, <2>1 DEF DaemonStopped
<1>5. CASE DrainTurn
  BY <1>5 DEF DrainTurn
<1>6. CASE Tick
  <2>1. \A n \in Nsys : nsys'[n] = nsys[n] \/ (nsys[n] = "writing" /\ nsys'[n] = "written")
    BY <1>0, <1>6 DEF Tick
  <2>2. \A n \in Nsys : nsys'[n] = "writing" =>
            /\ nsys[n] = "writing"
            /\ left[n] \in Nat /\ left[n] > 1 /\ left'[n] = left[n] - 1
    BY <1>0, <1>6 DEF Tick, Less
  <2>3. daemon' = daemon
    BY <1>6 DEF Tick
  <2>4. OnTime'
    <3>1. daemon \in {"loop", "collector"} =>
             \A n \in Nsys : nsys'[n] = "writing" => \E w \in setting.writes : left'[n] <= w
      BY <1>1, <2>2
    <3>2. daemon \in Flushing => \A n \in Nsys : nsys'[n] = "writing" => left'[n] + since' <= Timeout
      BY <1>0, <1>1, <1>6, <2>2 DEF Tick
    <3>3. NoReportIsLost'
      BY <2>1
    <3> QED
      BY <2>3, <3>1, <3>2, <3>3
  <2>5. Patient'
    <3>1. script' = "wait" => script = "wait" /\ patience > 0 /\ patience' = patience - 1
      BY <1>0, <1>6 DEF Tick, ScriptWaits, Less
    <3>2. daemon = "collector" => clock > 0 /\ clock' = clock - 1
      BY <1>0, <1>6 DEF Tick, DaemonWaits, Less
    <3>3. script' = "wait" /\ daemon = "collector" => \A w \in setting.writes : clock' + w < patience'
      BY <1>0, <1>1, <3>1, <3>2
    <3>4. script' = "wait" /\ daemon \in Flushing =>
             \A n \in Nsys : nsys'[n] = "writing" => left'[n] < patience'
      BY <1>0, <2>2, <3>1
    <3>5. daemon \in Flushing => \E n \in Nsys : nsys[n] = "writing" /\ left[n] > 0
      BY <1>0, <1>2, <1>6 DEF Tick, DaemonWaits, WaitsForAll
    <3>6. script' = "wait" /\ daemon \in Flushing => patience' > 0
      BY <1>0, <3>1, <3>5
    <3>7. FlushedBeforeGivingUp'
      BY <1>6, <2>3 DEF Tick
    <3> QED
      BY <2>3, <3>3, <3>4, <3>6, <3>7
  <2> QED
    BY <2>4, <2>5
<1>7. ASSUME NEW m \in Nsys, ApplicationEnds(m) PROVE OnTime' /\ Patient'
  <2>1. \A n \in Nsys : n # m => nsys'[n] = nsys[n] /\ left'[n] = left[n]
    BY <1>0, <1>7 DEF ApplicationEnds
  <2>2. daemon \in {"loop", "collector"}
    BY <1>0, <1>7 DEF ApplicationEnds, WaitsForAll
  <2>3. nsys'[m] = "writing" /\ left'[m] \in setting.writes
    BY <1>0, <1>7 DEF ApplicationEnds
  <2>4. \E w \in setting.writes : left'[m] <= w
    BY <1>1, <2>3
  <2>5. UNCHANGED <<daemonVars, scriptVars>>
    BY <1>7 DEF ApplicationEnds
  <2> QED
    BY <2>1, <2>2, <2>3, <2>4, <2>5
<1> QED
  BY <1>3, <1>4, <1>5, <1>6, <1>7 DEF Stop

LEMMA InTimeInvariance == Spec => [](InTime => OnTime /\ Patient)
<1>1. Init => OnTime /\ Patient
  BY DEF Init, OnTime, Patient, NoReportIsLost, FlushedBeforeGivingUp, Flushing
<1>2. StopInv /\ (InTime => OnTime /\ Patient) /\ [Next]_vars => (InTime' => OnTime' /\ Patient')
  <2> SUFFICES ASSUME StopInv, InTime => OnTime /\ Patient, [Next]_vars, InTime'
               PROVE  OnTime' /\ Patient'
    OBVIOUS
  <2>1. InTime /\ OnTime /\ Patient
    BY SettingStays DEF InTime
  <2>2. OnTime /\ Patient /\ UNCHANGED vars => OnTime' /\ Patient'
    BY <2>1 DEF vars, OnTime, Patient, NoReportIsLost, FlushedBeforeGivingUp, Flushing
  <2> QED
    BY <2>1, <2>2, InTimeFlush, InTimeOther DEF Next
<1> QED
  BY <1>1, <1>2, StopInvariance, PTL DEF Spec

(* When the collector stops soon enough and every report is written within *)
(* the timeout, stop_daemon outwaits the daemon.                           *)
THEOREM FlushedFirst == Spec => []FlushedBeforeGivingUp
<1>1. (InTime => OnTime /\ Patient) => FlushedBeforeGivingUp
  BY DEF Patient, FlushedBeforeGivingUp
<1> QED
  BY <1>1, InTimeInvariance, PTL

(* Under the same condition no report is lost.                             *)
THEOREM NothingLost == Spec => []NoReportIsLost
<1>1. (InTime => OnTime /\ Patient) => NoReportIsLost
  BY DEF OnTime, NoReportIsLost
<1> QED
  BY <1>1, InTimeInvariance, PTL

(* The end-of-stop marker means what it says, under the same condition or  *)
(* when the daemon stops the session itself.                               *)
THEOREM DoneMeansReported == Spec => []ReportsBeforeDone
<1>1. StopInv /\ (InTime => OnTime /\ Patient) => ReportsBeforeDone
  <2> SUFFICES ASSUME StopInv, InTime => OnTime /\ Patient, InTime \/ setting.selfStop, script = "done"
               PROVE  \A n \in Nsys : Ended(n)
    BY DEF ReportsBeforeDone, DrainedMeansDone
  <2>1. daemon \in {"script", "gone"}
    <3>1. CASE InTime
      BY <3>1 DEF Patient, FlushedBeforeGivingUp
    <3>2. CASE setting.selfStop
      BY <3>2 DEF StopInv, Places
    <3> QED
      BY <3>1, <3>2
  <2> QED
    BY <2>1 DEF StopInv, WaitsForAll
<1> QED
  BY <1>1, StopInvariance, InTimeInvariance, PTL
=============================================================================
