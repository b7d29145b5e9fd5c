------------------------- MODULE TraceSessionProofs -------------------------
(***************************************************************************)
(* For any number of wrappers and of stops, whatever is under way          *)
(* together: as long as no two calls have raced, the session lasts as long *)
(* as the nodes and no longer.                                             *)
(***************************************************************************)
EXTENDS TraceSession, FiniteSetTheorems, TLAPS

OnlyWrappers == \A p \in Callers : pc[p] \in Entering \cup {"running", "decWrite", "killed"} => p \in Wrappers

(* Whoever creates the session is the only one that enters, and nobody     *)
(* enters while a stop is at work.                                         *)
Alone ==
    /\ \A p, q \in Callers : pc[p] \in Creating /\ pc[q] \in Entering => p = q
    /\ \A p, q \in Callers : pc[p] \in Entering => pc[q] \notin AtWork

(* the stop lock is held by the one stop that does the work *)
LockInv ==
    /\ \A p \in Callers : pc[p] \in Stopping => lock = p
    /\ lock # None => pc[lock] \in Stopping

(* how far the session and the daemon are, from where the calls are *)
SessionInv ==
    /\ \A s \in Wrappers : Exists(s) => nameFile = s
    /\ \A s \in Wrappers : session[s] = "live" => daemon \/ pc[s] = "daemon"
    /\ \A s \in Wrappers : session[s] = "frozen" =>
          \E p \in Callers : pc[p] \in {"stopDaemon", "destroy"}
    /\ \A p \in Callers, s \in Wrappers :
          pc[p] \in {"stopDaemon", "destroy", "cleanup", "release"} => session[s] # "live"
    /\ \A p \in Callers : pc[p] \in {"destroy", "cleanup", "release"} => ~daemon
    /\ \A p \in Callers : pc[p] = "name" => \A s \in Wrappers : ~Exists(s)
    /\ \A p \in Callers : pc[p] \in {"unlock", "create"} => nameFile = p /\ \A s \in Wrappers : ~Exists(s)
    /\ \A p \in Callers : pc[p] = "daemon" => session[p] = "live"
    /\ \A p \in Callers : pc[p] \in {"started", "incWrite"} =>
          nameFile # None /\ session[nameFile] = "live" /\ daemon

Counted == {w \in Wrappers : pc[w] \in {"running", "decWrite"}}
Count == Value(0)

(* a stop that will still remove the counter file *)
StopPending == \E p \in Callers : pc[p] \in {"stop", "freeze", "stopDaemon", "destroy", "cleanup"}

CountInv == \A p \in Callers : pc[p] = "release" => Count <= 0

(* no wrapper counts for more than it is: the last dec reaches zero *)
HighInv ==
    kills = 0 =>
        /\ Count <= Cardinality(Counted) \/ StopPending
        /\ daemon \/ (\E s \in Wrappers : Exists(s)) =>
              \/ Counted # {} \/ StopPending
              \/ \E w \in Wrappers : pc[w] \in {"daemon", "started", "incWrite"}

(* none counts for less: until a stop is asked for, the session is kept *)
LowInv ==
    ~explicit =>
        /\ Count >= Cardinality(Counted)
        /\ (\E p \in Callers : pc[p] \in AtWork) => Counted = {}
        /\ Counted # {} => nameFile # None /\ session[nameFile] = "live" /\ daemon

InOrder == Alone /\ LockInv /\ SessionInv /\ CountInv /\ HighInv /\ LowInv

SessionIInv == TypeOK /\ OnlyWrappers /\ (~raced => InOrder)

-----------------------------------------------------------------------------
LEMMA InitialInvariant == Init => SessionIInv
<1> SUFFICES ASSUME Init PROVE SessionIInv
  OBVIOUS
<1> USE SessionAssumption DEF Init, Exists
<1>1. TypeOK
  <2>1. pc \in [Callers -> {"idle", "running", "decWrite"} \cup Entering \cup InStop \cup Over]
    OBVIOUS
  <2>2. count \in [Wrappers -> Int] /\ kills \in 0..MaxKills
    OBVIOUS
  <2>3. session \in [Wrappers -> {"none", "live", "frozen", "destroyed"}]
    OBVIOUS
  <2> QED
    BY <2>1, <2>2, <2>3 DEF TypeOK
<1>2. OnlyWrappers /\ Alone /\ LockInv /\ SessionInv /\ CountInv
  BY DEF OnlyWrappers, Alone, Creating, Entering, AtWork, Stopping, LockInv, SessionInv, CountInv
<1>3. Counted = {} /\ Count = 0
  BY DEF Counted, Count, Value, Callers
<1>4. HighInv /\ LowInv
  BY <1>3, FS_EmptySet DEF HighInv, LowInv, AtWork, Stopping
<1> QED
  BY <1>1, <1>2, <1>4 DEF SessionIInv, InOrder

LEMMA TypePreserved == TypeOK /\ [Next]_vars => TypeOK'
<1> SUFFICES ASSUME TypeOK, [Next]_vars PROVE TypeOK'
  OBVIOUS
<1> USE SessionAssumption DEF TypeOK, Goto, fileVars, historyVars, RacedIf, Creating, AtWork
<1>1. CASE UNCHANGED vars
  BY <1>1 DEF vars
<1>2. ASSUME NEW w \in Wrappers, Start(w) PROVE TypeOK'
  <2>1. CASE Check(w) \/ WriteName(w) \/ ClearLock(w)
    BY <2>1 DEF Check, WriteName, ClearLock, Callers, Entering
  <2>2. CASE CreateSession(w) \/ StartDaemon(w)
    BY <2>2 DEF CreateSession, StartDaemon, Callers, Entering
  <2> QED
    BY <1>2, <2>1, <2>2 DEF Start
<1>3. ASSUME NEW w \in Wrappers, Counting(w) PROVE TypeOK'
  <2>1. CASE IncRead(w)
    BY <2>1 DEF IncRead, Reads, Value, Callers, Entering
  <2>2. CASE IncWrite(w)
    BY <2>2 DEF IncWrite, Callers, Entering
  <2>3. CASE DecRead(w)
    BY <2>3 DEF DecRead, Reads, Value, Callers, Entering
  <2>4. CASE DecWrite(w)
    BY <2>4 DEF DecWrite, Callers, InStop, Over
  <2> QED
    BY <1>3, <2>1, <2>2, <2>3, <2>4 DEF Counting
<1>4. ASSUME NEW w \in Wrappers, Trap(w) \/ Kill(w) PROVE TypeOK'
  <2>1. CASE Trap(w)
    BY <2>1 DEF Trap, Callers, InStop
  <2>2. CASE Kill(w)
    <3>1. kills' \in 0..MaxKills
      BY <2>2 DEF Kill
    <3> QED
      BY <2>2, <3>1 DEF Kill, Callers, Over
  <2> QED
    BY <1>4, <2>1, <2>2
<1>5. ASSUME NEW s \in Stoppers, AskForStop(s) PROVE TypeOK'
  BY <1>5 DEF AskForStop, Callers, InStop
<1>6. ASSUME NEW p \in Callers, Stop(p) PROVE TypeOK'
  <2> USE DEF Stopping, InStop, Over
  <2>1. CASE Enter(p) \/ Waited(p) \/ StopDaemon(p) \/ Cleanup(p) \/ Release(p)
    BY <2>1 DEF Enter, Waited, StopDaemon, Cleanup, Release
  <2>2. CASE Freeze(p) \/ Destroy(p)
    BY <2>2 DEF Freeze, Destroy, Exists
  <2> QED
    BY <1>6, <2>1, <2>2 DEF Stop
<1> QED
  BY <1>1, <1>2, <1>3, <1>4, <1>5, <1>6 DEF Next

(* The variables keep their types. *)
THEOREM TypeCorrect == Spec => []TypeOK
<1>1. Init => TypeOK
  BY InitialInvariant DEF SessionIInv
<1> QED
  BY <1>1, TypePreserved, PTL DEF Spec

-----------------------------------------------------------------------------
(* What a step that leaves no race behind has not met.                     *)
LEMMA NoRace ==
    ASSUME TypeOK, Next, ~raced'
    PROVE  /\ ~raced
           /\ \A w \in Wrappers : Check(w) => ~Others(w, Creating \cup AtWork)
           /\ \A w \in Wrappers : IncWrite(w) => count[w] = Value(0)
           /\ \A w \in Wrappers : DecWrite(w) =>
                 count[w] = Value(1) /\ (count[w] <= 1 => ~Others(w, Entering))
           /\ \A p \in Callers : AskForStop(p) \/ Trap(p) => ~Others(p, Entering)
<1>1. ~raced
  BY DEF Next, Start, Check, WriteName, ClearLock, CreateSession, StartDaemon,
         Counting, IncRead, IncWrite, DecRead, DecWrite, Trap, Kill, AskForStop,
         Stop, Enter, Waited, Freeze, StopDaemon, Destroy, Cleanup, Release, RacedIf, historyVars
<1>2. \A w \in Wrappers : Check(w) => ~Others(w, Creating \cup AtWork)
  BY DEF Check, RacedIf
<1>3. \A w \in Wrappers : IncWrite(w) => count[w] = Value(0)
  BY DEF IncWrite, RacedIf
<1>4. \A w \in Wrappers : DecWrite(w) =>
         count[w] = Value(1) /\ (count[w] <= 1 => ~Others(w, Entering))
  BY DEF DecWrite, RacedIf
<1>5. \A p \in Callers : AskForStop(p) \/ Trap(p) => ~Others(p, Entering)
  BY DEF AskForStop, Trap, RacedIf
<1> QED
  BY <1>1, <1>2, <1>3, <1>4, <1>5

LEMMA OnlyWrappersPreserved == TypeOK /\ OnlyWrappers /\ Next => OnlyWrappers'
<1> SUFFICES ASSUME TypeOK, OnlyWrappers, Next PROVE OnlyWrappers'
  OBVIOUS
<1> USE DEF TypeOK, OnlyWrappers, Goto, Callers, Creating, Entering, AtWork, Stopping
<1>1. ASSUME NEW w \in Wrappers, Start(w) PROVE OnlyWrappers'
  BY <1>1 DEF Start, Check, WriteName, ClearLock, CreateSession, StartDaemon
<1>2. ASSUME NEW w \in Wrappers, Counting(w) PROVE OnlyWrappers'
  BY <1>2 DEF Counting, IncRead, IncWrite, DecRead, DecWrite
<1>3. ASSUME NEW w \in Wrappers, Trap(w) \/ Kill(w) PROVE OnlyWrappers'
  BY <1>3 DEF Trap, Kill
<1>4. ASSUME NEW p \in Callers, Stop(p) PROVE OnlyWrappers'
  BY <1>4 DEF Stop, Enter, Waited, Freeze, StopDaemon, Destroy, Cleanup, Release
<1>5. ASSUME NEW s \in Stoppers, AskForStop(s) PROVE OnlyWrappers'
  BY <1>5 DEF AskForStop
<1> QED
  BY <1>1, <1>2, <1>3, <1>4, <1>5 DEF Next

LEMMA AlonePreserved ==
    ASSUME TypeOK, OnlyWrappers, ~raced, InOrder, Next, ~raced' PROVE Alone' /\ LockInv'
<1> USE SessionAssumption DEF InOrder, TypeOK, Alone, LockInv, Goto, fileVars, Creating, Entering, AtWork, Stopping
<1>0. Wrappers \subseteq Callers /\ Stoppers \subseteq Callers
  BY DEF Callers
<1>1. ASSUME NEW w \in Wrappers, Check(w) PROVE Alone' /\ LockInv'
  <2>1. \A q \in Callers \ {w} : pc[q] \notin Creating \cup AtWork
    BY <1>1, NoRace DEF Others
  <2>2. CASE Exists(nameFile)
    BY <1>0, <1>1, <2>1, <2>2 DEF Check
  <2>3. CASE ~Exists(nameFile)
    <3>1. \A q \in Callers : pc[q] \notin {"started", "incWrite"}
      BY <2>3 DEF SessionInv, Exists
    <3> QED
      BY <1>0, <1>1, <2>1, <2>3, <3>1 DEF Check
  <2> QED
    BY <2>2, <2>3
<1>2. ASSUME NEW w \in Wrappers, WriteName(w) \/ CreateSession(w) \/ StartDaemon(w) PROVE Alone' /\ LockInv'
  BY <1>0, <1>2 DEF WriteName, CreateSession, StartDaemon
<1>3. ASSUME NEW w \in Wrappers, ClearLock(w) PROVE Alone' /\ LockInv'
  BY <1>0, <1>3 DEF ClearLock
<1>4. ASSUME NEW w \in Wrappers, IncRead(w) \/ IncWrite(w) \/ DecRead(w) \/ Kill(w) PROVE Alone' /\ LockInv'
  BY <1>0, <1>4 DEF IncRead, IncWrite, DecRead, Kill
<1>5. ASSUME NEW w \in Wrappers, DecWrite(w) PROVE Alone' /\ LockInv'
  <2>1. count[w] <= 1 => \A q \in Callers \ {w} : pc[q] \notin Entering
    BY <1>5, NoRace DEF Others
  <2> QED
    BY <1>0, <1>5, <2>1 DEF DecWrite
<1>6. ASSUME NEW p \in Callers, AskForStop(p) \/ Trap(p) PROVE Alone' /\ LockInv'
  <2>1. \A q \in Callers \ {p} : pc[q] \notin Entering
    BY <1>6, NoRace DEF Others
  <2> QED
    BY <1>0, <1>6, <2>1 DEF AskForStop, Trap
<1>7. ASSUME NEW p \in Callers, Stop(p) PROVE Alone' /\ LockInv'
  <2>1. CASE Enter(p)
    BY <2>1 DEF Enter
  <2>2. CASE Release(p)
    BY <2>2 DEF Release
  <2>3. CASE Waited(p) \/ Freeze(p) \/ StopDaemon(p) \/ Destroy(p) \/ Cleanup(p)
    BY <2>3 DEF Waited, Freeze, StopDaemon, Destroy, Cleanup
  <2> QED
    BY <1>7, <2>1, <2>2, <2>3 DEF Stop
<1> QED
  BY <1>0, <1>1, <1>2, <1>3, <1>4, <1>5, <1>6, <1>7 DEF Next, Start, Counting

(* The session and the daemon, call by call.                               *)
LEMMA SessionPreserved ==
    ASSUME TypeOK, OnlyWrappers, ~raced, InOrder, Next, ~raced' PROVE SessionInv'
<1> USE SessionAssumption DEF InOrder, TypeOK, SessionInv, Goto, fileVars, Exists, Creating, Entering, AtWork, Stopping
<1>0. Wrappers \subseteq Callers /\ Stoppers \subseteq Callers
  BY DEF Callers
<1>1. ASSUME NEW w \in Wrappers, Check(w) PROVE SessionInv'
  <2>1. \A q \in Callers \ {w} : pc[q] \notin Creating \cup AtWork
    BY <1>1, NoRace DEF Others
  <2>2. \A s \in Wrappers : session[s] # "frozen"
    BY <1>0, <1>1, <2>1 DEF Check
  <2>3. \A s \in Wrappers : session[s] = "live" => daemon
    BY <1>0, <1>1, <2>1 DEF Check
  <2>4. CASE Exists(nameFile)
    BY <1>0, <1>1, <2>1, <2>2, <2>3, <2>4 DEF Check
  <2>5. CASE ~Exists(nameFile)
    BY <1>0, <1>1, <2>1, <2>2, <2>3, <2>5 DEF Check
  <2> QED
    BY <2>4, <2>5
<1>2. ASSUME NEW w \in Wrappers, WriteName(w) \/ ClearLock(w) \/ CreateSession(w) \/ StartDaemon(w)
      PROVE  SessionInv'
  <2>1. pc[w] \in Creating
    BY <1>2 DEF WriteName, ClearLock, CreateSession, StartDaemon
  <2>2. \A q \in Callers \ {w} : pc[q] \notin Entering \cup AtWork
    BY <1>0, <2>1 DEF Alone
  <2> USE <1>0, <2>2
  <2>3. CASE WriteName(w) \/ ClearLock(w)
    BY <2>3 DEF WriteName, ClearLock
  <2>4. CASE CreateSession(w)
    BY <2>4 DEF CreateSession
  <2>5. CASE StartDaemon(w)
    BY <2>5 DEF StartDaemon
  <2> QED
    BY <1>2, <2>3, <2>4, <2>5
<1>3. ASSUME NEW w \in Wrappers, IncRead(w) \/ IncWrite(w) \/ DecRead(w) \/ DecWrite(w) \/ Trap(w) \/ Kill(w)
      PROVE  SessionInv'
  BY <1>0, <1>3 DEF IncRead, IncWrite, DecRead, DecWrite, Trap, Kill
<1>4. ASSUME NEW s \in Stoppers, AskForStop(s) PROVE SessionInv'
  BY <1>0, <1>4 DEF AskForStop
<1>5. ASSUME NEW p \in Callers, Stop(p) PROVE SessionInv'
  <2>1. CASE Enter(p) \/ Waited(p)
    BY <1>0, <2>1 DEF Enter, Waited
  <2>2. CASE pc[p] \in Stopping
    <3>1. \A q \in Callers \ {p} : pc[q] \notin Stopping
      BY <2>2 DEF LockInv
    <3>2. \A q \in Callers : pc[q] \notin Entering
      BY <2>2 DEF Alone
    <3> USE <1>0, <3>1, <3>2
    <3>3. CASE Freeze(p)
      BY <3>3 DEF Freeze
    <3>4. CASE StopDaemon(p)
      BY <3>4 DEF StopDaemon
    <3>5. CASE Destroy(p)
      BY <3>5 DEF Destroy
    <3>6. CASE Cleanup(p) \/ Release(p)
      BY <3>6 DEF Cleanup, Release
    <3> QED
      BY <1>5, <2>2, <3>3, <3>4, <3>5, <3>6 DEF Stop, Enter, Waited
  <2> QED
    BY <1>5, <2>1, <2>2 DEF Stop, Freeze, StopDaemon, Destroy, Cleanup, Release
<1> QED
  BY <1>0, <1>1, <1>2, <1>3, <1>4, <1>5 DEF Next, Start, Counting

-----------------------------------------------------------------------------
(* The counter and the wrappers it counts.                                 *)
LEMMA CountedJoins ==
    ASSUME TypeOK, NEW w \in Wrappers, w \notin Counted, Counted' = Counted \cup {w}
    PROVE  /\ Cardinality(Counted) \in Nat
           /\ Cardinality(Counted') = Cardinality(Counted) + 1
<1>1. IsFiniteSet(Counted)
  BY SessionAssumption, FS_Subset DEF Counted
<1> QED
  BY <1>1, FS_AddElement, FS_CardinalityType

LEMMA CountedLeaves ==
    ASSUME TypeOK, NEW w \in Counted, Counted' = Counted \ {w}
    PROVE  /\ Cardinality(Counted) \in Nat
           /\ Cardinality(Counted') = Cardinality(Counted) - 1
<1>1. IsFiniteSet(Counted)
  BY SessionAssumption, FS_Subset DEF Counted
<1> QED
  BY <1>1, FS_RemoveElement, FS_CardinalityType

LEMMA CountedNumber == Cardinality(Counted) \in Nat /\ (Counted # {} => Cardinality(Counted) >= 1)
<1>1. IsFiniteSet(Counted)
  BY SessionAssumption, FS_Subset DEF Counted
<1> QED
  BY <1>1, FS_CardinalityType, FS_EmptySet

(* What an inc and a dec that have not raced make of the count.            *)
LEMMA CountSteps ==
    ASSUME TypeOK, Next, ~raced', NEW w \in Wrappers
    PROVE  /\ Count \in Int
           /\ IncWrite(w) => counter' = Count + 1 /\ Count' = Count + 1
           /\ DecWrite(w) => /\ count[w] = Value(1) /\ counter' = count[w] - 1 /\ Count' = count[w] - 1
                             /\ count[w] = Count \/ (counter = None /\ count[w] = 1 /\ Count = 0)
<1> USE SessionAssumption DEF TypeOK, Count, Value, IncWrite, DecWrite
<1>1. Count \in Int
  OBVIOUS
<1>2. ASSUME IncWrite(w) PROVE counter' = Count + 1 /\ Count' = Count + 1
  BY <1>2, NoRace
<1>3. ASSUME DecWrite(w)
      PROVE  /\ count[w] = Value(1) /\ counter' = count[w] - 1 /\ Count' = count[w] - 1
             /\ count[w] = Count \/ (counter = None /\ count[w] = 1 /\ Count = 0)
  BY <1>3, NoRace
<1> QED
  BY <1>1, <1>2, <1>3

LEMMA CountPreserved ==
    ASSUME TypeOK, OnlyWrappers, ~raced, InOrder, Next, ~raced' PROVE CountInv'
<1> USE DEF InOrder, TypeOK, CountInv, Goto, fileVars
<1>0. Wrappers \subseteq Callers /\ Stoppers \subseteq Callers
  BY DEF Callers
<1>1. ASSUME NEW w \in Wrappers, Start(w) \/ IncRead(w) \/ DecRead(w) \/ Trap(w) \/ Kill(w) PROVE CountInv'
  <2>1. counter' = counter /\ \A p \in Callers : pc'[p] = "release" => pc[p] = "release"
    BY <1>0, <1>1 DEF Start, Check, WriteName, ClearLock, CreateSession, StartDaemon, IncRead, DecRead, Trap, Kill
  <2> QED
    BY <2>1 DEF Count, Value
<1>2. ASSUME NEW w \in Wrappers, IncWrite(w) PROVE CountInv'
  <2>1. \A q \in Callers : pc[q] # "release"
    BY <1>0, <1>2 DEF IncWrite, Alone, Entering, AtWork, Stopping
  <2> QED
    BY <1>0, <1>2, <2>1 DEF IncWrite
<1>3. ASSUME NEW w \in Wrappers, DecWrite(w) PROVE CountInv'
  <2>1. Count \in Int /\ (Count <= 0 => Count' <= 0)
    BY <1>3, CountSteps
  <2>2. \A p \in Callers : pc'[p] = "release" => pc[p] = "release"
    BY <1>0, <1>3 DEF DecWrite
  <2> QED
    BY <2>1, <2>2
<1>4. ASSUME NEW p \in Callers, AskForStop(p) PROVE CountInv'
  BY <1>4 DEF AskForStop, Count, Value
<1>5. ASSUME NEW p \in Callers, Stop(p) PROVE CountInv'
  <2>1. CASE Cleanup(p)
    BY <2>1 DEF Cleanup, Count, Value
  <2>2. CASE Enter(p) \/ Waited(p) \/ Freeze(p) \/ StopDaemon(p) \/ Destroy(p) \/ Release(p)
    <3>1. counter' = counter /\ \A q \in Callers : pc'[q] = "release" => pc[q] = "release"
      BY <2>2 DEF Enter, Waited, Freeze, StopDaemon, Destroy, Release
    <3> QED
      BY <3>1 DEF Count, Value
  <2> QED
    BY <1>5, <2>1, <2>2 DEF Stop
<1> QED
  BY <1>0, <1>1, <1>2, <1>3, <1>4, <1>5 DEF Next, Counting

(* Who is counted after a step.                                            *)
LEMMA CountedSteps ==
    ASSUME TypeOK, OnlyWrappers, Next
    PROVE  /\ \A w \in Wrappers : Start(w) \/ IncRead(w) \/ DecRead(w) => Counted' = Counted
           /\ \A w \in Wrappers : IncWrite(w) => w \notin Counted /\ Counted' = Counted \cup {w}
           /\ \A w \in Wrappers : DecWrite(w) => w \in Counted /\ Counted' = Counted \ {w}
           /\ \A w \in Wrappers : Trap(w) \/ Kill(w) => Counted' = Counted \ {w}
           /\ \A p \in Callers : Stop(p) => Counted' = Counted
<1> USE DEF TypeOK, Counted, Goto
<1>0. Wrappers \subseteq Callers
  BY DEF Callers
<1>1. \A w \in Wrappers : Start(w) \/ IncRead(w) \/ DecRead(w) => Counted' = Counted
  BY <1>0 DEF Start, Check, WriteName, ClearLock, CreateSession, StartDaemon, IncRead, DecRead
<1>2. \A w \in Wrappers : IncWrite(w) => w \notin Counted /\ Counted' = Counted \cup {w}
  BY <1>0 DEF IncWrite
<1>3. \A w \in Wrappers : DecWrite(w) => w \in Counted /\ Counted' = Counted \ {w}
  BY <1>0 DEF DecWrite
<1>4. \A w \in Wrappers : Trap(w) \/ Kill(w) => Counted' = Counted \ {w}
  BY <1>0 DEF Trap, Kill
<1>5. \A p \in Callers : Stop(p) => Counted' = Counted
  BY <1>0 DEF Stop, Enter, Waited, Freeze, StopDaemon, Destroy, Cleanup, Release
<1> QED
  BY <1>1, <1>2, <1>3, <1>4, <1>5

LEMMA HighPreserved ==
    ASSUME TypeOK, OnlyWrappers, ~raced, InOrder, Next, ~raced' PROVE HighInv'
<1> SUFFICES ASSUME kills' = 0
             PROVE  /\ Count' <= Cardinality(Counted') \/ StopPending'
                    /\ daemon' \/ (\E s \in Wrappers : Exists(s)') =>
                          \/ Counted' # {} \/ StopPending'
                          \/ \E w \in Wrappers : pc'[w] \in {"daemon", "started", "incWrite"}
  BY DEF HighInv
<1> USE SessionAssumption DEF InOrder, TypeOK, Goto, fileVars, historyVars
<1>0. Wrappers \subseteq Callers /\ Stoppers \subseteq Callers
  BY DEF Callers
<1>1. kills = 0
  BY <1>0 DEF Next, Start, Check, WriteName, ClearLock, CreateSession, StartDaemon,
              Counting, IncRead, IncWrite, DecRead, DecWrite, Trap, Kill, AskForStop,
              Stop, Enter, Waited, Freeze, StopDaemon, Destroy, Cleanup, Release
<1> DEFINE Goal == /\ Count' <= Cardinality(Counted') \/ StopPending'
                   /\ daemon' \/ (\E s \in Wrappers : Exists(s)') =>
                         \/ Counted' # {} \/ StopPending'
                         \/ \E w \in Wrappers : pc'[w] \in {"daemon", "started", "incWrite"}
<1>2. ASSUME NEW w \in Wrappers, Start(w) \/ IncRead(w) \/ DecRead(w) PROVE Goal
  <2>1. Counted' = Counted /\ Count' = Count
    BY <1>2, CountedSteps
    DEF Start, Check, WriteName, ClearLock, CreateSession, StartDaemon, IncRead, DecRead, Count, Value
  <2>2. StopPending => StopPending'
    BY <1>0, <1>2 DEF StopPending, Start, Check, WriteName, ClearLock, CreateSession, StartDaemon, IncRead, DecRead
  <2>3. CASE Check(w) \/ WriteName(w) \/ ClearLock(w) \/ DecRead(w)
    BY <1>0, <1>1, <2>1, <2>2, <2>3 DEF HighInv, Exists, Check, WriteName, ClearLock, DecRead
  <2>4. CASE CreateSession(w) \/ StartDaemon(w) \/ IncRead(w)
    BY <1>0, <1>1, <2>1, <2>2, <2>4 DEF HighInv, CreateSession, StartDaemon, IncRead
  <2> QED
    BY <1>2, <2>3, <2>4 DEF Start
<1>3. ASSUME NEW w \in Wrappers, IncWrite(w) PROVE Goal
  <2>1. /\ Cardinality(Counted') = Cardinality(Counted) + 1 /\ Cardinality(Counted) \in Nat
        /\ Counted' # {}
    BY <1>3, CountedSteps, CountedJoins
  <2>2. Count' = Count + 1 /\ Count \in Int
    BY <1>3, CountSteps
  <2>3. StopPending => StopPending'
    BY <1>0, <1>3 DEF StopPending, IncWrite
  <2> QED
    BY <1>1, <2>1, <2>2, <2>3 DEF HighInv
<1>4. ASSUME NEW w \in Wrappers, DecWrite(w) PROVE Goal
  <2>1. CASE count[w] <= 1
    BY <1>0, <1>4, <2>1 DEF DecWrite, StopPending
  <2>2. CASE ~(count[w] <= 1)
    <3>1. Cardinality(Counted') = Cardinality(Counted) - 1 /\ Cardinality(Counted) \in Nat
      BY <1>4, CountedSteps, CountedLeaves
    <3>2. Count \in Int /\ count[w] = Count /\ Count >= 2 /\ Count' = Count - 1
      BY <1>4, <2>2, CountSteps
    <3>3. StopPending => StopPending'
      BY <1>0, <1>4, <2>2 DEF StopPending, DecWrite
    <3>4. StopPending' \/ (Count' <= Cardinality(Counted') /\ Cardinality(Counted') >= 1)
      BY <1>1, <3>1, <3>2, <3>3 DEF HighInv
    <3>5. Cardinality(Counted') >= 1 => Counted' # {}
      BY FS_EmptySet
    <3> QED
      BY <3>4, <3>5
  <2> QED
    BY <2>1, <2>2
<1>5. ASSUME NEW p \in Callers, Trap(p) \/ AskForStop(p) PROVE Goal
  BY <1>5 DEF Trap, AskForStop, StopPending
<1>6. ASSUME NEW w \in Wrappers, Kill(w) PROVE Goal
  BY <1>1, <1>6 DEF Kill
<1>7. ASSUME NEW p \in Callers, Stop(p) PROVE Goal
  <2>1. Counted' = Counted /\ Cardinality(Counted) \in Nat
    BY <1>7, CountedSteps, CountedNumber
  <2>2. CASE Freeze(p) \/ StopDaemon(p) \/ Destroy(p)
    BY <2>2 DEF Freeze, StopDaemon, Destroy, StopPending
  <2>3. CASE Cleanup(p)
    <3>1. ~daemon' /\ Count' = 0
      BY <2>3 DEF Cleanup, SessionInv, Count, Value
    <3>2. \A s \in Wrappers : ~Exists(s)
      <4>1. \A q \in Callers : pc[q] \notin {"stopDaemon", "destroy"}
        BY <2>3 DEF Cleanup, LockInv, Stopping
      <4> QED
        BY <2>3, <4>1 DEF Cleanup, SessionInv, Exists
    <3> QED
      BY <2>1, <2>3, <3>1, <3>2 DEF Cleanup, Exists
  <2>4. CASE Waited(p) \/ Release(p)
    <3>1. StopPending => StopPending'
      BY <2>4 DEF Waited, Release, StopPending
    <3>2. UNCHANGED <<counter, session, daemon>> /\ Count' = Count
      BY <2>4 DEF Waited, Release, Count, Value
    <3>3. \A w \in Wrappers : pc[w] \in {"daemon", "started", "incWrite"} => pc'[w] = pc[w]
      BY <1>0, <2>4 DEF Waited, Release
    <3> QED
      BY <1>1, <2>1, <3>1, <3>2, <3>3 DEF HighInv, Exists
  <2>5. CASE Enter(p) /\ lock = None
    BY <2>5 DEF Enter, StopPending
  <2>6. CASE Enter(p) /\ lock # None
    <3>1. pc[lock] \in Stopping /\ lock \in Callers /\ lock # p /\ pc'[lock] = pc[lock]
      BY <2>6 DEF Enter, LockInv, Stopping
    <3>2. CASE pc[lock] # "release"
      BY <3>1, <3>2 DEF StopPending, Stopping
    <3>3. CASE pc[lock] = "release"
      <4>1. ~daemon' /\ Count' = Count /\ Count <= 0 /\ Count \in Int
        BY <2>6, <3>1, <3>3 DEF Enter, SessionInv, CountInv, Count, Value
      <4>2. \A s \in Wrappers : ~Exists(s)
        <5>1. \A q \in Callers : pc[q] \notin {"stopDaemon", "destroy"}
          BY <3>1, <3>3 DEF LockInv, Stopping
        <5> QED
          BY <3>1, <3>3, <5>1 DEF SessionInv, Exists
      <4> QED
        BY <2>1, <2>6, <4>1, <4>2 DEF Enter, Exists
    <3> QED
      BY <3>2, <3>3
  <2> QED
    BY <1>7, <2>2, <2>3, <2>4, <2>5, <2>6 DEF Stop
<1> QED
  BY <1>0, <1>2, <1>3, <1>4, <1>5, <1>6, <1>7 DEF Next, Counting

LEMMA LowPreserved ==
    ASSUME TypeOK, OnlyWrappers, ~raced, InOrder, Next, ~raced' PROVE LowInv'
<1> DEFINE Goal == /\ Count' >= Cardinality(Counted')
                   /\ (\E p \in Callers : pc'[p] \in AtWork) => Counted' = {}
                   /\ Counted' # {} => nameFile' # None /\ session'[nameFile'] = "live" /\ daemon'
<1> SUFFICES ASSUME ~explicit' PROVE Goal
  BY DEF LowInv
<1> USE SessionAssumption DEF InOrder, TypeOK, Goto, fileVars, historyVars
<1>0. Wrappers \subseteq Callers /\ Stoppers \subseteq Callers
  BY DEF Callers
<1>1. ~explicit
  BY <1>0 DEF Next, Start, Check, WriteName, ClearLock, CreateSession, StartDaemon,
              Counting, IncRead, IncWrite, DecRead, DecWrite, Trap, Kill, AskForStop,
              Stop, Enter, Waited, Freeze, StopDaemon, Destroy, Cleanup, Release
<1>2. ASSUME NEW w \in Wrappers, Start(w) \/ IncRead(w) \/ DecRead(w) PROVE Goal
  <2>1. Counted' = Counted /\ Count' = Count
    BY <1>2, CountedSteps
    DEF Start, Check, WriteName, ClearLock, CreateSession, StartDaemon, IncRead, DecRead, Count, Value
  <2>2. \A p \in Callers : pc'[p] \in AtWork => pc[p] \in AtWork
    BY <1>0, <1>2
    DEF Start, Check, WriteName, ClearLock, CreateSession, StartDaemon, IncRead, DecRead, AtWork, Stopping
  <2>3. Counted # {} => Exists(nameFile)
    BY <1>1 DEF LowInv, Exists
  <2>4. CASE WriteName(w) \/ CreateSession(w)
    <3>1. pc[w] \in {"name", "create"} /\ \A s \in Wrappers : ~Exists(s)
      BY <1>0, <2>4 DEF WriteName, CreateSession, SessionInv
    <3>2. Counted = {}
      BY <2>3, <3>1 DEF Exists
    <3> QED
      BY <1>1, <2>1, <2>2, <3>2 DEF LowInv
  <2>5. CASE Check(w) \/ ClearLock(w) \/ StartDaemon(w) \/ IncRead(w) \/ DecRead(w)
    <3>1. nameFile' = nameFile /\ session' = session /\ (daemon => daemon')
      BY <2>5 DEF Check, ClearLock, StartDaemon, IncRead, DecRead
    <3> QED
      BY <1>1, <2>1, <2>2, <3>1 DEF LowInv
  <2> QED
    BY <1>2, <2>4, <2>5 DEF Start
<1>3. ASSUME NEW w \in Wrappers, IncWrite(w) PROVE Goal
  <2>1. Cardinality(Counted') = Cardinality(Counted) + 1 /\ Cardinality(Counted) \in Nat
    BY <1>3, CountedSteps, CountedJoins
  <2>2. Count' = Count + 1 /\ Count \in Int
    BY <1>3, CountSteps
  <2>3. \A p \in Callers : pc'[p] \notin AtWork
    BY <1>0, <1>3 DEF IncWrite, Alone, Entering, AtWork, Stopping
  <2>4. nameFile' # None /\ session'[nameFile'] = "live" /\ daemon'
    BY <1>0, <1>3 DEF IncWrite, SessionInv
  <2> QED
    BY <1>1, <2>1, <2>2, <2>3, <2>4 DEF LowInv
<1>4. ASSUME NEW w \in Wrappers, DecWrite(w) PROVE Goal
  <2>1. /\ Cardinality(Counted') = Cardinality(Counted) - 1 /\ Cardinality(Counted) \in Nat
        /\ w \in Counted /\ Cardinality(Counted) >= 1
    BY <1>4, CountedSteps, CountedLeaves, CountedNumber
  <2>2. Count \in Int /\ Count >= 1 /\ count[w] = Count /\ Count' = Count - 1
    BY <1>1, <1>4, <2>1, CountSteps DEF LowInv
  <2>3. Count' >= Cardinality(Counted')
    BY <1>1, <2>1, <2>2 DEF LowInv
  <2>4. (\E p \in Callers : pc'[p] \in AtWork) => Counted' = {}
    <3>1. CASE count[w] <= 1
      <4>1. Cardinality(Counted') = 0
        BY <1>1, <2>1, <2>2, <3>1 DEF LowInv
      <4>2. IsFiniteSet(Counted')
        BY SessionAssumption, FS_Subset DEF Counted
      <4> QED
        BY <4>1, <4>2, FS_EmptySet
    <3>2. CASE ~(count[w] <= 1)
      <4>1. \A p \in Callers : pc[p] \notin AtWork
        BY <1>1, <2>1 DEF LowInv
      <4> QED
        BY <1>0, <1>4, <3>2, <4>1 DEF DecWrite, AtWork, Stopping
    <3> QED
      BY <3>1, <3>2
  <2>5. Counted # {} /\ UNCHANGED <<nameFile, session, daemon>>
    BY <1>4, <2>1 DEF DecWrite
  <2> QED
    BY <1>1, <2>3, <2>4, <2>5 DEF LowInv
<1>5. ASSUME NEW p \in Callers, Trap(p) \/ AskForStop(p) PROVE Goal
  BY <1>5 DEF Trap, AskForStop
<1>6. ASSUME NEW w \in Wrappers, Kill(w) PROVE Goal
  <2>1. Counted' = Counted \ {w}
    BY <1>6, CountedSteps
  <2>2. /\ Cardinality(Counted') <= Cardinality(Counted)
        /\ Cardinality(Counted') \in Nat /\ Cardinality(Counted) \in Nat
    <3>1. IsFiniteSet(Counted)
      BY SessionAssumption, FS_Subset DEF Counted
    <3>2. IsFiniteSet(Counted') /\ Cardinality(Counted') <= Cardinality(Counted)
      BY <2>1, <3>1, FS_Subset
    <3> QED
      BY <3>1, <3>2, FS_CardinalityType
  <2>3. Count' = Count /\ Count \in Int /\ UNCHANGED <<nameFile, session, daemon>>
    BY <1>6 DEF Kill, Count, Value
  <2>4. \A p \in Callers : pc'[p] \in AtWork => pc[p] \in AtWork
    BY <1>0, <1>6 DEF Kill, AtWork, Stopping
  <2>5. Count' >= Cardinality(Counted')
    BY <1>1, <2>2, <2>3 DEF LowInv
  <2>6. (\E p \in Callers : pc'[p] \in AtWork) => Counted' = {}
    BY <1>1, <2>1, <2>4 DEF LowInv
  <2>7. Counted' # {} => nameFile' # None /\ session'[nameFile'] = "live" /\ daemon'
    BY <1>1, <2>1, <2>3 DEF LowInv
  <2> QED
    BY <2>5, <2>6, <2>7
<1>7. ASSUME NEW p \in Callers, Stop(p) PROVE Goal
  <2>1. Counted' = Counted
    BY <1>7, CountedSteps
  <2>2. CASE Waited(p)
    <3>1. Count' = Count /\ UNCHANGED <<nameFile, session, daemon>>
      BY <2>2 DEF Waited, Count, Value
    <3>2. \A q \in Callers : pc'[q] \in AtWork => pc[q] \in AtWork
      BY <2>2 DEF Waited, AtWork, Stopping
    <3> QED
      BY <1>1, <2>1, <3>1, <3>2 DEF LowInv
  <2>3. CASE ~Waited(p)
    <3>1. pc[p] \in AtWork
      BY <1>7, <2>3 DEF Stop, Enter, Freeze, StopDaemon, Destroy, Cleanup, Release, AtWork, Stopping
    <3>2. Counted = {} /\ Cardinality(Counted) = 0
      BY <1>1, <3>1, FS_EmptySet DEF LowInv
    <3>3. Count' = 0 \/ Count' = Count
      BY <1>7, <2>3 DEF Stop, Enter, Freeze, StopDaemon, Destroy, Cleanup, Release, Count, Value
    <3> QED
      BY <1>1, <2>1, <3>2, <3>3 DEF LowInv
  <2> QED
    BY <2>2, <2>3
<1> QED
  BY <1>0, <1>2, <1>3, <1>4, <1>5, <1>6, <1>7 DEF Next, Counting

LEMMA SessionInvariance == Spec => []SessionIInv
<1>1. Init => SessionIInv
  BY InitialInvariant
<1>2. SessionIInv /\ [Next]_vars => SessionIInv'
  <2> SUFFICES ASSUME SessionIInv, [Next]_vars PROVE SessionIInv'
    OBVIOUS
  <2>1. CASE Next
    <3>1. TypeOK' /\ OnlyWrappers'
      BY <2>1, TypePreserved, OnlyWrappersPreserved DEF SessionIInv
    <3>2. ASSUME ~raced' PROVE InOrder'
      <4>1. ~raced
        BY <2>1, <3>2, NoRace DEF SessionIInv
      <4>2. TypeOK /\ OnlyWrappers /\ InOrder
        BY <4>1 DEF SessionIInv
      <4> QED
        BY <2>1, <3>2, <4>1, <4>2, AlonePreserved, SessionPreserved, CountPreserved, HighPreserved, LowPreserved
        DEF InOrder
    <3> QED
      BY <3>1, <3>2 DEF SessionIInv
  <2>2. CASE UNCHANGED vars
    BY <2>2 DEF vars, SessionIInv, TypeOK, OnlyWrappers, InOrder, Alone, LockInv, SessionInv, CountInv, HighInv, LowInv,
                Exists, Counted, Count, Value, StopPending
  <2> QED
    BY <2>1, <2>2
<1> QED
  BY <1>1, <1>2, PTL DEF Spec

(* Until a stop is asked for or calls race, counted nodes run under a live *)
(* session, however many enter and leave together.                         *)
THEOREM NodesStayTraced == Spec => []NodesAreTraced
<1>1. SessionIInv => NodesAreTraced
  <2> SUFFICES ASSUME SessionIInv, ~explicit, ~raced, NEW w \in Wrappers, pc[w] = "running"
               PROVE  Exists(nameFile) /\ session[nameFile] = "live" /\ daemon
    BY DEF NodesAreTraced
  <2>1. w \in Counted
    BY DEF Counted
  <2> QED
    BY <2>1 DEF SessionIInv, InOrder, LowInv, Exists
<1> QED
  BY <1>1, SessionInvariance, PTL

(* When all calls are over, no wrapper was killed and no calls have raced, *)
(* nothing is left.                                                        *)
THEOREM NothingIsLeft == Spec => []LastDecStops
<1>1. SessionIInv => LastDecStops
  <2> SUFFICES ASSUME SessionIInv, kills = 0, ~raced, \A p \in Callers : pc[p] \in {"idle", "over"}
               PROVE  ~daemon /\ \A s \in Wrappers : ~Exists(s)
    BY DEF LastDecStops, Quiet, NothingLeft, Callers
  <2>1. ~StopPending /\ \A w \in Wrappers : pc[w] \notin {"daemon", "started", "incWrite", "running", "decWrite"}
    BY DEF StopPending, Callers
  <2>2. Counted = {}
    BY <2>1 DEF Counted
  <2> QED
    BY <2>1, <2>2 DEF SessionIInv, InOrder, HighInv
<1> QED
  BY <1>1, SessionInvariance, PTL

(* Unless calls race, there is one session at a time, and the name file    *)
(* leads to it.                                                            *)
THEOREM SessionIsFound == Spec => []SessionCanBeFound
<1>1. SessionIInv => SessionCanBeFound
  BY DEF SessionIInv, InOrder, SessionInv, SessionCanBeFound
<1> QED
  BY <1>1, SessionInvariance, PTL
=============================================================================
