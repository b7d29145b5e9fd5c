--------------------------- MODULE SnapshotProofs ---------------------------
(***************************************************************************)
(* For any number of nodes, workers and polls: params.json never shrinks   *)
(* while sweeps do not overlap, a stop by the daemon merges everything     *)
(* that is known, and no node is left in the queue.                        *)
(***************************************************************************)
EXTENDS Snapshot, FiniteSetTheorems, TLAPS

LEMMA Others == Other("daemon") = "shutdown" /\ Other("shutdown") = "daemon"
BY DEF Other, Sweepers

LEMMA Kinds ==
    /\ Torn \in Contents /\ Absent \in Contents /\ Torn.nodes = {}
    /\ Absent # Torn /\ Absent.nodes = {}
    /\ \A nodes \in SUBSET Nodes :
          Json(nodes) \in Contents /\ Json(nodes) # Torn /\ Json(nodes).nodes = nodes
BY DEF Torn, Absent, Json, Contents

(* What a sweep on its own knows: params.json is readable, the sweep holds *)
(* all of it, and the temporary file is its own.                           *)
SweepInv ==
    ~overlap =>
        /\ params # Torn
        /\ \A s \in Sweepers :
              /\ sweep[s] # "none" => sweep[Other(s)] = "none" /\ params.nodes \subseteq found[s]
              /\ sweep[s] = "dump" => handle[s] = "tmp" /\ tmp = Torn
              /\ sweep[s] = "replace" => tmp = Json(found[s])

(* Under auto_stop, and unless a thread was given up: the collector is at  *)
(* its end before the list is read, the file has what the collector has,   *)
(* and the shutdown snapshot adds to it.                                   *)
Merging == {"ask", "sweep", "exit", "over"}

MergeInv ==
    mode = "auto" /\ ~gaveUp =>
        /\ stop # "event"
        /\ stop \in {"list"} \cup Merging => pc = "over"
        /\ allNodes \subseteq nodeList
        /\ answered = allInfo \cup fresh
        /\ pc # "join" => \A w \in Workers : worker[w] \in {"none", "over"}
        /\ stop \in {"none", "join", "list"} =>
              /\ seen = {} /\ fresh = {} /\ refused = {}
              /\ pc \notin {"join", "dump"} => infoFile = allInfo
        /\ stop \in Merging => seen \subseteq nodeList
        /\ stop = "ask" =>
              /\ merged = allInfo /\ infoFile = allInfo
              /\ seen \subseteq merged \cup fresh \cup refused \cup todo
        /\ stop \in {"sweep", "exit", "over"} =>
              allInfo \cup fresh \cup (seen \ refused) \subseteq infoFile

SnapshotIInv == TypeOK /\ SweepInv /\ MergeInv

-----------------------------------------------------------------------------
(* The parameters.                                                         *)
LEMMA ReadParamsKeeps ==
    ASSUME SweepTypeOK, SweepInv, NEW s \in Sweepers, NEW nodes \in SUBSET Nodes, ReadParams(s, nodes)
    PROVE  SweepTypeOK' /\ SweepInv' /\ (~overlap' => params' = params)
<1> USE DEF Sweepers
<1>1. CASE params = Torn \/ nodes \subseteq params.nodes
  <2>1. UNCHANGED sweepVars
    BY <1>1, Zenon DEF ReadParams, sweepVars
  <2> QED
    BY <2>1 DEF sweepVars, SweepTypeOK, SweepInv
<1>2. CASE ~(params = Torn \/ nodes \subseteq params.nodes)
  <2>1. overlap' = (overlap \/ sweep[Other(s)] # "none")
    BY <1>2, Zenon DEF ReadParams
  <2>2. /\ sweep[s] = "none" /\ sweep' = [sweep EXCEPT ![s] = "ask"]
        /\ asked' = [asked EXCEPT ![s] = nodes \ params.nodes]
        /\ found' = [found EXCEPT ![s] = params.nodes]
        /\ UNCHANGED <<handle, params, tmp>>
    BY <1>2, SMTT(30) DEF ReadParams
  <2>3. overlap' \in BOOLEAN /\ (~overlap' => ~overlap /\ sweep[Other(s)] = "none")
    BY <2>1, Zenon
  <2>4. params.nodes \subseteq Nodes
    BY DEF SweepTypeOK, Contents
  <2>5. SweepTypeOK'
    BY <2>2, <2>3, <2>4, SMTT(30) DEF SweepTypeOK
  <2>6. SweepInv'
    BY <2>2, <2>3, Others, SMTT(30) DEF SweepTypeOK, SweepInv
  <2> QED
    BY <2>2, <2>5, <2>6
<1> QED
  BY <1>1, <1>2

LEMMA SweepStepKeeps ==
    ASSUME SweepTypeOK, SweepInv, NEW s \in Sweepers, SweepStep(s, up), up \subseteq Nodes
    PROVE  /\ SweepTypeOK' /\ SweepInv'
           /\ ~overlap' => params' # Torn /\ params.nodes \subseteq params'.nodes
<1> DEFINE Goal ==
    /\ SweepTypeOK' /\ SweepInv'
    /\ ~overlap' => params' # Torn /\ params.nodes \subseteq params'.nodes
<1> USE DEF Sweepers
<1>1. ASSUME NEW got \in {asked[s] \cap up, {}}, AskParams(s, got)
      PROVE  Goal
  <2>1. SweepTypeOK'
    BY <1>1, SMTT(30) DEF AskParams, Leave, SweepTypeOK
  <2>2. SweepInv' /\ params' = params /\ overlap' = overlap
    BY <1>1, Others, SMTT(30) DEF AskParams, Leave, SweepTypeOK, SweepInv
  <2> QED
    BY <2>1, <2>2 DEF SweepInv
<1>2. ASSUME OpenTmp(s)
      PROVE  Goal
  <2>1. SweepTypeOK'
    BY <1>2, Kinds, SMTT(30) DEF OpenTmp, SweepTypeOK
  <2>2. SweepInv' /\ params' = params /\ overlap' = overlap
    BY <1>2, Others, SMTT(30) DEF OpenTmp, SweepTypeOK, SweepInv
  <2> QED
    BY <2>1, <2>2 DEF SweepInv
<1>3. ASSUME Dump(s)
      PROVE  Goal
  <2>1. \A c \in Contents : Written(s, c) \subseteq Contents
    BY Kinds DEF Written, SweepTypeOK
  <2>2. SweepTypeOK'
    BY <1>3, <2>1, SMTT(30) DEF Dump, SweepTypeOK
  <2>3. ~overlap => params' = params /\ tmp' = Json(found[s])
    BY <1>3, SMTT(30) DEF Dump, Written, SweepInv
  <2>4. SweepInv'
    BY <1>3, <2>3, Others, SMTT(30) DEF Dump, SweepTypeOK, SweepInv
  <2>5. overlap' = overlap
    BY <1>3 DEF Dump
  <2> QED
    BY <2>2, <2>3, <2>4, <2>5 DEF SweepInv
<1>4. ASSUME Replace(s)
      PROVE  Goal
  <2>1. SweepTypeOK'
    BY <1>4, Kinds, SMTT(30) DEF Replace, SweepTypeOK
  <2>2. overlap' = overlap /\ sweep[s] = "replace" /\ found[s] \in SUBSET Nodes
    BY <1>4 DEF Replace, SweepTypeOK
  <2>3. ~overlap => params' # Torn /\ params.nodes \subseteq params'.nodes
    BY <1>4, <2>2, Kinds, SMTT(30) DEF Replace, SweepInv
  <2>4. SweepInv'
    BY <1>4, <2>2, <2>3, Others, SMTT(30) DEF Replace, SweepTypeOK, SweepInv
  <2> QED
    BY <2>1, <2>2, <2>3, <2>4
<1> QED
  BY <1>1, <1>2, <1>3, <1>4 DEF SweepStep

(* Every other step leaves the files of the parameters alone.              *)
LEMMA SweepsKeep ==
    ASSUME TypeOK, SweepInv, Next
    PROVE  /\ SweepTypeOK' /\ SweepInv'
           /\ ~overlap' /\ params' # params => params' # Torn /\ params.nodes \subseteq params'.nodes
<1> DEFINE Goal ==
    /\ SweepTypeOK' /\ SweepInv'
    /\ ~overlap' /\ params' # params => params' # Torn /\ params.nodes \subseteq params'.nodes
<1> USE DEF TypeOK
<1>1. UNCHANGED sweepVars => Goal
  BY DEF sweepVars, SweepTypeOK, SweepInv
<1>2. ASSUME NEW s \in Sweepers, NEW nodes \in SUBSET Nodes, ReadParams(s, nodes)
      PROVE  Goal
  BY <1>2, ReadParamsKeeps
<1>3. ASSUME NEW s \in Sweepers, Sweep(s)
      PROVE  Goal
  BY <1>3, SweepStepKeeps DEF Sweep
<1>4. ASSUME NEW n \in Nodes, NodeUp(n) \/ NodeDown(n)
      PROVE  Goal
  BY <1>1, <1>4 DEF NodeUp, NodeDown
<1>5. ASSUME NEW w \in Workers, Take(w) \/ Answer(w) \/ NoAnswer(w)
      PROVE  Goal
  BY <1>1, <1>5 DEF Take, Answer, NoAnswer
<1>6. ASSUME NEW some \in {up, {}}, Poll(some)
      PROVE  Goal
  <2>1. allNodes' \in SUBSET Nodes /\ "daemon" \in Sweepers
    BY <1>6 DEF Poll, Sweepers
  <2>2. UNCHANGED sweepVars \/ ReadParams("daemon", allNodes')
    BY <1>6 DEF Poll
  <2> QED
    BY <1>1, <1>2, <2>1, <2>2
<1>7. StartBatch \/ JoinWorkers \/ DumpInfo("dump", "wait") \/ NextPoll \/ EndPolling
         \/ DumpInfo("final", "over") => Goal
  BY <1>1 DEF StartBatch, JoinWorkers, DumpInfo, NextPoll, EndPolling
<1>8. SetEvent \/ JoinCollector \/ DaemonExit \/ EndRefresh => Goal
  BY <1>1 DEF SetEvent, JoinCollector, DaemonExit, EndRefresh
<1>9. ASSUME NEW some \in {up, {}}, ListAtStop(some)
      PROVE  Goal
  BY <1>1, <1>9 DEF ListAtStop
<1>10. ASSUME NEW n \in Nodes, AskAtStop(n)
       PROVE  Goal
  BY <1>1, <1>10 DEF AskAtStop
<1>11. CASE WriteInfo
  BY <1>2, <1>11 DEF WriteInfo, Sweepers
<1> QED
  BY <1>3, <1>4, <1>5, <1>6, <1>7, <1>8, <1>9, <1>10, <1>11 DEF Next, Collect, Stop

-----------------------------------------------------------------------------
(* The application and the parameters leave everything else alone.         *)
LEMMA OutsideKeeps ==
    ASSUME TypeOK, MergeInv, SweepTypeOK',
           \/ \E n \in Nodes : NodeUp(n) \/ NodeDown(n)
           \/ \E s \in Sweepers : Sweep(s)
    PROVE  TypeOK' /\ MergeInv'
<1>1. /\ UNCHANGED <<collectorVars, stopVars, fileVars, historyVars>>
      /\ unborn' \subseteq Nodes /\ up' \subseteq Nodes
  BY DEF NodeUp, NodeDown, Sweep, TypeOK, worldVars
<1>2. TypeOK'
  BY <1>1 DEF TypeOK, collectorVars, stopVars, shutdownVars, fileVars, historyVars
<1>3. MergeInv'
  BY <1>1 DEF MergeInv, collectorVars, stopVars, shutdownVars, fileVars, historyVars
<1> QED
  BY <1>2, <1>3

LEMMA CollectKeeps ==
    ASSUME TypeOK, MergeInv, SweepTypeOK', Collect
    PROVE  TypeOK' /\ MergeInv'
<1> USE SnapshotAssumption DEF worldVars, stopVars, shutdownVars, fileVars, historyVars, Merging
<1>1. ASSUME NEW some \in {up, {}}, Poll(some)
      PROVE  TypeOK' /\ MergeInv'
  <2>1. TypeOK'
    BY <1>1, SMTT(30) DEF Poll, TypeOK
  <2>2. MergeInv'
    BY <1>1, SMTT(30) DEF Poll, TypeOK, MergeInv
  <2> QED
    BY <2>1, <2>2
<1>2. CASE StartBatch
  <2>1. TypeOK'
    BY <1>2, SMTT(30) DEF StartBatch, TypeOK
  <2>2. MergeInv'
    BY <1>2, SMTT(30) DEF StartBatch, TypeOK, MergeInv
  <2> QED
    BY <2>1, <2>2
<1>3. CASE JoinWorkers
  <2>1. TypeOK'
    BY <1>3, SMTT(30) DEF JoinWorkers, TypeOK
  <2>2. MergeInv'
    <3>1. gaveUp' = (gaveUp \/ \E w \in Workers : worker[w] \notin {"none", "over"})
      BY <1>3, Zenon DEF JoinWorkers
    <3>2. ~gaveUp' => ~gaveUp /\ \A w \in Workers : worker[w] \in {"none", "over"}
      BY <3>1, Zenon
    <3>3. /\ pc' = "dump"
          /\ UNCHANGED <<mode, stop, allNodes, allInfo, worker, nodeList, infoFile, answered, refused,
                         seen, fresh, merged, todo>>
          /\ pc = "join"
      BY <1>3 DEF JoinWorkers
    <3> QED
      BY <3>2, <3>3, SMTT(30) DEF MergeInv
  <2> QED
    BY <2>1, <2>2
<1>4. CASE DumpInfo("dump", "wait") \/ DumpInfo("final", "over")
  <2>1. TypeOK'
    BY <1>4, SMTT(30) DEF DumpInfo, TypeOK
  <2>2. MergeInv'
    BY <1>4, SMTT(30) DEF DumpInfo, TypeOK, MergeInv
  <2> QED
    BY <2>1, <2>2
<1>5. CASE NextPoll \/ EndPolling
  <2>1. TypeOK'
    BY <1>5, SMTT(30) DEF NextPoll, EndPolling, TypeOK
  <2>2. MergeInv'
    BY <1>5, SMTT(30) DEF NextPoll, EndPolling, TypeOK, MergeInv
  <2> QED
    BY <2>1, <2>2
<1> QED
  BY <1>1, <1>2, <1>3, <1>4, <1>5 DEF Collect

(* A worker that still runs has not been given up only while it is waited  *)
(* for.                                                                    *)
LEMMA WorkersKeep ==
    ASSUME TypeOK, MergeInv, SweepTypeOK',
           NEW w \in Workers, Take(w) \/ Answer(w) \/ NoAnswer(w)
    PROVE  TypeOK' /\ MergeInv'
<1> USE SnapshotAssumption DEF worldVars, stopVars, shutdownVars, fileVars, historyVars, Merging
<1>1. CASE Take(w)
  <2>1. TypeOK'
    BY <1>1, SMTT(30) DEF Take, TypeOK
  <2>2. MergeInv'
    BY <1>1, SMTT(30) DEF Take, TypeOK, MergeInv
  <2> QED
    BY <2>1, <2>2
<1>2. CASE Answer(w)
  <2>1. TypeOK'
    BY <1>2, SMTT(30) DEF Answer, TypeOK
  <2>2. MergeInv'
    BY <1>2, SMTT(30) DEF Answer, TypeOK, MergeInv
  <2> QED
    BY <2>1, <2>2
<1>3. CASE NoAnswer(w)
  <2>1. TypeOK'
    BY <1>3, SMTT(30) DEF NoAnswer, TypeOK
  <2>2. MergeInv'
    BY <1>3, SMTT(30) DEF NoAnswer, TypeOK, MergeInv
  <2> QED
    BY <2>1, <2>2
<1> QED
  BY <1>1, <1>2, <1>3

LEMMA StopKeeps ==
    ASSUME TypeOK, MergeInv, SweepTypeOK', Stop
    PROVE  TypeOK' /\ MergeInv'
<1> USE DEF worldVars, collectorVars, shutdownVars, fileVars, historyVars, Merging, StopGoto,
            AfterJoin, AfterRefresh
<1>1. CASE SetEvent \/ DaemonExit \/ EndRefresh
  <2>1. TypeOK'
    <3>1. stopEvent' \in BOOLEAN
      BY <1>1, Zenon DEF SetEvent, DaemonExit, EndRefresh, TypeOK
    <3>2. /\ stop' \in {"join", "exit", "event", "over"}
          /\ UNCHANGED <<sweepVars, unborn, up, pc, polls, allNodes, allInfo, queue, worker, mode, seen,
                         merged, fresh, todo, nodeList, infoFile, answered, refused, gaveUp>>
      BY <1>1 DEF SetEvent, DaemonExit, EndRefresh
    <3> QED
      BY <3>1, <3>2 DEF TypeOK
  <2>2. MergeInv'
    BY <1>1, SMTT(30) DEF SetEvent, DaemonExit, EndRefresh, TypeOK, MergeInv
  <2> QED
    BY <2>1, <2>2
<1>2. CASE JoinCollector
  <2>1. gaveUp' \in BOOLEAN /\ (~gaveUp' => ~gaveUp /\ pc = "over")
    BY <1>2, Zenon DEF JoinCollector
  <2>2. /\ stop = "join" /\ stop' \in {"list", "exit"}
        /\ mode = "auto" => stop' = "list"
        /\ UNCHANGED <<sweepVars, unborn, up, pc, polls, allNodes, allInfo, queue, worker, stopEvent,
                       mode, seen, merged, fresh, todo, nodeList, infoFile, answered, refused>>
    BY <1>2 DEF JoinCollector
  <2>3. TypeOK'
    BY <2>1, <2>2, SMTT(30) DEF TypeOK
  <2>4. MergeInv'
    BY <2>1, <2>2, SMTT(30) DEF MergeInv
  <2> QED
    BY <2>3, <2>4
<1>3. ASSUME NEW some \in {up, {}}, ListAtStop(some)
      PROVE  TypeOK' /\ MergeInv'
  <2>1. TypeOK'
    BY <1>3, SMTT(30) DEF ListAtStop, TypeOK
  <2>2. MergeInv'
    BY <1>3, SMTT(30) DEF ListAtStop, TypeOK, MergeInv
  <2> QED
    BY <2>1, <2>2
<1>4. ASSUME NEW n \in Nodes, AskAtStop(n)
      PROVE  TypeOK' /\ MergeInv'
  <2>1. TypeOK'
    BY <1>4, SMTT(30) DEF AskAtStop, TypeOK
  <2>2. MergeInv'
    BY <1>4, SMTT(30) DEF AskAtStop, TypeOK, MergeInv
  <2> QED
    BY <2>1, <2>2
<1>5. CASE WriteInfo
  <2>1. TypeOK'
    BY <1>5, SMTT(30) DEF WriteInfo, TypeOK
  <2>2. MergeInv'
    BY <1>5, SMTT(30) DEF WriteInfo, TypeOK, MergeInv
  <2> QED
    BY <2>1, <2>2
<1> QED
  BY <1>1, <1>2, <1>3, <1>4, <1>5 DEF Stop

-----------------------------------------------------------------------------
LEMMA InitialInvariant == Init => SnapshotIInv
<1> SUFFICES ASSUME Init PROVE SnapshotIInv
  OBVIOUS
<1>1. TypeOK
  <2>1. SweepTypeOK
    BY Kinds DEF Init, SweepInit, SweepTypeOK
  <2>2. Early \subseteq Nodes /\ MaxPolls \in Nat
    BY SnapshotAssumption
  <2>3. stopEvent \in BOOLEAN /\ gaveUp \in BOOLEAN
    BY Zenon DEF Init
  <2> QED
    BY <2>1, <2>2, <2>3 DEF Init, TypeOK
<1>2. SweepInv /\ MergeInv
  BY Kinds, SMTT(30) DEF Init, SweepInit, SweepInv, MergeInv, Merging
<1> QED
  BY <1>1, <1>2 DEF SnapshotIInv

LEMMA Invariant == Spec => []SnapshotIInv
<1>1. SnapshotIInv /\ [Next]_vars => SnapshotIInv'
  <2> SUFFICES ASSUME SnapshotIInv, [Next]_vars PROVE SnapshotIInv'
    OBVIOUS
  <2> USE DEF SnapshotIInv
  <2>1. CASE Next
    <3>1. SweepTypeOK' /\ SweepInv'
      BY <2>1, SweepsKeep
    <3>2. TypeOK' /\ MergeInv'
      BY <2>1, <3>1, OutsideKeeps, CollectKeeps, WorkersKeep, StopKeeps DEF Next
    <3> QED
      BY <3>1, <3>2
  <2>2. CASE UNCHANGED vars
    BY <2>2 DEF vars, sweepVars, shutdownVars, TypeOK, SweepTypeOK, SweepInv, MergeInv
  <2> QED
    BY <2>1, <2>2
<1> QED
  BY InitialInvariant, <1>1, PTL DEF Spec

-----------------------------------------------------------------------------
(* Every variable keeps its type.                                          *)
THEOREM TypeCorrect == Spec => []TypeOK
<1>1. SnapshotIInv => TypeOK
  BY DEF SnapshotIInv
<1> QED
  BY Invariant, <1>1, PTL

(* Under auto_stop the files end up with all that anyone has seen, and     *)
(* with every description that anyone was given, unless a thread was given *)
(* up.                                                                     *)
THEOREM MergeAfterCollector == Spec => []AutoStopMerges
<1>1. SnapshotIInv => AutoStopMerges
  BY DEF SnapshotIInv, MergeInv, Merging, AutoStopMerges, MergeIsComplete
<1> QED
  BY Invariant, <1>1, PTL

(* While no two sweeps are under way together, params.json stays readable  *)
(* and loses no node.                                                      *)
THEOREM ParamsAreKept == Spec => ParamsOnlyGrow
<1>1. SnapshotIInv /\ [Next]_vars =>
        [~overlap' => params' # Torn /\ params.nodes \subseteq params'.nodes]_params
  BY SweepsKeep DEF SnapshotIInv, vars, sweepVars
<1> QED
  BY Invariant, <1>1, PTL DEF Spec, ParamsOnlyGrow

(* No node is left in the queue while the session goes on: a worker is     *)
(* there that will come to it, however many questions have failed.         *)
THEOREM NoNodeIsForgotten ==
    ASSUME 1 \in Workers
    PROVE  Spec => []QueueIsServed
<1> DEFINE Active(w) == worker[w] \notin {"none", "over"}
<1>1. Init => QueueIsServed
  BY DEF Init, QueueIsServed
<1>2. TypeOK /\ QueueIsServed /\ [Next]_vars => QueueIsServed'
  <2> SUFFICES ASSUME TypeOK, QueueIsServed, [Next]_vars, queue' # {}, ~stopEvent'
               PROVE  \E w \in Workers : Active(w)'
    BY DEF QueueIsServed
  <2>1. ASSUME queue # {}, ~stopEvent, UNCHANGED worker
        PROVE  \E w \in Workers : Active(w)'
    BY <2>1 DEF QueueIsServed
  <2>2. CASE StartBatch
    <3>1. CASE allNodes \ allInfo = {}
      BY <2>1, <2>2, <3>1 DEF StartBatch, stopVars
    <3>2. CASE allNodes \ allInfo # {}
      <4>1. IsFiniteSet(allNodes \ allInfo)
        BY SnapshotAssumption, FS_Subset DEF TypeOK
      <4>2. Cardinality(allNodes \ allInfo) \in Nat \ {0}
        BY <4>1, <3>2, FS_CardinalityType, FS_EmptySet
      <4>3. worker' = [w \in Workers |->
                          IF w <= Cardinality(allNodes \ allInfo) THEN "free" ELSE "none"]
        BY <2>2, <3>2 DEF StartBatch
      <4>4. worker'[1] = "free"
        BY <4>2, <4>3
      <4> QED
        BY <4>4
    <3> QED
      BY <3>1, <3>2
  <2>3. ASSUME NEW w \in Workers, Take(w)
        PROVE  \E v \in Workers : Active(v)'
    <3>1. queue # {} /\ stopEvent' = stopEvent
      BY <2>3 DEF Take, stopVars
    <3>2. PICK n \in queue : worker' = [worker EXCEPT ![w] = n]
      BY <2>3, <3>1 DEF Take
    <3>3. worker'[w] \in Nodes
      BY <3>2 DEF TypeOK
    <3> QED
      BY <3>3, SnapshotAssumption
  <2>4. ASSUME NEW w \in Workers, Answer(w) \/ NoAnswer(w)
        PROVE  \E v \in Workers : Active(v)'
    <3>1. worker'[w] = "free"
      BY <2>4 DEF Answer, NoAnswer, TypeOK
    <3> QED
      BY <3>1
  <2>5. CASE Collect /\ ~StartBatch
    <3>1. UNCHANGED <<queue, worker, stopEvent>>
      BY <2>5 DEF Collect, Poll, JoinWorkers, DumpInfo, NextPoll, EndPolling, stopVars
    <3> QED
      BY <2>1, <3>1
  <2>6. CASE Stop
    <3>1. UNCHANGED <<queue, worker>> /\ (stopEvent => stopEvent')
      BY <2>6 DEF Stop, SetEvent, JoinCollector, DaemonExit, ListAtStop, AskAtStop, WriteInfo,
                  EndRefresh, collectorVars
    <3> QED
      BY <2>1, <3>1
  <2>7. ASSUME \/ \E n \in Nodes : NodeUp(n) \/ NodeDown(n)
               \/ \E s \in Sweepers : Sweep(s)
               \/ UNCHANGED vars
        PROVE  \E w \in Workers : Active(w)'
    <3>1. UNCHANGED <<queue, worker, stopEvent>>
      BY <2>7 DEF NodeUp, NodeDown, Sweep, vars, collectorVars, stopVars
    <3> QED
      BY <2>1, <3>1
  <2> QED
    BY <2>2, <2>3, <2>4, <2>5, <2>6, <2>7 DEF Next
<1> QED
  BY TypeCorrect, <1>1, <1>2, PTL DEF Spec
=============================================================================
