-------------------------- MODULE PostprocessProofs --------------------------
(***************************************************************************)
(* The database and the kernel trace. Store: while programs run one after  *)
(* the other, any number of them, each step of which may fail or be its    *)
(* last one, nothing is loaded twice, success means everything that sqlite *)
(* let be read and the windows are those of the rows and the graph that    *)
(* are there, once they have been removed or were none. KschedParse:       *)
(* whatever the kernel session, each line of the trace gets the time of    *)
(* its event and the two parsers give the same result; when no event was   *)
(* discarded, the rows of a thread tile its time and the futex waits found *)
(* are those that took place.                                              *)
(***************************************************************************)
EXTENDS Store, KschedParse, FiniteSetTheorems, SequenceTheorems, WellFoundedInduction, TLAPS

(* Programs run one after the other: what one of them is doing tells what  *)
(* the database holds.                                                     *)
Active(p) == pc[p] \notin {"idle", "over", "dead"}
OneAtATime == \A p, q \in Procs : Active(p) /\ Active(q) => p = q

SmallPart(i) == <<Small[i].part, 0>>
Tables(f) == {<<t, f>> : t \in GpuTables}
Absent(x) == rows[x] = 0
Loaded(x) == x \in Missing \/ rows[x] = 1

(* a session without a row has no other rows and no graph, and a graph is  *)
(* that of the rows that are there                                         *)
NothingWithoutSession == session = Nobody => (\A x \in Parts : Absent(x)) /\ graph = NoGraph
GraphIsOfSession == graph # NoGraph => graph.of = session

(* What an ingest has not come to is not in the database, what it has      *)
(* loaded is there.                                                        *)
Begins(p) == at[p] = 1 /\ ros[p] = "busy" /\ nsys[p] = NoReport
ReportsAbsent == \A f \in Reports : Absent(Metadata(f)) /\ \A x \in Tables(f) : Absent(x)

SmallProgress(p) ==
    /\ session # Nobody /\ ros[p] = "busy" /\ nsys[p] = NoReport
    /\ Absent(Trace) /\ ReportsAbsent
    /\ \A i \in DOMAIN Small : IF i < at[p] THEN Loaded(SmallPart(i)) ELSE Absent(SmallPart(i))

Held(p, x) == Loaded(x) \/ x \in nsys[p].passed
ReportLoaded(p, f) == \A x \in Tables(f) : Held(p, x)
MetadataKept(p, f) == Metadata(f) \in nsys[p].passed \/ Counted(rows, Metadata(f))

NsysProgress(p) ==
    LET n == nsys[p]
    IN /\ n.report \in 1..(NReports + 1)
       /\ n.phase = "open" => ~n.failed
       /\ n.phase = "tables" => n.report \in Reports
       /\ n.phase # "failed" =>
             /\ \A f \in Reports : f < n.report => ReportLoaded(p, f) /\ MetadataKept(p, f)
             /\ \A f \in Reports : f > n.report => \A x \in Tables(f) : Absent(x)
       /\ n.phase = "open" /\ n.report \in Reports => \A x \in Tables(n.report) : Absent(x)
       /\ n.phase = "tables" =>
             \A t \in GpuTables : IF t \in n.left THEN Absent(<<t, n.report>>)
                                  ELSE n.failed \/ Held(p, <<t, n.report>>)

BigProgress(p) ==
    /\ session # Nobody
    /\ \A x \in SmallParts : Loaded(x)
    /\ ros[p] = "busy" => Absent(Trace)
    /\ ros[p] = "loaded" => Loaded(Trace)
    /\ NsysProgress(p)

IngestProgress(p) ==
    /\ pc[p] \in {"idle", "exists", "clean", "delete", "register"} => Begins(p)
    /\ pc[p] = "register" => session = Nobody
    /\ pc[p] = "small" => SmallProgress(p)
    /\ pc[p] = "big" => BigProgress(p)

(* Between its ingest and the build of the windows a pipeline that has     *)
(* removed them, or seen that there are none, has none in the database;    *)
(* what it builds is of the session and the graph there.                   *)
BeforeFilling == {"delete", "register", "small", "big", "extract", "look", "save", "meta", "fill"}
Current(s) == s.of = session /\ s.graph = graph.by

SpansProgress(p) ==
    /\ pc[p] \in {"look", "save"} => got[p].of = session
    /\ pc[p] \in {"clean", "delete"} => cmd[p] = "pipeline" /\ session # Nobody
    /\ pc[p] \in {"page", "rows", "keep"} => cmd[p] # "pipeline"
    /\ pc[p] \in {"idle", "exists", "clean"} => swept[p] = FALSE
    /\ cmd[p] = "pipeline" /\ swept[p] =>
          /\ pc[p] \in BeforeFilling => spans = {} /\ meta = NoSpans
          /\ pc[p] = "note" => spans = {got[p].filled} /\ Current(got[p].filled) /\ meta = NoSpans
          /\ pc[p] = "threads" /\ meta # NoSpans => spans = {meta} /\ Current(meta)
    /\ pc[p] = "threads" => cmd[p] = "pipeline"

StoreInv ==
    /\ TypeOK /\ OneAtATime /\ NothingWithoutSession /\ GraphIsOfSession /\ PartsOnce
    /\ \A p \in Procs : IngestProgress(p) /\ SpansProgress(p)

-----------------------------------------------------------------------------
(* The parts of a session are told apart by their names and numbers.       *)
LEMMA SmallFiles ==
    /\ Len(Small) = 8 /\ DOMAIN Small = 1..8
    /\ \A i \in 1..8 :
          /\ SmallPart(i) \in SmallParts /\ SmallPart(i) \in Parts
          /\ SmallPart(i) # Trace /\ SmallPart(i)[1] # "gpu_info"
          /\ \A j \in 1..8 : SmallPart(i) = SmallPart(j) => i = j
<1>1. Len(Small) = 8 /\ DOMAIN Small = 1..8
  BY DEF Small, ProcessTree, NodeInfo, TopicInfo, TopicHz, ComponentList, NodeList, FishEvents
<1>2. /\ Small[1].part = "process_tree" /\ Small[2].part = "process_tree_threads"
      /\ Small[3].part = "node_info" /\ Small[4].part = "topic_info" /\ Small[5].part = "topic_hz"
      /\ Small[6].part = "component_list" /\ Small[7].part = "node_list" /\ Small[8].part = "fish_events"
  BY DEF Small, ProcessTree, NodeInfo, TopicInfo, TopicHz, ComponentList, NodeList, FishEvents
<1>3. \A i \in 1..8 : SmallPart(i) \in SmallParts /\ SmallPart(i) \in Parts
  BY <1>1 DEF SmallParts, Parts, SmallPart
<1>4. \A i \in 1..8 : i \in {1, 2, 3, 4, 5, 6, 7, 8}
  OBVIOUS
<1>5. \A i \in 1..8 : Small[i].part # "ros2_trace" /\ Small[i].part # "gpu_info"
  BY <1>2, <1>4
<1>6. \A i, j \in 1..8 : Small[i].part = Small[j].part => i = j
  BY <1>2, <1>4
<1> QED
  BY <1>1, <1>3, <1>5, <1>6 DEF SmallPart, Trace

LEMMA PartsApart ==
    /\ Trace \in Parts /\ Trace[1] # "gpu_info"
    /\ \A f \in Reports : Metadata(f) \in Parts /\ Metadata(f) \notin Missing
    /\ \A f \in Reports : \A x \in Tables(f) : x \in Parts /\ x[1] # "gpu_info" /\ x # Trace /\ x \notin SmallParts
    /\ \A f, g \in Reports, t, u \in GpuTables : <<t, f>> = <<u, g>> => t = u /\ f = g
    /\ \A x \in SmallParts : x \in Parts /\ x[1] # "gpu_info" /\ x # Trace /\ \E i \in 1..8 : x = SmallPart(i)
    /\ \A f \in Reports : Metadata(f)[1] = "gpu_info" /\ \A g \in Reports : Metadata(f) = Metadata(g) => f = g
<1> USE StoreAssumption
<1>1. \A x \in SmallParts : \E i \in 1..8 : x = SmallPart(i)
  BY SmallFiles DEF SmallParts, SmallPart
<1>2. Trace \in Parts /\ Trace[1] # "gpu_info"
  BY DEF Trace, Parts
<1>3. \A f \in Reports : Metadata(f) \in Parts /\ Metadata(f) \notin Missing /\ Metadata(f)[1] = "gpu_info"
  BY DEF Metadata, Parts
<1>4. ASSUME NEW f \in Reports, NEW x \in Tables(f)
      PROVE  x \in Parts /\ x[1] # "gpu_info" /\ x # Trace /\ x \notin SmallParts
  <2>1. x[2] # 0
    BY <1>4 DEF Tables, Reports
  <2>2. \A y \in SmallParts : y[2] = 0
    BY DEF SmallParts
  <2> QED
    BY <1>4, <2>1, <2>2 DEF Tables, Parts, Trace
<1> QED
  BY <1>1, <1>2, <1>3, <1>4, SmallFiles DEF Metadata

-----------------------------------------------------------------------------
Step(p) ==
    \/ \E c \in Commands : Begin(p, c)
    \/ Die(p) \/ Ingest(p) \/ Model(p) \/ Spans(p) \/ View(p)

LEMMA ConstantTypes ==
    /\ Nobody \in Someone /\ Procs \subseteq Someone /\ Nobody \notin Procs
    /\ NoSpans \in Fillings
    /\ NoGraph \in [by : Someone, of : Someone, threads : BOOLEAN]
    /\ Nothing \in Readings
    /\ NoReport \in ReportStates
    /\ 1 \in 1..(Len(Small) + 1)
<1> USE StoreAssumption
<1>1. Nobody \in Someone /\ Procs \subseteq Someone /\ Nobody \notin Procs
  BY DEF Nobody, Someone, Procs
<1>2. NoSpans \in Fillings
  BY <1>1 DEF NoSpans, Fillings
<1> QED
  BY <1>1, <1>2, SmallFiles DEF NoGraph, Nothing, NoReport, Readings, ReportStates

LEMMA InitialTypes == Init => TypeOK
BY ConstantTypes, StoreAssumption DEF Init, TypeOK, NoPage, Labels, Commands

(* What is in a program's memory keeps its type, whatever the action does. *)
LEMMA ForgetTypes ==
    ASSUME TypeOK, NEW p \in Procs, Forget(p)
    PROVE  /\ at' \in [Procs -> 1..(Len(Small) + 1)]
           /\ ros' \in [Procs -> {"busy", "loaded", "failed"}]
           /\ nsys' \in [Procs -> ReportStates]
           /\ got' \in [Procs -> Readings]
BY ConstantTypes DEF TypeOK, Forget

LEMMA EndTypes ==
    ASSUME TypeOK, NEW p \in Procs, NEW words \in {"skipped", "failed", "errors", "done"}, IngestEnds(p, words),
           UNCHANGED <<storeVars, swept, cmd, deaths>>
    PROVE  TypeOK'
BY ForgetTypes DEF TypeOK, IngestEnds, Go, Labels, storeVars

LEMMA GoTypes ==
    ASSUME TypeOK, NEW p \in Procs, NEW label \in Labels, Go(p, label)
    PROVE  pc' \in [Procs -> Labels]
BY DEF TypeOK, Go

LEMMA ReadTypes ==
    ASSUME TypeOK, NEW p \in Procs,
           NEW g \in Readings, Read(p, g)
    PROVE  got' \in [Procs -> Readings]
BY DEF TypeOK, Read

LEMMA NsysTypes ==
    ASSUME TypeOK, NEW p \in Procs,
           NEW n \in ReportStates, Nsys(p, n)
    PROVE  nsys' \in [Procs -> ReportStates]
BY DEF TypeOK, Nsys

LEMMA LoadTypes ==
    ASSUME TypeOK, NEW x, NEW again, Load(x, again)
    PROVE  rows' \in [Parts -> Nat]
<1>1. Adds(x, again) \in Nat
  BY DEF Adds
<1>2. ASSUME NEW y \in Parts PROVE rows'[y] \in Nat
  BY <1>1 DEF TypeOK, Load
<1> QED
  BY <1>2 DEF TypeOK, Load

LEMMA IngestTypes == ASSUME TypeOK, NEW p \in Procs, Ingest(p) PROVE TypeOK'
<1> USE StoreAssumption
<1>1. CASE Exists(p)
  <2>1. CASE session # Nobody /\ cmd[p] # "pipeline"
    BY <1>1, <2>1, EndTypes DEF Exists
  <2>2. CASE ~(session # Nobody /\ cmd[p] # "pipeline")
    <3>1. pc' \in [Procs -> Labels]
      BY <1>1, <2>2, GoTypes DEF Exists, Labels
    <3>2. swept' \in [Procs -> BOOLEAN]
      BY <1>1, <2>2 DEF Exists, TypeOK
    <3> QED
      BY <1>1, <2>2, <3>1, <3>2 DEF Exists, storeVars, ingestVars, TypeOK
  <2> QED
    BY <2>1, <2>2
<1>2. CASE CleanSpans(p)
  <2>1. swept' \in [Procs -> BOOLEAN] /\ spans' \subseteq Fillings /\ meta' \in Fillings
    BY <1>2, ConstantTypes DEF CleanSpans, TypeOK
  <2> QED
    BY <1>2, <2>1, GoTypes DEF CleanSpans, ingestVars, TypeOK, Labels
<1>3. CASE DeleteSession(p)
  BY <1>3, GoTypes, ConstantTypes DEF DeleteSession, ingestVars, TypeOK, Labels
<1>4. CASE RegisterSession(p)
  BY <1>4, GoTypes, ConstantTypes DEF RegisterSession, ingestVars, TypeOK, Labels
<1>5. CASE StartThreads(p)
  BY <1>5, GoTypes DEF StartThreads, storeVars, ingestVars, TypeOK, Labels
<1>6. CASE IngestFails(p) \/ SmallFails(p) \/ Join(p)
  BY <1>6, EndTypes DEF IngestFails, SmallFails, Join
<1>7. CASE LoadSmall(p)
  <2>1. at[p] \in 1..8 /\ SmallPart(at[p]) \in Parts
    BY <1>7, SmallFiles DEF LoadSmall, TypeOK
  <2>2. rows' \in [Parts -> Nat]
    BY <1>7, <2>1, LoadTypes DEF LoadSmall, SmallPart
  <2>3. at' \in [Procs -> 1..(Len(Small) + 1)]
    BY <1>7, <2>1, SmallFiles DEF LoadSmall, TypeOK
  <2> QED
    BY <1>7, <2>2, <2>3 DEF LoadSmall, TypeOK
<1>8. CASE LoadTrace(p)
  <2>1. rows' \in [Parts -> Nat]
    BY <1>8, PartsApart, LoadTypes DEF LoadTrace, TypeOK
  <2> QED
    BY <1>8, <2>1 DEF LoadTrace, TypeOK
<1>9. nsys[p] \in ReportStates
  BY DEF TypeOK
<1>10. CASE OpenReport(p)
  <2>1. [nsys[p] EXCEPT !.phase = "tables", !.left = GpuTables] \in ReportStates
    BY <1>9 DEF ReportStates
  <2>2. [nsys[p] EXCEPT !.phase = "failed"] \in ReportStates
    BY <1>9 DEF ReportStates
  <2> QED
    BY <1>10, <2>1, <2>2, NsysTypes DEF OpenReport, nsysSame, TypeOK
<1>11. ASSUME NEW t \in GpuTables, LoadTable(p, t) \/ TableFails(p, t) PROVE TypeOK'
  <2>1. /\ [nsys[p] EXCEPT !.left = @ \ {t}] \in ReportStates
        /\ [nsys[p] EXCEPT !.left = @ \ {t}, !.passed = @ \cup {<<t, nsys[p].report>>}] \in ReportStates
    <3>1. <<t, nsys[p].report>> \in (GpuTables \cup {"gpu_info"}) \X (Nat \ {0})
      BY <1>9 DEF ReportStates
    <3> DEFINE x == <<t, nsys[p].report>>
    <3> HIDE DEF x
    <3>2. /\ nsys[p].passed \cup {x} \in SUBSET ((GpuTables \cup {"gpu_info"}) \X (Nat \ {0}))
          /\ nsys[p].left \ {t} \in SUBSET GpuTables
      BY <1>9, <3>1 DEF ReportStates, x
    <3> QED
      BY <1>9, <3>2 DEF ReportStates, x
  <2>2. [nsys[p] EXCEPT !.left = @ \ {t}, !.failed = TRUE] \in ReportStates
    BY <1>9 DEF ReportStates
  <2>3. rows' \in [Parts -> Nat]
    BY <1>11, LoadTypes DEF LoadTable, TableFails, TypeOK
  <2> QED
    BY <1>11, <2>1, <2>2, <2>3, NsysTypes DEF LoadTable, TableFails, nsysSame, TypeOK
<1>12. CASE EndReport(p)
  <2>1. rows' \in [Parts -> Nat]
    <3>1. \A x \in Parts : rows'[x] \in {rows[x], 0, 1}
      BY <1>12 DEF EndReport
    <3>2. DOMAIN rows' = Parts /\ rows' = [x \in Parts |-> rows'[x]]
      BY <1>12 DEF EndReport, TypeOK
    <3>3. rows \in [Parts -> Nat]
      BY DEF TypeOK
    <3>4. \A x \in Parts : rows'[x] \in Nat
      BY <3>1, <3>3
    <3> QED
      BY <3>2, <3>4
  <2>2. [nsys[p] EXCEPT !.phase = "failed"] \in ReportStates
    BY <1>9 DEF ReportStates
  <2>3. nsys[p].report + 1 \in Nat \ {0} /\ nsys[p].report \in Nat \ {0}
    BY <1>9 DEF ReportStates
  <2>4. [nsys[p] EXCEPT !.report = @ + 1, !.phase = "open"] \in ReportStates
    BY <1>9, <2>3 DEF ReportStates
  <2>5. [nsys[p] EXCEPT !.report = @ + 1, !.phase = "open", !.passed = @ \cup {Metadata(nsys[p].report)}] \in ReportStates
    <3> DEFINE x == Metadata(nsys[p].report)
    <3>1. x \in (GpuTables \cup {"gpu_info"}) \X (Nat \ {0})
      BY <2>3 DEF Metadata
    <3> HIDE DEF x
    <3>2. nsys[p].passed \cup {x} \in SUBSET ((GpuTables \cup {"gpu_info"}) \X (Nat \ {0}))
      BY <1>9, <3>1 DEF ReportStates
    <3>3. [nsys[p] EXCEPT !.report = @ + 1, !.phase = "open", !.passed = @ \cup {x}] \in ReportStates
      BY <1>9, <2>3, <3>2 DEF ReportStates
    <3> QED
      BY <3>3 DEF x
  <2>6. nsys' \in [Procs -> ReportStates]
    BY <1>12, <2>2, <2>4, <2>5, NsysTypes DEF EndReport
  <2> QED
    BY <1>12, <2>1, <2>6 DEF EndReport, nsysSame, TypeOK
<1> QED
  BY <1>1, <1>2, <1>3, <1>4, <1>5, <1>6, <1>7, <1>8, <1>10, <1>11, <1>12 DEF Ingest

LEMMA ModelTypes == ASSUME TypeOK, NEW p \in Procs, Model(p) PROVE TypeOK'
<1>1. got[p] \in Readings
  BY DEF TypeOK
<1>2. CASE Extract(p)
  <2>1. [got[p] EXCEPT !.of = session] \in Readings
    BY <1>1 DEF Readings, TypeOK
  <2>2. pc' \in [Procs -> Labels]
    BY <1>2, GoTypes DEF Extract, ModelEnds, Labels
  <2>3. got' \in [Procs -> Readings]
    BY <1>2, <2>1, ReadTypes DEF Extract, TypeOK
  <2> QED
    BY <1>2, <2>2, <2>3 DEF Extract, storeVars, readSame, TypeOK
<1>3. CASE GraphExists(p)
  <2>1. [got[p] EXCEPT !.exists = graph # NoGraph] \in Readings
    BY <1>1 DEF Readings
  <2> QED
    BY <1>3, <2>1, ReadTypes, GoTypes DEF GraphExists, storeVars, readSame, TypeOK, Labels
<1>4. CASE SaveGraph(p)
  <2>1. pc' \in [Procs -> Labels] /\ got' \in [Procs -> Readings]
    BY <1>4, GoTypes, ReadTypes, ConstantTypes DEF SaveGraph, ModelEnds, Labels
  <2>2. graph' \in [by : Someone, of : Someone, threads : BOOLEAN]
    BY <1>1, <1>4, ConstantTypes DEF SaveGraph, TypeOK, Readings
  <2> QED
    BY <1>4, <2>1, <2>2 DEF SaveGraph, readSame, TypeOK
<1> QED
  BY <1>2, <1>3, <1>4 DEF Model

LEMMA SpansTypes == ASSUME TypeOK, NEW p \in Procs, Spans(p) PROVE TypeOK'
<1>1. got[p] \in Readings
  BY DEF TypeOK
<1>2. pc' \in [Procs -> Labels]
  BY GoTypes DEF Spans, HasMeta, FillSpans, WriteMeta, SpansFail, AttachThreads, SpansEnd, Labels
<1>3. CASE HasMeta(p)
  BY <1>2, <1>3 DEF HasMeta, storeVars, readSame, TypeOK
<1>4. CASE FillSpans(p)
  <2> DEFINE filled == [by |-> p, of |-> session, graph |-> graph.by]
  <2>1. filled \in Fillings
    BY ConstantTypes DEF TypeOK, Fillings
  <2>2. [got[p] EXCEPT !.filled = filled] \in Readings
    BY <1>1, <2>1 DEF Readings
  <2>3. got' \in [Procs -> Readings] /\ spans' \subseteq Fillings
    BY <1>4, <2>1, <2>2, ReadTypes DEF FillSpans, TypeOK
  <2> QED
    BY <1>2, <1>4, <2>3 DEF FillSpans, readSame, TypeOK
<1>5. CASE WriteMeta(p)
  <2>1. meta' \in Fillings /\ got' \in [Procs -> Readings]
    BY <1>1, <1>5, ReadTypes, ConstantTypes DEF WriteMeta, Readings
  <2> QED
    BY <1>2, <1>5, <2>1 DEF WriteMeta, readSame, TypeOK
<1>6. CASE SpansFail(p)
  BY <1>2, <1>6, ReadTypes, ConstantTypes DEF SpansFail, storeVars, readSame, TypeOK
<1>7. CASE AttachThreads(p)
  <2>1. graph' \in [by : Someone, of : Someone, threads : BOOLEAN]
    BY <1>7 DEF AttachThreads, TypeOK
  <2> QED
    BY <1>2, <1>7, <2>1 DEF AttachThreads, readSame, TypeOK
<1> QED
  BY <1>3, <1>4, <1>5, <1>6, <1>7 DEF Spans

LEMMA ViewTypes == ASSUME TypeOK, NEW p \in Procs, View(p) PROVE TypeOK'
<1>1. got[p] \in Readings
  BY DEF TypeOK
<1>2. pc' \in [Procs -> Labels]
  BY GoTypes DEF View, FromFile, NotFromFile, ReadRows, KeepPage, Labels
<1>3. CASE FromFile(p) \/ NotFromFile(p)
  BY <1>2, <1>3 DEF FromFile, NotFromFile, storeVars, readSame, TypeOK
<1>4. CASE ReadRows(p)
  <2>1. [got[p] EXCEPT !.shown = spans] \in Readings
    BY <1>1 DEF Readings, TypeOK
  <2>2. got' \in [Procs -> Readings]
    BY <1>4, <2>1, ReadTypes DEF ReadRows, TypeOK
  <2> QED
    BY <1>2, <1>4, <2>2 DEF ReadRows, storeVars, readSame, TypeOK
<1>5. CASE KeepPage(p)
  <2>1. page' \subseteq Fillings /\ got' \in [Procs -> Readings]
    BY <1>1, <1>5, ReadTypes, ConstantTypes DEF KeepPage, Readings
  <2> QED
    BY <1>2, <1>5, <2>1 DEF KeepPage, readSame, TypeOK
<1> QED
  BY <1>3, <1>4, <1>5 DEF View

LEMMA TypePreserved == TypeOK /\ [Next]_vars => TypeOK'
<1> USE StoreAssumption, ConstantTypes
<1> SUFFICES ASSUME TypeOK, [Next]_vars PROVE TypeOK'
  OBVIOUS
<1>1. CASE UNCHANGED vars
  BY <1>1 DEF vars, storeVars, TypeOK
<1>2. ASSUME NEW p \in Procs, Step(p) PROVE TypeOK'
  <2>1. ASSUME NEW c \in Commands, Begin(p, c) PROVE TypeOK'
    BY <2>1 DEF Begin, Go, storeVars, TypeOK, Labels, Commands
  <2>2. CASE Die(p)
    <3>1. deaths' \in 0..MaxDeaths
      BY <2>2 DEF Die, TypeOK
    <3> QED
      BY <2>2, <3>1, ForgetTypes DEF Die, Go, storeVars, TypeOK, Labels
  <2>3. CASE Ingest(p)
    BY <2>3, IngestTypes
  <2>4. CASE Model(p)
    BY <2>4, ModelTypes
  <2>5. CASE Spans(p)
    BY <2>5, SpansTypes
  <2>6. CASE View(p)
    BY <2>6, ViewTypes
  <2> QED
    BY <1>2, <2>1, <2>2, <2>3, <2>4, <2>5, <2>6 DEF Step
<1> QED
  BY <1>1, <1>2 DEF Next, Step

(* The variables keep their types. *)
THEOREM TypeCorrect == Spec => []TypeOK
BY InitialTypes, TypePreserved, PTL DEF Spec

-----------------------------------------------------------------------------
(* A step of one program leaves what is in the memory of the others.       *)
Untouched(q) ==
    /\ pc'[q] = pc[q] /\ cmd'[q] = cmd[q] /\ at'[q] = at[q]
    /\ ros'[q] = ros[q] /\ nsys'[q] = nsys[q] /\ got'[q] = got[q] /\ swept'[q] = swept[q]

LEMMA StepOfOne ==
    ASSUME TypeOK, NEW p \in Procs, NEW q \in Procs, q # p, Step(p)
    PROVE  Untouched(q)
<1> USE DEF TypeOK, Untouched, Go, Forget, Read, readSame, ingestVars
<1>1. ASSUME NEW c \in Commands, Begin(p, c) PROVE Untouched(q)
  BY <1>1 DEF Begin
<1>2. CASE Die(p)
  BY <1>2 DEF Die
<1>3. CASE Exists(p) \/ IngestFails(p) \/ SmallFails(p) \/ Join(p)
  BY <1>3 DEF Exists, IngestFails, SmallFails, Join, IngestEnds
<1>4. CASE CleanSpans(p) \/ DeleteSession(p) \/ RegisterSession(p) \/ StartThreads(p)
  BY <1>4 DEF CleanSpans, DeleteSession, RegisterSession, StartThreads
<1>5. CASE LoadSmall(p) \/ LoadTrace(p)
  BY <1>5 DEF LoadSmall, LoadTrace
<1>6. CASE OpenReport(p) \/ EndReport(p) \/ \E t \in GpuTables : LoadTable(p, t) \/ TableFails(p, t)
  BY <1>6 DEF OpenReport, EndReport, LoadTable, TableFails, Nsys, nsysSame
<1>7. CASE Model(p)
  BY <1>7 DEF Model, Extract, GraphExists, SaveGraph, ModelEnds
<1>8. CASE Spans(p)
  BY <1>8 DEF Spans, HasMeta, FillSpans, WriteMeta, SpansFail, AttachThreads, SpansEnd
<1>9. CASE View(p)
  BY <1>9 DEF View, FromFile, NotFromFile, ReadRows, KeepPage
<1> QED
  BY <1>1, <1>2, <1>3, <1>4, <1>5, <1>6, <1>7, <1>8, <1>9 DEF Step, Ingest

LEMMA ActiveSteps ==
    ASSUME NEW p \in Procs, Step(p)
    PROVE  Active(p) \/ (MayOverlap \/ Quiet(p))
BY DEF Step, Active, Begin, Die, Ingest, Exists, IngestFails, CleanSpans, DeleteSession, RegisterSession, LoadSmall,
   SmallFails, StartThreads, LoadTrace, OpenReport, LoadTable, TableFails, EndReport, Join, NsysAt, Model, Extract, GraphExists,
   SaveGraph, Spans, HasMeta, FillSpans, WriteMeta, SpansFail, AttachThreads, View, FromFile, NotFromFile, ReadRows,
   KeepPage

(* While programs run one after the other, those that do not take the step *)
(* rest before and after it.                                               *)
LEMMA OthersRest ==
    ASSUME StoreInv, MayOverlap = FALSE, NEW p \in Procs, Step(p)
    PROVE  /\ OneAtATime'
           /\ \A q \in Procs \ {p} : pc[q] \in {"idle", "over", "dead"} /\ IngestProgress(q)' /\ SpansProgress(q)'
<1>1. ASSUME NEW q \in Procs \ {p} PROVE pc[q] \in {"idle", "over", "dead"} /\ Untouched(q)
  BY <1>1, StepOfOne, ActiveSteps DEF StoreInv, OneAtATime, Active, Quiet
<1>2. ASSUME NEW q \in Procs \ {p} PROVE IngestProgress(q)' /\ SpansProgress(q)'
  BY <1>1 DEF Untouched, StoreInv, IngestProgress, SpansProgress, Begins, BeforeFilling
<1>3. OneAtATime'
  BY <1>1 DEF Untouched, OneAtATime, Active
<1> QED
  BY <1>1, <1>2, <1>3

-----------------------------------------------------------------------------
(* What the program that takes the step keeps. *)
Good(p) ==
    /\ NothingWithoutSession /\ GraphIsOfSession /\ PartsOnce
    /\ IngestProgress(p) /\ SpansProgress(p)

LEMMA BeginKeeps ==
    ASSUME TypeOK, NEW p \in Procs, Good(p), (\E c \in Commands : Begin(p, c)) \/ Die(p)
    PROVE  Good(p)'
<1> USE DEF Good, TypeOK, storeVars, Go, NothingWithoutSession, GraphIsOfSession, PartsOnce, Absent,
        IngestProgress, SpansProgress, BeforeFilling
<1>1. ASSUME NEW c \in Commands, Begin(p, c) PROVE Good(p)'
  BY <1>1 DEF Begin, Begins, Commands
<1>2. CASE Die(p)
  BY <1>2 DEF Die
<1> QED
  BY <1>1, <1>2

(* the windows come after the ingest and the model *)
LEMMA ModelKeeps == ASSUME TypeOK, NEW p \in Procs, Good(p), Model(p) PROVE Good(p)'
<1> USE DEF Good, storeVars, readSame, Go, Read, NothingWithoutSession, PartsOnce, Absent,
        IngestProgress, SpansProgress, BeforeFilling
<1>1. got[p] \in Readings /\ p \in DOMAIN got /\ p \in DOMAIN pc
  BY DEF TypeOK
<1>2. CASE Extract(p)
  BY <1>1, <1>2 DEF Extract, ModelEnds, GraphIsOfSession, Readings
<1>3. CASE GraphExists(p)
  BY <1>1, <1>3 DEF GraphExists, GraphIsOfSession, Readings
<1>4. CASE SaveGraph(p)
  BY <1>1, <1>4 DEF SaveGraph, ModelEnds, GraphIsOfSession, NoGraph, Nobody
<1> QED
  BY <1>2, <1>3, <1>4 DEF Model

LEMMA SpansKeeps == ASSUME TypeOK, NEW p \in Procs, Good(p), Spans(p) PROVE Good(p)'
<1> USE DEF Good, storeVars, readSame, Go, Read, SpansEnd, NothingWithoutSession, PartsOnce, Absent,
        IngestProgress, SpansProgress, BeforeFilling
<1>1. got[p] \in Readings /\ p \in DOMAIN got /\ p \in DOMAIN pc
  BY DEF TypeOK
<1>2. CASE HasMeta(p)
  BY <1>1, <1>2 DEF HasMeta, GraphIsOfSession
<1>3. CASE FillSpans(p)
  BY <1>1, <1>3 DEF FillSpans, GraphIsOfSession, Readings, Current
<1>4. CASE WriteMeta(p)
  BY <1>1, <1>4 DEF WriteMeta, GraphIsOfSession, Current
<1>5. CASE SpansFail(p)
  BY <1>1, <1>5 DEF SpansFail, GraphIsOfSession
<1>6. CASE AttachThreads(p)
  <2>1. graph' # NoGraph => graph # NoGraph
    BY <1>6 DEF AttachThreads, TypeOK, NoGraph
  <2>2. graph'.of = graph.of
    BY <1>6 DEF AttachThreads, TypeOK
  <2> QED
    BY <1>1, <1>6, <2>1, <2>2 DEF AttachThreads, GraphIsOfSession
<1> QED
  BY <1>2, <1>3, <1>4, <1>5, <1>6 DEF Spans

LEMMA ViewKeeps == ASSUME TypeOK, NEW p \in Procs, Good(p), View(p) PROVE Good(p)'
BY DEF View, FromFile, NotFromFile, ReadRows, KeepPage, Good, storeVars, readSame, Go, Read, NothingWithoutSession,
   GraphIsOfSession, PartsOnce, Absent, IngestProgress, SpansProgress, BeforeFilling, TypeOK

(* the end of an ingest, wherever it is *)
LEMMA EndKeeps ==
    ASSUME TypeOK, NEW p \in Procs, Good(p), pc[p] \in {"exists", "delete", "register", "small", "big"},
           NEW words, IngestEnds(p, words), UNCHANGED <<storeVars, swept, cmd, deaths>>
    PROVE  Good(p)'
BY DEF IngestEnds, Go, Good, storeVars, NothingWithoutSession, GraphIsOfSession, PartsOnce, Absent,
   IngestProgress, SpansProgress, BeforeFilling, SmallProgress, BigProgress, TypeOK

LEMMA ClearingKeeps ==
    ASSUME TypeOK, NEW p \in Procs, Good(p),
           Exists(p) \/ CleanSpans(p) \/ DeleteSession(p) \/ RegisterSession(p)
    PROVE  Good(p)'
<1> USE DEF Good, Go, NothingWithoutSession, GraphIsOfSession, PartsOnce, Absent, IngestProgress, SpansProgress,
        BeforeFilling, Begins, ingestVars
<1>1. p \in DOMAIN pc
  BY DEF TypeOK
<1>2. CASE Exists(p)
  <2>1. CASE session # Nobody /\ cmd[p] # "pipeline"
    BY <1>2, <2>1, EndKeeps DEF Exists
  <2>2. CASE session = Nobody
    <3>1. /\ pc[p] = "exists" /\ pc'[p] = "register" /\ UNCHANGED <<storeVars, ingestVars>>
          /\ swept'[p] => spans = {} /\ meta = NoSpans
      BY <1>1, <1>2, <2>2 DEF Exists, TypeOK
    <3> QED
      BY <2>2, <3>1 DEF storeVars
  <2>3. CASE session # Nobody /\ cmd[p] = "pipeline"
    BY <1>1, <1>2, <2>3 DEF Exists, storeVars
  <2> QED
    BY <2>1, <2>2, <2>3
<1>3. CASE CleanSpans(p)
  <2>1. /\ pc[p] = "clean" /\ pc'[p] = "delete" /\ UNCHANGED <<session, rows, graph, ingestVars>>
        /\ swept'[p] => spans' = {} /\ meta' = NoSpans
    BY <1>1, <1>3 DEF CleanSpans, TypeOK
  <2> QED
    BY <2>1
<1>4. CASE DeleteSession(p)
  <2>1. \A x \in Parts : rows'[x] = 0
    BY <1>4 DEF DeleteSession
  <2> QED
    BY <1>1, <1>4, <2>1 DEF DeleteSession
<1>5. CASE RegisterSession(p)
  <2>1. session' # Nobody /\ pc'[p] = "small" /\ UNCHANGED <<rows, graph, spans, meta, swept, ingestVars>>
    BY <1>1, <1>5, ConstantTypes DEF RegisterSession
  <2>2. session = Nobody /\ Begins(p) /\ \A x \in Parts : Absent(x)
    BY <1>5 DEF RegisterSession
  <2>3. SmallProgress(p)'
    <3>1. \A i \in DOMAIN Small : ~(i < at'[p]) /\ Absent(SmallPart(i))
      BY <2>1, <2>2, SmallFiles
    <3>2. Absent(Trace) /\ ReportsAbsent
      BY <2>2, PartsApart DEF ReportsAbsent
    <3> QED
      BY <2>1, <2>2, <3>1, <3>2 DEF SmallProgress, ReportsAbsent
  <2>4. IngestProgress(p)'
    BY <2>1, <2>3
  <2>5. NothingWithoutSession' /\ GraphIsOfSession' /\ PartsOnce'
    BY <2>1, <2>2
  <2>6. SpansProgress(p)'
    <3>1. pc[p] = "register" /\ (cmd[p] = "pipeline" /\ swept[p] => spans = {} /\ meta = NoSpans)
      BY <1>5 DEF RegisterSession, SpansProgress
    <3> QED
      BY <2>1, <3>1 DEF SpansProgress
  <2> QED
    BY <2>4, <2>5, <2>6
<1> QED
  BY <1>2, <1>3, <1>4, <1>5

(* What is said of the reports that are behind stays so while their rows   *)
(* do.                                                                     *)
LEMMA BehindStays ==
    ASSUME NEW p \in Procs, NEW f \in Reports, nsys[p].passed \subseteq nsys'[p].passed,
           \A x \in Tables(f) : rows'[x] = rows[x],
           \A g \in Reports : rows'[Metadata(g)] = rows[Metadata(g)]
    PROVE  /\ ReportLoaded(p, f) => ReportLoaded(p, f)'
           /\ MetadataKept(p, f) => MetadataKept(p, f)'
<1>1. ReportLoaded(p, f) => ReportLoaded(p, f)'
  BY DEF ReportLoaded, Held, Loaded
<1>2. ASSUME Counted(rows, Metadata(f)) PROVE Counted(rows', Metadata(f))
  <2>1. CASE rows[Metadata(f)] = 1
    BY <2>1 DEF Counted
  <2>2. CASE \E e, g \in Reports : e < g /\ Metadata(f) = Metadata(e) /\ rows[Metadata(g)] = 1
    BY <2>2 DEF Counted
  <2> QED
    BY <1>2, <2>1, <2>2 DEF Counted
<1>3. Metadata(f)' = Metadata(f)
  BY DEF Metadata
<1> QED
  BY <1>1, <1>2, <1>3 DEF MetadataKept

(* A part that has not been loaded is loaded once, and nothing else is. *)
LEMMA LoadOnce ==
    ASSUME TypeOK, NEW x \in Parts, NEW again, Load(x, again), Absent(x)
    PROVE  /\ Loaded(x)' /\ rows'[x] <= 1
           /\ \A y \in Parts : y # x => rows'[y] = rows[y]
BY DEF TypeOK, Load, Adds, Absent, Loaded

(* The rows of other parts stay: what was said of them still holds.        *)
LEMMA SmallKeeps ==
    ASSUME TypeOK, NEW p \in Procs, Good(p), LoadSmall(p)
    PROVE  Good(p)'
<1>0. PICK i \in 1..8 : i = at[p]
  BY SmallFiles DEF LoadSmall, TypeOK
<1> DEFINE x == SmallPart(i)
<1>1. i = at[p] /\ x \in Parts /\ SmallProgress(p)
  BY <1>0, SmallFiles DEF LoadSmall, Good, IngestProgress
<1>2. Load(x, Small[i].again) /\ Absent(x)
  BY <1>1, SmallFiles DEF LoadSmall, SmallPart, SmallProgress
<1>3. Loaded(x)' /\ rows'[x] <= 1 /\ \A y \in Parts : y # x => rows'[y] = rows[y]
  BY <1>1, <1>2, LoadOnce
<1>4. at'[p] = i + 1 /\ pc'[p] = "small" /\ UNCHANGED <<session, graph, spans, meta, cmd, pc, ros, nsys, got, swept>>
  BY <1>1 DEF LoadSmall, TypeOK
<1>5. session # Nobody
  BY <1>1 DEF SmallProgress
<1>6. SmallProgress(p)'
  <2>1. ASSUME NEW j \in DOMAIN Small
        PROVE  IF j < at'[p] THEN Loaded(SmallPart(j))' ELSE Absent(SmallPart(j))'
    <3>1. j \in 1..8 /\ SmallPart(j) \in Parts /\ (j # i => SmallPart(j) # x)
      BY <1>1, <2>1, SmallFiles
    <3>2. CASE j = i
      BY <1>1, <1>3, <1>4, <3>2
    <3>3. CASE j # i
      <4>1. rows'[SmallPart(j)] = rows[SmallPart(j)] /\ (j < at'[p] <=> j < i)
        BY <1>1, <1>3, <1>4, <3>1, <3>3
      <4> QED
        BY <1>1, <4>1, <2>1 DEF SmallProgress, Loaded, Absent
    <3> QED
      BY <3>2, <3>3
  <2>2. Absent(Trace)' /\ ReportsAbsent'
    <3>1. x # Trace /\ x \in SmallParts
      BY <1>1, SmallFiles
    <3>2. \A f \in Reports : Metadata(f) # x
      BY <1>1, SmallFiles, PartsApart
    <3> QED
      BY <1>1, <1>3, <3>1, <3>2, PartsApart DEF SmallProgress, ReportsAbsent, Absent
  <2> QED
    BY <1>1, <1>4, <1>5, <2>1, <2>2 DEF SmallProgress
<1>7. PartsOnce'
  BY <1>3 DEF Good, PartsOnce
<1> QED
  BY <1>4, <1>5, <1>6, <1>7 DEF Good, NothingWithoutSession, GraphIsOfSession, IngestProgress, SpansProgress,
     BeforeFilling, LoadSmall

LEMMA StartKeeps ==
    ASSUME TypeOK, NEW p \in Procs, Good(p), StartThreads(p)
    PROVE  Good(p)'
<1>1. pc'[p] = "big" /\ UNCHANGED <<storeVars, ingestVars>>
  BY DEF StartThreads, Go, TypeOK
<1>2. SmallProgress(p) /\ at[p] > 8 /\ at[p] \in Nat
  BY SmallFiles DEF StartThreads, Good, IngestProgress, TypeOK
<1>3. \A x \in SmallParts : Loaded(x)
  BY <1>2, SmallFiles, PartsApart DEF SmallProgress
<1>4. BigProgress(p)
  BY <1>2, <1>3, PartsApart, StoreAssumption DEF SmallProgress, BigProgress, NsysProgress, NoReport, ReportsAbsent, Reports
<1>5. BigProgress(p)'
  BY <1>1, <1>4 DEF storeVars, ingestVars, BigProgress, NsysProgress, ReportLoaded, MetadataKept, Counted, Held, Loaded, Absent
<1> QED
  BY <1>1, <1>2, <1>5 DEF Good, storeVars, ingestVars, NothingWithoutSession, GraphIsOfSession, PartsOnce, Absent,
     IngestProgress, SpansProgress, BeforeFilling, StartThreads

LEMMA TraceKeeps ==
    ASSUME TypeOK, NEW p \in Procs, Good(p), LoadTrace(p)
    PROVE  Good(p)'
<1>1. BigProgress(p) /\ Absent(Trace) /\ Trace \in Parts
  BY PartsApart DEF LoadTrace, Good, IngestProgress, BigProgress
<1>2. pc[p] = "big" /\ UNCHANGED <<session, graph, spans, meta, cmd, pc, nsys, got, swept>>
  BY DEF LoadTrace
<1>3. /\ ros'[p] \in {"loaded", "failed"} /\ rows'[Trace] <= 1
      /\ ros'[p] = "loaded" => Loaded(Trace)'
      /\ \A y \in Parts : y # Trace => rows'[y] = rows[y]
  BY <1>1, LoadOnce DEF LoadTrace, TypeOK, Absent
<1>4. BigProgress(p)'
  <2>1. \A y \in SmallParts : Loaded(y)'
    BY <1>1, <1>3, PartsApart DEF BigProgress, Loaded
  <2>2. \A f \in Reports : Metadata(f) # Trace /\ Metadata(f) \in Parts
    BY PartsApart
  <2>3. \A f \in Reports : \A y \in Tables(f) : rows'[y] = rows[y]
    BY <1>3, PartsApart
  <2>4. NsysProgress(p)'
    <3>1. \A f \in Reports, t \in GpuTables : <<t, f>> \in Tables(f)
      BY DEF Tables
    <3>2. nsys[p] \in ReportStates
      BY DEF TypeOK
    <3>3. nsys[p].phase # "failed" /\ nsys[p].report > 1 => nsys[p].report - 1 \in Reports
      BY <1>1, <3>2, StoreAssumption DEF BigProgress, NsysProgress, ReportStates, Reports
    <3>4. ASSUME NEW f \in Reports
          PROVE  /\ ReportLoaded(p, f) => ReportLoaded(p, f)'
                 /\ MetadataKept(p, f) => MetadataKept(p, f)'
      BY <1>2, <1>3, <2>2, <2>3, BehindStays
    <3> QED
      BY <1>1, <1>2, <1>3, <2>3, <3>1, <3>4 DEF BigProgress, NsysProgress, Held, Loaded, Absent
  <2> QED
    BY <1>1, <1>2, <1>3, <2>1, <2>4 DEF BigProgress
<1>5. PartsOnce'
  BY <1>3 DEF Good, PartsOnce
<1>6. session # Nobody
  BY <1>1 DEF BigProgress
<1> QED
  BY <1>2, <1>4, <1>5, <1>6 DEF Good, NothingWithoutSession, GraphIsOfSession, IngestProgress, SpansProgress, BeforeFilling

(* The reports are loaded one after the other, each table once. *)
LEMMA NsysStep ==
    ASSUME TypeOK, NEW p \in Procs, Good(p), pc[p] = "big", UNCHANGED nsysSame,
           NsysProgress(p)', PartsOnce',
           \A x \in SmallParts \cup {Trace} : rows'[x] = rows[x]
    PROVE  Good(p)'
<1>1. BigProgress(p) /\ UNCHANGED <<session, graph, spans, meta, cmd, pc, ros, got, swept>>
  BY DEF nsysSame, Good, IngestProgress
<1>2. BigProgress(p)'
  BY <1>1 DEF BigProgress, Loaded, Absent
<1> QED
  BY <1>1, <1>2 DEF Good, BigProgress, NothingWithoutSession, GraphIsOfSession, IngestProgress, SpansProgress,
     BeforeFilling

LEMMA OpenKeeps ==
    ASSUME TypeOK, NEW p \in Procs, Good(p), OpenReport(p)
    PROVE  Good(p)'
<1>1. /\ pc[p] = "big" /\ UNCHANGED rows /\ UNCHANGED nsysSame
      /\ nsys[p].phase = "open" /\ nsys[p].report \in Reports
      /\ \/ nsys'[p] = [nsys[p] EXCEPT !.phase = "tables", !.left = GpuTables]
         \/ nsys'[p] = [nsys[p] EXCEPT !.phase = "failed"]
  BY DEF OpenReport, NsysAt, Nsys, TypeOK
<1>2. NsysProgress(p) /\ nsys[p] \in ReportStates
  BY <1>1 DEF Good, IngestProgress, BigProgress, TypeOK
<1>3. \A f \in Reports, t \in GpuTables : <<t, f>> \in Tables(f)
  BY DEF Tables
<1>4. NsysProgress(p)'
  <2>1. CASE nsys'[p] = [nsys[p] EXCEPT !.phase = "tables", !.left = GpuTables]
    <3>1. /\ nsys'[p].phase = "tables" /\ nsys'[p].left = GpuTables
          /\ nsys'[p].report = nsys[p].report /\ nsys'[p].passed = nsys[p].passed
      BY <1>2, <2>1 DEF ReportStates
    <3>2. ASSUME NEW f \in Reports
          PROVE  /\ ReportLoaded(p, f) => ReportLoaded(p, f)'
                 /\ MetadataKept(p, f) => MetadataKept(p, f)'
      BY <1>1, <3>1, BehindStays
    <3> QED
      BY <1>1, <1>2, <1>3, <3>1, <3>2 DEF NsysProgress, Absent
  <2>2. CASE nsys'[p] = [nsys[p] EXCEPT !.phase = "failed"]
    <3>1. nsys'[p].phase = "failed" /\ nsys'[p].report = nsys[p].report
      BY <1>2, <2>2 DEF ReportStates
    <3> QED
      BY <1>2, <3>1 DEF NsysProgress
  <2> QED
    BY <1>1, <2>1, <2>2
<1> QED
  BY <1>1, <1>4, NsysStep DEF Good, PartsOnce

LEMMA TableKeeps ==
    ASSUME TypeOK, NEW p \in Procs, NEW t \in GpuTables, Good(p), LoadTable(p, t) \/ TableFails(p, t)
    PROVE  Good(p)'
<1>1. PICK f : f = nsys[p].report
  OBVIOUS
<1> DEFINE x == <<t, f>>
<1>2. /\ pc[p] = "big" /\ UNCHANGED nsysSame
      /\ nsys[p].phase = "tables" /\ t \in nsys[p].left
      /\ \/ Load(x, "twice") /\ nsys'[p] = [nsys[p] EXCEPT !.left = @ \ {t}]
         \/ UNCHANGED rows /\ nsys'[p] = [nsys[p] EXCEPT !.left = @ \ {t}, !.passed = @ \cup {x}]
         \/ UNCHANGED rows /\ nsys'[p] = [nsys[p] EXCEPT !.left = @ \ {t}, !.failed = TRUE]
  BY <1>1 DEF LoadTable, TableFails, NsysAt, Nsys, TypeOK
<1>3. NsysProgress(p) /\ nsys[p] \in ReportStates
  BY <1>2 DEF Good, IngestProgress, BigProgress, TypeOK
<1>4. f \in Reports /\ x \in Tables(f) /\ x \in Parts /\ Absent(x)
  BY <1>1, <1>2, <1>3, PartsApart DEF NsysProgress, Tables
<1>5. /\ nsys'[p].phase = "tables" /\ nsys'[p].report = f /\ nsys'[p].left = nsys[p].left \ {t}
      /\ nsys[p].failed => nsys'[p].failed
      /\ nsys[p].passed \subseteq nsys'[p].passed
  <2> HIDE DEF x
  <2>1. DOMAIN nsys[p] = {"report", "phase", "left", "passed", "failed"}
    BY <1>3 DEF ReportStates
  <2> QED
    BY <1>1, <1>2, <2>1
<1>6. /\ rows'[x] <= 1 /\ \A y \in Parts : y # x => rows'[y] = rows[y]
      /\ nsys'[p].failed \/ Held(p, x)'
  <2>1. CASE Load(x, "twice")
    BY <1>4, <2>1, LoadOnce DEF Held
  <2>2. CASE UNCHANGED rows /\ nsys'[p] = [nsys[p] EXCEPT !.left = @ \ {t}, !.failed = TRUE]
    BY <1>3, <1>4, <2>2 DEF ReportStates, Absent
  <2>3. CASE UNCHANGED rows /\ nsys'[p] = [nsys[p] EXCEPT !.left = @ \ {t}, !.passed = @ \cup {x}]
    BY <1>3, <1>4, <2>3 DEF ReportStates, Absent, Held
  <2> QED
    BY <1>2, <2>1, <2>2, <2>3
<1>7. \A g \in Reports, u \in GpuTables : <<u, g>> \in Parts /\ (g # f \/ u # t => <<u, g>> # x)
  BY <1>4, PartsApart DEF Tables
<1>8. NsysProgress(p)'
  <2>1. \A g \in Reports : g # f => \A y \in Tables(g) : rows'[y] = rows[y]
    BY <1>6, <1>7 DEF Tables
  <2>2. \A g \in Reports : rows'[Metadata(g)] = rows[Metadata(g)]
    BY <1>4, <1>6, PartsApart
  <2>3. ASSUME NEW u \in GpuTables
        PROVE  IF u \in nsys'[p].left THEN Absent(<<u, f>>)' ELSE nsys'[p].failed \/ Held(p, <<u, f>>)'
    <3>1. CASE u = t
      BY <1>5, <1>6, <3>1
    <3>2. CASE u # t
      <4>1. rows'[<<u, f>>] = rows[<<u, f>>] /\ (u \in nsys'[p].left <=> u \in nsys[p].left)
        BY <1>4, <1>5, <1>6, <1>7, <3>2
      <4> QED
        BY <1>1, <1>2, <1>3, <1>5, <4>1 DEF NsysProgress, Absent, Loaded, Held
    <3> QED
      BY <3>1, <3>2
  <2>4. ASSUME NEW g \in Reports, g < f
        PROVE  ReportLoaded(p, g)' /\ MetadataKept(p, g)'
    <3>1. ReportLoaded(p, g) /\ MetadataKept(p, g) /\ g # f
      BY <1>1, <1>2, <1>3, <1>4, <2>4 DEF NsysProgress, Reports
    <3> QED
      BY <1>5, <2>1, <2>2, <3>1, BehindStays
  <2>5. /\ nsys'[p].report \in 1..(NReports + 1) /\ nsys'[p].report \in Reports
        /\ \A g \in Reports : g > f => \A y \in Tables(g) : Absent(y)'
    BY <1>1, <1>2, <1>3, <1>4, <1>5, <2>1 DEF NsysProgress, Absent, Reports
  <2> QED
    BY <1>5, <2>3, <2>4, <2>5 DEF NsysProgress
<1>9. PartsOnce' /\ \A y \in SmallParts \cup {Trace} : rows'[y] = rows[y]
  BY <1>4, <1>6, PartsApart DEF Good, PartsOnce
<1> QED
  BY <1>2, <1>8, <1>9, NsysStep

LEMMA ReportKeeps ==
    ASSUME TypeOK, NEW p \in Procs, Good(p), EndReport(p)
    PROVE  Good(p)'
<1>1. PICK f : f = nsys[p].report
  OBVIOUS
<1> DEFINE Replaced(x) == IF x[1] # "gpu_info" THEN rows[x] ELSE IF x = Metadata(f) THEN 1 ELSE 0
           Replaces == rows' = [x \in Parts |-> Replaced(x)]
<1>2. /\ pc[p] = "big" /\ UNCHANGED nsysSame
      /\ nsys[p].phase = "tables" /\ nsys[p].left = {}
      /\ Replaces \/ UNCHANGED rows
      /\ \/ nsys'[p] = [nsys[p] EXCEPT !.phase = "failed"]
         \/ /\ ~nsys[p].failed /\ Replaces
            /\ nsys'[p] = [nsys[p] EXCEPT !.report = @ + 1, !.phase = "open"]
         \/ /\ ~nsys[p].failed /\ UNCHANGED rows
            /\ nsys'[p] = [nsys[p] EXCEPT !.report = @ + 1, !.phase = "open", !.passed = @ \cup {Metadata(f)}]
  BY <1>1 DEF EndReport, NsysAt, Nsys, TypeOK
<1>3. NsysProgress(p) /\ nsys[p] \in ReportStates /\ f \in Reports
  BY <1>1, <1>2 DEF Good, IngestProgress, BigProgress, NsysProgress, TypeOK
<1>4. \A x \in Parts : x[1] # "gpu_info" => rows'[x] = rows[x]
  BY <1>2
<1>5. NsysProgress(p)'
  <2>1. CASE nsys'[p] = [nsys[p] EXCEPT !.phase = "failed"]
    <3>1. nsys'[p].phase = "failed" /\ nsys'[p].report = nsys[p].report
      BY <1>3, <2>1 DEF ReportStates
    <3> QED
      BY <1>3, <3>1 DEF NsysProgress
  <2>2. ASSUME ~nsys[p].failed,
               nsys'[p].phase = "open", nsys'[p].report = f + 1, ~nsys'[p].failed,
               nsys[p].passed \subseteq nsys'[p].passed,
               Replaces \/ (UNCHANGED rows /\ Metadata(f) \in nsys'[p].passed)
        PROVE  NsysProgress(p)'
    <3>2. f \in 1..NReports /\ f + 1 \in 1..(NReports + 1) /\ NReports \in Nat
      BY <1>3, StoreAssumption DEF Reports
    <3>3. \A g \in Reports : \A x \in Tables(g) : rows'[x] = rows[x]
      BY <1>4, PartsApart
    <3>4. ReportLoaded(p, f)
      BY <1>1, <1>2, <1>3, <2>2 DEF NsysProgress, ReportLoaded, Tables
    <3>5. \A g \in Reports : g < f => ReportLoaded(p, g) /\ MetadataKept(p, g)
      BY <1>1, <1>2, <1>3 DEF NsysProgress
    <3>6. \A g \in Reports : g < f + 1 => g < f \/ g = f
      BY <3>2 DEF Reports
    <3>7. \A g \in Reports : g < f + 1 => ReportLoaded(p, g)'
      BY <2>2, <3>3, <3>4, <3>5, <3>6 DEF ReportLoaded, Held, Loaded
    <3>8. ASSUME NEW g \in Reports, g < f + 1 PROVE MetadataKept(p, g)'
      <4>1. CASE Replaces
        <5>1. rows'[Metadata(f)] = 1
          BY <1>3, <4>1, PartsApart
        <5>2. g = f \/ g < f
          BY <3>6, <3>8
        <5>3. Counted(rows', Metadata(g))
          BY <1>3, <5>1, <5>2 DEF Counted
        <5>4. Metadata(g)' = Metadata(g)
          BY DEF Metadata
        <5> HIDE DEF Replaces
        <5> QED
          BY <5>3, <5>4 DEF MetadataKept
      <4>2. CASE UNCHANGED rows /\ Metadata(f) \in nsys'[p].passed
        <5>1. CASE g = f
          BY <4>2, <5>1 DEF MetadataKept, Metadata
        <5>2. CASE g < f
          <6>1. MetadataKept(p, g)
            BY <3>5, <5>2
          <6> QED
            BY <2>2, <4>2, <6>1, BehindStays
        <5> QED
          BY <3>6, <3>8, <5>1, <5>2
      <4> QED
        BY <2>2, <4>1, <4>2
    <3>9. \A g \in Reports : g > f => \A x \in Tables(g) : Absent(x)'
      BY <1>1, <1>2, <1>3, <3>3 DEF NsysProgress, Absent
    <3> HIDE DEF Replaces
    <3> QED
      BY <2>2, <3>2, <3>7, <3>8, <3>9 DEF NsysProgress, Reports
  <2>3. CASE /\ ~nsys[p].failed /\ Replaces
             /\ nsys'[p] = [nsys[p] EXCEPT !.report = @ + 1, !.phase = "open"]
    <3>1. /\ nsys'[p].phase = "open" /\ nsys'[p].report = f + 1 /\ ~nsys'[p].failed
          /\ nsys'[p].passed = nsys[p].passed
      BY <1>1, <1>3, <2>3 DEF ReportStates
    <3> HIDE DEF Replaces
    <3> QED
      BY <2>2, <2>3, <3>1
  <2>4. CASE /\ ~nsys[p].failed /\ UNCHANGED rows
             /\ nsys'[p] = [nsys[p] EXCEPT !.report = @ + 1, !.phase = "open", !.passed = @ \cup {Metadata(f)}]
    <3> DEFINE m == Metadata(f)
    <3> HIDE DEF m
    <3>1. /\ nsys'[p].phase = "open" /\ nsys'[p].report = f + 1 /\ ~nsys'[p].failed
          /\ nsys'[p].passed = nsys[p].passed \cup {m}
      BY <1>1, <1>3, <2>4 DEF ReportStates, m
    <3> HIDE DEF Replaces
    <3> QED
      BY <2>2, <2>4, <3>1 DEF m
  <2> HIDE DEF Replaces
  <2> QED
    BY <1>2, <2>1, <2>3, <2>4
<1>6. PartsOnce' /\ \A x \in SmallParts \cup {Trace} : rows'[x] = rows[x]
  <2>1. \A x \in Parts : rows'[x] \in {rows[x], 0, 1}
    BY <1>2
  <2> QED
    BY <1>4, <2>1, PartsApart DEF Good, PartsOnce
<1> QED
  BY <1>2, <1>5, <1>6, NsysStep

LEMMA IngestKeeps == ASSUME TypeOK, NEW p \in Procs, Good(p), Ingest(p) PROVE Good(p)'
<1>1. CASE Exists(p) \/ CleanSpans(p) \/ DeleteSession(p) \/ RegisterSession(p)
  BY <1>1, ClearingKeeps
<1>2. CASE IngestFails(p) \/ SmallFails(p) \/ Join(p)
  BY <1>2, EndKeeps DEF IngestFails, SmallFails, Join
<1> QED
  BY <1>1, <1>2, SmallKeeps, StartKeeps, TraceKeeps, OpenKeeps, TableKeeps, ReportKeeps DEF Ingest

(* StoreInv is inductive as long as no program is started while another    *)
(* one runs.                                                               *)
LEMMA StoreInvariance == ASSUME MayOverlap = FALSE PROVE Spec => []StoreInv
<1>1. Init => StoreInv
  <2> SUFFICES ASSUME Init PROVE StoreInv
    OBVIOUS
  <2>1. TypeOK
    BY InitialTypes
  <2>2. ASSUME NEW p \in Procs PROVE pc[p] = "idle" /\ cmd[p] = "none" /\ Begins(p)
    BY <2>2 DEF Init, Begins
  <2>3. ASSUME NEW p \in Procs PROVE IngestProgress(p) /\ SpansProgress(p)
    <3>1. swept[p] = FALSE
      BY <2>3 DEF Init
    <3> QED
      BY <2>2, <2>3, <3>1 DEF IngestProgress, SpansProgress
  <2> QED
    BY <2>1, <2>2, <2>3 DEF Init, StoreInv, OneAtATime, Active, NothingWithoutSession, GraphIsOfSession, PartsOnce, Absent
<1>2. StoreInv /\ [Next]_vars => StoreInv'
  <2> SUFFICES ASSUME StoreInv, [Next]_vars PROVE StoreInv'
    OBVIOUS
  <2>1. TypeOK'
    BY TypePreserved DEF StoreInv
  <2>2. CASE UNCHANGED vars
    BY <2>1, <2>2 DEF vars, storeVars, StoreInv, OneAtATime, Active, NothingWithoutSession, GraphIsOfSession, PartsOnce,
       IngestProgress, SpansProgress, Absent, Loaded, Begins, SmallProgress, BigProgress, NsysProgress, ReportsAbsent,
       ReportLoaded, MetadataKept, Counted, Held, Current
  <2>3. ASSUME NEW p \in Procs, Step(p) PROVE StoreInv'
    <3>1. Good(p)'
      BY <2>3, BeginKeeps, IngestKeeps, ModelKeeps, SpansKeeps, ViewKeeps DEF Step, StoreInv, Good
    <3> QED
      BY <2>1, <2>3, <3>1, OthersRest DEF StoreInv, Good
  <2> QED
    BY <2>2, <2>3 DEF Next, Step
<1> QED
  BY <1>1, <1>2, PTL DEF Spec

-----------------------------------------------------------------------------
(* No part of the session directory is in the database twice.              *)
THEOREM LoadedOnce == ASSUME MayOverlap = FALSE PROVE Spec => []PartsOnce
<1>1. StoreInv => PartsOnce
  BY DEF StoreInv
<1> QED
  BY <1>1, StoreInvariance, PTL

(* An ingest that logs DONE without errors has loaded every part that      *)
(* sqlite let it read.                                                     *)
THEOREM DoneMeansWhole == ASSUME MayOverlap = FALSE PROVE Spec => DoneIsWhole
<1> DEFINE Whole == \A p \in Procs : said[p] # "done" /\ said'[p] = "done" =>
              \A x \in Parts \ (Missing \cup nsys[p].passed) : Counted(rows', x)
<1>1. StoreInv /\ [Next]_vars => Whole
  <2> SUFFICES ASSUME StoreInv, [Next]_vars, NEW p \in Procs, said[p] # "done", said'[p] = "done",
                      NEW x \in Parts, x \notin Missing, x \notin nsys[p].passed
               PROVE  Counted(rows', x)
    OBVIOUS
  <2>1. Join(p) /\ ros[p] # "failed" /\ nsys[p].phase # "failed"
    <3>1. PICK q \in Procs : Step(q)
      BY DEF Next, Step, vars
    <3>2. Exists(q) \/ IngestFails(q) \/ SmallFails(q) \/ Join(q)
      BY <3>1 DEF Step, Begin, Die, Ingest, CleanSpans, DeleteSession, RegisterSession, LoadSmall, StartThreads, LoadTrace,
         OpenReport, LoadTable, TableFails, EndReport, nsysSame, Model, Extract, GraphExists, SaveGraph, Spans, HasMeta,
         FillSpans, WriteMeta, SpansFail, AttachThreads, View, FromFile, NotFromFile, ReadRows, KeepPage, readSame
    <3> QED
      BY <3>2 DEF Exists, IngestFails, SmallFails, Join, IngestEnds, StoreInv, TypeOK
  <2>2. BigProgress(p) /\ nsys[p] \in ReportStates /\ UNCHANGED rows
    BY <2>1 DEF Join, StoreInv, IngestProgress, TypeOK, storeVars
  <2>3. ros[p] = "loaded" /\ nsys[p].phase = "open" /\ nsys[p].report = NReports + 1
    BY <2>1, <2>2, StoreAssumption DEF Join, NsysOver, StoreInv, TypeOK, BigProgress, NsysProgress
  <2>4. \A f \in Reports : f < nsys[p].report
    BY <2>3, StoreAssumption DEF Reports
  <2>5. \A f \in Reports : ReportLoaded(p, f) /\ MetadataKept(p, f)
    BY <2>2, <2>3, <2>4 DEF BigProgress, NsysProgress
  <2>6. CASE x \in SmallParts \cup {Trace}
    <3>1. rows[x] = 1
      BY <2>2, <2>3, <2>6 DEF BigProgress, Loaded
    <3> QED
      BY <2>2, <3>1 DEF Counted
  <2>7. CASE x \in GpuTables \X Reports
    <3>1. rows[x] = 1
      BY <2>5, <2>7 DEF ReportLoaded, Held, Loaded, Tables
    <3> QED
      BY <2>2, <3>1 DEF Counted
  <2>8. CASE x \in {Metadata(f) : f \in Reports}
    BY <2>2, <2>5, <2>8 DEF MetadataKept
  <2> QED
    BY <2>6, <2>7, <2>8 DEF Parts
<1>2. StoreInv /\ [Next]_vars => [Whole]_vars
  BY <1>1
<1> QED
  BY <1>2, StoreInvariance, PTL DEF Spec, DoneIsWhole

(* When the pipeline has come to its end, its ingest has removed the       *)
(* windows or there were none, and the windows count as built, they are    *)
(* those of the rows and of the graph that are there, each once.           *)
THEOREM WindowsAreCurrent == ASSUME MayOverlap = FALSE PROVE Spec => SpansAreCurrent
<1> DEFINE Currently == \A p \in Procs :
              cmd[p] = "pipeline" /\ pc[p] # "over" /\ pc'[p] = "over" /\ swept[p] /\ meta' # NoSpans =>
                 CurrentWindows(spans', meta', session', graph')
<1>1. StoreInv /\ [Next]_vars => Currently
  <2> SUFFICES ASSUME StoreInv, [Next]_vars, NEW p \in Procs,
                      cmd[p] = "pipeline", pc[p] # "over", pc'[p] = "over", swept[p], meta' # NoSpans
               PROVE  CurrentWindows(spans', meta', session', graph')
    OBVIOUS
  <2>1. PICK q \in Procs : Step(q)
    BY DEF Next, Step, vars
  <2>2. q = p /\ TypeOK /\ SpansProgress(p) /\ GraphIsOfSession
    BY <2>1, StepOfOne DEF Untouched, StoreInv
  <2>3. AttachThreads(p)
    <3>1. CASE (\E c \in Commands : Begin(p, c)) \/ Die(p)
      BY <2>2, <3>1 DEF Begin, Die, Go, TypeOK, Commands
    <3>2. CASE Ingest(p)
      BY <2>2, <3>2 DEF Ingest, Exists, IngestFails, CleanSpans, DeleteSession, RegisterSession, LoadSmall, SmallFails, StartThreads,
         LoadTrace, OpenReport, LoadTable, TableFails, EndReport, Join, nsysSame, IngestEnds, Go, TypeOK
    <3>3. CASE Model(p)
      BY <2>2, <3>3 DEF Model, Extract, GraphExists, SaveGraph, ModelEnds, Go, TypeOK
    <3>4. CASE Spans(p)
      BY <2>2, <3>4 DEF Spans, HasMeta, FillSpans, WriteMeta, SpansFail, SpansEnd, Go, TypeOK
    <3>5. CASE View(p)
      BY <2>2, <3>5 DEF View, FromFile, NotFromFile, ReadRows, KeepPage, SpansProgress, Go, TypeOK
    <3> QED
      BY <2>1, <2>2, <3>1, <3>2, <3>3, <3>4, <3>5 DEF Step
  <2>4. pc[p] = "threads" /\ UNCHANGED <<session, spans, meta>>
    BY <2>3 DEF AttachThreads
  <2>5. spans = {meta} /\ Current(meta)
    BY <2>2, <2>4 DEF SpansProgress
  <2>6. graph'.by = graph.by /\ graph'.of = graph.of /\ (graph' # NoGraph => graph # NoGraph)
    BY <2>2, <2>3 DEF AttachThreads, TypeOK, NoGraph
  <2> QED
    BY <2>2, <2>4, <2>5, <2>6 DEF Current, CurrentWindows, GraphIsOfSession
<1>2. StoreInv /\ [Next]_vars => [Currently]_vars
  BY <1>1
<1> QED
  BY <1>2, StoreInvariance, PTL DEF Spec, SpansAreCurrent

-----------------------------------------------------------------------------
(***************************************************************************)
(* The kernel trace.  A session is followed twice: by the kernel, whose    *)
(* scheduler keeps Scheduling true of the recorded switches as long as the *)
(* ring buffers have room, and by the parser, whose state after n of the   *)
(* merged lines Walk and CallsRead tell from those lines alone.            *)
(***************************************************************************)

(* Numbers: a set has a least one, and is reached step by step.            *)
LEMMA LeastExists ==
    ASSUME NEW T, T \subseteq Nat, T # {}
    PROVE  \E x \in T : \A y \in T : x <= y
<1> DEFINE R == OpToRel(<, Nat)
<1>1. \A a, b \in Nat : a < b => <<a, b>> \in R
  <2> SUFFICES ASSUME NEW a \in Nat, NEW b \in Nat, a < b PROVE <<a, b>> \in R
    OBVIOUS
  <2> QED
    BY Zenon DEF OpToRel
<1>2. IsWellFoundedOn(R, Nat)
  BY NatLessThanWellFounded, Zenon
<1> HIDE DEF R
<1>3. \E x \in T : \A y \in T : ~(<<y, x>> \in R)
  BY <1>2, WFMin, Zenon
<1>4. PICK x \in T : \A y \in T : ~(<<y, x>> \in R)
  BY <1>3
<1>5. ASSUME NEW y \in T
      PROVE  x <= y
  <2>1. x \in Nat /\ y \in Nat
    OBVIOUS
  <2>2. ~(y < x)
    BY <1>1, <1>4, <2>1
  <2> QED
    BY <2>1, <2>2
<1> QED
  BY <1>5

LEMMA NatIsInductive ==
    ASSUME NEW S, 0 \in S, \A n \in Nat : n \in S => n + 1 \in S
    PROVE  Nat \subseteq S
<1> DEFINE T == Nat \ S
<1>1. SUFFICES ASSUME T # {} PROVE FALSE
  OBVIOUS
<1>2. PICK x \in T : \A y \in T : x <= y
  <2>1. T \subseteq Nat
    OBVIOUS
  <2> HIDE DEF T
  <2> QED
    BY <1>1, <2>1, LeastExists
<1>3. x \in Nat /\ x # 0 /\ x - 1 \in Nat /\ ~(x <= x - 1) /\ (x - 1) + 1 = x
  BY <1>2
<1>4. x - 1 \notin T
  BY <1>2, <1>3
<1> QED
  BY <1>2, <1>3, <1>4

-----------------------------------------------------------------------------
(* The kernel's side.                                                      *)
Tids == Threads \cup {Idle}
KernelEvents ==
    [kind : {"switch"}, cpu : Cpus, at : Nat, prev : Tids, next : Tids]
      \cup [kind : {"mark"}, cpu : Cpus, at : Nat]
      \cup [kind : {"entry"}, cpu : Cpus, at : Nat, wait : BOOLEAN]
      \cup [kind : {"exit"}, cpu : Cpus, at : Nat]
FutexCalls == [kind : {"none", "wait", "wake"}, at : Nat]

KernelTypes ==
    /\ now \in Nat /\ Start <= now /\ now <= Start + MaxNow
    /\ cur \in [Cpus -> Tids]
    /\ futex \in [Threads -> FutexCalls]
    /\ streams \in [Cpus -> Seq(KernelEvents)]
    /\ lost \in Nat
    /\ waits \subseteq Threads \X Nat \X Nat
    /\ IsFiniteSet(Recorded)

(* Each stream is in the order of time, and names its CPU.                 *)
StreamsInOrder ==
    \A c \in Cpus :
       /\ \A i \in DOMAIN streams[c] : /\ streams[c][i].cpu = c
                                       /\ Start <= streams[c][i].at /\ streams[c][i].at <= now
       /\ \A i, j \in DOMAIN streams[c] : i < j => streams[c][i].at < streams[c][j].at

LEMMA RecordedIs ==
    /\ \A c, i : <<c, i>> \in Recorded <=> c \in Cpus /\ i \in DOMAIN streams[c]
    /\ \A p \in Recorded : p = <<p[1], p[2]>> /\ p[1] \in Cpus /\ p[2] \in DOMAIN streams[p[1]]
  BY DEF Recorded

(* What recording an event changes.                                        *)
LEMMA RecordAdds ==
    ASSUME KernelTypes, StreamsInOrder, NEW c \in Cpus, NEW e \in KernelEvents, e.cpu = c, e.at = now,
           Record(c, e)
    PROVE  \E new :
              /\ new = <<c, Len(streams[c]) + 1>>
              /\ streams' \in [Cpus -> Seq(KernelEvents)]
              /\ Recorded' = Recorded \cup {new} /\ new \notin Recorded
              /\ Event(new)' = e /\ \A p \in Recorded : Event(p)' = Event(p)
              /\ IsFiniteSet(Recorded')
              /\ \A p \in Recorded : p[1] = c => p[2] < new[2] /\ Event(p).at < now
              /\ now' = now => StreamsInOrder'
<1> DEFINE n == Len(streams[c])
<1> PICK new : new = <<c, n + 1>>
  OBVIOUS
<1>1. streams' = [streams EXCEPT ![c] = Append(@, e)] /\ \A i \in 1 .. n : streams[c][i].at < now
  BY DEF Record
<1>2. streams[c] \in Seq(KernelEvents) /\ n \in Nat /\ DOMAIN streams[c] = 1 .. n
  BY DEF KernelTypes
<1>3. /\ streams' \in [Cpus -> Seq(KernelEvents)]
      /\ streams'[c] = Append(streams[c], e) /\ DOMAIN streams'[c] = 1 .. n + 1
      /\ streams'[c][n + 1] = e /\ \A i \in 1 .. n : streams'[c][i] = streams[c][i]
      /\ \A d \in Cpus \ {c} : streams'[d] = streams[d]
  BY <1>1, <1>2 DEF KernelTypes
<1>4. Recorded' = Recorded \cup {new} /\ new \notin Recorded
  <2>1. \A d, i : <<d, i>> \in Recorded' <=> d \in Cpus /\ i \in DOMAIN streams'[d]
    BY DEF Recorded
  <2>2. \A p \in Recorded' : p = <<p[1], p[2]>>
    BY DEF Recorded
  <2>3. \A d, i : <<d, i>> \in Recorded' <=> <<d, i>> \in Recorded \/ (d = c /\ i = n + 1)
    <3> SUFFICES ASSUME NEW d, NEW i
                 PROVE  <<d, i>> \in Recorded' <=> <<d, i>> \in Recorded \/ (d = c /\ i = n + 1)
      OBVIOUS
    <3>1. CASE d = c
      BY <3>1, <1>2, <1>3, <2>1, RecordedIs
    <3>2. CASE d \in Cpus \ {c}
      BY <3>2, <1>3, <2>1, RecordedIs
    <3>3. CASE d \notin Cpus
      BY <3>3, <2>1, RecordedIs
    <3> QED
      BY <3>1, <3>2, <3>3
  <2>4. new \notin Recorded
    BY <1>2, RecordedIs
  <2> QED
    BY <2>2, <2>3, <2>4, RecordedIs
<1>5. Event(new)' = e
  BY <1>3 DEF Event
<1>6. \A p \in Recorded : Event(p)' = Event(p)
  <2> SUFFICES ASSUME NEW p \in Recorded PROVE streams'[p[1]][p[2]] = streams[p[1]][p[2]]
    BY DEF Event
  <2>1. p[1] \in Cpus /\ p[2] \in DOMAIN streams[p[1]]
    BY RecordedIs
  <2>2. CASE p[1] = c
    BY <2>1, <2>2, <1>2, <1>3
  <2>3. CASE p[1] # c
    BY <2>1, <2>3, <1>3
  <2> QED
    BY <2>2, <2>3
<1>7. IsFiniteSet(Recorded')
  BY <1>4, FS_AddElement DEF KernelTypes
<1>8. \A p \in Recorded : p[1] = c => p[2] < new[2] /\ Event(p).at < now
  <2> SUFFICES ASSUME NEW p \in Recorded, p[1] = c
               PROVE  p[2] < n + 1 /\ streams[c][p[2]].at < now
    BY Zenon DEF Event
  <2>1. p[2] \in 1 .. n
    BY <1>2, RecordedIs
  <2> QED
    BY <2>1, <1>1, <1>2
<1>9. ASSUME now' = now PROVE StreamsInOrder'
  <2>1. \A i \in DOMAIN streams[c] : streams[c][i].at < now /\ streams[c][i].at \in Nat
    <3>1. \A i \in DOMAIN streams[c] : streams[c][i] \in KernelEvents
      BY <1>2
    <3> QED
      BY <1>1, <1>2, <3>1 DEF KernelEvents
  <2> SUFFICES ASSUME NEW d \in Cpus
               PROVE  /\ \A i \in DOMAIN streams'[d] : /\ streams'[d][i].cpu = d
                                                       /\ Start <= streams'[d][i].at /\ streams'[d][i].at <= now
                      /\ \A i, j \in DOMAIN streams'[d] : i < j => streams'[d][i].at < streams'[d][j].at
    BY <1>9 DEF StreamsInOrder
  <2>2. CASE d # c
    BY <2>2, <1>3 DEF StreamsInOrder
  <2>3. CASE d = c
    <3>1. \A i \in 1 .. n + 1 : streams'[c][i].cpu = c /\ Start <= streams'[c][i].at /\ streams'[c][i].at <= now
      BY <1>2, <1>3 DEF StreamsInOrder, KernelTypes
    <3>2. ASSUME NEW i \in 1 .. n + 1, NEW j \in 1 .. n + 1, i < j
          PROVE  streams'[c][i].at < streams'[c][j].at
      <4>1. i \in 1 .. n /\ (j \in 1 .. n \/ j = n + 1)
        BY <1>2, <3>2
      <4> QED
        BY <4>1, <1>2, <1>3, <2>1, <3>2 DEF StreamsInOrder
    <3> QED
      BY <2>3, <1>3, <3>1, <3>2
  <2> QED
    BY <2>2, <2>3
<1> QED
  BY <1>3, <1>4, <1>5, <1>6, <1>7, <1>8, <1>9

KernelBasics == KernelTypes /\ StreamsInOrder

LEMMA KernelBasicsInit == KernelInit => KernelBasics
<1> SUFFICES ASSUME KernelInit PROVE KernelBasics
  OBVIOUS
<1>1. now \in Nat /\ Start <= now /\ now <= Start + MaxNow
  BY KernelTraceAssumption DEF KernelInit
<1>2. futex \in [Threads -> FutexCalls]
  BY KernelTraceAssumption DEF KernelInit, FutexCalls, Outside
<1>3. cur \in [Cpus -> Tids] /\ streams = [c \in Cpus |-> <<>>] /\ lost = 0 /\ waits = {}
  BY DEF KernelInit, Tids
<1>4. Recorded = {} /\ StreamsInOrder
  BY <1>3 DEF Recorded, StreamsInOrder
<1> QED
  BY <1>1, <1>2, <1>3, <1>4, FS_EmptySet DEF KernelBasics, KernelTypes

(* A step records one event of its CPU, or none.                           *)
Recording(c, e) ==
    /\ e \in KernelEvents /\ e.cpu = c /\ e.at = now
    /\ Record(c, e)
    /\ now' = now

LEMMA SwitchIs ==
    ASSUME KernelBasics, NEW c \in Cpus, Switch(c)
    PROVE  \E next \in Tids \ {cur[c]} :
              /\ next = Idle \/ \A d \in Cpus : cur[d] # next
              /\ Settled(cur[c]) /\ Settled(next)
              /\ cur' = [cur EXCEPT ![c] = next]
              /\ UNCHANGED <<now, futex, waits>>
              /\ \/ /\ Recording(c, [kind |-> "switch", cpu |-> c, at |-> now, prev |-> cur[c], next |-> next])
                    /\ lost' = lost
                 \/ streams' = streams /\ lost' = lost + 1
<1>1. PICK next \in Tids \ {cur[c]} :
              /\ next = Idle \/ \A d \in Cpus : cur[d] # next
              /\ Settled(cur[c]) /\ Settled(next)
              /\ cur' = [cur EXCEPT ![c] = next]
              /\ UNCHANGED <<now, futex, waits>>
              /\ Emit(c, [kind |-> "switch", cpu |-> c, at |-> now, prev |-> cur[c], next |-> next])
  BY DEF Switch, Tids
<1> DEFINE e == [kind |-> "switch", cpu |-> c, at |-> now, prev |-> cur[c], next |-> next]
<1>2. cur[c] \in Tids /\ now \in Nat
  BY DEF KernelBasics, KernelTypes
<1>3. e \in KernelEvents /\ e.cpu = c /\ e.at = now
  BY <1>1, <1>2 DEF KernelEvents
<1> HIDE DEF e
<1>4. (Record(c, e) /\ lost' = lost) \/ (streams' = streams /\ lost' = lost + 1)
  BY <1>1 DEF Emit, Record, Discard, e
<1>5. (Recording(c, e) /\ lost' = lost) \/ (streams' = streams /\ lost' = lost + 1)
  BY <1>1, <1>3, <1>4 DEF Recording
<1> QED
  BY <1>1, <1>5 DEF e

LEMMA FutexEntryIs ==
    ASSUME KernelBasics, NEW c \in Cpus, FutexEntry(c)
    PROVE  \E kind \in {"wait", "wake"} :
              /\ cur[c] # Idle /\ futex[cur[c]] = Outside
              /\ futex' = [futex EXCEPT ![cur[c]] = [kind |-> kind, at |-> now]]
              /\ UNCHANGED <<now, cur, waits>>
              /\ \/ /\ Recording(c, [kind |-> "entry", cpu |-> c, at |-> now, wait |-> kind = "wait"])
                    /\ lost' = lost
                 \/ streams' = streams /\ lost' = lost + 1
<1>1. PICK kind \in {"wait", "wake"} :
              /\ cur[c] # Idle /\ futex[cur[c]] = Outside
              /\ futex' = [futex EXCEPT ![cur[c]] = [kind |-> kind, at |-> now]]
              /\ UNCHANGED <<now, cur, waits>>
              /\ Emit(c, [kind |-> "entry", cpu |-> c, at |-> now, wait |-> kind = "wait"])
  BY DEF FutexEntry
<1> DEFINE e == [kind |-> "entry", cpu |-> c, at |-> now, wait |-> kind = "wait"]
<1>2. now \in Nat
  BY DEF KernelBasics, KernelTypes
<1>3. e \in KernelEvents /\ e.cpu = c /\ e.at = now
  BY <1>1, <1>2 DEF KernelEvents
<1> HIDE DEF e
<1>4. (Record(c, e) /\ lost' = lost) \/ (streams' = streams /\ lost' = lost + 1)
  BY <1>1 DEF Emit, Record, Discard, e
<1>5. (Recording(c, e) /\ lost' = lost) \/ (streams' = streams /\ lost' = lost + 1)
  BY <1>1, <1>3, <1>4 DEF Recording
<1> QED
  BY <1>1, <1>5 DEF e

LEMMA FutexExitIs ==
    ASSUME KernelBasics, NEW c \in Cpus, FutexExit(c)
    PROVE  /\ cur[c] # Idle /\ futex[cur[c]] # Outside
           /\ futex' = [futex EXCEPT ![cur[c]] = Outside]
           /\ waits' = IF futex[cur[c]].kind = "wait"
                          THEN waits \cup {<<cur[c], futex[cur[c]].at, now>>} ELSE waits
           /\ UNCHANGED <<now, cur>>
           /\ \/ Recording(c, [kind |-> "exit", cpu |-> c, at |-> now]) /\ lost' = lost
              \/ streams' = streams /\ lost' = lost + 1
<1> DEFINE e == [kind |-> "exit", cpu |-> c, at |-> now]
<1>1. now \in Nat
  BY DEF KernelBasics, KernelTypes
<1>2. e \in KernelEvents /\ e.cpu = c /\ e.at = now
  BY <1>1 DEF KernelEvents
<1>3. Emit(c, e)
  BY DEF FutexExit
<1> HIDE DEF e
<1>4. (Record(c, e) /\ lost' = lost) \/ (streams' = streams /\ lost' = lost + 1)
  BY <1>3 DEF Emit, Record, Discard
<1>5. (Recording(c, e) /\ lost' = lost) \/ (streams' = streams /\ lost' = lost + 1)
  BY <1>2, <1>4 DEF Recording, FutexExit
<1> QED
  BY <1>5 DEF FutexExit, e

LEMMA MarkIs ==
    ASSUME KernelBasics, NEW c \in Cpus, Mark(c)
    PROVE  /\ cur[c] # Idle
           /\ UNCHANGED <<cur, futex, waits, lost>>
           /\ Recording(c, [kind |-> "mark", cpu |-> c, at |-> now])
<1> DEFINE e == [kind |-> "mark", cpu |-> c, at |-> now]
<1>1. now \in Nat
  BY DEF KernelBasics, KernelTypes
<1>2. e \in KernelEvents /\ e.cpu = c /\ e.at = now
  BY <1>1 DEF KernelEvents
<1>3. Record(c, e) /\ now' = now
  BY DEF Mark
<1> HIDE DEF e
<1>4. Recording(c, e)
  BY <1>2, <1>3 DEF Recording
<1> QED
  BY <1>4 DEF Mark, Record, e

LEMMA KernelBasicsKept == KernelBasics /\ [KernelNext]_kernelVars => KernelBasics'
<1> SUFFICES ASSUME KernelBasics, [KernelNext]_kernelVars PROVE KernelBasics'
  OBVIOUS
<1> USE DEF KernelBasics
<1>1. ASSUME streams' = streams, now' \in Nat, now <= now', now' <= Start + MaxNow, lost' \in Nat,
             cur' \in [Cpus -> Tids], futex' \in [Threads -> FutexCalls], waits' \subseteq Threads \X Nat \X Nat
      PROVE  KernelBasics'
  <2>1. Recorded' = Recorded
    BY <1>1 DEF Recorded
  <2>2. \A c \in Cpus : \A i \in DOMAIN streams[c] : streams[c][i] \in KernelEvents
    BY DEF KernelTypes
  <2>3. \A c \in Cpus : \A i \in DOMAIN streams[c] : streams[c][i].at \in Nat
    BY <2>2 DEF KernelEvents
  <2>4. Start \in Nat /\ now \in Nat /\ Start <= now
    BY KernelTraceAssumption DEF KernelTypes
  <2>5. KernelTypes'
    BY <1>1, <2>1, <2>4, KernelTraceAssumption DEF KernelTypes
  <2>6. StreamsInOrder'
    BY <1>1, <2>3, <2>4 DEF StreamsInOrder
  <2> QED
    BY <2>5, <2>6
<1>2. ASSUME NEW c \in Cpus, NEW e, Recording(c, e), lost' = lost,
             cur' \in [Cpus -> Tids], futex' \in [Threads -> FutexCalls], waits' \subseteq Threads \X Nat \X Nat
      PROVE  KernelBasics'
  <2>1. streams' \in [Cpus -> Seq(KernelEvents)] /\ IsFiniteSet(Recorded') /\ StreamsInOrder'
    <3>1. e \in KernelEvents /\ e.cpu = c /\ e.at = now /\ Record(c, e) /\ now' = now
      BY <1>2 DEF Recording
    <3> QED
      BY <3>1, RecordAdds
  <2> QED
    BY <1>2, <2>1 DEF KernelTypes, Recording
<1>3. /\ now \in Nat /\ now <= Start + MaxNow /\ lost \in Nat /\ cur \in [Cpus -> Tids]
      /\ futex \in [Threads -> FutexCalls] /\ waits \subseteq Threads \X Nat \X Nat
  BY DEF KernelTypes
<1>4. CASE UNCHANGED kernelVars
  BY <1>1, <1>3, <1>4 DEF kernelVars
<1>5. CASE Tick
  <2>1. now + 1 \in Nat /\ now <= now + 1 /\ now + 1 <= Start + MaxNow
    BY <1>3, <1>5, KernelTraceAssumption DEF Tick
  <2> QED
    BY <1>1, <1>3, <1>5, <2>1 DEF Tick
<1>6. ASSUME NEW c \in Cpus, Switch(c)
      PROVE  KernelBasics'
  <2>1. PICK next \in Tids \ {cur[c]} :
              /\ cur' = [cur EXCEPT ![c] = next]
              /\ UNCHANGED <<now, futex, waits>>
              /\ \/ /\ Recording(c, [kind |-> "switch", cpu |-> c, at |-> now, prev |-> cur[c], next |-> next])
                    /\ lost' = lost
                 \/ streams' = streams /\ lost' = lost + 1
    BY <1>6, SwitchIs
  <2>2. cur' \in [Cpus -> Tids]
    BY <1>3, <2>1
  <2> QED
    BY <1>1, <1>2, <1>3, <2>1, <2>2
<1>7. ASSUME NEW c \in Cpus, Mark(c)
      PROVE  KernelBasics'
  BY <1>2, <1>3, <1>7, MarkIs
<1>8. ASSUME NEW c \in Cpus, FutexEntry(c)
      PROVE  KernelBasics'
  <2>1. PICK kind \in {"wait", "wake"} :
              /\ futex' = [futex EXCEPT ![cur[c]] = [kind |-> kind, at |-> now]]
              /\ UNCHANGED <<now, cur, waits>>
              /\ \/ /\ Recording(c, [kind |-> "entry", cpu |-> c, at |-> now, wait |-> kind = "wait"])
                    /\ lost' = lost
                 \/ streams' = streams /\ lost' = lost + 1
    BY <1>8, FutexEntryIs
  <2>2. futex' \in [Threads -> FutexCalls]
    BY <1>3, <2>1 DEF FutexCalls
  <2> QED
    BY <1>1, <1>2, <1>3, <2>1, <2>2
<1>9. ASSUME NEW c \in Cpus, FutexExit(c)
      PROVE  KernelBasics'
  <2>1. /\ cur[c] # Idle
        /\ futex' = [futex EXCEPT ![cur[c]] = Outside]
        /\ waits' = IF futex[cur[c]].kind = "wait"
                       THEN waits \cup {<<cur[c], futex[cur[c]].at, now>>} ELSE waits
        /\ UNCHANGED <<now, cur>>
        /\ \/ Recording(c, [kind |-> "exit", cpu |-> c, at |-> now]) /\ lost' = lost
           \/ streams' = streams /\ lost' = lost + 1
    BY <1>9, FutexExitIs
  <2>2. futex' \in [Threads -> FutexCalls]
    BY <1>3, <2>1 DEF FutexCalls, Outside
  <2>3. cur[c] \in Threads
    BY <1>3, <2>1 DEF Tids
  <2>4. futex[cur[c]].at \in Nat
    BY <1>3, <2>3 DEF FutexCalls
  <2>5. waits' \subseteq Threads \X Nat \X Nat
    BY <1>3, <2>1, <2>3, <2>4
  <2> QED
    BY <1>1, <1>2, <1>3, <2>1, <2>2, <2>5
<1> QED
  BY <1>4, <1>5, <1>6, <1>7, <1>8, <1>9 DEF KernelNext

-----------------------------------------------------------------------------
(* The recursive functions of the parser, unrolled.                        *)
FirstOf(S) == CHOOSE p \in S : \A q \in S \ {p} : Earlier(p, q)
Behind(r, x, key) == LastOf({i \in DOMAIN r : r[i][key] <= x[key]})
Begun(l) ==
    IF l.of = "stamps" THEN NothingSeen
    ELSE IF l.of = "parse" THEN Start0
    ELSE IF l.of = "read" THEN Worker0
    ELSE <<>>
Onward(l, x, i) ==
    IF l.of = "order" THEN Append(x, FirstOf(Recorded \ ToSet(x)))
    ELSE IF l.of = "stamps" THEN Roll(x, Merged[i])
    ELSE IF l.of = "parse" THEN SeqLine(x, Merged[i], SeqStamps(Merged)[i])
    ELSE IF l.of = "read" THEN ParLine(x, l.s[i])
    ELSE IF l.of = "work" THEN Append(x, Worker(streams[i]))
    ELSE IF l.of = "join" THEN x \o l.ws[i][l.column]
    ELSE IF l.of = "keep" THEN IF i \in l.mask THEN Append(x, l.s[i]) ELSE x
    ELSE Insert(x, l.s[i], Behind(x, l.s[i], l.key))
Passes(l, n, b) == b = [i \in 0 .. n |-> IF i = 0 THEN Begun(l) ELSE Onward(l, b[i - 1], i)]

LEMMA PassesOn ==
    ASSUME NEW l, NEW n \in Nat, NEW b, Passes(l, n, b)
    PROVE  b[0] = Begun(l) /\ \A i \in 1 .. n : b[i] = Onward(l, b[i - 1], i)
<1>1. \A i \in 0 .. n : b[i] = IF i = 0 THEN Begun(l) ELSE Onward(l, b[i - 1], i)
  BY DEF Passes
<1>2. 0 \in 0 .. n /\ \A i \in 1 .. n : i \in 0 .. n /\ i # 0
  OBVIOUS
<1> QED
  BY <1>1, <1>2

LEMMA PassesExist ==
    ASSUME NEW l, NEW n \in Nat
    PROVE  \E b : Passes(l, n, b)
<1> DEFINE S == {m \in Nat : \E b : Passes(l, m, b)}
<1>1. 0 \in S
  <2>1. Passes(l, 0, [i \in 0 .. 0 |-> Begun(l)])
    BY DEF Passes
  <2> QED
    BY <2>1
<1>2. ASSUME NEW m \in Nat, m \in S
      PROVE  m + 1 \in S
  <2>1. PICK b : Passes(l, m, b)
    BY <1>2
  <2> DEFINE v == [i \in 0 .. m + 1 |-> IF i = m + 1 THEN Onward(l, b[m], i) ELSE b[i]]
  <2>2. ASSUME NEW i \in 0 .. m + 1
        PROVE  v[i] = IF i = 0 THEN Begun(l) ELSE Onward(l, v[i - 1], i)
    <3>1. CASE i = m + 1
      BY <3>1
    <3>2. CASE i # m + 1 /\ i # 0
      <4>1. i \in 0 .. m /\ i - 1 \in 0 .. m /\ i - 1 # m + 1
        BY <3>2
      <4>2. v[i] = b[i] /\ v[i - 1] = b[i - 1]
        BY <4>1, <3>2
      <4>3. b[i] = Onward(l, b[i - 1], i)
        BY <2>1, <4>1, <3>2 DEF Passes
      <4> QED
        BY <3>2, <4>2, <4>3
    <3>3. CASE i = 0
      <4>1. b[0] = Begun(l)
        BY <2>1 DEF Passes
      <4> QED
        BY <3>3, <4>1
    <3> QED
      BY <3>1, <3>2, <3>3
  <2>3. Passes(l, m + 1, v)
    <3>1. v = [i \in 0 .. m + 1 |-> v[i]]
      OBVIOUS
    <3> HIDE DEF v
    <3> QED
      BY <2>2, <3>1 DEF Passes
  <2> QED
    BY <2>3
<1> HIDE DEF S
<1>3. Nat \subseteq S
  BY <1>1, <1>2, NatIsInductive
<1> QED
  BY <1>3 DEF S

LEMMA OrderIs ==
    ASSUME Cardinality(Recorded) \in Nat
    PROVE  \E b : Passes([of |-> "order"], Cardinality(Recorded), b) /\ Order = b[Cardinality(Recorded)]
<1> DEFINE n == Cardinality(Recorded)
           b == CHOOSE b : Passes([of |-> "order"], n, b)
<1>1. Passes([of |-> "order"], n, b)
  BY PassesExist
<1>2. Order = b[n]
  BY DEF Order, Passes, Onward, Begun, FirstOf
<1> QED
  BY <1>1, <1>2

LEMMA StampsAre ==
    ASSUME Len(Merged) \in Nat
    PROVE  \E b : Passes([of |-> "stamps"], Len(Merged), b) /\ SeqStamps(Merged) = b[Len(Merged)].stamps
<1> DEFINE n == Len(Merged)
           b == CHOOSE b : Passes([of |-> "stamps"], n, b)
<1>1. Passes([of |-> "stamps"], n, b)
  BY PassesExist
<1>2. SeqStamps(Merged) = b[n].stamps
  BY DEF SeqStamps, Passes, Onward, Begun
<1> QED
  BY <1>1, <1>2

LEMMA SequentialIs ==
    ASSUME Len(Merged) \in Nat
    PROVE  \E b : Passes([of |-> "parse"], Len(Merged), b) /\ Sequential = b[Len(Merged)]
<1> DEFINE n == Len(Merged)
           b == CHOOSE b : Passes([of |-> "parse"], n, b)
<1>1. Passes([of |-> "parse"], n, b)
  BY PassesExist
<1>2. Sequential = b[n]
  BY DEF Sequential, Passes, Onward, Begun
<1> QED
  BY <1>1, <1>2

-----------------------------------------------------------------------------
(* The order of the lines.                                                 *)
LEMMA EventTypes ==
    ASSUME KernelBasics, NEW p \in Recorded
    PROVE  /\ Event(p) \in KernelEvents /\ p[1] \in Cpus /\ p[1] \in Nat /\ Event(p).cpu = p[1]
           /\ Event(p).at \in Nat /\ Start <= Event(p).at /\ Event(p).at <= now
<1>1. p[1] \in Cpus /\ p[2] \in DOMAIN streams[p[1]]
  BY RecordedIs
<1>2. streams[p[1]] \in Seq(KernelEvents)
  BY <1>1 DEF KernelBasics, KernelTypes
<1>3. Event(p) \in KernelEvents
  BY <1>1, <1>2 DEF Event
<1>4. Event(p).at \in Nat
  BY <1>3 DEF KernelEvents
<1>5. p[1] \in Nat
  BY <1>1, KernelTraceAssumption DEF Cpus
<1> QED
  BY <1>1, <1>3, <1>4, <1>5 DEF Event, KernelBasics, StreamsInOrder

LEMMA SameStream ==
    ASSUME KernelBasics, NEW p \in Recorded, NEW q \in Recorded, p[1] = q[1], p # q
    PROVE  /\ p[2] \in Nat /\ q[2] \in Nat
           /\ (p[2] < q[2] /\ Event(p).at < Event(q).at) \/ (q[2] < p[2] /\ Event(q).at < Event(p).at)
<1>1. /\ p = <<p[1], p[2]>> /\ p[1] \in Cpus /\ p[2] \in DOMAIN streams[p[1]]
      /\ q = <<q[1], q[2]>> /\ q[2] \in DOMAIN streams[p[1]]
  BY RecordedIs
<1>2. streams[p[1]] \in Seq(KernelEvents)
  BY <1>1 DEF KernelBasics, KernelTypes
<1>3. p[2] \in Nat /\ q[2] \in Nat /\ p[2] # q[2]
  BY <1>1, <1>2
<1>4. p[2] < q[2] \/ q[2] < p[2]
  BY <1>3
<1> QED
  BY <1>1, <1>3, <1>4 DEF Event, KernelBasics, StreamsInOrder

LEMMA EarlierOrders ==
    ASSUME KernelBasics
    PROVE  /\ \A p, q \in Recorded : p # q => Earlier(p, q) \/ Earlier(q, p)
           /\ \A p, q \in Recorded : Earlier(p, q) => ~Earlier(q, p)
           /\ \A p, q, r \in Recorded : Earlier(p, q) /\ Earlier(q, r) => Earlier(p, r)
<1>1. \A p \in Recorded : Event(p).at \in Nat /\ p[1] \in Nat
  BY EventTypes
<1>2. ASSUME NEW p \in Recorded, NEW q \in Recorded, p # q
      PROVE  Earlier(p, q) \/ Earlier(q, p)
  <2>1. p[1] = q[1] => Event(p).at < Event(q).at \/ Event(q).at < Event(p).at
    BY <1>2, SameStream
  <2>2. Event(p).at \in Nat /\ p[1] \in Nat /\ Event(q).at \in Nat /\ q[1] \in Nat
    BY <1>1
  <2> QED
    BY <2>1, <2>2 DEF Earlier
<1>3. ASSUME NEW p \in Recorded, NEW q \in Recorded, Earlier(p, q)
      PROVE  ~Earlier(q, p)
  <2>1. Event(p).at \in Nat /\ p[1] \in Nat /\ Event(q).at \in Nat /\ q[1] \in Nat
    BY <1>1
  <2> QED
    BY <1>3, <2>1 DEF Earlier
<1>4. ASSUME NEW p \in Recorded, NEW q \in Recorded, NEW r \in Recorded, Earlier(p, q), Earlier(q, r)
      PROVE  Earlier(p, r)
  <2>1. /\ Event(p).at \in Nat /\ p[1] \in Nat /\ Event(q).at \in Nat /\ q[1] \in Nat
        /\ Event(r).at \in Nat /\ r[1] \in Nat
    BY <1>1
  <2> QED
    BY <1>4, <2>1 DEF Earlier
<1> QED
  BY <1>2, <1>3, <1>4

LEMMA FirstExists ==
    ASSUME KernelBasics, NEW S, S \subseteq Recorded, S # {}
    PROVE  /\ FirstOf(S) \in S
           /\ \A q \in S \ {FirstOf(S)} : Earlier(FirstOf(S), q)
<1>1. \A p \in Recorded : Event(p).at \in Nat /\ p[1] \in Nat
  BY EventTypes
<1> DEFINE T == {Event(p).at : p \in S}
<1>2. \E t \in T : \A u \in T : t <= u
  <2>1. T \subseteq Nat /\ T # {}
    BY <1>1
  <2> HIDE DEF T
  <2> QED
    BY <2>1, LeastExists
<1>3. PICK t \in T : \A u \in T : t <= u
  BY <1>2
<1> DEFINE C == {p[1] : p \in {q \in S : Event(q).at = t}}
<1>4. \E c \in C : \A d \in C : c <= d
  <2>1. C \subseteq Nat /\ C # {}
    BY <1>1, <1>3
  <2> HIDE DEF C
  <2> QED
    BY <2>1, LeastExists
<1>5. PICK c \in C : \A d \in C : c <= d
  BY <1>4
<1>6. PICK p \in S : Event(p).at = t /\ p[1] = c
  BY <1>5
<1>7. ASSUME NEW q \in S \ {p}
      PROVE  Earlier(p, q)
  <2>1. /\ Event(p).at \in Nat /\ p[1] \in Nat /\ Event(q).at \in Nat /\ q[1] \in Nat
    BY <1>1
  <2>2. t <= Event(q).at
    BY <1>3
  <2>3. Event(q).at = t => c <= q[1]
    BY <1>5
  <2>4. ~Earlier(q, p)
    BY <1>6, <2>1, <2>2, <2>3 DEF Earlier
  <2> QED
    BY <2>4, EarlierOrders
<1>8. \E x \in S : \A q \in S \ {x} : Earlier(x, q)
  BY <1>6, <1>7
<1> QED
  BY <1>8 DEF FirstOf

(* The first n lines.                                                      *)
Lines(n, s) ==
    /\ s \in [1 .. n -> Recorded] /\ s \in Seq(Recorded) /\ Len(s) = n
    /\ \A i, j \in 1 .. n : i < j => Earlier(s[i], s[j])
    /\ \A i \in 1 .. n, q \in Recorded \ ToSet(s) : Earlier(s[i], q)
    /\ IsFiniteSet(ToSet(s)) /\ Cardinality(ToSet(s)) = n /\ ToSet(s) \subseteq Recorded

(* Every event is printed once, and after all earlier ones.                *)
LEMMA OrderSorts ==
    ASSUME KernelBasics
    PROVE  /\ Cardinality(Recorded) \in Nat
           /\ Order \in [1 .. Cardinality(Recorded) -> Recorded]
           /\ Len(Order) = Cardinality(Recorded)
           /\ \A p \in Recorded : \E i \in 1 .. Cardinality(Recorded) : Order[i] = p
           /\ \A i, j \in 1 .. Cardinality(Recorded) : i < j => Earlier(Order[i], Order[j])
<1> DEFINE R == Recorded
           N == Cardinality(R)
<1>1. IsFiniteSet(R) /\ N \in Nat
  BY FS_CardinalityType DEF KernelBasics, KernelTypes
<1>2. PICK b : Passes([of |-> "order"], N, b) /\ Order = b[N]
  BY <1>1, OrderIs
<1> DEFINE S == {n \in Nat : n <= N => Lines(n, b[n])}
<1>3. 0 \in S
  <2>1. b[0] = <<>>
    BY <1>1, <1>2 DEF Passes, Begun
  <2>2. ToSet(b[0]) = {}
    BY <2>1 DEF ToSet
  <2>3. Lines(0, <<>>)
    BY <2>1, <2>2, FS_EmptySet DEF Lines
  <2> QED
    BY <2>1, <2>3
<1>4. ASSUME NEW n \in Nat, n \in S
      PROVE  n + 1 \in S
  <2> SUFFICES ASSUME n + 1 <= N PROVE Lines(n + 1, b[n + 1])
    OBVIOUS
  <2>1. n \in 0 .. N /\ n + 1 \in 0 .. N /\ n + 1 # 0 /\ (n + 1) - 1 = n /\ n <= N /\ n # N
    BY <1>1
  <2> DEFINE s == b[n]
             A == R \ ToSet(s)
             p == FirstOf(A)
  <2>2. Lines(n, s)
    BY <1>4, <2>1
  <2>3. b[n + 1] = Append(s, p)
    BY <1>2, <2>1 DEF Passes, Onward
  <2>4. A # {}
    <3> SUFFICES ASSUME A = {} PROVE FALSE
      OBVIOUS
    <3>1. ToSet(s) = R /\ Cardinality(ToSet(s)) = n
      BY <2>2 DEF Lines
    <3> QED
      BY <2>1, <3>1
  <2> HIDE DEF s
  <2>5. p \in A /\ \A q \in A \ {p} : Earlier(p, q)
    <3>1. A \subseteq Recorded
      OBVIOUS
    <3> HIDE DEF A
    <3> QED
      BY <2>4, <3>1, FirstExists
  <2> HIDE DEF A, p
  <2> DEFINE r == Append(s, p)
  <2>6. /\ r \in Seq(R) /\ Len(r) = n + 1 /\ DOMAIN r = 1 .. n + 1 /\ r \in [1 .. n + 1 -> R]
        /\ r[n + 1] = p /\ \A i \in 1 .. n : r[i] = s[i]
    <3>1. p \in R /\ s \in Seq(R) /\ Len(s) = n
      BY <2>2, <2>5 DEF A, Lines
    <3> HIDE DEF R
    <3>2. /\ r \in Seq(R) /\ Len(r) = n + 1 /\ DOMAIN r = 1 .. n + 1
          /\ r[n + 1] = p /\ \A i \in 1 .. n : r[i] = s[i]
      BY <3>1
    <3> HIDE DEF r
    <3> QED
      BY <3>2
  <2> HIDE DEF r
  <2>7. ToSet(r) = ToSet(s) \cup {p}
    <3>1. DOMAIN s = 1 .. n
      BY <2>2 DEF Lines
    <3>2. 1 .. n + 1 = (1 .. n) \cup {n + 1}
      OBVIOUS
    <3> QED
      BY <2>6, <3>1, <3>2 DEF ToSet
  <2>8. \A i, j \in 1 .. n + 1 : i < j => Earlier(r[i], r[j])
    <3> SUFFICES ASSUME NEW i \in 1 .. n + 1, NEW j \in 1 .. n + 1, i < j
                 PROVE  Earlier(r[i], r[j])
      OBVIOUS
    <3>1. i \in 1 .. n /\ (j \in 1 .. n \/ j = n + 1)
      OBVIOUS
    <3>2. p \in R \ ToSet(s)
      BY <2>5 DEF A
    <3> QED
      BY <2>2, <2>6, <3>1, <3>2 DEF Lines
  <2>9. \A i \in 1 .. n + 1, q \in R \ ToSet(r) : Earlier(r[i], q)
    <3> SUFFICES ASSUME NEW i \in 1 .. n + 1, NEW q \in R \ ToSet(r)
                 PROVE  Earlier(r[i], q)
      OBVIOUS
    <3>1. q \in A \ {p} /\ q \in R \ ToSet(s)
      BY <2>7 DEF A
    <3>2. i \in 1 .. n \/ i = n + 1
      OBVIOUS
    <3> QED
      BY <2>2, <2>5, <2>6, <3>1, <3>2 DEF Lines
  <2>10. IsFiniteSet(ToSet(r)) /\ Cardinality(ToSet(r)) = n + 1 /\ ToSet(r) \subseteq R
    <3>1. p \notin ToSet(s) /\ p \in R
      BY <2>5 DEF A
    <3> QED
      BY <2>2, <2>7, <3>1, FS_AddElement DEF Lines
  <2>11. Lines(n + 1, r)
    BY <2>6, <2>8, <2>9, <2>10 DEF Lines
  <2> QED
    BY <2>3, <2>11 DEF r
<1> HIDE DEF S
<1>5. Nat \subseteq S
  BY <1>3, <1>4, NatIsInductive
<1>6. Lines(N, Order)
  <2>1. N \in S
    BY <1>1, <1>5
  <2> QED
    BY <1>1, <1>2, <2>1 DEF S
<1> HIDE DEF N
<1>7. ToSet(Order) = R
  <2>1. IsFiniteSet(R) /\ ToSet(Order) \in SUBSET R /\ Cardinality(ToSet(Order)) = Cardinality(R)
    BY <1>1, <1>6 DEF N, Lines
  <2> HIDE DEF R
  <2> QED
    BY <2>1, FS_Subset
<1>8. \A p \in R : \E i \in 1 .. N : Order[i] = p
  BY <1>6, <1>7 DEF ToSet, Lines
<1> QED
  BY <1>1, <1>6, <1>8 DEF N, Lines


LEMMA MergedIs ==
    ASSUME KernelBasics
    PROVE  /\ Cardinality(Recorded) \in Nat /\ Len(Merged) = Cardinality(Recorded)
           /\ DOMAIN Merged = 1 .. Len(Merged)
           /\ \A i \in 1 .. Len(Merged) : Order[i] \in Recorded /\ Merged[i] = Event(Order[i])
           /\ \A p \in Recorded : \E i \in 1 .. Len(Merged) : Order[i] = p
           /\ \A i, j \in 1 .. Len(Merged) : i < j => Earlier(Order[i], Order[j])
<1> DEFINE N == Cardinality(Recorded)
<1>1. /\ N \in Nat /\ Order \in [1 .. N -> Recorded]
      /\ \A p \in Recorded : \E i \in 1 .. N : Order[i] = p
      /\ \A i, j \in 1 .. N : i < j => Earlier(Order[i], Order[j])
  BY OrderSorts
<1> HIDE DEF N
<1>2. Merged = [n \in 1 .. N |-> Event(Order[n])]
  BY <1>1 DEF Merged
<1>3. Len(Merged) = N /\ DOMAIN Merged = 1 .. N /\ \A i \in 1 .. N : Merged[i] = Event(Order[i])
  BY <1>1, <1>2
<1> QED
  BY <1>1, <1>3 DEF N

LEMMA MergedIsSorted ==
    ASSUME KernelBasics
    PROVE  /\ \A i \in 1 .. Len(Merged) : /\ Merged[i] \in KernelEvents /\ Merged[i].at \in Nat
                                          /\ Start <= Merged[i].at /\ Merged[i].at <= Start + MaxNow
           /\ \A i, j \in 1 .. Len(Merged) : i < j => Merged[i].at <= Merged[j].at
           /\ \A i, j \in 1 .. Len(Merged) : i < j /\ Merged[i].cpu = Merged[j].cpu => Merged[i].at < Merged[j].at
<1>1. ASSUME NEW i \in 1 .. Len(Merged)
      PROVE  /\ Merged[i] \in KernelEvents /\ Merged[i].at \in Nat /\ Merged[i].cpu = Order[i][1]
             /\ Start <= Merged[i].at /\ Merged[i].at <= Start + MaxNow
  <2>1. Order[i] \in Recorded /\ Merged[i] = Event(Order[i])
    BY MergedIs
  <2>2. Merged[i] \in KernelEvents /\ Merged[i].at \in Nat /\ Start <= Merged[i].at /\ Merged[i].at <= now
        /\ Merged[i].cpu = Order[i][1]
    BY <2>1, EventTypes
  <2>3. now \in Nat /\ now <= Start + MaxNow /\ Start \in Nat /\ MaxNow \in Nat
    BY KernelTraceAssumption DEF KernelBasics, KernelTypes
  <2> QED
    BY <2>2, <2>3
<1>2. ASSUME NEW i \in 1 .. Len(Merged), NEW j \in 1 .. Len(Merged), i < j
      PROVE  /\ Merged[i].at <= Merged[j].at
             /\ Merged[i].cpu = Merged[j].cpu => Merged[i].at < Merged[j].at
  <2>1. /\ Order[i] \in Recorded /\ Merged[i] = Event(Order[i])
        /\ Order[j] \in Recorded /\ Merged[j] = Event(Order[j])
        /\ Earlier(Order[i], Order[j])
    BY <1>2, MergedIs
  <2>2. Merged[i].at \in Nat /\ Merged[j].at \in Nat /\ Merged[i].cpu = Order[i][1] /\ Merged[j].cpu = Order[j][1]
    BY <1>1
  <2>3. Order[i][1] \in Nat
    BY <2>1, EventTypes
  <2> QED
    BY <2>1, <2>2, <2>3 DEF Earlier
<1> QED
  BY <1>1, <1>2

(* Times of day, for times before the second midnight.                     *)
LEMMA TimeOfDay ==
    /\ \A a \in Nat : a < Day => a % Day = a
    /\ \A a \in Nat : Day <= a /\ a < Day + Day => a % Day = a - Day
    /\ Half \in Nat /\ Half + Half <= Day /\ Day <= Half + Half + 1
<1>1. Day \in Nat /\ Day > 0
  BY KernelTraceAssumption
<1>2. ASSUME NEW a \in Nat, a < Day PROVE a % Day = a
  BY <1>1, <1>2
<1>3. ASSUME NEW a \in Nat, Day <= a, a < Day + Day PROVE a % Day = a - Day
  BY <1>1, <1>3
<1>4. Half \in Nat /\ Half + Half <= Day /\ Day <= Half + Half + 1
  BY <1>1 DEF Half
<1> QED
  BY <1>2, <1>3, <1>4

(* The session is shorter than half a day.                                 *)
LEMMA ShortSession ==
    ASSUME NEW e, e.at \in Nat, Start <= e.at, e.at <= Start + MaxNow
    PROVE  /\ e.at < Day => Tod(e) = e.at /\ ~(Tod(e) + Half < Start)
           /\ e.at >= Day => Tod(e) = e.at - Day /\ Tod(e) + Half < Start
           /\ Tod(e) \in Nat
<1>1. /\ Start \in Nat /\ MaxNow \in Nat /\ Day \in Nat /\ MaxNow + MaxNow < Day /\ Start < Day
      /\ Half \in Nat /\ Half + Half <= Day
  BY KernelTraceAssumption, TimeOfDay
<1>2. e.at < Day + Day
  BY <1>1
<1>3. e.at < Day => Tod(e) = e.at
  BY TimeOfDay DEF Tod
<1>4. e.at >= Day => Tod(e) = e.at - Day
  BY <1>1, <1>2, TimeOfDay DEF Tod
<1>5. CASE e.at < Day
  BY <1>1, <1>3, <1>5
<1>6. CASE e.at >= Day
  BY <1>1, <1>4, <1>6
<1> QED
  BY <1>1, <1>5, <1>6

LEMMA ParStampsAre ==
    ASSUME KernelBasics, NEW p \in Recorded
    PROVE  ParStamp(Event(p)) = 1 + Event(p).at
<1> DEFINE e == Event(p)
<1>1. e.at \in Nat /\ Start <= e.at /\ e.at <= Start + MaxNow /\ Day \in Nat
  <2>1. e.at \in Nat /\ Start <= e.at /\ e.at <= now
    BY EventTypes
  <2>2. now \in Nat /\ now <= Start + MaxNow /\ Start \in Nat /\ MaxNow \in Nat /\ Day \in Nat
    BY KernelTraceAssumption DEF KernelBasics, KernelTypes
  <2> QED
    BY <2>1, <2>2
<1> HIDE DEF e
<1>2. ParStamp(e) = 1 + e.at
  BY <1>1, ShortSession DEF ParStamp
<1> QED
  BY <1>2 DEF e

(* What the parser knows of the time after n lines.                        *)
DayOf(n) == IF n > 0 /\ Merged[n].at >= Day THEN 1 ELSE 0
Rolled(n, x) ==
    /\ (n > 0 => x.seen = TRUE) /\ (n = 0 => x.seen = FALSE)
    /\ n > 0 => x.day = Tod(Merged[n])
    /\ x.extra = DayOf(n)
    /\ x.stamps \in Seq(Nat) /\ Len(x.stamps) = n
    /\ \A i \in 1 .. n : x.stamps[i] = 1 + Merged[i].at

(* The roll sees midnight once: the first line is before it.               *)
LEMMA SeqStampsAre ==
    ASSUME KernelBasics, StartsOnItsDay
    PROVE  SeqStamps(Merged) = [i \in 1 .. Len(Merged) |-> 1 + Merged[i].at]
<1> DEFINE m == Merged
           N == Len(Merged)
<1>1. N \in Nat
  BY MergedIs
<1>2. /\ \A i \in 1 .. N : m[i].at \in Nat /\ Start <= m[i].at /\ m[i].at <= Start + MaxNow
      /\ \A i, j \in 1 .. N : i < j => m[i].at <= m[j].at
  BY MergedIsSorted
<1>3. N > 0 => m[1].at < Day
  <2> SUFFICES ASSUME N > 0 PROVE m[1].at < Day
    OBVIOUS
  <2>1. Order[1] \in Recorded
    BY <1>1, MergedIs
  <2>2. PICK p \in Recorded : Event(p).at < Day
    BY <2>1 DEF StartsOnItsDay
  <2>3. PICK i \in 1 .. N : Order[i] = p /\ m[i] = Event(p)
    BY MergedIs
  <2>4. i = 1 \/ m[1].at <= m[i].at
    BY <1>1, <1>2
  <2>5. m[1].at \in Nat /\ m[i].at \in Nat /\ Day \in Nat /\ m[i].at < Day
    BY <1>1, <1>2, <2>2, <2>3, KernelTraceAssumption
  <2> QED
    BY <2>4, <2>5
<1>4. PICK b : Passes([of |-> "stamps"], N, b) /\ SeqStamps(m) = b[N].stamps
  BY <1>1, StampsAre
<1> DEFINE S == {n \in Nat : n <= N => Rolled(n, b[n])}
<1> HIDE DEF m, N
<1>5. 0 \in S
  <2>1. b[0] = NothingSeen
    BY <1>1, <1>4 DEF Passes, Begun
  <2>2. 0 = 0 /\ ~(0 > 0)
    OBVIOUS
  <2>3. /\ NothingSeen.seen = FALSE /\ NothingSeen.extra = 0
        /\ NothingSeen.stamps \in Seq(Nat) /\ Len(NothingSeen.stamps) = 0
    BY DEF NothingSeen
  <2>4. DayOf(0) = 0
    BY DEF DayOf
  <2>5. Rolled(0, NothingSeen)
    BY <2>2, <2>3, <2>4 DEF Rolled
  <2> QED
    BY <2>1, <2>5
<1>6. ASSUME NEW n \in Nat, n \in S
      PROVE  n + 1 \in S
  <2> SUFFICES ASSUME n + 1 <= N PROVE Rolled(n + 1, b[n + 1])
    OBVIOUS
  <2>1. n \in 0 .. N /\ n + 1 \in 0 .. N /\ n + 1 \in 1 .. N /\ n + 1 # 0 /\ (n + 1) - 1 = n /\ n <= N
    BY <1>1
  <2> DEFINE e == m[n + 1]
             x == b[n]
  <2>2. Rolled(n, x)
    BY <1>6, <2>1
  <2>3. b[n + 1] = Roll(x, e)
    BY <1>4, <2>1, <2>2 DEF Passes, Onward, m
  <2>4. e.at \in Nat /\ Start <= e.at /\ e.at <= Start + MaxNow /\ Tod(e) \in Nat
    BY <1>2, <2>1, ShortSession
  <2>5. /\ Start \in Nat /\ MaxNow \in Nat /\ Day \in Nat /\ MaxNow + MaxNow < Day /\ Start < Day
        /\ Half \in Nat /\ Half + Half <= Day /\ Day <= Half + Half + 1
    BY KernelTraceAssumption, TimeOfDay
  <2>6. /\ e.at < Day => Tod(e) = e.at
        /\ e.at >= Day => Tod(e) = e.at - Day
    BY <2>4, ShortSession
  <2> DEFINE extra == IF n > 0 /\ Tod(e) + Half < Tod(m[n]) THEN DayOf(n) + 1 ELSE DayOf(n)
  <2> HIDE DEF e, x
  <2>7. extra = (IF e.at >= Day THEN 1 ELSE 0)
    <3>1. CASE n = 0
      <4>1. e.at < Day
        BY <1>1, <1>3, <2>1, <3>1 DEF e
      <4> QED
        BY <2>4, <2>5, <3>1, <4>1 DEF DayOf
    <3>2. CASE n > 0
      <4> DEFINE d == m[n]
      <4>1. n \in 1 .. N /\ n < n + 1
        BY <2>1, <3>2
      <4>2. d.at \in Nat /\ Start <= d.at /\ d.at <= Start + MaxNow /\ d.at <= e.at
        BY <1>2, <2>1, <4>1 DEF e
      <4>3. /\ d.at < Day => Tod(d) = d.at
            /\ d.at >= Day => Tod(d) = d.at - Day
        BY <4>2, ShortSession
      <4> HIDE DEF d
      <4>4. CASE d.at >= Day
        <5>1. e.at >= Day
          BY <2>4, <2>5, <4>2, <4>4
        <5>2. Tod(e) = e.at - Day /\ Tod(d) = d.at - Day
          BY <2>6, <4>3, <4>4, <5>1
        <5>3. ~(Tod(e) + Half < Tod(d))
          BY <2>4, <2>5, <4>2, <5>2
        <5> QED
          BY <3>2, <4>4, <5>1, <5>3 DEF d, DayOf, m
      <4>5. CASE d.at < Day /\ e.at < Day
        <5>1. ~(Tod(e) + Half < Tod(d))
          BY <2>4, <2>5, <2>6, <4>2, <4>3, <4>5
        <5>2. ~(d.at >= Day) /\ ~(e.at >= Day)
          BY <2>4, <2>5, <4>2, <4>5
        <5> QED
          BY <3>2, <5>1, <5>2 DEF d, DayOf, m
      <4>6. CASE d.at < Day /\ e.at >= Day
        <5>1. Tod(e) + Half < Tod(d)
          BY <2>4, <2>5, <2>6, <4>2, <4>3, <4>6
        <5>2. ~(d.at >= Day)
          BY <2>5, <4>2, <4>6
        <5> QED
          BY <3>2, <4>6, <5>1, <5>2 DEF d, DayOf, m
      <4> QED
        BY <2>4, <2>5, <4>2, <4>4, <4>5, <4>6
    <3> QED
      BY <3>1, <3>2
  <2>8. 1 + extra * Day + Tod(e) = 1 + e.at
    <3>1. CASE e.at >= Day
      <4>1. extra = 1 /\ Tod(e) = e.at - Day
        BY <2>6, <2>7, <3>1
      <4> HIDE DEF extra
      <4> QED
        BY <2>4, <2>5, <4>1
    <3>2. CASE ~(e.at >= Day)
      <4>1. e.at < Day
        BY <2>4, <2>5, <3>2
      <4>2. extra = 0 /\ Tod(e) = e.at
        BY <2>6, <2>7, <3>2, <4>1
      <4> HIDE DEF extra
      <4> QED
        BY <2>4, <2>5, <4>2
    <3> QED
      BY <3>1, <3>2
  <2>9. b[n + 1] = [day |-> Tod(e), extra |-> extra, seen |-> TRUE,
                    stamps |-> Append(x.stamps, 1 + extra * Day + Tod(e))]
    <3>1. (n > 0 /\ x.seen = TRUE /\ x.day = Tod(m[n])) \/ (~(n > 0) /\ x.seen = FALSE)
      BY <2>2 DEF Rolled, m
    <3>2. x.extra = DayOf(n)
      BY <2>2 DEF Rolled
    <3>3. (IF x.seen /\ Tod(e) + Half < x.day THEN x.extra + 1 ELSE x.extra) = extra
      <4>1. CASE n > 0 /\ x.seen = TRUE /\ x.day = Tod(m[n])
        BY <3>2, <4>1
      <4>2. CASE ~(n > 0) /\ x.seen = FALSE
        BY <3>2, <4>2
      <4> QED
        BY <3>1, <4>1, <4>2
    <3> HIDE DEF extra
    <3> QED
      BY <2>3, <3>3 DEF Roll
  <2> HIDE DEF extra
  <2>10. DayOf(n + 1) = extra
    BY <2>7 DEF e, m, DayOf
  <2>11. /\ Append(x.stamps, 1 + e.at) \in Seq(Nat) /\ Len(Append(x.stamps, 1 + e.at)) = n + 1
         /\ \A i \in 1 .. n + 1 : Append(x.stamps, 1 + e.at)[i] = 1 + Merged[i].at
    <3>1. x.stamps \in Seq(Nat) /\ Len(x.stamps) = n /\ 1 + e.at \in Nat
      BY <2>2, <2>4 DEF Rolled
    <3>2. \A i \in 1 .. n : x.stamps[i] = 1 + Merged[i].at
      BY <2>2 DEF Rolled
    <3> QED
      BY <3>1, <3>2 DEF e, m
  <2>12. n + 1 > 0 /\ n + 1 # 0
    OBVIOUS
  <2> DEFINE y == b[n + 1]
  <2>13. /\ y.seen = TRUE /\ y.day = Tod(Merged[n + 1]) /\ y.extra = DayOf(n + 1)
         /\ y.stamps = Append(x.stamps, 1 + e.at)
    BY <2>8, <2>9, <2>10 DEF e, m
  <2> HIDE DEF y
  <2>14. Rolled(n + 1, y)
    BY <2>11, <2>12, <2>13 DEF Rolled
  <2> QED
    BY <2>14 DEF y
<1> HIDE DEF S
<1>7. Nat \subseteq S
  BY <1>5, <1>6, NatIsInductive
<1>8. Rolled(N, b[N])
  <2>1. N \in S
    BY <1>1, <1>7
  <2> QED
    BY <1>1, <2>1 DEF S
<1>9. b[N].stamps = [i \in 1 .. N |-> 1 + m[i].at]
  <2> DEFINE s == b[N].stamps
  <2>1. s \in Seq(Nat) /\ Len(s) = N /\ \A i \in 1 .. N : s[i] = 1 + m[i].at
    BY <1>8 DEF Rolled, m
  <2> HIDE DEF s, m, N
  <2>2. DOMAIN s = 1 .. N /\ s = [i \in DOMAIN s |-> s[i]]
    BY <2>1
  <2>3. s = [i \in 1 .. N |-> 1 + m[i].at]
    BY <2>1, <2>2
  <2> QED
    BY <2>3 DEF s
<1> QED
  BY <1>4, <1>9 DEF m, N

\* Every line gets the time of its event: the sequential parser sees midnight
\* pass once (line 156), the workers date each line by the start of the session.
THEOREM StampsRight == KernelSpec => []StampsAreRight
<1>1. KernelBasics => StampsAreRight
  <2> SUFFICES ASSUME KernelBasics PROVE StampsAreRight
    OBVIOUS
  <2>1. \A p \in Recorded : ParStamp(Event(p)) = 1 + Event(p).at
    BY ParStampsAre
  <2>2. DOMAIN Merged = 1 .. Len(Merged)
    BY MergedIs
  <2> QED
    BY <2>1, <2>2, SeqStampsAre DEF StampsAreRight
<1> QED
  BY <1>1, KernelBasicsInit, KernelBasicsKept, PTL DEF KernelSpec

-----------------------------------------------------------------------------
(* The switches that were recorded, when nothing was discarded.            *)
Switches == {p \in Recorded : Event(p).kind = "switch"}
SwitchesOf(t) == {p \in Switches : t \in {Event(p).prev, Event(p).next}}
LastSwitch(p) == \A q \in Switches : q[1] = p[1] => q[2] <= p[2]
Latest(t, p) == p \in SwitchesOf(t) /\ \A q \in SwitchesOf(t) : Event(q).at <= Event(p).at
Previous(t, r, q) ==
    /\ r \in SwitchesOf(t) /\ q \in SwitchesOf(t) /\ Event(r).at < Event(q).at
    /\ \A s \in SwitchesOf(t) : ~(Event(r).at < Event(s).at /\ Event(s).at < Event(q).at)
NoneBetween(r, q) == \A s \in Switches : s[1] = q[1] => ~(r[2] < s[2] /\ s[2] < q[2])

(* A thread is on one CPU, is not switched twice at a time, is where its   *)
(* latest switch left it; a CPU runs what its last switch says.            *)
OneCpuEach == \A c, d \in Cpus : cur[c] = cur[d] /\ cur[c] # Idle => c = d
SwitchesApart ==
    /\ \A p \in Switches : Event(p).prev # Event(p).next
    /\ \A t \in Threads : \A p, q \in SwitchesOf(t) : p # q => Event(p).at # Event(q).at
Placed ==
    \A t \in Threads : \A p \in SwitchesOf(t) :
       Latest(t, p) => /\ Event(p).next = t => cur[p[1]] = t /\ LastSwitch(p)
                       /\ Event(p).prev = t => \A c \in Cpus : cur[c] # t
Seated ==
    /\ \A p \in Switches : LastSwitch(p) => cur[p[1]] = Event(p).next
    /\ \A c \in Cpus, t \in Threads : cur[c] = t /\ (\A p \in Switches : p[1] # c) => SwitchesOf(t) = {}

(* In and out alternate: a thread leaves the CPU that it came to last, and *)
(* nobody came in between.                                                 *)
Alternating ==
    \A t \in Threads : \A r, q \in SwitchesOf(t) :
       Previous(t, r, q) =>
          /\ Event(q).prev = t => r[1] = q[1] /\ Event(r).next = t /\ NoneBetween(r, q)
          /\ Event(q).next = t => Event(r).prev = t

Scheduling == OneCpuEach /\ SwitchesApart /\ Placed /\ Seated /\ Alternating
SchedulingInv == KernelBasics /\ (lost = 0 => Scheduling)

LEMMA SwitchTypes ==
    ASSUME KernelBasics, NEW p \in Switches
    PROVE  /\ p \in Recorded /\ p[1] \in Cpus /\ p[2] \in Nat /\ Event(p).at \in Nat /\ Event(p).at <= now
           /\ Event(p).kind = "switch" /\ Event(p).prev \in Tids /\ Event(p).next \in Tids
<1>1. p \in Recorded /\ Event(p).kind = "switch"
  BY DEF Switches
<1>2. Event(p) \in KernelEvents /\ p[1] \in Cpus /\ Event(p).at \in Nat /\ Event(p).at <= now
  BY <1>1, EventTypes
<1>3. Event(p).prev \in Tids /\ Event(p).next \in Tids
  BY <1>1, <1>2 DEF KernelEvents
<1>4. p[2] \in Nat
  <2>1. p[2] \in DOMAIN streams[p[1]] /\ streams[p[1]] \in Seq(KernelEvents)
    BY <1>1, <1>2, RecordedIs DEF KernelBasics, KernelTypes
  <2> QED
    BY <2>1
<1> QED
  BY <1>1, <1>2, <1>3, <1>4

(* A step that records no switch leaves all of this as it is.              *)
LEMMA SameSwitches ==
    ASSUME Scheduling, cur' = cur, Switches' = Switches, \A p \in Switches : Event(p)' = Event(p)
    PROVE  Scheduling'
<1>1. \A t : SwitchesOf(t)' = SwitchesOf(t)
  BY DEF SwitchesOf
<1>2. \A t, p : p \in Switches => (Latest(t, p)' <=> Latest(t, p)) /\ (LastSwitch(p)' <=> LastSwitch(p))
  BY <1>1 DEF Latest, LastSwitch, SwitchesOf
<1>3. \A t, r, q : r \in Switches /\ q \in Switches => (Previous(t, r, q)' <=> Previous(t, r, q))
  BY <1>1 DEF Previous, SwitchesOf
<1>4. \A r, q : NoneBetween(r, q)' <=> NoneBetween(r, q)
  BY DEF NoneBetween
<1>5. \A t : SwitchesOf(t) \subseteq Switches
  BY DEF SwitchesOf
<1>6. OneCpuEach'
  BY DEF Scheduling, OneCpuEach
<1>7. SwitchesApart'
  BY <1>1, <1>5 DEF Scheduling, SwitchesApart
<1>8. Placed'
  BY <1>1, <1>2, <1>5 DEF Scheduling, Placed
<1>9. Seated'
  BY <1>1, <1>2 DEF Scheduling, Seated
<1>10. Alternating'
  BY <1>1, <1>3, <1>4, <1>5 DEF Scheduling, Alternating
<1> QED
  BY <1>6, <1>7, <1>8, <1>9, <1>10 DEF Scheduling

LEMMA OtherEvents ==
    ASSUME KernelBasics, Scheduling, cur' = cur,
           streams' = streams \/ \E c \in Cpus : \E e : Recording(c, e) /\ e.kind # "switch"
    PROVE  Scheduling'
<1>1. CASE streams' = streams
  <2>1. Switches' = Switches /\ \A p \in Switches : Event(p)' = Event(p)
    BY <1>1 DEF Switches, Recorded, Event
  <2> QED
    BY <2>1, SameSwitches
<1>2. ASSUME NEW c \in Cpus, NEW e, Recording(c, e), e.kind # "switch"
      PROVE  Scheduling'
  <2>1. PICK new : /\ Recorded' = Recorded \cup {new} /\ new \notin Recorded
                   /\ Event(new)' = e /\ \A p \in Recorded : Event(p)' = Event(p)
    BY <1>2, RecordAdds DEF Recording, KernelBasics
  <2>2. Switches' = Switches /\ \A p \in Switches : Event(p)' = Event(p)
    BY <1>2, <2>1 DEF Switches
  <2> QED
    BY <2>2, SameSwitches
<1> QED
  BY <1>1, <1>2

(* A switch takes one thread from its CPU and brings another one.          *)
LEMMA SwitchSchedules ==
    ASSUME KernelBasics, Scheduling, NEW c \in Cpus, NEW next \in Tids \ {cur[c]},
           next = Idle \/ \A d \in Cpus : cur[d] # next,
           Settled(cur[c]), Settled(next), cur' = [cur EXCEPT ![c] = next],
           Recording(c, [kind |-> "switch", cpu |-> c, at |-> now, prev |-> cur[c], next |-> next])
    PROVE  Scheduling'
<1> PICK a : a = cur[c]
  OBVIOUS
<1> PICK e : e = [kind |-> "switch", cpu |-> c, at |-> now, prev |-> a, next |-> next]
  OBVIOUS
<1>1. PICK new : /\ new = <<c, Len(streams[c]) + 1>>
                 /\ Recorded' = Recorded \cup {new} /\ new \notin Recorded
                 /\ Event(new)' = e /\ \A p \in Recorded : Event(p)' = Event(p)
                 /\ \A p \in Recorded : p[1] = c => p[2] < new[2] /\ Event(p).at < now
  BY RecordAdds DEF Recording, KernelBasics
<1>2. e.kind = "switch" /\ e.at = now /\ e.prev = a /\ e.next = next /\ now \in Nat /\ new[1] = c
  BY <1>1 DEF KernelBasics, KernelTypes
<1>3. a \in Tids /\ next \in Tids /\ a # next /\ cur'[c] = next /\ (\A d \in Cpus \ {c} : cur'[d] = cur[d])
  BY DEF KernelBasics, KernelTypes
<1>4. Switches' = Switches \cup {new} /\ new \notin Switches
  BY <1>1, <1>2 DEF Switches
<1>5. \A p \in Switches : /\ Event(p)' = Event(p) /\ Event(p).at \in Nat /\ Event(p).at <= now
                          /\ p[1] \in Cpus /\ p[2] \in Nat
  BY <1>1, SwitchTypes
<1>6. \A t : SwitchesOf(t)' = SwitchesOf(t) \cup (IF t = a \/ t = next THEN {new} ELSE {})
  BY <1>1, <1>2, <1>4, <1>5 DEF SwitchesOf
<1>7. \A t : SwitchesOf(t) \subseteq Switches
  BY DEF SwitchesOf
<1>8. \A t \in Threads : t = a \/ t = next => \A p \in SwitchesOf(t) : Event(p).at < now
  <2> SUFFICES ASSUME NEW t \in Threads, t = a \/ t = next, NEW p \in SwitchesOf(t)
               PROVE  Event(p).at < now
    OBVIOUS
  <2>1. p \in Recorded /\ Event(p).kind = "switch" /\ t \in {Event(p).prev, Event(p).next} /\ t # Idle
    BY KernelTraceAssumption DEF SwitchesOf, Switches
  <2> QED
    BY <2>1 DEF Settled
<1>9. \A d \in Cpus \ {c} : a # Idle => cur[d] # a
  BY DEF Scheduling, OneCpuEach
<1>10. OneCpuEach'
  BY <1>3 DEF Scheduling, OneCpuEach
<1>11. SwitchesApart'
  <2>1. \A p \in Switches' : Event(p)'.prev # Event(p)'.next
    BY <1>1, <1>2, <1>3, <1>4, <1>5 DEF Scheduling, SwitchesApart
  <2>2. ASSUME NEW t \in Threads, NEW p \in SwitchesOf(t)', NEW q \in SwitchesOf(t)', p # q
        PROVE  Event(p)'.at # Event(q)'.at
    <3>1. CASE p \in SwitchesOf(t) /\ q \in SwitchesOf(t)
      BY <1>5, <1>7, <2>2, <3>1 DEF Scheduling, SwitchesApart
    <3>2. CASE p \in SwitchesOf(t) /\ q = new /\ (t = a \/ t = next)
      <4>1. Event(p)' = Event(p) /\ Event(p).at < now /\ Event(p).at \in Nat /\ Event(q)'.at = now
        BY <1>1, <1>2, <1>5, <1>7, <1>8, <3>2
      <4> QED
        BY <4>1, <1>2
    <3>3. CASE q \in SwitchesOf(t) /\ p = new /\ (t = a \/ t = next)
      <4>1. Event(q)' = Event(q) /\ Event(q).at < now /\ Event(q).at \in Nat /\ Event(p)'.at = now
        BY <1>1, <1>2, <1>5, <1>7, <1>8, <3>3
      <4> QED
        BY <4>1, <1>2
    <3> QED
      BY <1>6, <2>2, <3>1, <3>2, <3>3
  <2> QED
    BY <2>1, <2>2 DEF SwitchesApart
<1>12. \A p \in Switches : LastSwitch(p)' <=> LastSwitch(p) /\ p[1] # c
  <2> SUFFICES ASSUME NEW p \in Switches PROVE LastSwitch(p)' <=> LastSwitch(p) /\ p[1] # c
    OBVIOUS
  <2>1. p[1] = c => p[2] < new[2] /\ ~(new[2] <= p[2])
    <3> SUFFICES ASSUME p[1] = c PROVE p[2] < new[2] /\ ~(new[2] <= p[2])
      OBVIOUS
    <3>1. p \in Recorded /\ p[2] \in Nat
      BY <1>5 DEF Switches
    <3>2. new[2] \in Nat
      <4>1. streams[c] \in Seq(KernelEvents)
        BY DEF KernelBasics, KernelTypes
      <4> QED
        BY <1>1, <4>1
    <3>3. p[2] < new[2]
      BY <1>1, <3>1
    <3> QED
      BY <3>1, <3>2, <3>3
  <2> QED
    BY <1>2, <1>4, <2>1 DEF LastSwitch
<1>13. LastSwitch(new)'
  <2>1. \A q \in Switches : q[1] = c => q[2] <= new[2]
    <3> SUFFICES ASSUME NEW q \in Switches, q[1] = c PROVE q[2] <= new[2]
      OBVIOUS
    <3>1. q[2] < new[2] /\ q[2] \in Nat
      BY <1>1, <1>5 DEF Switches
    <3>2. new[2] \in Nat
      <4>1. streams[c] \in Seq(KernelEvents)
        BY DEF KernelBasics, KernelTypes
      <4> QED
        BY <1>1, <4>1
    <3> QED
      BY <3>1, <3>2
  <2>2. new[2] <= new[2]
    <3>1. streams[c] \in Seq(KernelEvents)
      BY DEF KernelBasics, KernelTypes
    <3> QED
      BY <1>1, <3>1
  <2> QED
    BY <1>2, <1>4, <2>1, <2>2 DEF LastSwitch
<1>14. Placed'
  <2> SUFFICES ASSUME NEW t \in Threads, NEW p \in SwitchesOf(t)', Latest(t, p)'
               PROVE  /\ Event(p)'.next = t => cur'[p[1]] = t /\ LastSwitch(p)'
                      /\ Event(p)'.prev = t => \A d \in Cpus : cur'[d] # t
    BY DEF Placed
  <2>1. CASE t = a \/ t = next
    <3>1. p = new
      <4> SUFFICES ASSUME p # new PROVE FALSE
        OBVIOUS
      <4>1. p \in SwitchesOf(t) /\ new \in SwitchesOf(t)'
        BY <1>6, <2>1
      <4>2. Event(p).at < now /\ Event(p)' = Event(p) /\ Event(p).at \in Nat
        BY <1>5, <1>7, <1>8, <2>1, <4>1
      <4>3. Event(new)'.at <= Event(p)'.at
        BY <4>1 DEF Latest
      <4> QED
        BY <1>1, <1>2, <4>2, <4>3
    <3>2. t # Idle
      BY KernelTraceAssumption
    <3> QED
      BY <1>1, <1>2, <1>3, <1>9, <1>13, <2>1, <3>1, <3>2
  <2>2. CASE ~(t = a \/ t = next)
    <3>1. p \in SwitchesOf(t) /\ SwitchesOf(t)' = SwitchesOf(t)
      BY <1>6, <2>2
    <3>2. p \in Switches /\ Event(p)' = Event(p) /\ p[1] \in Cpus
      BY <1>5, <1>7, <3>1
    <3>3. Latest(t, p)
      BY <1>5, <1>7, <3>1 DEF Latest
    <3>4. /\ Event(p).next = t => cur[p[1]] = t /\ LastSwitch(p)
          /\ Event(p).prev = t => \A d \in Cpus : cur[d] # t
      BY <3>1, <3>3 DEF Scheduling, Placed
    <3> QED
      BY <1>3, <1>12, <2>2, <3>2, <3>4
  <2> QED
    BY <2>1, <2>2
<1>15. Seated'
  <2>1. ASSUME NEW p \in Switches', LastSwitch(p)'
        PROVE  cur'[p[1]] = Event(p)'.next
    <3>1. CASE p = new
      BY <1>1, <1>2, <1>3, <3>1
    <3>2. CASE p \in Switches
      BY <1>3, <1>5, <1>12, <2>1, <3>2 DEF Scheduling, Seated
    <3> QED
      BY <1>4, <3>1, <3>2
  <2>2. ASSUME NEW d \in Cpus, NEW t \in Threads, cur'[d] = t, \A p \in Switches' : p[1] # d
        PROVE  SwitchesOf(t)' = {}
    <3>1. d # c
      BY <1>2, <1>4, <2>2
    <3>2. cur[d] = t /\ \A p \in Switches : p[1] # d
      BY <1>3, <1>4, <2>2, <3>1
    <3>3. SwitchesOf(t) = {}
      BY <3>2 DEF Scheduling, Seated
    <3>4. t # a /\ t # next
      <4>1. t # Idle
        BY KernelTraceAssumption
      <4> QED
        BY <1>9, <3>1, <3>2, <4>1
    <3> QED
      BY <1>6, <3>3, <3>4
  <2> QED
    BY <2>1, <2>2 DEF Seated
<1>16. Alternating'
  <2> SUFFICES ASSUME NEW t \in Threads, NEW r \in SwitchesOf(t)', NEW q \in SwitchesOf(t)',
                      Previous(t, r, q)'
               PROVE  /\ Event(q)'.prev = t => r[1] = q[1] /\ Event(r)'.next = t /\ NoneBetween(r, q)'
                      /\ Event(q)'.next = t => Event(r)'.prev = t
    BY DEF Alternating
  <2>1. Event(r)'.at < Event(q)'.at
    BY DEF Previous
  <2>2. r # new
    <3> SUFFICES ASSUME r = new PROVE FALSE
      OBVIOUS
    <3>1. q = new \/ q \in Switches
      BY <1>6, <1>7
    <3>2. Event(r)'.at = now /\ Event(q)'.at \in Nat /\ Event(q)'.at <= now
      BY <1>1, <1>2, <1>5, <3>1
    <3> QED
      BY <1>2, <2>1, <3>2
  <2>3. r \in SwitchesOf(t) /\ Event(r)' = Event(r) /\ r \in Switches /\ Event(r).at \in Nat /\ Event(r).at <= now
        /\ r[1] \in Cpus
    BY <1>5, <1>6, <1>7, <2>2
  <2>4. CASE q # new
    <3>1. q \in SwitchesOf(t) /\ Event(q)' = Event(q) /\ q \in Switches /\ Event(q).at \in Nat /\ Event(q).at <= now
          /\ q[1] \in Cpus /\ q[2] \in Nat
      BY <1>5, <1>6, <1>7, <2>4
    <3>2. Previous(t, r, q)
      <4>1. \A s \in SwitchesOf(t) : s \in SwitchesOf(t)' /\ Event(s)' = Event(s)
        BY <1>5, <1>6, <1>7
      <4> QED
        BY <2>1, <2>3, <3>1, <4>1 DEF Previous
    <3>3. /\ Event(q).prev = t => r[1] = q[1] /\ Event(r).next = t /\ NoneBetween(r, q)
          /\ Event(q).next = t => Event(r).prev = t
      BY <2>3, <3>1, <3>2 DEF Scheduling, Alternating
    <3>4. NoneBetween(r, q) => NoneBetween(r, q)'
      <4>1. q[1] = c => ~(new[2] < q[2])
        <5> SUFFICES ASSUME q[1] = c PROVE ~(new[2] < q[2])
          OBVIOUS
        <5>1. q[2] < new[2] /\ q[2] \in Nat
          BY <1>1, <3>1 DEF Switches
        <5>2. new[2] \in Nat
          <6>1. streams[c] \in Seq(KernelEvents)
            BY DEF KernelBasics, KernelTypes
          <6> QED
            BY <1>1, <6>1
        <5> QED
          BY <5>1, <5>2
      <4> QED
        BY <1>2, <1>4, <4>1 DEF NoneBetween
    <3> QED
      BY <2>3, <3>1, <3>3, <3>4
  <2>5. CASE q = new
    <3>1. (t = a \/ t = next) /\ t # Idle
      BY <1>4, <1>6, <1>7, <2>5, KernelTraceAssumption
    <3>2. Latest(t, r)
      <4> SUFFICES ASSUME NEW s \in SwitchesOf(t) PROVE Event(s).at <= Event(r).at
        BY <2>3 DEF Latest
      <4>1. s \in SwitchesOf(t)' /\ Event(s)' = Event(s) /\ Event(s).at \in Nat /\ Event(s).at < now
        BY <1>5, <1>6, <1>7, <1>8, <3>1
      <4>2. ~(Event(r).at < Event(s).at /\ Event(s).at < now)
        BY <1>1, <1>2, <2>3, <2>5, <4>1 DEF Previous
      <4> QED
        BY <2>3, <4>1, <4>2
    <3>3. /\ Event(r).next = t => cur[r[1]] = t /\ LastSwitch(r)
          /\ Event(r).prev = t => \A d \in Cpus : cur[d] # t
      BY <2>3, <3>2 DEF Scheduling, Placed
    <3>4. Event(r).prev = t \/ Event(r).next = t
      BY <2>3 DEF SwitchesOf
    <3>5. Event(q)'.prev = a /\ Event(q)'.next = next /\ q[1] = c
      BY <1>1, <1>2, <2>5
    <3>6. CASE t = a
      <4>1. Event(r).next = t /\ r[1] = c /\ LastSwitch(r)
        BY <1>9, <2>3, <3>1, <3>3, <3>4, <3>6
      <4>2. NoneBetween(r, q)'
        <5> SUFFICES ASSUME NEW s \in Switches', s[1] = c PROVE ~(r[2] < s[2] /\ s[2] < new[2])
          BY <2>5, <3>5 DEF NoneBetween
        <5>1. CASE s = new
          <6>1. new[2] \in Nat
            <7>1. streams[c] \in Seq(KernelEvents)
              BY DEF KernelBasics, KernelTypes
            <7> QED
              BY <1>1, <7>1
          <6> QED
            BY <5>1, <6>1
        <5>2. CASE s \in Switches
          <6>1. s[2] <= r[2] /\ s[2] \in Nat /\ r[2] \in Nat
            BY <1>5, <2>3, <4>1, <5>2 DEF LastSwitch
          <6> QED
            BY <6>1
        <5> QED
          BY <1>4, <5>1, <5>2
      <4> QED
        BY <1>3, <2>3, <3>5, <3>6, <4>1, <4>2
    <3>7. CASE t = next
      <4>1. \A d \in Cpus : cur[d] # t
        BY <3>1, <3>7
      <4>2. Event(r).prev = t
        BY <2>3, <3>3, <3>4, <4>1
      <4> QED
        BY <1>3, <2>3, <3>5, <3>7, <4>2
    <3> QED
      BY <3>1, <3>6, <3>7
  <2> QED
    BY <2>4, <2>5
<1> QED
  BY <1>10, <1>11, <1>14, <1>15, <1>16 DEF Scheduling

LEMMA SchedulingInit == KernelInit => SchedulingInv
<1> SUFFICES ASSUME KernelInit PROVE SchedulingInv
  OBVIOUS
<1>1. Recorded = {}
  BY DEF KernelInit, Recorded
<1>2. Switches = {} /\ \A t : SwitchesOf(t) = {}
  BY <1>1 DEF Switches, SwitchesOf
<1>3. OneCpuEach
  BY DEF KernelInit, OneCpuEach
<1>4. Scheduling
  BY <1>2, <1>3 DEF Scheduling, SwitchesApart, Placed, Seated, Alternating
<1> QED
  BY <1>4, KernelBasicsInit DEF SchedulingInv

LEMMA SchedulingKept == SchedulingInv /\ [KernelNext]_kernelVars => SchedulingInv'
<1> SUFFICES ASSUME SchedulingInv, [KernelNext]_kernelVars PROVE SchedulingInv'
  OBVIOUS
<1>1. KernelBasics /\ KernelBasics' /\ lost \in Nat /\ lost' \in Nat
  BY KernelBasicsKept DEF SchedulingInv, KernelBasics, KernelTypes
<1>2. lost' = 0 => lost = 0 /\ lost' = lost
  <2>1. lost' = lost \/ lost' = lost + 1
    <3>1. \A c \in Cpus : \A e : Emit(c, e) => lost' = lost \/ lost' = lost + 1
      BY DEF Emit, Record, Discard
    <3>2. ASSUME NEW c \in Cpus, Switch(c) \/ Mark(c) \/ FutexEntry(c) \/ FutexExit(c)
          PROVE  lost' = lost \/ lost' = lost + 1
      <4>1. CASE Switch(c)
        BY <3>1, <4>1 DEF Switch
      <4>2. CASE Mark(c)
        BY <4>2 DEF Mark, Record
      <4>3. CASE FutexEntry(c)
        BY <3>1, <4>3 DEF FutexEntry
      <4>4. CASE FutexExit(c)
        BY <3>1, <4>4 DEF FutexExit
      <4> QED
        BY <3>2, <4>1, <4>2, <4>3, <4>4
    <3> QED
      BY <3>2 DEF KernelNext, kernelVars, Tick
  <2> QED
    BY <1>1, <2>1
<1> SUFFICES ASSUME lost' = 0 PROVE Scheduling'
  BY <1>1 DEF SchedulingInv
<1>3. Scheduling /\ lost' = lost /\ lost' # lost + 1
  BY <1>1, <1>2 DEF SchedulingInv
<1>4. CASE UNCHANGED kernelVars
  BY <1>1, <1>3, <1>4, OtherEvents DEF kernelVars
<1>5. CASE Tick
  BY <1>1, <1>3, <1>5, OtherEvents DEF Tick
<1>6. ASSUME NEW c \in Cpus, Switch(c)
      PROVE  Scheduling'
  <2>1. PICK next \in Tids \ {cur[c]} :
              /\ next = Idle \/ \A d \in Cpus : cur[d] # next
              /\ Settled(cur[c]) /\ Settled(next)
              /\ cur' = [cur EXCEPT ![c] = next]
              /\ \/ /\ Recording(c, [kind |-> "switch", cpu |-> c, at |-> now, prev |-> cur[c], next |-> next])
                    /\ lost' = lost
                 \/ streams' = streams /\ lost' = lost + 1
    BY <1>1, <1>6, SwitchIs
  <2> QED
    BY <1>1, <1>3, <2>1, SwitchSchedules
<1>7. ASSUME NEW c \in Cpus, Mark(c)
      PROVE  Scheduling'
  <2>1. cur' = cur /\ Recording(c, [kind |-> "mark", cpu |-> c, at |-> now])
    BY <1>1, <1>7, MarkIs
  <2>2. [kind |-> "mark", cpu |-> c, at |-> now].kind # "switch"
    OBVIOUS
  <2> QED
    BY <1>1, <1>3, <2>1, <2>2, OtherEvents
<1>8. ASSUME NEW c \in Cpus, FutexEntry(c)
      PROVE  Scheduling'
  <2>1. PICK kind \in {"wait", "wake"} :
              cur' = cur /\ Recording(c, [kind |-> "entry", cpu |-> c, at |-> now, wait |-> kind = "wait"])
    BY <1>1, <1>3, <1>8, FutexEntryIs
  <2>2. [kind |-> "entry", cpu |-> c, at |-> now, wait |-> kind = "wait"].kind # "switch"
    OBVIOUS
  <2> QED
    BY <1>1, <1>3, <2>1, <2>2, OtherEvents
<1>9. ASSUME NEW c \in Cpus, FutexExit(c)
      PROVE  Scheduling'
  <2>1. cur' = cur /\ Recording(c, [kind |-> "exit", cpu |-> c, at |-> now])
    BY <1>1, <1>3, <1>9, FutexExitIs
  <2>2. [kind |-> "exit", cpu |-> c, at |-> now].kind # "switch"
    OBVIOUS
  <2> QED
    BY <1>1, <1>3, <2>1, <2>2, OtherEvents
<1> QED
  BY <1>4, <1>5, <1>6, <1>7, <1>8, <1>9 DEF KernelNext

(* The same facts, told of the lines of the merged session.                *)
SwitchAt(i) == Merged[i].kind = "switch"
SwitchOn(c, i) == SwitchAt(i) /\ Merged[i].cpu = c
SwitchBy(t, i) == SwitchAt(i) /\ t \in {Merged[i].prev, Merged[i].next}
Consecutive(t, j, k) ==
    /\ j \in 1 .. Len(Merged) /\ k \in 1 .. Len(Merged) /\ j < k
    /\ SwitchBy(t, j) /\ SwitchBy(t, k)
    /\ \A i \in 1 .. Len(Merged) : j < i /\ i < k => ~SwitchBy(t, i)

(* A set of lines has a last one.                                          *)
LEMMA LastExists ==
    ASSUME NEW n \in Nat, NEW T, T \subseteq 1 .. n, T # {}
    PROVE  \E x \in T : \A y \in T : y <= x
<1> DEFINE D == {n - x : x \in T}
<1>1. D \subseteq Nat /\ D # {}
  <2>1. \A x \in T : x \in 1 .. n
    OBVIOUS
  <2>2. \A x \in 1 .. n : n - x \in Nat
    OBVIOUS
  <2> QED
    BY <2>1, <2>2
<1>2. \E d \in D : \A f \in D : d <= f
  <2> HIDE DEF D
  <2> QED
    BY <1>1, LeastExists
<1>3. PICK d \in D : \A f \in D : d <= f
  BY <1>2
<1>4. PICK x \in T : d = n - x
  BY <1>3
<1>5. ASSUME NEW y \in T PROVE y <= x
  <2>1. n - y \in D
    OBVIOUS
  <2>2. n - x <= n - y
    BY <1>3, <1>4, <2>1
  <2>3. x \in Nat /\ y \in Nat
    OBVIOUS
  <2> QED
    BY <2>2, <2>3
<1> QED
  BY <1>5

LEMMA LinesOf ==
    ASSUME KernelBasics
    PROVE  /\ \A i \in 1 .. Len(Merged) : /\ Order[i] \in Recorded /\ Merged[i] = Event(Order[i])
                                          /\ Merged[i].cpu = Order[i][1] /\ Merged[i].at \in Nat
                                          /\ SwitchAt(i) <=> Order[i] \in Switches
                                          /\ \A t : SwitchBy(t, i) <=> Order[i] \in SwitchesOf(t)
           /\ \A i, j \in 1 .. Len(Merged) : i # j => Order[i] # Order[j]
           /\ Len(Merged) \in Nat
<1>1. \A i \in 1 .. Len(Merged) : Order[i] \in Recorded /\ Merged[i] = Event(Order[i])
  BY MergedIs
<1>2. \A i \in 1 .. Len(Merged) : Merged[i].cpu = Order[i][1] /\ Merged[i].at \in Nat
  BY <1>1, EventTypes
<1>3. \A i \in 1 .. Len(Merged) : SwitchAt(i) <=> Order[i] \in Switches
  BY <1>1 DEF SwitchAt, Switches
<1>4. \A i \in 1 .. Len(Merged) : \A t : SwitchBy(t, i) <=> Order[i] \in SwitchesOf(t)
  BY <1>1, <1>3 DEF SwitchBy, SwitchesOf
<1>5. Len(Merged) \in Nat
  BY MergedIs
<1>6. ASSUME NEW i \in 1 .. Len(Merged), NEW j \in 1 .. Len(Merged), i # j
      PROVE  Order[i] # Order[j]
  <2>1. i < j \/ j < i
    BY <1>5, <1>6
  <2>2. Earlier(Order[i], Order[j]) \/ Earlier(Order[j], Order[i])
    BY <2>1, MergedIs
  <2>3. ~Earlier(Order[i], Order[i])
    BY <1>1, EarlierOrders
  <2> QED
    BY <2>2, <2>3
<1> QED
  BY <1>1, <1>2, <1>3, <1>4, <1>5, <1>6

LEMMA LinesApart ==
    ASSUME KernelBasics, Scheduling, NEW t \in Threads, NEW i \in 1 .. Len(Merged), NEW j \in 1 .. Len(Merged),
           i < j, SwitchBy(t, i), SwitchBy(t, j)
    PROVE  Merged[i].at < Merged[j].at
<1>1. Order[i] \in SwitchesOf(t) /\ Order[j] \in SwitchesOf(t) /\ Order[i] # Order[j]
  BY LinesOf
<1>2. Event(Order[i]).at # Event(Order[j]).at
  BY <1>1 DEF Scheduling, SwitchesApart
<1>3. Merged[i].at <= Merged[j].at /\ Merged[i].at \in Nat /\ Merged[j].at \in Nat
  BY MergedIsSorted
<1> QED
  BY <1>2, <1>3, LinesOf

LEMMA LinesAlternate ==
    ASSUME KernelBasics, Scheduling, NEW t \in Threads, NEW j, NEW k, Consecutive(t, j, k)
    PROVE  /\ Merged[k].prev = t => /\ Merged[j].cpu = Merged[k].cpu /\ Merged[j].next = t
                                    /\ \A i \in 1 .. Len(Merged) : j < i /\ i < k => ~SwitchOn(Merged[k].cpu, i)
           /\ Merged[k].next = t => Merged[j].prev = t
<1>1. /\ j \in 1 .. Len(Merged) /\ k \in 1 .. Len(Merged) /\ j < k /\ j \in Nat /\ k \in Nat
      /\ SwitchBy(t, j) /\ SwitchBy(t, k)
      /\ \A i \in 1 .. Len(Merged) : j < i /\ i < k => ~SwitchBy(t, i)
  BY DEF Consecutive
<1> DEFINE r == Order[j]
           q == Order[k]
<1>2. /\ r \in SwitchesOf(t) /\ q \in SwitchesOf(t) /\ Event(r) = Merged[j] /\ Event(q) = Merged[k]
      /\ r[1] = Merged[j].cpu /\ q[1] = Merged[k].cpu
  BY <1>1, LinesOf
<1>3. Event(r).at < Event(q).at
  BY <1>1, <1>2, LinesApart
<1>4. Previous(t, r, q)
  <2> SUFFICES ASSUME NEW s \in SwitchesOf(t), Event(r).at < Event(s).at, Event(s).at < Event(q).at
               PROVE  FALSE
    BY <1>2, <1>3 DEF Previous
  <2>1. s \in Recorded
    BY DEF SwitchesOf, Switches
  <2>2. PICK x \in 1 .. Len(Merged) : Order[x] = s
    BY <2>1, MergedIs
  <2>3. SwitchBy(t, x) /\ Merged[x].at = Event(s).at
    BY <2>2, LinesOf
  <2>4. /\ Merged[j].at \in Nat /\ Merged[k].at \in Nat /\ Merged[x].at \in Nat
        /\ Merged[j].at < Merged[x].at /\ Merged[x].at < Merged[k].at /\ x \in Nat
    BY <1>1, <1>2, <2>3, MergedIsSorted
  <2>5. j < x
    <3>1. ~(x < j) /\ x # j
      <4>1. x < j => Merged[x].at <= Merged[j].at
        BY <1>1, MergedIsSorted
      <4> QED
        BY <2>4, <4>1
    <3> QED
      BY <1>1, <2>4, <3>1
  <2>6. x < k
    <3>1. ~(k < x) /\ x # k
      <4>1. k < x => Merged[k].at <= Merged[x].at
        BY <1>1, MergedIsSorted
      <4> QED
        BY <2>4, <4>1
    <3> QED
      BY <1>1, <2>4, <3>1
  <2> QED
    BY <1>1, <2>3, <2>5, <2>6
<1>5. /\ Event(q).prev = t => r[1] = q[1] /\ Event(r).next = t /\ NoneBetween(r, q)
      /\ Event(q).next = t => Event(r).prev = t
  BY <1>2, <1>4 DEF Scheduling, Alternating
<1>6. ASSUME Event(q).prev = t, NEW i \in 1 .. Len(Merged), j < i, i < k, SwitchOn(Merged[k].cpu, i)
      PROVE  FALSE
  <2> DEFINE s == Order[i]
  <2>1. /\ s \in Switches /\ s \in Recorded /\ r \in Recorded /\ q \in Recorded /\ s[1] = q[1] /\ r[1] = q[1]
        /\ r # s /\ s # q /\ Event(s) = Merged[i] /\ Merged[i].cpu = Merged[k].cpu /\ Merged[j].cpu = Merged[k].cpu
    BY <1>1, <1>2, <1>5, <1>6, LinesOf DEF SwitchOn, SwitchesOf, Switches
  <2>2. Merged[j].at < Merged[i].at /\ Merged[i].at < Merged[k].at
    BY <1>1, <1>6, <2>1, MergedIsSorted
  <2>3. Merged[j].at \in Nat /\ Merged[i].at \in Nat /\ Merged[k].at \in Nat
    BY <1>1, MergedIsSorted
  <2>4. r[2] < s[2]
    <3>1. ~(Event(s).at < Event(r).at)
      BY <1>2, <2>1, <2>2, <2>3
    <3> QED
      BY <2>1, <3>1, SameStream
  <2>5. s[2] < q[2]
    <3>1. ~(Event(q).at < Event(s).at)
      BY <1>2, <2>1, <2>2, <2>3
    <3> QED
      BY <2>1, <3>1, SameStream
  <2> QED
    BY <1>5, <1>6, <2>1, <2>4, <2>5 DEF NoneBetween
<1> QED
  BY <1>2, <1>5, <1>6

LEMMA SwitchLine ==
    ASSUME KernelBasics, Scheduling, NEW i \in 1 .. Len(Merged), SwitchAt(i)
    PROVE  /\ Merged[i].cpu \in Cpus /\ Merged[i].prev \in Tids /\ Merged[i].next \in Tids
           /\ Merged[i].prev # Merged[i].next
<1>1. Order[i] \in Switches /\ Merged[i] = Event(Order[i]) /\ Merged[i].cpu = Order[i][1]
  BY LinesOf
<1> QED
  BY <1>1, SwitchTypes DEF Scheduling, SwitchesApart

(* What the sequential parser holds.                                       *)
Rows == [tid : Threads, t0 : Nat, t1 : Nat]
Parsers ==
    [running : [Cpus -> [tid : Tids, at : Nat]], pending : [Tids -> Nat], pendingFx : [Threads -> Nat],
     on : Seq(Rows), off : Seq(Rows), wk : Seq([tid : Threads, ts : Nat]), fx : Seq(Rows), ctx : Seq(Threads)]

LEMMA TidsAre ==
    /\ Idle \in Tids /\ Idle \notin Threads /\ (\A t \in Tids : t # Idle <=> t \in Threads) /\ Idle = 0
  BY KernelTraceAssumption DEF Tids, Idle

LEMMA Start0Types == Start0 \in Parsers
<1>1. Unknown \in [tid : Tids, at : Nat]
  BY TidsAre DEF Unknown
<1>2. [c \in Cpus |-> Unknown] \in [Cpus -> [tid : Tids, at : Nat]]
  BY <1>1
<1>3. [t \in Threads \cup {Idle} |-> NotPending] \in [Tids -> Nat]
  BY DEF Tids, NotPending
<1>4. [t \in Threads |-> NotPending] \in [Threads -> Nat]
  BY DEF NotPending
<1>5. <<>> \in Seq(Rows) /\ <<>> \in Seq([tid : Threads, ts : Nat]) /\ <<>> \in Seq(Threads)
  OBVIOUS
<1> QED
  BY <1>2, <1>3, <1>4, <1>5 DEF Start0, Parsers

(* What a line does to what the sequential parser holds.                   *)
SwitchDoes(p, e, ts) ==
    LET r == p.running[e.cpu]
        isOn == e.prev # Idle /\ r.tid = e.prev
        isOff == e.next # Idle /\ p.pending[e.next] # NotPending
        q == SeqLine(p, e, ts)
    IN e.prev # e.next =>
       /\ q \in Parsers
       /\ q.running = [p.running EXCEPT ![e.cpu] = [tid |-> e.next, at |-> ts]]
       /\ q.pending = [p.pending EXCEPT ![e.prev] = ts, ![e.next] = NotPending]
       /\ q.on = IF isOn THEN Append(p.on, Interval(e.prev, r.at, ts)) ELSE p.on
       /\ q.off = IF isOff THEN Append(p.off, Interval(e.next, p.pending[e.next], ts)) ELSE p.off
       /\ q.pendingFx = p.pendingFx /\ q.fx = p.fx

LEMMA SwitchTakes ==
    ASSUME NEW p \in Parsers, NEW e \in KernelEvents, e.kind = "switch", NEW ts \in Nat
    PROVE  SwitchDoes(p, e, ts)
<1> DEFINE r == p.running[e.cpu]
           isOn == e.prev # Idle /\ r.tid = e.prev
           isOff == e.next # Idle /\ p.pending[e.next] # NotPending
<1> SUFFICES ASSUME e.prev # e.next
             PROVE  /\ SeqLine(p, e, ts) \in Parsers
                    /\ SeqLine(p, e, ts).running = [p.running EXCEPT ![e.cpu] = [tid |-> e.next, at |-> ts]]
                    /\ SeqLine(p, e, ts).pending = [p.pending EXCEPT ![e.prev] = ts, ![e.next] = NotPending]
                    /\ SeqLine(p, e, ts).on = IF isOn THEN Append(p.on, Interval(e.prev, r.at, ts)) ELSE p.on
                    /\ SeqLine(p, e, ts).off = IF isOff THEN Append(p.off, Interval(e.next, p.pending[e.next], ts)) ELSE p.off
                    /\ SeqLine(p, e, ts).pendingFx = p.pendingFx /\ SeqLine(p, e, ts).fx = p.fx
  BY DEF SwitchDoes
<1>1. e.cpu \in Cpus /\ e.prev \in Tids /\ e.next \in Tids
  BY DEF KernelEvents
<1>2. /\ p.running \in [Cpus -> [tid : Tids, at : Nat]] /\ p.pending \in [Tids -> Nat]
      /\ p.pendingFx \in [Threads -> Nat] /\ p.on \in Seq(Rows) /\ p.off \in Seq(Rows)
      /\ p.wk \in Seq([tid : Threads, ts : Nat]) /\ p.fx \in Seq(Rows) /\ p.ctx \in Seq(Threads)
  BY DEF Parsers
<1>3. r \in [tid : Tids, at : Nat] /\ p.pending[e.next] \in Nat
  BY <1>1, <1>2
<1> DEFINE pend == [p.pending EXCEPT ![e.prev] = ts]
           on == IF isOn THEN Append(p.on, Interval(e.prev, r.at, ts)) ELSE p.on
           off == IF isOff THEN Append(p.off, Interval(e.next, p.pending[e.next], ts)) ELSE p.off
           off2 == IF e.next # Idle /\ pend[e.next] # NotPending
                      THEN Append(p.off, Interval(e.next, pend[e.next], ts)) ELSE p.off
           new == [p.running EXCEPT ![e.cpu] = [tid |-> e.next, at |-> ts]]
           ctx == IF e.prev \in ToSet(p.ctx) \cup {Idle} THEN p.ctx ELSE Append(p.ctx, e.prev)
<1>4. pend[e.next] = p.pending[e.next]
  BY <1>1, <1>2
<1>5. SeqLine(p, e, ts) = SeqSwitch(p, e, ts)
  BY DEF SeqLine
<1> DEFINE pend2 == [pend EXCEPT ![e.next] = NotPending]
<1>6. SeqSwitch(p, e, ts) = [p EXCEPT !.ctx = ctx, !.on = on, !.off = off,
                                      !.pending = pend2, !.running = new]
  <2>1. off2 = off
    BY <1>4
  <2>2. SeqSwitch(p, e, ts) = [p EXCEPT !.ctx = ctx, !.on = on, !.off = off2,
                                        !.pending = pend2, !.running[e.cpu] = [tid |-> e.next, at |-> ts]]
    BY DEF SeqSwitch
  <2>3. p = [running |-> p.running, pending |-> p.pending, pendingFx |-> p.pendingFx, on |-> p.on, off |-> p.off,
             wk |-> p.wk, fx |-> p.fx, ctx |-> p.ctx]
    BY DEF Parsers
  <2> HIDE DEF ctx, on, off, off2, pend2
  <2>4. [p EXCEPT !.running[e.cpu] = [tid |-> e.next, at |-> ts]] = [p EXCEPT !.running = new]
    BY <2>3
  <2> QED
    BY <2>1, <2>2, <2>3, <2>4
<1>7. on \in Seq(Rows)
  <2>1. isOn => Interval(e.prev, r.at, ts) \in Rows
    BY <1>1, <1>3, TidsAre DEF Interval, Rows
  <2> QED
    BY <1>2, <2>1
<1>8. off \in Seq(Rows)
  <2>1. isOff => Interval(e.next, p.pending[e.next], ts) \in Rows
    BY <1>1, <1>3, TidsAre DEF Interval, Rows
  <2> QED
    BY <1>2, <2>1
<1>9. ctx \in Seq(Threads)
  <2>1. e.prev \notin ToSet(p.ctx) \cup {Idle} => e.prev \in Threads
    BY <1>1, TidsAre
  <2> QED
    BY <1>2, <2>1
<1>10. [pend EXCEPT ![e.next] = NotPending] \in [Tids -> Nat]
  BY <1>1, <1>2 DEF NotPending
<1>11. [p.running EXCEPT ![e.cpu] = [tid |-> e.next, at |-> ts]] \in [Cpus -> [tid : Tids, at : Nat]]
  BY <1>1, <1>2
<1>12. [pend EXCEPT ![e.next] = NotPending] = [p.pending EXCEPT ![e.prev] = ts, ![e.next] = NotPending]
  OBVIOUS
<1> HIDE DEF on, off, ctx, pend, pend2, new
<1> DEFINE q == SeqLine(p, e, ts)
<1>a. q = [running |-> new, pending |-> pend2, pendingFx |-> p.pendingFx, on |-> on, off |-> off,
           wk |-> p.wk, fx |-> p.fx, ctx |-> ctx]
  <2>1. p = [running |-> p.running, pending |-> p.pending, pendingFx |-> p.pendingFx, on |-> p.on, off |-> p.off,
             wk |-> p.wk, fx |-> p.fx, ctx |-> p.ctx]
    BY DEF Parsers
  <2> QED
    BY <1>5, <1>6, <2>1
<1>13. SeqLine(p, e, ts) \in Parsers
  BY <1>a, <1>2, <1>7, <1>8, <1>9, <1>10, <1>11 DEF Parsers, new, pend2
<1>14. q.running = new /\ q.pending = pend2 /\ q.on = on /\ q.off = off /\ q.pendingFx = p.pendingFx /\ q.fx = p.fx
  BY <1>a
<1> HIDE DEF q
<1> QED
  BY <1>12, <1>13, <1>14 DEF on, off, pend2, new, q

OthersDo(p, e, ts) ==
    LET r == p.running[e.cpu]
        q == SeqLine(p, e, ts)
    IN /\ q \in Parsers
       /\ q.running = p.running /\ q.pending = p.pending /\ q.on = p.on /\ q.off = p.off
       /\ e.kind = "mark" \/ r.tid = Idle => q.pendingFx = p.pendingFx /\ q.fx = p.fx
       /\ e.kind = "entry" /\ r.tid # Idle =>
             /\ q.pendingFx = [p.pendingFx EXCEPT ![r.tid] = IF e.wait THEN ts ELSE NotPending]
             /\ q.fx = p.fx
       /\ e.kind = "exit" /\ r.tid # Idle =>
             LET began == p.pendingFx[r.tid]
             IN /\ q.pendingFx = [p.pendingFx EXCEPT ![r.tid] = NotPending]
                /\ q.fx = IF began # NotPending /\ ts > began
                            THEN Append(p.fx, Interval(r.tid, began, ts)) ELSE p.fx

LEMMA OthersTake ==
    ASSUME NEW p \in Parsers, NEW e \in KernelEvents, e.kind # "switch", NEW ts \in Nat
    PROVE  OthersDo(p, e, ts)
<1> USE DEF OthersDo
<1> DEFINE r == p.running[e.cpu]
<1>1. e.cpu \in Cpus /\ (e.kind = "mark" \/ e.kind = "entry" \/ e.kind = "exit")
  BY DEF KernelEvents
<1>2. /\ p.running \in [Cpus -> [tid : Tids, at : Nat]] /\ p.pending \in [Tids -> Nat]
      /\ p.pendingFx \in [Threads -> Nat] /\ p.on \in Seq(Rows) /\ p.off \in Seq(Rows)
      /\ p.wk \in Seq([tid : Threads, ts : Nat]) /\ p.fx \in Seq(Rows) /\ p.ctx \in Seq(Threads)
  BY DEF Parsers
<1>3. r \in [tid : Tids, at : Nat]
  BY <1>1, <1>2
<1>4. r.tid = Idle \/ r.tid \in Threads
  BY <1>3, TidsAre
<1>5. CASE r.tid = Idle
  <2>1. SeqLine(p, e, ts) = p
    BY <1>1, <1>5 DEF SeqLine, SeqMark, SeqEntry, SeqExit
  <2> QED
    BY <1>5, <2>1
<1>6. CASE r.tid # Idle /\ e.kind = "mark"
  <2>1. SeqLine(p, e, ts) = [p EXCEPT !.wk = Append(p.wk, [tid |-> r.tid, ts |-> ts])]
    BY <1>6 DEF SeqLine, SeqMark
  <2>2. Append(p.wk, [tid |-> r.tid, ts |-> ts]) \in Seq([tid : Threads, ts : Nat])
    BY <1>2, <1>4, <1>6
  <2> DEFINE wk == Append(p.wk, [tid |-> r.tid, ts |-> ts])
  <2> HIDE DEF wk
  <2>3. SeqLine(p, e, ts) \in Parsers
    BY <2>1, <2>2 DEF Parsers, wk
  <2> QED
    BY <1>6, <2>1, <2>3 DEF Parsers
<1>7. CASE r.tid # Idle /\ e.kind = "entry"
  <2> DEFINE x == IF e.wait THEN ts ELSE NotPending
             fx == [p.pendingFx EXCEPT ![r.tid] = x]
  <2>1. SeqLine(p, e, ts) = [p EXCEPT !.pendingFx = fx]
    BY <1>7 DEF SeqLine, SeqEntry
  <2>2. fx \in [Threads -> Nat]
    BY <1>2, <1>4, <1>7 DEF NotPending
  <2> HIDE DEF fx
  <2>3. SeqLine(p, e, ts) \in Parsers
    BY <2>1, <2>2 DEF Parsers
  <2>4. SeqLine(p, e, ts).pendingFx = fx
    BY <2>1 DEF Parsers
  <2> QED
    BY <1>7, <2>1, <2>3, <2>4 DEF Parsers, fx
<1>8. CASE r.tid # Idle /\ e.kind = "exit"
  <2> DEFINE began == p.pendingFx[r.tid]
             pfx == [p.pendingFx EXCEPT ![r.tid] = NotPending]
             fx == IF began # NotPending /\ ts > began
                      THEN Append(p.fx, Interval(r.tid, began, ts)) ELSE p.fx
  <2>1. SeqLine(p, e, ts) = [p EXCEPT !.pendingFx = pfx, !.fx = fx]
    BY <1>8 DEF SeqLine, SeqExit
  <2>2. pfx \in [Threads -> Nat]
    BY <1>2, <1>4, <1>8 DEF NotPending
  <2>3. fx \in Seq(Rows)
    <3>1. Interval(r.tid, began, ts) \in Rows
      BY <1>2, <1>4, <1>8 DEF Interval, Rows
    <3> QED
      BY <1>2, <3>1
  <2> HIDE DEF fx, pfx
  <2>4. SeqLine(p, e, ts) \in Parsers
    BY <2>1, <2>2, <2>3 DEF Parsers
  <2>5. SeqLine(p, e, ts).pendingFx = pfx /\ SeqLine(p, e, ts).fx = fx
    BY <2>1 DEF Parsers
  <2>6. /\ SeqLine(p, e, ts).running = p.running /\ SeqLine(p, e, ts).pending = p.pending
        /\ SeqLine(p, e, ts).on = p.on /\ SeqLine(p, e, ts).off = p.off
    BY <2>1 DEF Parsers
  <2> QED
    BY <1>8, <2>4, <2>5, <2>6 DEF fx, pfx
<1> QED
  BY <1>1, <1>5, <1>6, <1>7, <1>8

LEMMA LineTypes ==
    ASSUME NEW p \in Parsers, NEW e \in KernelEvents, e.kind = "switch" => e.prev # e.next, NEW ts \in Nat
    PROVE  SeqLine(p, e, ts) \in Parsers
<1>1. CASE e.kind = "switch"
  BY <1>1, SwitchTakes DEF SwitchDoes
<1>2. CASE e.kind # "switch"
  BY <1>2, OthersTake DEF OthersDo
<1> QED
  BY <1>1, <1>2

(* The states of the sequential parser, a line after the other.            *)
Stamp(i) == 1 + Merged[i].at
Reading(b) ==
    /\ b[0] = Start0 /\ Sequential = b[Len(Merged)]
    /\ \A n \in 0 .. Len(Merged) : b[n] \in Parsers
    /\ \A n \in 1 .. Len(Merged) : b[n] = SeqLine(b[n - 1], Merged[n], Stamp(n))

LEMMA SequentialReads ==
    ASSUME KernelBasics, StartsOnItsDay, \A i \in 1 .. Len(Merged) : SwitchAt(i) => Merged[i].prev # Merged[i].next
    PROVE  \E b : Reading(b)
<1> DEFINE N == Len(Merged)
<1>1. N \in Nat /\ \A i \in 1 .. N : Merged[i] \in KernelEvents /\ Merged[i].at \in Nat
  BY MergedIs, MergedIsSorted
<1>2. PICK b : Passes([of |-> "parse"], N, b) /\ Sequential = b[N]
  BY <1>1, SequentialIs
<1>3. b[0] = Start0
  BY <1>1, <1>2 DEF Passes, Begun
<1>4. ASSUME NEW n \in 1 .. N PROVE b[n] = SeqLine(b[n - 1], Merged[n], Stamp(n))
  <2>1. b[n] = Onward([of |-> "parse"], b[n - 1], n)
    BY <1>1, <1>2, PassesOn
  <2>2. SeqStamps(Merged)[n] = Stamp(n)
    BY SeqStampsAre DEF Stamp
  <2> QED
    BY <2>1, <2>2 DEF Onward
<1> DEFINE S == {n \in Nat : n <= N => b[n] \in Parsers}
<1>5. 0 \in S
  BY <1>3, Start0Types
<1>6. ASSUME NEW n \in Nat, n \in S PROVE n + 1 \in S
  <2> SUFFICES ASSUME n + 1 <= N PROVE b[n + 1] \in Parsers
    OBVIOUS
  <2>1. b[n] \in Parsers /\ n + 1 \in 1 .. N /\ (n + 1) - 1 = n
    BY <1>1, <1>6
  <2>2. b[n + 1] = SeqLine(b[n], Merged[n + 1], Stamp(n + 1))
    BY <1>4, <2>1
  <2>3. Merged[n + 1] \in KernelEvents /\ Stamp(n + 1) \in Nat
    BY <1>1, <2>1 DEF Stamp
  <2>4. Merged[n + 1].kind = "switch" => Merged[n + 1].prev # Merged[n + 1].next
    BY <2>1 DEF SwitchAt
  <2> DEFINE e == Merged[n + 1]
             ts == Stamp(n + 1)
             p == b[n]
  <2>5. p \in Parsers /\ e \in KernelEvents /\ ts \in Nat /\ (e.kind = "switch" => e.prev # e.next)
    BY <2>1, <2>3, <2>4
  <2> HIDE DEF e, ts, p
  <2>6. SeqLine(p, e, ts) \in Parsers
    BY <2>5, LineTypes
  <2> QED
    BY <2>2, <2>6 DEF e, ts, p
<1>7. Nat \subseteq S
  <2> HIDE DEF S
  <2> QED
    BY <1>5, <1>6, NatIsInductive
<1>8. \A n \in 0 .. N : b[n] \in Parsers
  BY <1>1, <1>7
<1> HIDE DEF S
<1> QED
  BY <1>2, <1>3, <1>4, <1>8 DEF Reading

(* What the parser knows after n lines.                                    *)
LastOn(c, n, i) == i \in 1 .. n /\ SwitchOn(c, i) /\ \A k \in 1 .. n : i < k => ~SwitchOn(c, k)
LastBy(t, n, i) == i \in 1 .. n /\ SwitchBy(t, i) /\ \A k \in 1 .. n : i < k => ~SwitchBy(t, k)

RunningIs(p, n) ==
    \A c \in Cpus :
       /\ \A i : LastOn(c, n, i) => p.running[c] = [tid |-> Merged[i].next, at |-> Stamp(i)]
       /\ (\A i \in 1 .. n : ~SwitchOn(c, i)) => p.running[c].tid = Idle

PendingIs(p, n) ==
    \A t \in Threads :
       /\ \A i : LastBy(t, n, i) => p.pending[t] = IF Merged[i].prev = t THEN Stamp(i) ELSE NotPending
       /\ (\A i \in 1 .. n : ~SwitchBy(t, i)) => p.pending[t] = NotPending

Tiles(role, t, j, k) == Consecutive(t, j, k) /\ Merged[k][role] = t
Tile(t, j, k) == Interval(t, Stamp(j), Stamp(k))
RowsAre(s, role, n) ==
    /\ s \in Seq(Rows)
    /\ \A i \in 1 .. Len(s) : \E t \in Threads : \E j, k : k <= n /\ Tiles(role, t, j, k) /\ s[i] = Tile(t, j, k)
    /\ \A t \in Threads : \A j, k : k <= n /\ Tiles(role, t, j, k) => \E i \in 1 .. Len(s) : s[i] = Tile(t, j, k)
    /\ \A i, j \in 1 .. Len(s) : s[i] = s[j] => i = j

LEMMA NoRowToday ==
    ASSUME NEW n \in Nat, NEW s, NEW role, RowsAre(s, role, n),
           \A t \in Threads : \A j : ~Tiles(role, t, j, n + 1)
    PROVE  RowsAre(s, role, n + 1)
<1>1. ASSUME NEW t \in Threads, NEW j, NEW k, k <= n + 1, Tiles(role, t, j, k) PROVE k <= n
  <2>1. k \in Nat
    BY <1>1 DEF Tiles, Consecutive
  <2>2. k # n + 1
    BY <1>1
  <2> QED
    BY <1>1, <2>1, <2>2
<1>2. \A t \in Threads : \A j, k : k <= n /\ Tiles(role, t, j, k) => k <= n + 1
  <2> SUFFICES ASSUME NEW t \in Threads, NEW j, NEW k, k <= n, Tiles(role, t, j, k) PROVE k <= n + 1
    OBVIOUS
  <2>1. k \in Nat
    BY DEF Tiles, Consecutive
  <2> QED
    BY <2>1
<1>3. \A i \in 1 .. Len(s) : \E t \in Threads : \E j, k : k <= n + 1 /\ Tiles(role, t, j, k) /\ s[i] = Tile(t, j, k)
  BY <1>2 DEF RowsAre
<1>4. \A t \in Threads : \A j, k : k <= n + 1 /\ Tiles(role, t, j, k) => \E i \in 1 .. Len(s) : s[i] = Tile(t, j, k)
  BY <1>1 DEF RowsAre
<1> QED
  BY <1>3, <1>4 DEF RowsAre

LEMMA OneRowMore ==
    ASSUME KernelBasics, Scheduling, NEW n \in Nat, n + 1 <= Len(Merged), NEW s, NEW role, RowsAre(s, role, n),
           NEW t \in Threads, NEW j, Tiles(role, t, j, n + 1)
    PROVE  RowsAre(Append(s, Tile(t, j, n + 1)), role, n + 1)
<1> DEFINE new == Tile(t, j, n + 1)
           s2 == Append(s, new)
           M == Len(s)
<1>1. /\ s \in Seq(Rows) /\ M \in Nat
      /\ \A i \in 1 .. M : \E u \in Threads : \E x, k : k <= n /\ Tiles(role, u, x, k) /\ s[i] = Tile(u, x, k)
      /\ \A u \in Threads : \A x, k : k <= n /\ Tiles(role, u, x, k) => \E i \in 1 .. M : s[i] = Tile(u, x, k)
      /\ \A i, x \in 1 .. M : s[i] = s[x] => i = x
  BY DEF RowsAre
<1>2. j \in 1 .. Len(Merged) /\ n + 1 \in 1 .. Len(Merged) /\ j < n + 1 /\ SwitchBy(t, j) /\ SwitchBy(t, n + 1)
  BY DEF Tiles, Consecutive
<1>3. new \in Rows
  BY <1>2, MergedIsSorted DEF Tile, Interval, Stamp, Rows
<1>4. /\ s2 \in Seq(Rows) /\ Len(s2) = M + 1 /\ s2[M + 1] = new
      /\ \A i \in 1 .. M : s2[i] = s[i]
  BY <1>1, <1>3
<1> HIDE DEF s2, new, M
<1>5. ASSUME NEW i \in 1 .. M PROVE s[i] # new
  <2>1. PICK u, x, k : u \in Threads /\ k <= n /\ Tiles(role, u, x, k) /\ s[i] = Tile(u, x, k)
    BY <1>1
  <2>2. k \in 1 .. Len(Merged) /\ SwitchBy(u, k) /\ k < n + 1
    BY <2>1 DEF Tiles, Consecutive
  <2> SUFFICES ASSUME Tile(u, x, k) = Tile(t, j, n + 1) PROVE FALSE
    BY <2>1 DEF new
  <2>3. u = t /\ Stamp(k) = Stamp(n + 1)
    BY DEF Tile, Interval
  <2>4. Merged[k].at < Merged[n + 1].at
    BY <1>2, <2>2, <2>3, LinesApart
  <2> QED
    BY <1>2, <2>2, <2>3, <2>4, MergedIsSorted DEF Stamp
<1>6. ASSUME NEW i \in 1 .. M + 1
      PROVE  \E u \in Threads : \E x, k : k <= n + 1 /\ Tiles(role, u, x, k) /\ s2[i] = Tile(u, x, k)
  <2>1. CASE i = M + 1
    BY <1>4, <2>1 DEF new
  <2>2. CASE i # M + 1
    <3>1. i \in 1 .. M
      BY <1>1, <2>2
    <3>2. PICK u, x, k : u \in Threads /\ k <= n /\ Tiles(role, u, x, k) /\ s[i] = Tile(u, x, k)
      BY <1>1, <3>1
    <3>3. k \in Nat
      BY <3>2 DEF Tiles, Consecutive
    <3>4. k <= n + 1
      BY <3>2, <3>3
    <3> QED
      BY <1>4, <3>1, <3>2, <3>4
  <2> QED
    BY <2>1, <2>2
<1>7. ASSUME NEW u \in Threads, NEW x, NEW k, k <= n + 1, Tiles(role, u, x, k)
      PROVE  \E i \in 1 .. M + 1 : s2[i] = Tile(u, x, k)
  <2>1. k \in Nat /\ x \in 1 .. Len(Merged) /\ x < k /\ SwitchBy(u, x) /\ SwitchBy(u, k)
    BY <1>7 DEF Tiles, Consecutive
  <2>2. CASE k <= n
    <3>1. PICK i \in 1 .. M : s[i] = Tile(u, x, k)
      BY <1>1, <1>7, <2>2
    <3> QED
      BY <1>1, <1>4, <3>1
  <2>3. CASE ~(k <= n)
    <3>1. k = n + 1
      BY <1>7, <2>1, <2>3
    <3>2. u = t
      BY <1>7, <3>1 DEF Tiles
    <3>3. x = j
      <4>1. x \in Nat /\ j \in Nat
        BY <1>2, <2>1
      <4>2. ~(x < j)
        BY <1>2, <1>7, <2>1, <3>1, <3>2 DEF Tiles, Consecutive
      <4>3. ~(j < x)
        BY <1>2, <1>7, <2>1, <3>1, <3>2 DEF Tiles, Consecutive
      <4> QED
        BY <4>1, <4>2, <4>3
    <3> QED
      BY <1>1, <1>4, <3>1, <3>2, <3>3 DEF new
  <2> QED
    BY <2>2, <2>3
<1>8. ASSUME NEW i \in 1 .. M + 1, NEW x \in 1 .. M + 1, s2[i] = s2[x] PROVE i = x
  <2>1. (i = M + 1 \/ i \in 1 .. M) /\ (x = M + 1 \/ x \in 1 .. M)
    BY <1>1
  <2>2. ~(i = M + 1 /\ x \in 1 .. M)
    BY <1>4, <1>5, <1>8
  <2>3. ~(x = M + 1 /\ i \in 1 .. M)
    BY <1>4, <1>5, <1>8
  <2>4. i \in 1 .. M /\ x \in 1 .. M => i = x
    BY <1>1, <1>4, <1>8
  <2> QED
    BY <2>1, <2>2, <2>3, <2>4
<1>9. RowsAre(s2, role, n + 1)
  BY <1>4, <1>6, <1>7, <1>8 DEF RowsAre
<1> QED
  BY <1>9 DEF s2, new

Walk(b, n) ==
    /\ RunningIs(b[n], n) /\ PendingIs(b[n], n)
    /\ RowsAre(b[n].on, "prev", n) /\ RowsAre(b[n].off, "next", n)

LEMMA WalkBegins ==
    ASSUME KernelBasics, NEW b, Reading(b)
    PROVE  Walk(b, 0)
<1>1. b[0] = Start0
  BY DEF Reading
<1>2. RunningIs(b[0], 0)
  BY <1>1 DEF RunningIs, LastOn, Start0, Unknown
<1>3. PendingIs(b[0], 0)
  BY <1>1 DEF PendingIs, LastBy, Start0
<1>4. b[0].on = <<>> /\ b[0].off = <<>>
  BY <1>1 DEF Start0
<1>5. ASSUME NEW role PROVE RowsAre(<<>>, role, 0)
  <2>1. \A t \in Threads : \A j, k : Tiles(role, t, j, k) => ~(k <= 0)
    <3> SUFFICES ASSUME NEW t \in Threads, NEW j, NEW k, Tiles(role, t, j, k) PROVE ~(k <= 0)
      OBVIOUS
    <3>1. k \in 1 .. Len(Merged)
      BY DEF Tiles, Consecutive
    <3> QED
      BY <3>1
  <2>2. <<>> \in Seq(Rows) /\ Len(<<>>) = 0
    OBVIOUS
  <2> QED
    BY <2>1, <2>2 DEF RowsAre
<1> QED
  BY <1>2, <1>3, <1>4, <1>5 DEF Walk

(* The last switches, after a line more.                                   *)
LEMMA LastOnGrows ==
    ASSUME NEW n \in Nat, NEW c
    PROVE  /\ SwitchOn(c, n + 1) => \A i : LastOn(c, n + 1, i) <=> i = n + 1
           /\ ~SwitchOn(c, n + 1) => \A i : LastOn(c, n + 1, i) => LastOn(c, n, i)
<1>1. \A i : i \in 1 .. n + 1 <=> i \in 1 .. n \/ i = n + 1
  OBVIOUS
<1>2. \A i \in 1 .. n : i < n + 1
  OBVIOUS
<1>3. ~(n + 1 < n + 1) /\ \A k \in 1 .. n + 1 : ~(n + 1 < k)
  OBVIOUS
<1> QED
  BY <1>1, <1>2, <1>3 DEF LastOn

LEMMA LastByGrows ==
    ASSUME NEW n \in Nat, NEW t
    PROVE  /\ SwitchBy(t, n + 1) => \A i : LastBy(t, n + 1, i) <=> i = n + 1
           /\ ~SwitchBy(t, n + 1) => \A i : LastBy(t, n + 1, i) => LastBy(t, n, i)
<1>1. \A i : i \in 1 .. n + 1 <=> i \in 1 .. n \/ i = n + 1
  OBVIOUS
<1>2. \A i \in 1 .. n : i < n + 1
  OBVIOUS
<1>3. ~(n + 1 < n + 1) /\ \A k \in 1 .. n + 1 : ~(n + 1 < k)
  OBVIOUS
<1> QED
  BY <1>1, <1>2, <1>3 DEF LastBy

LEMMA LastByExists ==
    ASSUME NEW n \in Nat, NEW t, \E i \in 1 .. n : SwitchBy(t, i)
    PROVE  \E i : LastBy(t, n, i)
<1> DEFINE T == {i \in 1 .. n : SwitchBy(t, i)}
<1>1. T \subseteq 1 .. n /\ T # {}
  OBVIOUS
<1>2. PICK x \in T : \A y \in T : y <= x
  <2> HIDE DEF T
  <2> QED
    BY <1>1, LastExists
<1>3. \A k \in 1 .. n : x < k => ~SwitchBy(t, k)
  BY <1>2
<1> QED
  BY <1>2, <1>3 DEF LastBy

(* A line that is not a switch.                                            *)
LEMMA OtherLineKept ==
    ASSUME KernelBasics, NEW b, Reading(b), NEW n \in Nat, n + 1 <= Len(Merged), Walk(b, n), ~SwitchAt(n + 1)
    PROVE  Walk(b, n + 1)
<1>1. n + 1 \in 1 .. Len(Merged) /\ n \in 0 .. Len(Merged) /\ (n + 1) - 1 = n
  BY MergedIs
<1>2. /\ b[n + 1] = SeqLine(b[n], Merged[n + 1], Stamp(n + 1)) /\ b[n] \in Parsers
      /\ Merged[n + 1] \in KernelEvents /\ Stamp(n + 1) \in Nat /\ Merged[n + 1].kind # "switch"
  BY <1>1, MergedIsSorted DEF Reading, Stamp, SwitchAt
<1>3. b[n + 1].running = b[n].running /\ b[n + 1].pending = b[n].pending /\ b[n + 1].on = b[n].on /\ b[n + 1].off = b[n].off
  <2> DEFINE e == Merged[n + 1]
             ts == Stamp(n + 1)
             p == b[n]
  <2>1. p \in Parsers /\ e \in KernelEvents /\ ts \in Nat /\ e.kind # "switch"
    BY <1>2
  <2> HIDE DEF e, ts, p
  <2>2. /\ SeqLine(p, e, ts).running = p.running /\ SeqLine(p, e, ts).pending = p.pending
        /\ SeqLine(p, e, ts).on = p.on /\ SeqLine(p, e, ts).off = p.off
    <3>1. OthersDo(p, e, ts)
      BY <2>1, OthersTake
    <3> QED
      BY <2>1, <3>1 DEF OthersDo
  <2> QED
    BY <1>2, <2>2 DEF e, ts, p
<1>4. \A c, t : ~SwitchOn(c, n + 1) /\ ~SwitchBy(t, n + 1)
  BY DEF SwitchOn, SwitchBy
<1>5. \A i \in 1 .. n : i \in 1 .. n + 1
  OBVIOUS
<1>6. RunningIs(b[n + 1], n + 1)
  <2>1. ASSUME NEW c \in Cpus
        PROVE  /\ \A i : LastOn(c, n + 1, i) => b[n].running[c] = [tid |-> Merged[i].next, at |-> Stamp(i)]
               /\ (\A i \in 1 .. n + 1 : ~SwitchOn(c, i)) => b[n].running[c].tid = Idle
    <3>1. RunningIs(b[n], n)
      BY DEF Walk
    <3>2. \A i : LastOn(c, n + 1, i) => LastOn(c, n, i)
      BY <1>4, LastOnGrows
    <3> QED
      BY <1>5, <3>1, <3>2 DEF RunningIs
  <2> QED
    BY <1>3, <2>1 DEF RunningIs
<1>7. PendingIs(b[n + 1], n + 1)
  <2>1. ASSUME NEW t \in Threads
        PROVE  /\ \A i : LastBy(t, n + 1, i) => b[n].pending[t] = IF Merged[i].prev = t THEN Stamp(i) ELSE NotPending
               /\ (\A i \in 1 .. n + 1 : ~SwitchBy(t, i)) => b[n].pending[t] = NotPending
    <3>1. PendingIs(b[n], n)
      BY DEF Walk
    <3>2. \A i : LastBy(t, n + 1, i) => LastBy(t, n, i)
      BY <1>4, LastByGrows
    <3> QED
      BY <1>5, <3>1, <3>2 DEF PendingIs
  <2> QED
    BY <1>3, <2>1 DEF PendingIs
<1>8. \A role : \A t \in Threads : \A j : ~Tiles(role, t, j, n + 1)
  BY <1>4 DEF Tiles, Consecutive
<1>9. RowsAre(b[n + 1].on, "prev", n + 1) /\ RowsAre(b[n + 1].off, "next", n + 1)
  <2>1. RowsAre(b[n].on, "prev", n) /\ RowsAre(b[n].off, "next", n)
    BY DEF Walk
  <2>2. RowsAre(b[n].on, "prev", n + 1) /\ RowsAre(b[n].off, "next", n + 1)
    BY <1>8, <2>1, NoRowToday
  <2> QED
    BY <1>3, <2>2
<1> QED
  BY <1>6, <1>7, <1>9 DEF Walk

(* What the parser finds at a switch: the thread that leaves the CPU was   *)
(* the last to get it, and the thread that gets it left one before, just   *)
(* when they were switched before.                                         *)
LEMMA LeavesAfterGetting ==
    ASSUME KernelBasics, Scheduling, NEW b, Reading(b), NEW n \in Nat, n + 1 <= Len(Merged), Walk(b, n),
           SwitchAt(n + 1)
    PROVE  LET e == Merged[n + 1]
               r == b[n].running[e.cpu]
           IN /\ e.prev # Idle /\ r.tid = e.prev =>
                    \E j : Tiles("prev", e.prev, j, n + 1) /\ r.at = Stamp(j)
              /\ \A t \in Threads : \A j : Tiles("prev", t, j, n + 1) =>
                    t = e.prev /\ e.prev # Idle /\ r.tid = e.prev
<1> DEFINE e == Merged[n + 1]
           c == e.cpu
           r == b[n].running[c]
<1>1. n + 1 \in 1 .. Len(Merged) /\ n \in 0 .. Len(Merged) /\ \A i \in 1 .. n : i \in 1 .. Len(Merged) /\ i < n + 1
  BY MergedIs
<1>2. e.cpu \in Cpus /\ e.prev \in Tids /\ e.next \in Tids
  BY <1>1, SwitchLine
<1>3. /\ \A i : LastOn(c, n, i) => r.tid = Merged[i].next /\ r.at = Stamp(i)
      /\ (\A i \in 1 .. n : ~SwitchOn(c, i)) => r.tid = Idle
  <2>1. RunningIs(b[n], n)
    BY DEF Walk
  <2>2. \A i : LastOn(c, n, i) => r = [tid |-> Merged[i].next, at |-> Stamp(i)]
    BY <1>2, <2>1 DEF RunningIs
  <2>3. (\A i \in 1 .. n : ~SwitchOn(c, i)) => r.tid = Idle
    BY <1>2, <2>1 DEF RunningIs
  <2>4. ASSUME NEW i, LastOn(c, n, i) PROVE r.tid = Merged[i].next /\ r.at = Stamp(i)
    <3>1. r = [tid |-> Merged[i].next, at |-> Stamp(i)]
      BY <2>2, <2>4
    <3> HIDE DEF r
    <3> QED
      BY <3>1
  <2> HIDE DEF r, c
  <2> QED
    BY <2>3, <2>4
<1>4. ASSUME NEW t \in Threads, NEW j, Tiles("prev", t, j, n + 1)
      PROVE  t = e.prev /\ t # Idle /\ LastOn(c, n, j) /\ Merged[j].next = t
  <2>1. /\ t = e.prev /\ Consecutive(t, j, n + 1)
        /\ j \in 1 .. Len(Merged) /\ j < n + 1
    BY <1>4 DEF Tiles, Consecutive
  <2>2. /\ Merged[j].cpu = c /\ Merged[j].next = t
        /\ \A i \in 1 .. Len(Merged) : j < i /\ i < n + 1 => ~SwitchOn(c, i)
    BY <2>1, LinesAlternate
  <2>3. SwitchAt(j)
    BY <2>1 DEF Consecutive, SwitchBy
  <2>4. j \in 1 .. n
    BY <2>1
  <2> QED
    BY <1>1, <2>1, <2>2, <2>3, <2>4, TidsAre DEF LastOn, SwitchOn
<1>5. ASSUME e.prev # Idle, r.tid = e.prev
      PROVE  \E j : Tiles("prev", e.prev, j, n + 1) /\ r.at = Stamp(j)
  <2> DEFINE t == e.prev
  <2>1. t \in Threads
    BY <1>2, <1>5, TidsAre
  <2>2. \E i \in 1 .. n : SwitchOn(c, i)
    BY <1>3, <1>5
  <2>3. PICK i : LastOn(c, n, i)
    <3> DEFINE T == {i \in 1 .. n : SwitchOn(c, i)}
    <3>1. T \subseteq 1 .. n /\ T # {}
      BY <2>2
    <3>2. PICK x \in T : \A y \in T : y <= x
      <4> HIDE DEF T
      <4> QED
        BY <3>1, LastExists
    <3>3. \A k \in 1 .. n : x < k => ~SwitchOn(c, k)
      BY <3>2
    <3> QED
      BY <3>2, <3>3 DEF LastOn
  <2>4. Merged[i].next = t /\ r.at = Stamp(i) /\ i \in 1 .. n /\ SwitchBy(t, i)
    BY <1>3, <1>5, <2>3 DEF LastOn, SwitchOn, SwitchBy
  <2>5. PICK j : LastBy(t, n, j)
    BY <2>4, LastByExists
  <2>6. Tiles("prev", t, j, n + 1)
    <3>1. j \in 1 .. n /\ SwitchBy(t, j) /\ \A k \in 1 .. n : j < k => ~SwitchBy(t, k)
      BY <2>5 DEF LastBy
    <3>2. SwitchBy(t, n + 1)
      BY DEF SwitchBy
    <3>3. \A k \in 1 .. Len(Merged) : k < n + 1 => k \in 1 .. n
      OBVIOUS
    <3> QED
      BY <1>1, <3>1, <3>2, <3>3 DEF Tiles, Consecutive
  <2>7. LastOn(c, n, j)
    BY <1>4, <2>1, <2>6
  <2>8. i = j
    <3>1. i \in Nat /\ j \in Nat /\ ~(i < j) /\ ~(j < i)
      BY <2>3, <2>7 DEF LastOn
    <3> QED
      BY <3>1
  <2> QED
    BY <2>4, <2>6, <2>8
<1>6. ASSUME NEW t \in Threads, NEW j, Tiles("prev", t, j, n + 1)
      PROVE  t = e.prev /\ e.prev # Idle /\ r.tid = e.prev
  BY <1>3, <1>4, <1>6
<1> QED
  BY <1>5, <1>6

LEMMA GetsAfterLeaving ==
    ASSUME KernelBasics, Scheduling, NEW b, Reading(b), NEW n \in Nat, n + 1 <= Len(Merged), Walk(b, n),
           SwitchAt(n + 1)
    PROVE  LET e == Merged[n + 1]
               since == b[n].pending[e.next]
           IN /\ e.next # Idle /\ since # NotPending =>
                    \E j : Tiles("next", e.next, j, n + 1) /\ since = Stamp(j)
              /\ \A t \in Threads : \A j : Tiles("next", t, j, n + 1) =>
                    t = e.next /\ e.next # Idle /\ since # NotPending
<1> DEFINE e == Merged[n + 1]
           since == b[n].pending[e.next]
<1>1. n + 1 \in 1 .. Len(Merged) /\ n \in 0 .. Len(Merged) /\ \A i \in 1 .. n : i \in 1 .. Len(Merged) /\ i < n + 1
  BY MergedIs
<1>2. e.cpu \in Cpus /\ e.prev \in Tids /\ e.next \in Tids
  BY <1>1, SwitchLine
<1>3. e.next # Idle =>
         /\ \A i : LastBy(e.next, n, i) => since = IF Merged[i].prev = e.next THEN Stamp(i) ELSE NotPending
         /\ (\A i \in 1 .. n : ~SwitchBy(e.next, i)) => since = NotPending
  <2> SUFFICES ASSUME e.next # Idle
               PROVE  /\ \A i : LastBy(e.next, n, i) => since = IF Merged[i].prev = e.next THEN Stamp(i) ELSE NotPending
                      /\ (\A i \in 1 .. n : ~SwitchBy(e.next, i)) => since = NotPending
    OBVIOUS
  <2>1. e.next \in Threads
    BY <1>2, TidsAre
  <2>2. PendingIs(b[n], n)
    BY DEF Walk
  <2> QED
    BY <2>1, <2>2 DEF PendingIs
<1>4. ASSUME e.next # Idle, since # NotPending
      PROVE  \E j : Tiles("next", e.next, j, n + 1) /\ since = Stamp(j)
  <2> DEFINE t == e.next
  <2>1. \E i \in 1 .. n : SwitchBy(t, i)
    BY <1>3, <1>4
  <2>2. PICK j : LastBy(t, n, j)
    BY <2>1, LastByExists
  <2>3. since = Stamp(j)
    BY <1>3, <1>4, <2>2
  <2>4. j \in 1 .. n /\ SwitchBy(t, j) /\ \A k \in 1 .. n : j < k => ~SwitchBy(t, k)
    BY <2>2 DEF LastBy
  <2>5. SwitchBy(t, n + 1)
    BY DEF SwitchBy
  <2>6. \A k \in 1 .. Len(Merged) : k < n + 1 => k \in 1 .. n
    OBVIOUS
  <2>7. Tiles("next", t, j, n + 1)
    BY <1>1, <2>4, <2>5, <2>6 DEF Tiles, Consecutive
  <2> QED
    BY <2>3, <2>7
<1>5. ASSUME NEW t \in Threads, NEW j, Tiles("next", t, j, n + 1)
      PROVE  t = e.next /\ e.next # Idle /\ since # NotPending
  <2>1. /\ t = e.next /\ Consecutive(t, j, n + 1)
        /\ j \in 1 .. Len(Merged) /\ j < n + 1 /\ SwitchBy(t, j)
        /\ \A i \in 1 .. Len(Merged) : j < i /\ i < n + 1 => ~SwitchBy(t, i)
    BY <1>5 DEF Tiles, Consecutive
  <2>2. Merged[j].prev = t
    BY <2>1, LinesAlternate
  <2>3. j \in 1 .. n
    BY <2>1
  <2>4. LastBy(t, n, j)
    BY <1>1, <2>1, <2>3 DEF LastBy
  <2>5. e.next # Idle
    BY <2>1, TidsAre
  <2>6. since = Stamp(j)
    BY <1>3, <2>1, <2>2, <2>4, <2>5
  <2>7. Merged[j].at \in Nat
    BY <2>1, MergedIsSorted
  <2> QED
    BY <2>1, <2>5, <2>6, <2>7 DEF Stamp, NotPending
<1> QED
  BY <1>4, <1>5

(* A switch.                                                               *)
LEMMA SwitchLineKept ==
    ASSUME KernelBasics, Scheduling, NEW b, Reading(b), NEW n \in Nat, n + 1 <= Len(Merged), Walk(b, n),
           SwitchAt(n + 1)
    PROVE  Walk(b, n + 1)
<1> DEFINE e == Merged[n + 1]
           ts == Stamp(n + 1)
           p == b[n]
           q == b[n + 1]
           r == p.running[e.cpu]
           isOn == e.prev # Idle /\ r.tid = e.prev
           isOff == e.next # Idle /\ p.pending[e.next] # NotPending
<1>1. n + 1 \in 1 .. Len(Merged) /\ n \in 0 .. Len(Merged) /\ (n + 1) - 1 = n
  BY MergedIs
<1>2. /\ q = SeqLine(p, e, ts) /\ p \in Parsers /\ e \in KernelEvents /\ ts \in Nat /\ e.kind = "switch"
      /\ e.cpu \in Cpus /\ e.prev \in Tids /\ e.next \in Tids /\ e.prev # e.next
  BY <1>1, MergedIsSorted, SwitchLine DEF Reading, Stamp, SwitchAt
<1>3. /\ q.running = [p.running EXCEPT ![e.cpu] = [tid |-> e.next, at |-> ts]]
      /\ q.pending = [p.pending EXCEPT ![e.prev] = ts, ![e.next] = NotPending]
      /\ q.on = IF isOn THEN Append(p.on, Interval(e.prev, r.at, ts)) ELSE p.on
      /\ q.off = IF isOff THEN Append(p.off, Interval(e.next, p.pending[e.next], ts)) ELSE p.off
  <2> HIDE DEF e, ts, p, q
  <2> QED
    BY <1>2, SwitchTakes DEF SwitchDoes
<1>4. p.running \in [Cpus -> [tid : Tids, at : Nat]] /\ p.pending \in [Tids -> Nat]
  BY <1>2 DEF Parsers
<1>5. \A i \in 1 .. n : i \in 1 .. n + 1
  OBVIOUS
<1>6. n + 1 \in 1 .. n + 1
  OBVIOUS
<1>7. RunningIs(q, n + 1)
  <2> SUFFICES ASSUME NEW c \in Cpus
               PROVE  /\ \A i : LastOn(c, n + 1, i) => q.running[c] = [tid |-> Merged[i].next, at |-> Stamp(i)]
                      /\ (\A i \in 1 .. n + 1 : ~SwitchOn(c, i)) => q.running[c].tid = Idle
    BY DEF RunningIs
  <2>1. CASE c = e.cpu
    <3>1. q.running[c] = [tid |-> Merged[n + 1].next, at |-> Stamp(n + 1)]
      BY <1>2, <1>3, <1>4, <2>1
    <3>2. SwitchOn(c, n + 1)
      BY <2>1 DEF SwitchOn
    <3> QED
      BY <1>6, <3>1, <3>2, LastOnGrows
  <2>2. CASE c # e.cpu
    <3>1. q.running[c] = p.running[c]
      BY <1>2, <1>3, <1>4, <2>2
    <3>2. ~SwitchOn(c, n + 1)
      BY <2>2 DEF SwitchOn
    <3>3. RunningIs(p, n)
      BY DEF Walk
    <3>4. /\ \A i : LastOn(c, n, i) => p.running[c] = [tid |-> Merged[i].next, at |-> Stamp(i)]
          /\ (\A i \in 1 .. n : ~SwitchOn(c, i)) => p.running[c].tid = Idle
      BY <3>3 DEF RunningIs
    <3>5. \A i : LastOn(c, n + 1, i) => LastOn(c, n, i)
      BY <3>2, LastOnGrows
    <3> QED
      BY <1>5, <3>1, <3>4, <3>5
  <2> QED
    BY <2>1, <2>2
<1>8. PendingIs(q, n + 1)
  <2> SUFFICES ASSUME NEW t \in Threads
               PROVE  /\ \A i : LastBy(t, n + 1, i) => q.pending[t] = IF Merged[i].prev = t THEN Stamp(i) ELSE NotPending
                      /\ (\A i \in 1 .. n + 1 : ~SwitchBy(t, i)) => q.pending[t] = NotPending
    BY DEF PendingIs
  <2>0. t \in Tids
    BY DEF Tids
  <2>1. CASE SwitchBy(t, n + 1)
    <3>1. t = e.prev \/ t = e.next
      BY <2>1 DEF SwitchBy
    <3>2. q.pending[t] = IF e.prev = t THEN ts ELSE NotPending
      BY <1>2, <1>3, <1>4, <2>0, <3>1
    <3> QED
      BY <1>6, <2>1, <3>2, LastByGrows
  <2>2. CASE ~SwitchBy(t, n + 1)
    <3>1. t # e.prev /\ t # e.next
      BY <2>2 DEF SwitchBy
    <3>2. q.pending[t] = p.pending[t]
      BY <1>2, <1>3, <1>4, <2>0, <3>1
    <3>3. PendingIs(p, n)
      BY DEF Walk
    <3>4. /\ \A i : LastBy(t, n, i) => p.pending[t] = IF Merged[i].prev = t THEN Stamp(i) ELSE NotPending
          /\ (\A i \in 1 .. n : ~SwitchBy(t, i)) => p.pending[t] = NotPending
      BY <3>3 DEF PendingIs
    <3>5. \A i : LastBy(t, n + 1, i) => LastBy(t, n, i)
      BY <2>2, LastByGrows
    <3> QED
      BY <1>5, <3>2, <3>4, <3>5
  <2> QED
    BY <2>1, <2>2
<1>9. RowsAre(q.on, "prev", n + 1)
  <2>1. RowsAre(p.on, "prev", n)
    BY DEF Walk
  <2>2. /\ isOn => \E j : Tiles("prev", e.prev, j, n + 1) /\ r.at = Stamp(j)
        /\ \A t \in Threads : \A j : Tiles("prev", t, j, n + 1) => isOn
    BY LeavesAfterGetting
  <2>3. CASE isOn
    <3>1. PICK j : Tiles("prev", e.prev, j, n + 1) /\ r.at = Stamp(j)
      BY <2>2, <2>3
    <3>2. e.prev \in Threads
      BY <1>2, <2>3, TidsAre
    <3>3. q.on = Append(p.on, Tile(e.prev, j, n + 1))
      BY <1>3, <2>3, <3>1 DEF Tile
    <3>4. RowsAre(Append(p.on, Tile(e.prev, j, n + 1)), "prev", n + 1)
      BY <2>1, <3>1, <3>2, OneRowMore
    <3> QED
      BY <3>3, <3>4
  <2>4. CASE ~isOn
    <3>1. q.on = p.on
      BY <1>3, <2>4
    <3>2. \A t \in Threads : \A j : ~Tiles("prev", t, j, n + 1)
      BY <2>2, <2>4
    <3> QED
      BY <2>1, <3>1, <3>2, NoRowToday
  <2> QED
    BY <2>3, <2>4
<1>10. RowsAre(q.off, "next", n + 1)
  <2>1. RowsAre(p.off, "next", n)
    BY DEF Walk
  <2>2. /\ isOff => \E j : Tiles("next", e.next, j, n + 1) /\ p.pending[e.next] = Stamp(j)
        /\ \A t \in Threads : \A j : Tiles("next", t, j, n + 1) => isOff
    BY GetsAfterLeaving
  <2>3. CASE isOff
    <3>1. PICK j : Tiles("next", e.next, j, n + 1) /\ p.pending[e.next] = Stamp(j)
      BY <2>2, <2>3
    <3>2. e.next \in Threads
      BY <1>2, <2>3, TidsAre
    <3>3. q.off = Append(p.off, Tile(e.next, j, n + 1))
      BY <1>3, <2>3, <3>1 DEF Tile
    <3>4. RowsAre(Append(p.off, Tile(e.next, j, n + 1)), "next", n + 1)
      BY <2>1, <3>1, <3>2, OneRowMore
    <3> QED
      BY <3>3, <3>4
  <2>4. CASE ~isOff
    <3>1. q.off = p.off
      BY <1>3, <2>4
    <3>2. \A t \in Threads : \A j : ~Tiles("next", t, j, n + 1)
      BY <2>2, <2>4
    <3> QED
      BY <2>1, <3>1, <3>2, NoRowToday
  <2> QED
    BY <2>3, <2>4
<1> QED
  BY <1>7, <1>8, <1>9, <1>10 DEF Walk

(* After every line the parser is where the walk over the lines says.      *)
LEMMA AllWalked ==
    ASSUME KernelBasics, Scheduling, NEW b, Reading(b)
    PROVE  \A n \in 0 .. Len(Merged) : Walk(b, n)
<1> DEFINE S == {n \in Nat : n <= Len(Merged) => Walk(b, n)}
<1>1. Len(Merged) \in Nat
  BY MergedIs
<1>2. 0 \in S
  BY WalkBegins
<1>3. ASSUME NEW n \in Nat, n \in S PROVE n + 1 \in S
  <2> SUFFICES ASSUME n + 1 <= Len(Merged) PROVE Walk(b, n + 1)
    OBVIOUS
  <2>1. Walk(b, n)
    BY <1>1, <1>3
  <2> QED
    BY <2>1, OtherLineKept, SwitchLineKept
<1>4. Nat \subseteq S
  <2> HIDE DEF S
  <2> QED
    BY <1>2, <1>3, NatIsInductive
<1> QED
  BY <1>1, <1>4

LEMMA AllRows ==
    ASSUME KernelBasics, Scheduling, StartsOnItsDay
    PROVE  /\ RowsAre(Sequential.on, "prev", Len(Merged))
           /\ RowsAre(Sequential.off, "next", Len(Merged))
<1>1. \A i \in 1 .. Len(Merged) : SwitchAt(i) => Merged[i].prev # Merged[i].next
  BY SwitchLine
<1>2. PICK b : Reading(b)
  BY <1>1, SequentialReads
<1>3. Len(Merged) \in Nat
  BY MergedIs
<1>4. Walk(b, Len(Merged))
  BY <1>2, <1>3, AllWalked
<1> QED
  BY <1>2, <1>4 DEF Walk, Reading

(* The times of a thread's switches, told of the lines.                    *)
LEMMA StampsGrow ==
    ASSUME KernelBasics, Scheduling, NEW t \in Threads, NEW i \in 1 .. Len(Merged), NEW j \in 1 .. Len(Merged),
           SwitchBy(t, i), SwitchBy(t, j)
    PROVE  (i < j <=> Stamp(i) < Stamp(j)) /\ (i = j <=> Stamp(i) = Stamp(j)) /\ Stamp(i) \in Nat
<1>1. Merged[i].at \in Nat /\ Merged[j].at \in Nat /\ i \in Nat /\ j \in Nat
  BY MergedIsSorted
<1>2. i < j => Merged[i].at < Merged[j].at
  BY LinesApart
<1>3. j < i => Merged[j].at < Merged[i].at
  BY LinesApart
<1> QED
  BY <1>1, <1>2, <1>3 DEF Stamp

Times(t) == {1 + Event(q).at : q \in {r \in Recorded :
               Event(r).kind = "switch" /\ t \in {Event(r).prev, Event(r).next}}}
Steps(S) == {x \in S \X S : x[1] < x[2] /\ ~\E y \in S : x[1] < y /\ y < x[2]}

LEMMA TimesAre ==
    ASSUME KernelBasics, NEW t
    PROVE  Times(t) = {Stamp(i) : i \in {k \in 1 .. Len(Merged) : SwitchBy(t, k)}}
<1>1. ASSUME NEW i \in 1 .. Len(Merged), SwitchBy(t, i) PROVE Stamp(i) \in Times(t)
  <2>1. Order[i] \in Recorded /\ Event(Order[i]) = Merged[i]
    BY LinesOf
  <2> QED
    BY <1>1, <2>1 DEF Times, Stamp, SwitchBy, SwitchAt
<1>2. ASSUME NEW q \in Recorded, Event(q).kind = "switch", t \in {Event(q).prev, Event(q).next}
      PROVE  \E i \in 1 .. Len(Merged) : SwitchBy(t, i) /\ Stamp(i) = 1 + Event(q).at
  <2>1. PICK i \in 1 .. Len(Merged) : Order[i] = q
    BY MergedIs
  <2>2. Merged[i] = Event(q)
    BY <2>1, LinesOf
  <2> QED
    BY <1>2, <2>2 DEF SwitchBy, SwitchAt, Stamp
<1>3. \A x \in Times(t) : \E i \in 1 .. Len(Merged) : SwitchBy(t, i) /\ x = Stamp(i)
  BY <1>2 DEF Times
<1> QED
  BY <1>1, <1>3

LEMMA StepsAre ==
    ASSUME KernelBasics, Scheduling, NEW t \in Threads, NEW a, NEW b
    PROVE  <<a, b>> \in Steps(Times(t)) <=> \E j, k : Consecutive(t, j, k) /\ a = Stamp(j) /\ b = Stamp(k)
<1>1. \A x : x \in Times(t) <=> \E i \in 1 .. Len(Merged) : SwitchBy(t, i) /\ x = Stamp(i)
  BY TimesAre
<1>2. <<a, b>> \in Steps(Times(t)) <=>
         a \in Times(t) /\ b \in Times(t) /\ a < b /\ ~\E y \in Times(t) : a < y /\ y < b
  BY DEF Steps
<1>3. ASSUME NEW j, NEW k, Consecutive(t, j, k), a = Stamp(j), b = Stamp(k)
      PROVE  <<a, b>> \in Steps(Times(t))
  <2>1. /\ j \in 1 .. Len(Merged) /\ k \in 1 .. Len(Merged) /\ j < k /\ SwitchBy(t, j) /\ SwitchBy(t, k)
        /\ \A i \in 1 .. Len(Merged) : j < i /\ i < k => ~SwitchBy(t, i)
    BY <1>3 DEF Consecutive
  <2>2. a < b
    BY <1>3, <2>1, StampsGrow
  <2>3. ASSUME NEW y \in Times(t), a < y, y < b PROVE FALSE
    <3>1. PICK i \in 1 .. Len(Merged) : SwitchBy(t, i) /\ y = Stamp(i)
      BY <1>1
    <3>2. j < i /\ i < k
      BY <1>3, <2>1, <2>3, <3>1, StampsGrow
    <3> QED
      BY <2>1, <3>1, <3>2
  <2> QED
    BY <1>1, <1>2, <1>3, <2>1, <2>2, <2>3
<1>4. ASSUME <<a, b>> \in Steps(Times(t))
      PROVE  \E j, k : Consecutive(t, j, k) /\ a = Stamp(j) /\ b = Stamp(k)
  <2>1. PICK j \in 1 .. Len(Merged) : SwitchBy(t, j) /\ a = Stamp(j)
    BY <1>1, <1>2, <1>4
  <2>2. PICK k \in 1 .. Len(Merged) : SwitchBy(t, k) /\ b = Stamp(k)
    BY <1>1, <1>2, <1>4
  <2>3. j < k
    BY <1>2, <1>4, <2>1, <2>2, StampsGrow
  <2>4. ASSUME NEW i \in 1 .. Len(Merged), j < i, i < k, SwitchBy(t, i) PROVE FALSE
    <3>1. Stamp(i) \in Times(t)
      BY <1>1, <2>4
    <3>2. a < Stamp(i) /\ Stamp(i) < b
      BY <2>1, <2>2, <2>4, StampsGrow
    <3> QED
      BY <1>2, <1>4, <3>1, <3>2
  <2> QED
    BY <2>1, <2>2, <2>3, <2>4 DEF Consecutive
<1> QED
  BY <1>3, <1>4

(* The rows of a thread.                                                   *)
RowsOf(t, s) == {i \in DOMAIN s : s[i].tid = t}
PairsOf(t, s) == {<<s[i].t0, s[i].t1>> : i \in RowsOf(t, s)}

LEMMA PairsAre ==
    ASSUME NEW t \in Threads, NEW role, NEW s, RowsAre(s, role, Len(Merged)), NEW a, NEW b
    PROVE  <<a, b>> \in PairsOf(t, s) <=> \E j, k : Tiles(role, t, j, k) /\ a = Stamp(j) /\ b = Stamp(k)
<1>1. s \in Seq(Rows) /\ DOMAIN s = 1 .. Len(s)
  BY DEF RowsAre
<1>2. <<a, b>> \in PairsOf(t, s) <=> \E i \in 1 .. Len(s) : s[i].tid = t /\ a = s[i].t0 /\ b = s[i].t1
  <2>1. PairsOf(t, s) = {<<s[i].t0, s[i].t1>> : i \in {n \in 1 .. Len(s) : s[n].tid = t}}
    BY <1>1 DEF PairsOf, RowsOf
  <2> QED
    BY <2>1
<1>3. ASSUME NEW i \in 1 .. Len(s), s[i].tid = t, a = s[i].t0, b = s[i].t1
      PROVE  \E j, k : Tiles(role, t, j, k) /\ a = Stamp(j) /\ b = Stamp(k)
  <2>1. PICK u, j, k : u \in Threads /\ Tiles(role, u, j, k) /\ s[i] = Tile(u, j, k)
    BY DEF RowsAre
  <2>2. u = t /\ a = Stamp(j) /\ b = Stamp(k)
    BY <1>3, <2>1 DEF Tile, Interval
  <2> QED
    BY <2>1, <2>2
<1>4. ASSUME NEW j, NEW k, Tiles(role, t, j, k), a = Stamp(j), b = Stamp(k)
      PROVE  \E i \in 1 .. Len(s) : s[i].tid = t /\ a = s[i].t0 /\ b = s[i].t1
  <2>1. k <= Len(Merged)
    <3>1. k \in 1 .. Len(Merged)
      BY <1>4 DEF Tiles, Consecutive
    <3> QED
      BY <3>1
  <2>2. PICK i \in 1 .. Len(s) : s[i] = Tile(t, j, k)
    BY <1>4, <2>1 DEF RowsAre
  <2> QED
    BY <1>4, <2>2 DEF Tile, Interval
<1> QED
  BY <1>2, <1>3, <1>4

LEMMA RowsTileThem ==
    ASSUME KernelBasics, Scheduling, StartsOnItsDay, NEW t \in Threads
    PROVE  /\ PairsOf(t, Sequential.on) \cup PairsOf(t, Sequential.off) = Steps(Times(t))
           /\ PairsOf(t, Sequential.on) \cap PairsOf(t, Sequential.off) = {}
<1> DEFINE on == Sequential.on
           off == Sequential.off
<1>1. RowsAre(on, "prev", Len(Merged)) /\ RowsAre(off, "next", Len(Merged))
  BY AllRows
<1> HIDE DEF on, off
<1>2. ASSUME NEW a, NEW b
      PROVE  /\ <<a, b>> \in PairsOf(t, on) \/ <<a, b>> \in PairsOf(t, off) <=> <<a, b>> \in Steps(Times(t))
             /\ ~(<<a, b>> \in PairsOf(t, on) /\ <<a, b>> \in PairsOf(t, off))
  <2>1. <<a, b>> \in PairsOf(t, on) <=> \E j, k : Tiles("prev", t, j, k) /\ a = Stamp(j) /\ b = Stamp(k)
    BY <1>1, PairsAre
  <2>2. <<a, b>> \in PairsOf(t, off) <=> \E j, k : Tiles("next", t, j, k) /\ a = Stamp(j) /\ b = Stamp(k)
    BY <1>1, PairsAre
  <2>3. <<a, b>> \in Steps(Times(t)) <=> \E j, k : Consecutive(t, j, k) /\ a = Stamp(j) /\ b = Stamp(k)
    BY StepsAre
  <2>4. \A j, k : Consecutive(t, j, k) <=> Tiles("prev", t, j, k) \/ Tiles("next", t, j, k)
    <3>1. \A j, k : Consecutive(t, j, k) => Merged[k].prev = t \/ Merged[k].next = t
      BY DEF Consecutive, SwitchBy
    <3> QED
      BY <3>1 DEF Tiles
  <2>5. ASSUME NEW j, NEW k, Tiles("prev", t, j, k), b = Stamp(k),
               NEW x, NEW y, Tiles("next", t, x, y), b = Stamp(y)
        PROVE  FALSE
    <3>1. /\ k \in 1 .. Len(Merged) /\ SwitchBy(t, k) /\ Merged[k].prev = t
          /\ y \in 1 .. Len(Merged) /\ SwitchBy(t, y) /\ Merged[y].next = t
      BY <2>5 DEF Tiles, Consecutive
    <3>2. k = y
      BY <2>5, <3>1, StampsGrow
    <3>3. SwitchAt(k)
      BY <3>1 DEF SwitchBy
    <3> QED
      BY <3>1, <3>2, <3>3, SwitchLine
  <2> QED
    BY <2>1, <2>2, <2>3, <2>4, <2>5
<1>3. \A x \in PairsOf(t, on) \cup PairsOf(t, off) \cup Steps(Times(t)) : \E a, b : x = <<a, b>>
  <2>1. \A x \in PairsOf(t, on) : \E a, b : x = <<a, b>>
    BY DEF PairsOf
  <2>2. \A x \in PairsOf(t, off) : \E a, b : x = <<a, b>>
    BY DEF PairsOf
  <2>3. \A x \in Steps(Times(t)) : \E a, b : x = <<a, b>>
    BY DEF Steps
  <2> QED
    BY <2>1, <2>2, <2>3
<1>4. PairsOf(t, on) \cup PairsOf(t, off) = Steps(Times(t))
  BY <1>2, <1>3
<1>5. PairsOf(t, on) \cap PairsOf(t, off) = {}
  BY <1>2, <1>3
<1> QED
  BY <1>4, <1>5 DEF on, off

\* The rows of a thread, on a CPU and off it, are the steps between its
\* consecutive switches, each of them once (parse_kernel, per_thread).
THEOREM RowsTile == KernelSpec => []RowsSumToWall
<1>1. SchedulingInv => RowsSumToWall
  <2> SUFFICES ASSUME SchedulingInv, lost = 0, StartsOnItsDay PROVE RowsSumToWall
    BY DEF RowsSumToWall
  <2>1. KernelBasics /\ Scheduling
    BY DEF SchedulingInv
  <2>2. ASSUME NEW t \in Threads
        PROVE  /\ PairsOf(t, Sequential.on) \cup PairsOf(t, Sequential.off) = Steps(Times(t))
               /\ PairsOf(t, Sequential.on) \cap PairsOf(t, Sequential.off) = {}
    BY <2>1, RowsTileThem
  <2>3. ASSUME NEW s, NEW role, RowsAre(s, role, Len(Merged)), NEW t
        PROVE  \A i, j \in RowsOf(t, s) : s[i] = s[j] => i = j
    BY <2>3 DEF RowsAre, RowsOf
  <2>4. RowsAre(Sequential.on, "prev", Len(Merged)) /\ RowsAre(Sequential.off, "next", Len(Merged))
    BY <2>1, AllRows
  <2>5. ASSUME NEW t
        PROVE  /\ \A i, j \in RowsOf(t, Sequential.on) : Sequential.on[i] = Sequential.on[j] => i = j
               /\ \A i, j \in RowsOf(t, Sequential.off) : Sequential.off[i] = Sequential.off[j] => i = j
    BY <2>3, <2>4
  <2> QED
    BY <2>2, <2>5 DEF RowsSumToWall, PairsOf, RowsOf, Times, Steps
<1> QED
  BY <1>1, SchedulingInit, SchedulingKept, PTL DEF KernelSpec

(* The futex events whose thread the trace tells: the one that the last    *)
(* switch before them on their CPU brought there.                          *)
Futexes == {p \in Recorded : Event(p).kind \in {"entry", "exit"}}
Brought(t, s, p) ==
    /\ s \in Switches /\ s[1] = p[1] /\ s[2] < p[2] /\ Event(s).next = t
    /\ \A r \in Switches : r[1] = p[1] /\ r[2] < p[2] => r[2] <= s[2]
FutexOf(t) == {p \in Futexes : \E s : Brought(t, s, p)}
LastFutex(t, p) == p \in FutexOf(t) /\ \A q \in FutexOf(t) : Event(q).at <= Event(p).at
Waited(t, p, q) ==
    /\ p \in FutexOf(t) /\ Event(p).kind = "entry" /\ Event(p).wait
    /\ q \in FutexOf(t) /\ Event(q).kind = "exit" /\ Event(p).at < Event(q).at
    /\ \A r \in FutexOf(t) : ~(Event(p).at < Event(r).at /\ Event(r).at < Event(q).at)
SeenBefore(t, b) == \E s \in Switches : Event(s).next = t /\ Event(s).at < b

LEMMA FutexTypes ==
    ASSUME KernelBasics, NEW t, NEW p \in FutexOf(t)
    PROVE  /\ p \in Recorded /\ p \notin Switches /\ p[1] \in Cpus /\ p[2] \in Nat
           /\ Event(p).at \in Nat /\ Event(p).at <= now /\ Event(p).kind \in {"entry", "exit"}
           /\ Event(p).kind = "entry" => Event(p).wait \in BOOLEAN
<1>1. p \in Recorded /\ Event(p).kind \in {"entry", "exit"}
  BY DEF FutexOf, Futexes
<1>2. Event(p) \in KernelEvents /\ p[1] \in Cpus /\ Event(p).at \in Nat /\ Event(p).at <= now
  BY <1>1, EventTypes
<1>3. Event(p).kind = "entry" => Event(p).wait \in BOOLEAN
  BY <1>2 DEF KernelEvents
<1>4. p[2] \in Nat
  <2>1. p[2] \in DOMAIN streams[p[1]] /\ streams[p[1]] \in Seq(KernelEvents)
    BY <1>1, <1>2, RecordedIs DEF KernelBasics, KernelTypes
  <2> QED
    BY <2>1
<1> QED
  BY <1>1, <1>2, <1>3, <1>4 DEF Switches

(* The switch after a switch of a thread.                                  *)
LEMMA NextSwitch ==
    ASSUME KernelBasics, NEW t, NEW s \in SwitchesOf(t), NEW x \in SwitchesOf(t), Event(s).at < Event(x).at
    PROVE  \E r : Previous(t, s, r) /\ Event(r).at <= Event(x).at
<1> DEFINE T == {Event(r).at : r \in {q \in SwitchesOf(t) : Event(s).at < Event(q).at}}
<1>1. \A q \in SwitchesOf(t) : Event(q).at \in Nat
  BY SwitchTypes DEF SwitchesOf
<1>2. T \subseteq Nat /\ Event(x).at \in T
  BY <1>1
<1>3. PICK a \in T : \A b \in T : a <= b
  <2> HIDE DEF T
  <2>1. T # {}
    BY <1>2
  <2> QED
    BY <1>2, <2>1, LeastExists
<1>4. PICK r \in SwitchesOf(t) : Event(s).at < Event(r).at /\ a = Event(r).at
  BY <1>3
<1>5. \A q \in SwitchesOf(t) : Event(s).at < Event(q).at => Event(r).at <= Event(q).at
  BY <1>3, <1>4
<1>6. \A q \in SwitchesOf(t) : ~(Event(s).at < Event(q).at /\ Event(q).at < Event(r).at)
  <2> SUFFICES ASSUME NEW q \in SwitchesOf(t), Event(s).at < Event(q).at, Event(q).at < Event(r).at
               PROVE  FALSE
    OBVIOUS
  <2> QED
    BY <1>1, <1>5
<1> QED
  BY <1>4, <1>5, <1>6 DEF Previous

(* A thread that came to a CPU leaves it before its next switch.           *)
LEMMA NextLeaves ==
    ASSUME KernelBasics, Scheduling, NEW t \in Threads, NEW s \in SwitchesOf(t), Event(s).next = t,
           NEW x \in SwitchesOf(t), Event(s).at < Event(x).at
    PROVE  \E r \in SwitchesOf(t) : /\ r[1] = s[1] /\ s[2] < r[2] /\ Event(r).prev = t
                                    /\ Event(r).at <= Event(x).at
<1>1. PICK r : Previous(t, s, r) /\ Event(r).at <= Event(x).at
  BY NextSwitch
<1>2. r \in SwitchesOf(t) /\ Event(s).at < Event(r).at
  BY <1>1 DEF Previous
<1>3. s \in Switches /\ r \in Switches
  BY <1>2 DEF SwitchesOf
<1>4. Event(s).prev # t
  BY <1>3 DEF Scheduling, SwitchesApart
<1>5. Event(r).prev = t /\ r[1] = s[1]
  <2>1. Event(r).prev = t \/ Event(r).next = t
    BY <1>2 DEF SwitchesOf
  <2>2. /\ Event(r).prev = t => s[1] = r[1]
        /\ Event(r).next = t => Event(s).prev = t
    BY <1>1, <1>2 DEF Scheduling, Alternating
  <2> QED
    BY <1>4, <2>1, <2>2
<1>6. s[2] < r[2]
  <2>1. /\ s \in Recorded /\ r \in Recorded /\ s # r /\ Event(s).at \in Nat /\ Event(r).at \in Nat
        /\ ~(Event(r).at < Event(s).at)
    BY <1>2, <1>3, SwitchTypes
  <2> QED
    BY <1>5, <2>1, SameStream
<1> QED
  BY <1>1, <1>2, <1>5, <1>6

LEMMA LeavesLater ==
    ASSUME KernelBasics, Scheduling, NEW t \in Threads, NEW p \in FutexOf(t), NEW s, Brought(t, s, p),
           NEW x \in SwitchesOf(t), Event(s).at < Event(x).at
    PROVE  Event(p).at < Event(x).at
<1>1. s \in SwitchesOf(t) /\ s \in Switches /\ Event(s).next = t /\ s[1] = p[1] /\ s[2] < p[2]
  BY DEF Brought, SwitchesOf
<1>2. PICK r \in SwitchesOf(t) : r[1] = s[1] /\ s[2] < r[2] /\ Event(r).at <= Event(x).at
  BY <1>1, NextLeaves
<1>3. r \in Switches /\ r \in Recorded /\ p \in Recorded /\ r # p
  BY FutexTypes DEF SwitchesOf, Switches
<1>4. ~(r[2] < p[2])
  <2>1. s[2] \in Nat /\ r[2] \in Nat
    BY <1>1, <1>3, SwitchTypes
  <2> QED
    BY <1>1, <1>2, <1>3, <2>1 DEF Brought
<1>5. Event(p).at < Event(r).at
  BY <1>1, <1>2, <1>3, <1>4, SameStream
<1>6. Event(p).at \in Nat /\ Event(r).at \in Nat /\ Event(x).at \in Nat
  <2>1. x \in Switches
    BY DEF SwitchesOf
  <2> QED
    BY <1>3, <2>1, FutexTypes, SwitchTypes
<1> QED
  BY <1>2, <1>5, <1>6

LEMMA BroughtBefore ==
    ASSUME KernelBasics, NEW t, NEW p \in FutexOf(t), NEW s, Brought(t, s, p)
    PROVE  s \in SwitchesOf(t) /\ Event(s).at < Event(p).at /\ Event(s).at \in Nat
<1>1. s \in Switches /\ s[1] = p[1] /\ s[2] < p[2] /\ Event(s).next = t
  BY DEF Brought
<1>2. s \in Recorded /\ p \in Recorded /\ s # p /\ s[2] \in Nat /\ p[2] \in Nat /\ Event(s).at \in Nat
  BY <1>1, SwitchTypes, FutexTypes
<1>3. Event(s).at < Event(p).at
  <2>1. ~(p[2] < s[2])
    BY <1>1, <1>2
  <2> QED
    BY <1>1, <1>2, <2>1, SameStream
<1> QED
  BY <1>1, <1>2, <1>3 DEF SwitchesOf

(* The futex events of one thread have different times.                    *)
LEMMA FutexApart ==
    ASSUME KernelBasics, Scheduling, NEW t \in Threads, NEW p \in FutexOf(t), NEW q \in FutexOf(t), p # q
    PROVE  Event(p).at # Event(q).at
<1>1. p \in Recorded /\ q \in Recorded /\ Event(p).at \in Nat /\ Event(q).at \in Nat
  BY FutexTypes
<1>2. CASE p[1] = q[1]
  BY <1>1, <1>2, SameStream
<1>3. CASE p[1] # q[1]
  <2>1. PICK s : Brought(t, s, p)
    BY DEF FutexOf
  <2>2. PICK r : Brought(t, r, q)
    BY DEF FutexOf
  <2>3. /\ s \in SwitchesOf(t) /\ Event(s).at < Event(p).at /\ Event(s).at \in Nat
        /\ r \in SwitchesOf(t) /\ Event(r).at < Event(q).at /\ Event(r).at \in Nat
    BY <2>1, <2>2, BroughtBefore
  <2>4. s # r
    BY <1>3, <2>1, <2>2 DEF Brought
  <2>5. Event(s).at # Event(r).at
    BY <2>3, <2>4 DEF Scheduling, SwitchesApart
  <2>6. CASE Event(s).at < Event(r).at
    <3>1. Event(p).at < Event(r).at
      BY <2>1, <2>3, <2>6, LeavesLater
    <3> QED
      BY <1>1, <2>3, <3>1
  <2>7. CASE Event(r).at < Event(s).at
    <3>1. Event(q).at < Event(s).at
      BY <2>2, <2>3, <2>7, LeavesLater
    <3> QED
      BY <1>1, <2>3, <3>1
  <2> QED
    BY <2>3, <2>5, <2>6, <2>7
<1> QED
  BY <1>2, <1>3

(* What a thread does now is later than all it did.                        *)
LEMMA FutexBeforeNow ==
    ASSUME KernelBasics, Scheduling, NEW t \in Threads, NEW c \in Cpus, NEW s \in Switches, s[1] = c,
           LastSwitch(s), Event(s).next = t, \A p \in Recorded : p[1] = c => Event(p).at < now
    PROVE  \A p \in FutexOf(t) : Event(p).at < now
<1> SUFFICES ASSUME NEW p \in FutexOf(t) PROVE Event(p).at < now
  OBVIOUS
<1>1. p \in Recorded /\ Event(p).at \in Nat
  BY FutexTypes
<1>2. CASE p[1] = c
  BY <1>1, <1>2
<1>3. CASE p[1] # c
  <2>1. PICK r : Brought(t, r, p)
    BY DEF FutexOf
  <2>2. r \in SwitchesOf(t) /\ Event(r).at \in Nat /\ s \in SwitchesOf(t) /\ r # s /\ Event(r).next = t
    BY <1>3, <2>1, BroughtBefore DEF Brought, SwitchesOf
  <2>3. Event(r).at # Event(s).at
    BY <2>2 DEF Scheduling, SwitchesApart
  <2>4. Event(s).at \in Nat /\ Event(s).at <= now /\ now \in Nat
    BY SwitchTypes DEF KernelBasics, KernelTypes
  <2>5. CASE Event(r).at < Event(s).at
    <3>1. Event(p).at < Event(s).at
      BY <2>1, <2>2, <2>5, LeavesLater
    <3> QED
      BY <1>1, <2>4, <3>1
  <2>6. CASE Event(s).at < Event(r).at
    <3>1. PICK x \in SwitchesOf(t) : x[1] = s[1] /\ s[2] < x[2]
      BY <2>2, <2>6, NextLeaves
    <3>2. x \in Switches /\ x[2] \in Nat /\ s[2] \in Nat
      BY SwitchTypes DEF SwitchesOf
    <3> QED
      BY <3>1, <3>2 DEF LastSwitch
  <2> QED
    BY <2>2, <2>3, <2>4, <2>5, <2>6
<1> QED
  BY <1>2, <1>3

(* How the futex calls of a thread, and its waits, show in its events.     *)
CallShows(t) ==
    /\ futex[t].at <= now
    /\ \A p : LastFutex(t, p) =>
          /\ Event(p).kind = "exit" => futex[t] = Outside
          /\ Event(p).kind = "entry" =>
                /\ futex[t].at = Event(p).at
                /\ futex[t].kind = IF Event(p).wait THEN "wait" ELSE "wake"
    /\ FutexOf(t) = {} /\ futex[t] # Outside => ~SeenBefore(t, futex[t].at)
WaitsShow(t) ==
    /\ \A b, e : <<t, b, e>> \in waits => b <= now
    /\ \A b, e : <<t, b, e>> \in waits /\ SeenBefore(t, b) <=>
                    \E p, q : Waited(t, p, q) /\ b = Event(p).at /\ e = Event(q).at
FutexShows == \A t \in Threads : CallShows(t) /\ WaitsShow(t)
FutexInv == SchedulingInv /\ (lost = 0 => FutexShows)

LEMMA FutexInvInit == KernelInit => FutexInv
<1> SUFFICES ASSUME KernelInit PROVE FutexInv
  OBVIOUS
<1>1. Recorded = {} /\ waits = {}
  BY DEF KernelInit, Recorded
<1>2. Switches = {} /\ \A t : FutexOf(t) = {}
  BY <1>1 DEF Switches, FutexOf, Futexes
<1>3. \A t \in Threads : futex[t].at <= now
  <2>1. now \in Nat /\ Start \in Nat /\ Start <= now
    BY KernelTraceAssumption DEF KernelInit
  <2>2. \A t \in Threads : futex[t].at = Start \/ futex[t].at = 0
    BY DEF KernelInit, Outside
  <2> QED
    BY <2>1, <2>2
<1>4. FutexShows
  BY <1>1, <1>2, <1>3 DEF FutexShows, CallShows, WaitsShow, LastFutex, Waited, SeenBefore
<1> QED
  BY <1>4, SchedulingInit DEF FutexInv

(* What a new event changes.                                               *)
LEMMA FutexGrows ==
    ASSUME KernelBasics, NEW c \in Cpus, NEW e, Recording(c, e)
    PROVE  \E new :
              /\ Event(new)' = e /\ \A p \in Recorded : Event(p)' = Event(p)
              /\ \A p \in Recorded : p[1] = c => Event(p).at < now
              /\ Switches' = Switches \cup (IF e.kind = "switch" THEN {new} ELSE {})
              /\ \A t : FutexOf(t)' = FutexOf(t) \cup
                    (IF /\ e.kind \in {"entry", "exit"}
                        /\ \E s \in Switches : s[1] = c /\ LastSwitch(s) /\ Event(s).next = t
                     THEN {new} ELSE {})
<1>1. PICK new : /\ new = <<c, Len(streams[c]) + 1>>
                 /\ Recorded' = Recorded \cup {new} /\ new \notin Recorded
                 /\ Event(new)' = e /\ \A p \in Recorded : Event(p)' = Event(p)
                 /\ \A p \in Recorded : p[1] = c => p[2] < new[2] /\ Event(p).at < now
  BY RecordAdds DEF Recording, KernelBasics
<1>2. Switches' = Switches \cup (IF e.kind = "switch" THEN {new} ELSE {})
  BY <1>1 DEF Switches
<1>3. Futexes' = Futexes \cup (IF e.kind \in {"entry", "exit"} THEN {new} ELSE {})
  BY <1>1 DEF Futexes
<1>4. new[1] = c /\ new[2] \in Nat
  <2>1. streams[c] \in Seq(KernelEvents)
    BY DEF KernelBasics, KernelTypes
  <2> QED
    BY <1>1, <2>1
<1>5. \A p \in Recorded : p[2] \in Nat
  <2> SUFFICES ASSUME NEW p \in Recorded PROVE p[2] \in Nat
    OBVIOUS
  <2>1. p[1] \in Cpus /\ p[2] \in DOMAIN streams[p[1]]
    BY RecordedIs
  <2>2. streams[p[1]] \in Seq(KernelEvents)
    BY <2>1 DEF KernelBasics, KernelTypes
  <2> QED
    BY <2>1, <2>2
<1>6. ASSUME NEW t, NEW p \in Recorded, NEW s
      PROVE  Brought(t, s, p)' <=> Brought(t, s, p)
  <2>1. p[1] = c => ~(new[2] < p[2])
    <3> SUFFICES ASSUME p[1] = c PROVE ~(new[2] < p[2])
      OBVIOUS
    <3>1. p[2] < new[2]
      BY <1>1
    <3> QED
      BY <1>4, <1>5, <3>1
  <2>2. \A r \in Switches' : r[1] = p[1] /\ r[2] < p[2] => r \in Switches
    BY <1>2, <1>4, <2>1
  <2>3. \A r \in Switches : r \in Switches' /\ Event(r)' = Event(r)
    BY <1>1, <1>2 DEF Switches
  <2>4. \A r : r[1] = p[1] /\ r[2] < p[2] => (r \in Switches' <=> r \in Switches)
    BY <2>2, <2>3
  <2> QED
    BY <2>3, <2>4 DEF Brought
<1>7. ASSUME NEW t, e.kind \in {"entry", "exit"}
      PROVE  (\E s : Brought(t, s, new)') <=> \E s \in Switches : s[1] = c /\ LastSwitch(s) /\ Event(s).next = t
  <2>1. Switches' = Switches
    BY <1>2, <1>7
  <2>2. \A r \in Switches : Event(r)' = Event(r) /\ (r[1] = c => r[2] < new[2])
    BY <1>1 DEF Switches
  <2> QED
    BY <1>4, <2>1, <2>2 DEF Brought, LastSwitch
<1>8. ASSUME NEW t
      PROVE  FutexOf(t)' = FutexOf(t) \cup
                    (IF /\ e.kind \in {"entry", "exit"}
                        /\ \E s \in Switches : s[1] = c /\ LastSwitch(s) /\ Event(s).next = t
                     THEN {new} ELSE {})
  <2>1. FutexOf(t)' = {p \in Futexes' : \E s : Brought(t, s, p)'}
    BY DEF FutexOf
  <2>2. \A p \in Futexes : p \in Recorded
    BY DEF Futexes
  <2>3. \A p \in Futexes : (\E s : Brought(t, s, p)') <=> \E s : Brought(t, s, p)
    BY <1>6, <2>2
  <2>4. FutexOf(t) = {p \in Futexes : \E s : Brought(t, s, p)}
    BY DEF FutexOf
  <2>5. \A p : p \in FutexOf(t)' <=> p \in Futexes' /\ \E s : Brought(t, s, p)'
    BY <2>1
  <2>6. \A p : p \in FutexOf(t) <=> p \in Futexes /\ \E s : Brought(t, s, p)
    BY <2>4
  <2> QED
    BY <1>3, <1>7, <2>3, <2>5, <2>6
<1> QED
  BY <1>1, <1>2, <1>8

(* A step that is none of a thread's.                                      *)
LEMMA OtherThread ==
    ASSUME KernelBasics, NEW t \in Threads, CallShows(t), WaitsShow(t),
           FutexOf(t)' = FutexOf(t), \A p \in FutexOf(t) : Event(p)' = Event(p),
           \A b \in Nat : b <= now => (SeenBefore(t, b)' <=> SeenBefore(t, b)),
           futex'[t] = futex[t], \A b, e : <<t, b, e>> \in waits' <=> <<t, b, e>> \in waits,
           now' \in Nat, now <= now'
    PROVE  CallShows(t)' /\ WaitsShow(t)'
<1>1. now \in Nat /\ futex[t].at \in Nat /\ \A b, e : <<t, b, e>> \in waits => b \in Nat
  <2>1. waits \subseteq Threads \X Nat \X Nat /\ futex \in [Threads -> FutexCalls] /\ now \in Nat
    BY DEF KernelBasics, KernelTypes
  <2>2. \A b, e : <<t, b, e>> \in waits => b \in Nat
    BY <2>1
  <2>3. futex[t].at \in Nat
    BY <2>1 DEF FutexCalls
  <2> QED
    BY <2>1, <2>2, <2>3
<1>2. \A p : LastFutex(t, p)' <=> LastFutex(t, p)
  BY DEF LastFutex
<1>3. \A p, q : Waited(t, p, q)' <=> Waited(t, p, q)
  BY DEF Waited
<1>4. \A p, q : Waited(t, p, q) => p \in FutexOf(t) /\ q \in FutexOf(t)
  BY DEF Waited
<1>5. \A p : LastFutex(t, p) => p \in FutexOf(t)
  BY DEF LastFutex
<1>6. CallShows(t)'
  <2>1. futex'[t].at <= now'
    <3>1. futex[t].at <= now
      BY DEF CallShows
    <3> QED
      BY <1>1, <3>1
  <2>2. \A p : LastFutex(t, p)' =>
          /\ Event(p)'.kind = "exit" => futex'[t] = Outside
          /\ Event(p)'.kind = "entry" =>
                /\ futex'[t].at = Event(p)'.at
                /\ futex'[t].kind = IF Event(p)'.wait THEN "wait" ELSE "wake"
    BY <1>2, <1>5 DEF CallShows
  <2>3. FutexOf(t)' = {} /\ futex'[t] # Outside => ~(SeenBefore(t, futex[t].at)')
    <3> SUFFICES ASSUME FutexOf(t) = {}, futex[t] # Outside PROVE ~(SeenBefore(t, futex[t].at)')
      OBVIOUS
    <3>1. PICK b : b = futex[t].at
      OBVIOUS
    <3>2. ~SeenBefore(t, b) /\ b <= now /\ b \in Nat
      BY <1>1, <3>1 DEF CallShows
    <3>3. ~SeenBefore(t, b)'
      BY <3>2
    <3>4. b = futex'[t].at
      BY <3>1
    <3> QED
      BY <3>3, <3>4 DEF SeenBefore
  <2> QED
    BY <2>1, <2>2, <2>3 DEF CallShows, Outside
<1>7. WaitsShow(t)'
  <2>1. ASSUME NEW b, NEW e PROVE <<t, b, e>> \in waits' => b <= now'
    <3>1. <<t, b, e>> \in waits => b <= now /\ b \in Nat
      BY <1>1 DEF WaitsShow
    <3> QED
      BY <1>1, <3>1
  <2>2. ASSUME NEW b, NEW e
        PROVE  <<t, b, e>> \in waits' /\ SeenBefore(t, b)' <=>
                  \E p, q : Waited(t, p, q)' /\ b = Event(p)'.at /\ e = Event(q)'.at
    <3>1. <<t, b, e>> \in waits => (SeenBefore(t, b)' <=> SeenBefore(t, b))
      BY <1>1 DEF WaitsShow
    <3>2. <<t, b, e>> \in waits /\ SeenBefore(t, b) <=>
                  \E p, q : Waited(t, p, q) /\ b = Event(p).at /\ e = Event(q).at
      BY DEF WaitsShow
    <3>3. (\E p, q : Waited(t, p, q)' /\ b = Event(p)'.at /\ e = Event(q)'.at)
            <=> \E p, q : Waited(t, p, q) /\ b = Event(p).at /\ e = Event(q).at
      BY <1>3, <1>4
    <3> QED
      BY <3>1, <3>2, <3>3
  <2> QED
    BY <2>1, <2>2 DEF WaitsShow
<1> QED
  BY <1>6, <1>7

LEMMA LastSwitchExists ==
    ASSUME KernelBasics, NEW c \in Cpus, NEW p \in Switches, p[1] = c
    PROVE  \E s \in Switches : s[1] = c /\ LastSwitch(s)
<1> DEFINE n == Len(streams[c])
           T == {i \in 1 .. n : <<c, i>> \in Switches}
<1>1. n \in Nat /\ DOMAIN streams[c] = 1 .. n
  BY DEF KernelBasics, KernelTypes
<1>2. \A q \in Switches : q[1] = c => q = <<c, q[2]>> /\ q[2] \in 1 .. n
  <2> SUFFICES ASSUME NEW q \in Switches, q[1] = c PROVE q = <<c, q[2]>> /\ q[2] \in 1 .. n
    OBVIOUS
  <2>1. q \in Recorded
    BY DEF Switches
  <2> QED
    BY <1>1, <2>1, RecordedIs
<1>3. T \subseteq 1 .. n /\ T # {}
  <2>1. p[2] \in T
    BY <1>2
  <2> QED
    BY <2>1
<1>4. PICK x \in T : \A y \in T : y <= x
  <2> HIDE DEF T, n
  <2> QED
    BY <1>1, <1>3, LastExists
<1>5. \A q \in Switches : q[1] = c => q[2] <= x
  BY <1>2, <1>4
<1> QED
  BY <1>4, <1>5 DEF LastSwitch

(* A thread that the trace has not seen.                                   *)
LEMMA NeverSeen ==
    ASSUME NEW t \in Threads, SwitchesOf(t) = {}, Switches' = Switches, \A s \in Switches : Event(s)' = Event(s),
           FutexOf(t)' = {}, futex'[t].at <= now', \A b, e : <<t, b, e>> \in waits' => b <= now'
    PROVE  CallShows(t)' /\ WaitsShow(t)'
<1>1. \A s \in Switches : Event(s).next # t
  BY DEF SwitchesOf
<1>2. \A b : ~SeenBefore(t, b)'
  BY <1>1 DEF SeenBefore
<1>3. ~(SeenBefore(t, futex[t].at)')
  BY <1>1 DEF SeenBefore
<1> QED
  BY <1>2, <1>3 DEF CallShows, WaitsShow, LastFutex, Waited

(* A thread that enters or leaves a futex call, if the trace has seen it.  *)
LEMMA EntryShows ==
    ASSUME KernelBasics, NEW t \in Threads, WaitsShow(t), CallShows(t), now' = now,
           NEW new, FutexOf(t)' = FutexOf(t) \cup {new}, \A p \in FutexOf(t) : Event(p)' = Event(p) /\ Event(p).at < now,
           Switches' = Switches, \A s \in Switches : Event(s)' = Event(s),
           NEW kind \in {"wait", "wake"}, futex'[t] = [kind |-> kind, at |-> now], waits' = waits,
           Event(new)'.kind = "entry", Event(new)'.at = now, Event(new)'.wait = (kind = "wait")
    PROVE  CallShows(t)' /\ WaitsShow(t)'
<1>1. now \in Nat /\ \A p \in FutexOf(t) : Event(p).at \in Nat
  BY FutexTypes DEF KernelBasics, KernelTypes
<1>2. \A p : LastFutex(t, p)' => p = new
  <2> SUFFICES ASSUME NEW p \in FutexOf(t), LastFutex(t, p)' PROVE FALSE
    BY DEF LastFutex
  <2>1. now <= Event(p).at
    BY DEF LastFutex
  <2> QED
    BY <1>1, <2>1
<1>3. CallShows(t)'
  <2>1. futex'[t].at <= now'
    BY <1>1
  <2>2. FutexOf(t)' # {}
    OBVIOUS
  <2>3. Event(new)'.wait = TRUE => kind = "wait"
    OBVIOUS
  <2>4. Event(new)'.wait = FALSE => kind = "wake"
    OBVIOUS
  <2>5. futex'[t].at = Event(new)'.at /\ futex'[t].kind = IF Event(new)'.wait THEN "wait" ELSE "wake"
    BY <2>3, <2>4
  <2> QED
    BY <1>2, <2>1, <2>2, <2>5 DEF CallShows
<1>4. ASSUME NEW p, NEW q PROVE Waited(t, p, q)' <=> Waited(t, p, q)
  <2>1. ASSUME Waited(t, p, q) PROVE Waited(t, p, q)'
    <3>1. p \in FutexOf(t) /\ q \in FutexOf(t)
      BY <2>1 DEF Waited
    <3>2. ~(Event(p).at < now /\ now < Event(q).at)
      BY <1>1, <3>1
    <3> QED
      BY <2>1, <3>1, <3>2 DEF Waited
  <2>2. ASSUME Waited(t, p, q)' PROVE Waited(t, p, q)
    <3>1. q \in FutexOf(t)
      BY <2>2 DEF Waited
    <3>2. p # new
      <4>1. Event(p)'.at < Event(q).at
        BY <2>2, <3>1 DEF Waited
      <4> QED
        BY <1>1, <3>1, <4>1
    <3>3. p \in FutexOf(t)
      BY <2>2, <3>2 DEF Waited
    <3> QED
      BY <2>2, <3>1, <3>3 DEF Waited
  <2> QED
    BY <2>1, <2>2
<1>5. \A b : SeenBefore(t, b)' <=> SeenBefore(t, b)
  BY DEF SeenBefore
<1>6. \A p, q : Waited(t, p, q) => p \in FutexOf(t) /\ q \in FutexOf(t)
  BY DEF Waited
<1>7. WaitsShow(t)'
  BY <1>4, <1>5, <1>6 DEF WaitsShow
<1> QED
  BY <1>3, <1>7

LEMMA LastFutexExists ==
    ASSUME KernelBasics, NEW t, FutexOf(t) # {}
    PROVE  \E p : LastFutex(t, p)
<1> DEFINE T == {Event(p).at : p \in FutexOf(t)}
<1>1. now \in Nat /\ \A p \in FutexOf(t) : Event(p).at \in Nat /\ Event(p).at <= now
  BY FutexTypes DEF KernelBasics, KernelTypes
<1> DEFINE D == {now - a : a \in T}
<1>2. D \subseteq Nat /\ D # {}
  BY <1>1
<1>3. PICK d \in D : \A f \in D : d <= f
  <2> HIDE DEF D
  <2> QED
    BY <1>2, LeastExists
<1>4. PICK p \in FutexOf(t) : d = now - Event(p).at
  BY <1>3
<1>5. ASSUME NEW q \in FutexOf(t) PROVE Event(q).at <= Event(p).at
  <2>1. now - Event(q).at \in D
    OBVIOUS
  <2>2. now - Event(p).at <= now - Event(q).at
    BY <1>3, <1>4, <2>1
  <2> QED
    BY <1>1, <2>2
<1> QED
  BY <1>5 DEF LastFutex

LEMMA ExitShows ==
    ASSUME KernelBasics, NEW t \in Threads, WaitsShow(t), CallShows(t), now' = now,
           NEW new, FutexOf(t)' = FutexOf(t) \cup {new}, \A p \in FutexOf(t) : Event(p)' = Event(p) /\ Event(p).at < now,
           Switches' = Switches, \A s \in Switches : Event(s)' = Event(s),
           futex[t] # Outside, futex'[t] = Outside,
           waits' = IF futex[t].kind = "wait" THEN waits \cup {<<t, futex[t].at, now>>} ELSE waits,
           Event(new)'.kind = "exit", Event(new)'.at = now
    PROVE  CallShows(t)' /\ WaitsShow(t)'
<1>1. now \in Nat /\ \A p \in FutexOf(t) : Event(p).at \in Nat
  BY FutexTypes DEF KernelBasics, KernelTypes
<1>2. \A p : LastFutex(t, p)' => p = new
  <2> SUFFICES ASSUME NEW p \in FutexOf(t), LastFutex(t, p)' PROVE FALSE
    BY DEF LastFutex
  <2>1. now <= Event(p).at
    BY DEF LastFutex
  <2> QED
    BY <1>1, <2>1
<1>3. CallShows(t)'
  <2>1. futex'[t].at <= now'
    BY <1>1 DEF Outside
  <2>2. FutexOf(t)' # {}
    OBVIOUS
  <2>3. futex'[t] = Outside'
    BY DEF Outside
  <2> QED
    BY <1>2, <2>1, <2>2, <2>3 DEF CallShows
<1>4. ASSUME NEW p, NEW q, q # new PROVE Waited(t, p, q)' <=> Waited(t, p, q)
  <2>1. ASSUME Waited(t, p, q) PROVE Waited(t, p, q)'
    <3>1. p \in FutexOf(t) /\ q \in FutexOf(t)
      BY <2>1 DEF Waited
    <3>2. ~(Event(p).at < now /\ now < Event(q).at)
      BY <1>1, <3>1
    <3> QED
      BY <2>1, <3>1, <3>2 DEF Waited
  <2>2. ASSUME Waited(t, p, q)' PROVE Waited(t, p, q)
    <3>1. q \in FutexOf(t)
      BY <1>4, <2>2 DEF Waited
    <3>2. p # new
      BY <2>2 DEF Waited
    <3>3. p \in FutexOf(t)
      BY <2>2, <3>2 DEF Waited
    <3> QED
      BY <2>2, <3>1, <3>3 DEF Waited
  <2> QED
    BY <2>1, <2>2
<1>5. \A b : SeenBefore(t, b)' <=> SeenBefore(t, b)
  BY DEF SeenBefore
<1>6. \A p, q : Waited(t, p, q) => p \in FutexOf(t) /\ q \in FutexOf(t) /\ q # new
  <2> SUFFICES ASSUME NEW p, NEW q, Waited(t, p, q) PROVE p \in FutexOf(t) /\ q \in FutexOf(t) /\ q # new
    OBVIOUS
  <2>1. p \in FutexOf(t) /\ q \in FutexOf(t)
    BY DEF Waited
  <2>2. q # new
    <3>1. Event(q)'.at = Event(q).at /\ Event(q).at < now /\ Event(q).at \in Nat
      BY <1>1, <2>1
    <3> QED
      BY <1>1, <3>1
  <2> QED
    BY <2>1, <2>2
\* the call that ends was seen to begin, or never was seen
<1>7. ASSUME NEW p, LastFutex(t, p)
      PROVE  /\ Event(p).kind = "entry" /\ futex[t].at = Event(p).at
             /\ futex[t].kind = "wait" <=> Event(p).wait = TRUE
             /\ SeenBefore(t, Event(p).at)
  <2>1. p \in FutexOf(t)
    BY <1>7 DEF LastFutex
  <2>2. Event(p).kind \in {"entry", "exit"} /\ (Event(p).kind = "entry" => Event(p).wait \in BOOLEAN)
    BY <2>1, FutexTypes
  <2>3. Event(p).kind = "entry"
    BY <1>7, <2>2 DEF CallShows
  <2>4. futex[t].at = Event(p).at /\ futex[t].kind = IF Event(p).wait THEN "wait" ELSE "wake"
    BY <1>7, <2>3 DEF CallShows
  <2>5. futex[t].kind = "wait" <=> Event(p).wait = TRUE
    BY <2>2, <2>3, <2>4
  <2>6. PICK s : Brought(t, s, p)
    BY <2>1 DEF FutexOf
  <2>7. s \in Switches /\ Event(s).next = t /\ Event(s).at < Event(p).at
    BY <2>1, <2>6, BroughtBefore DEF Brought
  <2> QED
    BY <2>3, <2>4, <2>5, <2>7 DEF SeenBefore
<1>8. ASSUME NEW b, NEW e, <<t, b, e>> \in waits', SeenBefore(t, b)
      PROVE  \E p, q : Waited(t, p, q)' /\ b = Event(p)'.at /\ e = Event(q)'.at
  <2>1. CASE <<t, b, e>> \in waits
    <3>1. PICK p, q : Waited(t, p, q) /\ b = Event(p).at /\ e = Event(q).at
      BY <1>8, <2>1 DEF WaitsShow
    <3>2. Waited(t, p, q)' /\ b = Event(p)'.at /\ e = Event(q)'.at
      BY <1>4, <1>6, <3>1
    <3> QED
      BY <3>2
  <2>2. CASE <<t, b, e>> \notin waits
    <3>1. futex[t].kind = "wait" /\ b = futex[t].at /\ e = now
      BY <1>8, <2>2
    <3>2. FutexOf(t) # {}
      BY <1>8, <3>1 DEF CallShows
    <3>3. PICK p : LastFutex(t, p)
      BY <3>2, LastFutexExists
    <3>4. /\ p \in FutexOf(t) /\ Event(p).kind = "entry" /\ b = Event(p).at /\ Event(p).wait
          /\ \A r \in FutexOf(t) : Event(r).at <= Event(p).at
      BY <1>7, <3>1, <3>3 DEF LastFutex
    <3>5. /\ p \in FutexOf(t)' /\ new \in FutexOf(t)' /\ Event(p)' = Event(p) /\ Event(p).at < now
          /\ Event(p).at \in Nat
      BY <1>1, <3>4
    <3>6. \A r \in FutexOf(t)' : ~(Event(p)'.at < Event(r)'.at /\ Event(r)'.at < Event(new)'.at)
      <4> SUFFICES ASSUME NEW r \in FutexOf(t)', Event(p).at < Event(r)'.at, Event(r)'.at < now PROVE FALSE
        BY <3>5
      <4>1. r \in FutexOf(t)
        BY <1>1
      <4> QED
        BY <1>1, <3>4, <4>1
    <3>7. Waited(t, p, new)'
      BY <3>4, <3>5, <3>6 DEF Waited
    <3> QED
      BY <3>1, <3>4, <3>5, <3>7
  <2> QED
    BY <2>1, <2>2
<1>9. ASSUME NEW p, NEW q, Waited(t, p, q)'
      PROVE  <<t, Event(p)'.at, Event(q)'.at>> \in waits' /\ SeenBefore(t, Event(p)'.at)
  <2>1. CASE q # new
    <3>1. Waited(t, p, q)
      BY <1>4, <1>9, <2>1
    <3>2. <<t, Event(p).at, Event(q).at>> \in waits /\ SeenBefore(t, Event(p).at)
      BY <3>1 DEF WaitsShow
    <3> QED
      BY <1>6, <3>1, <3>2
  <2>2. CASE q = new
    <3>1. /\ p \in FutexOf(t) /\ Event(p)' = Event(p) /\ Event(p).wait
          /\ \A r \in FutexOf(t) : ~(Event(p).at < Event(r).at /\ Event(r).at < now)
      <4>1. p # new
        BY <1>9 DEF Waited
      <4>2. p \in FutexOf(t)
        BY <1>9, <4>1 DEF Waited
      <4> QED
        BY <1>9, <2>2, <4>2 DEF Waited
    <3>2. \A r \in FutexOf(t) : Event(r).at <= Event(p).at
      BY <1>1, <3>1
    <3>3. LastFutex(t, p)
      BY <3>1, <3>2 DEF LastFutex
    <3>4. Event(p).wait = TRUE
      <4>1. Event(p).wait \in BOOLEAN
        BY <1>7, <3>1, <3>3, FutexTypes
      <4> QED
        BY <3>1, <4>1
    <3> QED
      BY <1>7, <2>2, <3>1, <3>3, <3>4
  <2> QED
    BY <2>1, <2>2
<1>10. \A b, e : <<t, b, e>> \in waits' => b <= now'
  <2>1. futex[t].at <= now
    BY DEF CallShows
  <2> QED
    BY <2>1 DEF WaitsShow
<1>11. WaitsShow(t)'
  <2>1. ASSUME NEW b, NEW e
        PROVE  <<t, b, e>> \in waits' /\ SeenBefore(t, b)' <=>
                  \E p, q : Waited(t, p, q)' /\ b = Event(p)'.at /\ e = Event(q)'.at
    BY <1>5, <1>8, <1>9
  <2> QED
    BY <1>10, <2>1 DEF WaitsShow
<1> QED
  BY <1>3, <1>11

(* A step in which no thread calls futex.                                  *)
LEMMA NoCall ==
    ASSUME KernelBasics, FutexShows, futex' = futex, waits' = waits, now' \in Nat, now <= now',
           streams' = streams \/ \E c \in Cpus : \E e : Recording(c, e) /\ e.kind \in {"switch", "mark"}
    PROVE  FutexShows'
<1> SUFFICES ASSUME NEW t \in Threads PROVE CallShows(t)' /\ WaitsShow(t)'
  BY DEF FutexShows
<1>1. CallShows(t) /\ WaitsShow(t) /\ now \in Nat
  BY DEF FutexShows, KernelBasics, KernelTypes
<1>2. CASE streams' = streams
  <2>1. /\ Recorded' = Recorded /\ \A p : Event(p)' = Event(p)
    BY <1>2 DEF Recorded, Event
  <2>2. Switches' = Switches /\ Futexes' = Futexes
    BY <2>1 DEF Switches, Futexes
  <2>3. \A s, p : Brought(t, s, p)' <=> Brought(t, s, p)
    BY <2>1, <2>2 DEF Brought
  <2>4. FutexOf(t)' = FutexOf(t)
    BY <2>2, <2>3 DEF FutexOf
  <2>5. \A b : SeenBefore(t, b)' <=> SeenBefore(t, b)
    BY <2>1, <2>2 DEF SeenBefore
  <2> QED
    BY <1>1, <2>1, <2>4, <2>5, OtherThread
<1>3. ASSUME NEW c \in Cpus, NEW e, Recording(c, e), e.kind \in {"switch", "mark"}
      PROVE  CallShows(t)' /\ WaitsShow(t)'
  <2>1. PICK new : /\ Event(new)' = e /\ \A p \in Recorded : Event(p)' = Event(p)
                   /\ Switches' = Switches \cup (IF e.kind = "switch" THEN {new} ELSE {})
                   /\ FutexOf(t)' = FutexOf(t) \cup
                        (IF /\ e.kind \in {"entry", "exit"}
                            /\ \E s \in Switches : s[1] = c /\ LastSwitch(s) /\ Event(s).next = t
                         THEN {new} ELSE {})
    BY <1>3, FutexGrows
  <2>2. FutexOf(t)' = FutexOf(t) /\ \A p \in FutexOf(t) : Event(p)' = Event(p)
    BY <1>3, <2>1, FutexTypes
  <2>3. ASSUME NEW b \in Nat, b <= now PROVE SeenBefore(t, b)' <=> SeenBefore(t, b)
    <3>1. Event(new)'.at = now /\ ~(now < b)
      BY <1>1, <1>3, <2>1, <2>3 DEF Recording
    <3>2. \A s \in Switches : Event(s)' = Event(s)
      BY <2>1 DEF Switches
    <3> QED
      BY <2>1, <3>1, <3>2 DEF SeenBefore
  <2> QED
    BY <1>1, <2>2, <2>3, OtherThread
<1> QED
  BY <1>2, <1>3

Entered(e, x) == \E kind \in {"wait", "wake"} : x = [kind |-> kind, at |-> now] /\ e.wait = (kind = "wait")

(* A step in which the thread of a CPU enters or leaves a futex call.      *)
LEMMA Call ==
    ASSUME KernelBasics, Scheduling, FutexShows, NEW c \in Cpus, cur[c] # Idle, NEW e, Recording(c, e),
           NEW x \in {Outside} \cup [kind : {"wait", "wake"}, at : {now}], futex' = [futex EXCEPT ![cur[c]] = x],
           \/ e.kind = "entry" /\ waits' = waits /\ Entered(e, x)
           \/ /\ e.kind = "exit" /\ x = Outside /\ futex[cur[c]] # Outside
              /\ waits' = IF futex[cur[c]].kind = "wait"
                             THEN waits \cup {<<cur[c], futex[cur[c]].at, now>>} ELSE waits
    PROVE  FutexShows'
<1> PICK t : t = cur[c]
  OBVIOUS
<1>1. /\ t \in Threads /\ now \in Nat /\ now' = now /\ futex \in [Threads -> FutexCalls]
      /\ waits \subseteq Threads \X Nat \X Nat /\ e.at = now
  BY DEF KernelBasics, KernelTypes, Tids, Recording
<1>2. PICK new :
              /\ Event(new)' = e /\ \A p \in Recorded : Event(p)' = Event(p)
              /\ \A p \in Recorded : p[1] = c => Event(p).at < now
              /\ Switches' = Switches \cup (IF e.kind = "switch" THEN {new} ELSE {})
              /\ \A u : FutexOf(u)' = FutexOf(u) \cup
                    (IF /\ e.kind \in {"entry", "exit"}
                        /\ \E s \in Switches : s[1] = c /\ LastSwitch(s) /\ Event(s).next = u
                     THEN {new} ELSE {})
  BY FutexGrows
<1>3. Switches' = Switches /\ \A s \in Switches : Event(s)' = Event(s)
  BY <1>2 DEF Switches
<1>4. \A u : \A p \in FutexOf(u) : Event(p)' = Event(p)
  BY <1>2, FutexTypes
<1>5. \A u, b : SeenBefore(u, b)' <=> SeenBefore(u, b)
  BY <1>3 DEF SeenBefore
<1>6. \A s \in Switches : s[1] = c /\ LastSwitch(s) => Event(s).next = t
  BY DEF Scheduling, Seated
<1>7. ASSUME NEW u \in Threads, u # t PROVE CallShows(u)' /\ WaitsShow(u)'
  <2>1. FutexOf(u)' = FutexOf(u)
    BY <1>2, <1>6, <1>7
  <2>2. futex'[u] = futex[u]
    BY <1>1, <1>7
  <2>3. \A b, f : <<u, b, f>> \in waits' <=> <<u, b, f>> \in waits
    BY <1>7
  <2>4. CallShows(u) /\ WaitsShow(u)
    BY DEF FutexShows
  <2>5. now' \in Nat /\ now <= now'
    BY <1>1
  <2> QED
    BY <1>4, <1>5, <2>1, <2>2, <2>3, <2>4, <2>5, OtherThread
<1>8. CallShows(t)' /\ WaitsShow(t)'
  <2>1. CallShows(t) /\ WaitsShow(t)
    BY <1>1 DEF FutexShows
  <2>2. futex'[t] = x
    BY <1>1
  <2>3. CASE \E p \in Switches : p[1] = c
    <3>1. PICK s \in Switches : s[1] = c /\ LastSwitch(s)
      BY <2>3, LastSwitchExists
    <3>2. Event(s).next = t
      BY <1>6, <3>1
    <3>3. FutexOf(t)' = FutexOf(t) \cup {new}
      BY <1>2, <3>1, <3>2
    <3>4. \A p \in FutexOf(t) : Event(p).at < now
      BY <1>1, <1>2, <3>1, <3>2, FutexBeforeNow
    <3>5. CASE e.kind = "entry"
      <4>1. PICK kind \in {"wait", "wake"} : x = [kind |-> kind, at |-> now] /\ e.wait = (kind = "wait")
        BY <3>5 DEF Entered
      <4>2. waits' = waits
        BY <3>5
      <4> QED
        BY <1>1, <1>2, <1>3, <1>4, <2>1, <2>2, <3>3, <3>4, <3>5, <4>1, <4>2, EntryShows
    <3>6. CASE e.kind = "exit"
      <4>1. /\ x = Outside /\ futex[t] # Outside
            /\ waits' = IF futex[t].kind = "wait" THEN waits \cup {<<t, futex[t].at, now>>} ELSE waits
        BY <3>6
      <4> QED
        BY <1>1, <1>2, <1>3, <1>4, <2>1, <2>2, <3>3, <3>4, <3>6, <4>1, ExitShows
    <3> QED
      BY <3>5, <3>6
  <2>4. CASE ~\E p \in Switches : p[1] = c
    <3>1. SwitchesOf(t) = {}
      BY <1>1, <2>4 DEF Scheduling, Seated
    <3>2. FutexOf(t) = {}
      <4>1. ASSUME NEW p \in FutexOf(t) PROVE FALSE
        <5>1. PICK s : Brought(t, s, p)
          BY DEF FutexOf
        <5> QED
          BY <3>1, <5>1, BroughtBefore
      <4> QED
        BY <4>1
    <3>3. FutexOf(t)' = {}
      BY <1>2, <2>4, <3>2
    <3>4. futex'[t].at <= now'
      BY <1>1, <2>2 DEF Outside
    <3>5. \A b, f : <<t, b, f>> \in waits' => b <= now'
      <4>1. futex[t].at <= now /\ \A b, f : <<t, b, f>> \in waits => b <= now
        BY <2>1 DEF CallShows, WaitsShow
      <4> QED
        BY <1>1, <4>1
    <3> QED
      BY <1>1, <1>3, <3>1, <3>3, <3>4, <3>5, NeverSeen
  <2> QED
    BY <2>3, <2>4
<1> QED
  BY <1>7, <1>8 DEF FutexShows

LEMMA FutexInvKept == FutexInv /\ [KernelNext]_kernelVars => FutexInv'
<1> SUFFICES ASSUME FutexInv, [KernelNext]_kernelVars PROVE FutexInv'
  OBVIOUS
<1>1. SchedulingInv' /\ KernelBasics /\ lost \in Nat
  BY SchedulingKept DEF FutexInv, SchedulingInv, KernelBasics, KernelTypes
<1>2. lost' = lost \/ lost' = lost + 1
  <2>1. \A c \in Cpus : \A e : Emit(c, e) => lost' = lost \/ lost' = lost + 1
    BY DEF Emit, Record, Discard
  <2>2. ASSUME NEW c \in Cpus, Switch(c) \/ Mark(c) \/ FutexEntry(c) \/ FutexExit(c)
        PROVE  lost' = lost \/ lost' = lost + 1
    BY <2>1, <2>2 DEF Switch, Mark, Record, FutexEntry, FutexExit
  <2> QED
    BY <2>2 DEF KernelNext, kernelVars, Tick
<1> SUFFICES ASSUME lost' = 0 PROVE FutexShows'
  BY <1>1 DEF FutexInv
<1>3. Scheduling /\ FutexShows /\ lost' = lost /\ lost' # lost + 1 /\ now \in Nat
  BY <1>1, <1>2 DEF FutexInv, SchedulingInv, KernelBasics, KernelTypes
<1>4. CASE UNCHANGED kernelVars
  BY <1>1, <1>3, <1>4, NoCall DEF kernelVars
<1>5. CASE Tick
  <2>1. futex' = futex /\ waits' = waits /\ streams' = streams /\ now' = now + 1
    BY <1>5 DEF Tick
  <2> QED
    BY <1>1, <1>3, <2>1, NoCall
<1>6. ASSUME NEW c \in Cpus, Switch(c)
      PROVE  FutexShows'
  <2>1. PICK next \in Tids \ {cur[c]} :
              /\ UNCHANGED <<now, futex, waits>>
              /\ \/ /\ Recording(c, [kind |-> "switch", cpu |-> c, at |-> now, prev |-> cur[c], next |-> next])
                    /\ lost' = lost
                 \/ streams' = streams /\ lost' = lost + 1
    BY <1>1, <1>6, SwitchIs
  <2> DEFINE e == [kind |-> "switch", cpu |-> c, at |-> now, prev |-> cur[c], next |-> next]
  <2>2. e.kind \in {"switch", "mark"} /\ Recording(c, e)
    BY <1>3, <2>1
  <2> HIDE DEF e
  <2> QED
    BY <1>1, <1>3, <2>1, <2>2, NoCall
<1>7. ASSUME NEW c \in Cpus, Mark(c)
      PROVE  FutexShows'
  <2> DEFINE e == [kind |-> "mark", cpu |-> c, at |-> now]
  <2>1. UNCHANGED <<futex, waits>> /\ Recording(c, e)
    BY <1>1, <1>7, MarkIs
  <2>2. e.kind \in {"switch", "mark"} /\ now' = now
    BY <2>1 DEF Recording
  <2> HIDE DEF e
  <2> QED
    BY <1>1, <1>3, <2>1, <2>2, NoCall
<1>8. ASSUME NEW c \in Cpus, FutexEntry(c)
      PROVE  FutexShows'
  <2>1. PICK kind \in {"wait", "wake"} :
              /\ cur[c] # Idle
              /\ futex' = [futex EXCEPT ![cur[c]] = [kind |-> kind, at |-> now]]
              /\ waits' = waits
              /\ Recording(c, [kind |-> "entry", cpu |-> c, at |-> now, wait |-> kind = "wait"])
    BY <1>1, <1>3, <1>8, FutexEntryIs
  <2> DEFINE e == [kind |-> "entry", cpu |-> c, at |-> now, wait |-> kind = "wait"]
             x == [kind |-> kind, at |-> now]
  <2>2. e.kind = "entry" /\ x \in [kind : {"wait", "wake"}, at : {now}]
    OBVIOUS
  <2>3. Recording(c, e) /\ futex' = [futex EXCEPT ![cur[c]] = x]
    BY <2>1
  <2>4. Entered(e, x)
    <3>1. e.wait = (kind = "wait")
      OBVIOUS
    <3> QED
      BY <3>1 DEF Entered
  <2> HIDE DEF e, x
  <2> QED
    BY <1>1, <1>3, <2>1, <2>2, <2>3, <2>4, Call
<1>9. ASSUME NEW c \in Cpus, FutexExit(c)
      PROVE  FutexShows'
  <2> DEFINE e == [kind |-> "exit", cpu |-> c, at |-> now]
  <2>1. /\ cur[c] # Idle /\ futex[cur[c]] # Outside
        /\ futex' = [futex EXCEPT ![cur[c]] = Outside]
        /\ waits' = IF futex[cur[c]].kind = "wait"
                       THEN waits \cup {<<cur[c], futex[cur[c]].at, now>>} ELSE waits
        /\ Recording(c, e)
    BY <1>1, <1>3, <1>9, FutexExitIs
  <2>2. e.kind = "exit"
    OBVIOUS
  <2>3. PICK x : x = Outside
    OBVIOUS
  <2>4. x \in {Outside} \cup [kind : {"wait", "wake"}, at : {now}] /\ futex' = [futex EXCEPT ![cur[c]] = x]
    BY <2>1, <2>3
  <2> HIDE DEF e
  <2> QED
    BY <1>1, <1>3, <2>1, <2>2, <2>3, <2>4, Call
<1> QED
  BY <1>4, <1>5, <1>6, <1>7, <1>8, <1>9 DEF KernelNext

(* The futex calls, told of the lines.                                     *)
CallBy(t, i) ==
    /\ Merged[i].kind \in {"entry", "exit"}
    /\ \E j : LastOn(Merged[i].cpu, i - 1, j) /\ Merged[j].next = t
WaitLines(t, j, k) ==
    /\ j \in 1 .. Len(Merged) /\ k \in 1 .. Len(Merged) /\ j < k
    /\ CallBy(t, j) /\ Merged[j].kind = "entry" /\ Merged[j].wait
    /\ CallBy(t, k) /\ Merged[k].kind = "exit"
    /\ \A i \in 1 .. Len(Merged) : j < i /\ i < k => ~CallBy(t, i)

LEMMA SameCpuLines ==
    ASSUME KernelBasics, NEW i \in 1 .. Len(Merged), NEW j \in 1 .. Len(Merged), Order[i][1] = Order[j][1]
    PROVE  /\ i < j <=> Order[i][2] < Order[j][2]
           /\ i = j <=> Order[i][2] = Order[j][2]
           /\ Order[i][2] \in Nat /\ Order[j][2] \in Nat
<1>1. /\ Order[i] \in Recorded /\ Order[j] \in Recorded /\ Merged[i] = Event(Order[i]) /\ Merged[j] = Event(Order[j])
      /\ Merged[i].cpu = Merged[j].cpu /\ Merged[i].at \in Nat /\ Merged[j].at \in Nat /\ i \in Nat /\ j \in Nat
  BY LinesOf
<1>2. i # j => Order[i] # Order[j]
  BY LinesOf
<1>3. (i < j => Merged[i].at < Merged[j].at) /\ (j < i => Merged[j].at < Merged[i].at)
  BY <1>1, MergedIsSorted
<1>4. Order[i][2] \in Nat /\ Order[j][2] \in Nat
  <2>1. \A p \in Recorded : p[2] \in Nat
    <3> SUFFICES ASSUME NEW p \in Recorded PROVE p[2] \in Nat
      OBVIOUS
    <3>1. p[1] \in Cpus /\ p[2] \in DOMAIN streams[p[1]]
      BY RecordedIs
    <3>2. streams[p[1]] \in Seq(KernelEvents)
      BY <3>1 DEF KernelBasics, KernelTypes
    <3> QED
      BY <3>1, <3>2
  <2> QED
    BY <1>1, <2>1
<1>5. i < j => Order[i][2] < Order[j][2]
  <2> SUFFICES ASSUME i < j PROVE Order[i][2] < Order[j][2]
    OBVIOUS
  <2>1. Order[i] # Order[j] /\ Event(Order[i]).at < Event(Order[j]).at
    BY <1>1, <1>2, <1>3
  <2>2. ~(Event(Order[j]).at < Event(Order[i]).at)
    BY <1>1, <2>1
  <2> QED
    BY <1>1, <2>1, <2>2, SameStream
<1>6. j < i => Order[j][2] < Order[i][2]
  <2> SUFFICES ASSUME j < i PROVE Order[j][2] < Order[i][2]
    OBVIOUS
  <2>1. Order[i] # Order[j] /\ Event(Order[j]).at < Event(Order[i]).at
    BY <1>1, <1>2, <1>3
  <2>2. ~(Event(Order[i]).at < Event(Order[j]).at)
    BY <1>1, <2>1
  <2> QED
    BY <1>1, <2>1, <2>2, SameStream
<1> QED
  BY <1>1, <1>4, <1>5, <1>6

LEMMA CallLines ==
    ASSUME KernelBasics, NEW t, NEW i \in 1 .. Len(Merged)
    PROVE  CallBy(t, i) <=> Order[i] \in FutexOf(t)
<1> DEFINE p == Order[i]
           c == Merged[i].cpu
<1>1. p \in Recorded /\ Merged[i] = Event(p) /\ c = p[1] /\ i \in Nat /\ Len(Merged) \in Nat
  BY LinesOf
<1>2. \A k : k \in 1 .. i - 1 <=> k \in 1 .. Len(Merged) /\ k < i
  BY <1>1
<1>3. \A k \in 1 .. Len(Merged) : SwitchOn(c, k) <=> Order[k] \in Switches /\ Order[k][1] = p[1]
  BY <1>1, LinesOf DEF SwitchOn
<1>4. \A k \in 1 .. Len(Merged) : Order[k][1] = p[1] =>
         (k < i <=> Order[k][2] < p[2]) /\ Order[k][2] \in Nat /\ p[2] \in Nat
  BY SameCpuLines
<1>5. \A r \in Switches : \E k \in 1 .. Len(Merged) : Order[k] = r
  BY MergedIs DEF Switches
<1>6. ASSUME NEW j, LastOn(c, i - 1, j), Merged[j].next = t
      PROVE  Brought(t, Order[j], p)
  <2>1. /\ j \in 1 .. Len(Merged) /\ j < i /\ SwitchOn(c, j)
        /\ \A k \in 1 .. Len(Merged) : k < i /\ j < k => ~SwitchOn(c, k)
    BY <1>2, <1>6 DEF LastOn
  <2>2. /\ Order[j] \in Switches /\ Order[j][1] = p[1] /\ Order[j][2] < p[2]
    BY <1>3, <1>4, <2>1
  <2>3. Event(Order[j]).next = t
    BY <1>6, <2>1, LinesOf
  <2>4. ASSUME NEW r \in Switches, r[1] = p[1], r[2] < p[2] PROVE r[2] <= Order[j][2]
    <3>1. PICK k \in 1 .. Len(Merged) : Order[k] = r
      BY <1>5
    <3>2. k < i /\ SwitchOn(c, k)
      BY <1>3, <1>4, <2>4, <3>1
    <3>3. ~(j < k)
      BY <2>1, <3>2
    <3>4. /\ j < k <=> Order[j][2] < Order[k][2]
          /\ Order[j][2] \in Nat /\ Order[k][2] \in Nat
      BY <2>1, <2>2, <2>4, <3>1, SameCpuLines
    <3> QED
      BY <3>1, <3>3, <3>4
  <2> QED
    BY <2>2, <2>3, <2>4 DEF Brought
<1>7. ASSUME NEW s, Brought(t, s, p)
      PROVE  \E j : LastOn(c, i - 1, j) /\ Merged[j].next = t
  <2>1. /\ s \in Switches /\ s[1] = p[1] /\ s[2] < p[2] /\ Event(s).next = t
        /\ \A r \in Switches : r[1] = p[1] /\ r[2] < p[2] => r[2] <= s[2]
    BY <1>7 DEF Brought
  <2>2. PICK j \in 1 .. Len(Merged) : Order[j] = s
    BY <1>5, <2>1
  <2>3. j < i /\ SwitchOn(c, j) /\ Merged[j].next = t
    BY <1>3, <1>4, <2>1, <2>2, LinesOf
  <2>4. ASSUME NEW k \in 1 .. i - 1, j < k, SwitchOn(c, k) PROVE FALSE
    <3>1. k \in 1 .. Len(Merged) /\ k < i
      BY <1>2
    <3>2. Order[k] \in Switches /\ Order[k][1] = p[1] /\ Order[k][2] < p[2]
      BY <1>3, <1>4, <2>4, <3>1
    <3>3. Order[k][2] <= s[2]
      BY <2>1, <3>2
    <3>4. /\ j < k <=> Order[j][2] < Order[k][2]
          /\ Order[j][2] \in Nat /\ Order[k][2] \in Nat
      BY <2>1, <2>2, <3>1, <3>2, SameCpuLines
    <3> QED
      BY <2>2, <2>4, <3>3, <3>4
  <2>5. j \in 1 .. i - 1
    BY <1>2, <2>3
  <2> QED
    BY <2>3, <2>4, <2>5 DEF LastOn
<1>8. CallBy(t, i) <=> Event(p).kind \in {"entry", "exit"} /\ \E s : Brought(t, s, p)
  BY <1>1, <1>6, <1>7 DEF CallBy
<1> QED
  BY <1>1, <1>8 DEF FutexOf, Futexes

LEMMA CallStampsGrow ==
    ASSUME KernelBasics, Scheduling, NEW t \in Threads, NEW i \in 1 .. Len(Merged), NEW j \in 1 .. Len(Merged),
           CallBy(t, i), CallBy(t, j)
    PROVE  /\ Merged[i].at \in Nat /\ Merged[j].at \in Nat
           /\ i < j <=> Merged[i].at < Merged[j].at
<1>1. /\ Order[i] \in FutexOf(t) /\ Order[j] \in FutexOf(t) /\ i \in Nat /\ j \in Nat
      /\ Merged[i] = Event(Order[i]) /\ Merged[j] = Event(Order[j])
      /\ i # j => Order[i] # Order[j]
  BY CallLines, LinesOf
<1>2. i # j => Merged[i].at # Merged[j].at
  BY <1>1, FutexApart
<1>3. /\ Merged[i].at \in Nat /\ Merged[j].at \in Nat
      /\ i < j => Merged[i].at <= Merged[j].at
      /\ j < i => Merged[j].at <= Merged[i].at
  BY MergedIsSorted
<1> QED
  BY <1>1, <1>2, <1>3

(* The waits of a thread that its events show, and that its lines show.    *)
WaitInEvents(t, a, b) == \E p, q : Waited(t, p, q) /\ a = Event(p).at /\ b = Event(q).at
WaitInLines(t, a, b) == \E j, k : WaitLines(t, j, k) /\ a = Merged[j].at /\ b = Merged[k].at

LEMMA WaitLinesAre ==
    ASSUME KernelBasics, Scheduling, NEW t \in Threads, NEW a, NEW b
    PROVE  WaitInLines(t, a, b) <=> WaitInEvents(t, a, b)
<1>1. ASSUME NEW j \in 1 .. Len(Merged), NEW k \in 1 .. Len(Merged)
      PROVE  WaitLines(t, j, k) <=> Waited(t, Order[j], Order[k])
  <2>1. \A i \in 1 .. Len(Merged) : Merged[i] = Event(Order[i]) /\ (CallBy(t, i) <=> Order[i] \in FutexOf(t))
    BY CallLines, LinesOf
  <2>2. CallBy(t, j) /\ CallBy(t, k) => (j < k <=> Event(Order[j]).at < Event(Order[k]).at)
    BY <2>1, CallStampsGrow
  <2>3. ASSUME CallBy(t, j), CallBy(t, k)
        PROVE  (\A i \in 1 .. Len(Merged) : j < i /\ i < k => ~CallBy(t, i)) <=>
               \A r \in FutexOf(t) : ~(Event(Order[j]).at < Event(r).at /\ Event(r).at < Event(Order[k]).at)
    <3>1. \A r \in FutexOf(t) : \E i \in 1 .. Len(Merged) : Order[i] = r
      BY MergedIs DEF FutexOf, Futexes
    <3>2. \A i \in 1 .. Len(Merged) : CallBy(t, i) =>
             /\ j < i <=> Event(Order[j]).at < Event(Order[i]).at
             /\ i < k <=> Event(Order[i]).at < Event(Order[k]).at
      BY <2>1, <2>3, CallStampsGrow
    <3> QED
      BY <2>1, <3>1, <3>2
  <2> QED
    BY <2>1, <2>2, <2>3 DEF WaitLines, Waited
<1>2. \A p, q : Waited(t, p, q) => /\ \E j \in 1 .. Len(Merged) : Order[j] = p
                                  /\ \E k \in 1 .. Len(Merged) : Order[k] = q
  <2>1. \A p, q : Waited(t, p, q) => p \in Recorded /\ q \in Recorded
    BY DEF Waited, FutexOf, Futexes
  <2> QED
    BY <2>1, MergedIs
<1>3. \A i \in 1 .. Len(Merged) : Merged[i] = Event(Order[i])
  BY LinesOf
<1>4. \A j, k : WaitLines(t, j, k) => j \in 1 .. Len(Merged) /\ k \in 1 .. Len(Merged)
  BY DEF WaitLines
<1>5. ASSUME NEW j, NEW k, WaitLines(t, j, k), a = Merged[j].at, b = Merged[k].at
      PROVE  \E p, q : Waited(t, p, q) /\ a = Event(p).at /\ b = Event(q).at
  BY <1>1, <1>3, <1>4, <1>5
<1>6. ASSUME NEW p, NEW q, Waited(t, p, q), a = Event(p).at, b = Event(q).at
      PROVE  \E j, k : WaitLines(t, j, k) /\ a = Merged[j].at /\ b = Merged[k].at
  BY <1>1, <1>2, <1>3, <1>6
<1> QED
  BY <1>5, <1>6 DEF WaitInEvents, WaitInLines

LastCall(t, n, i) == i \in 1 .. n /\ CallBy(t, i) /\ \A k \in 1 .. n : i < k => ~CallBy(t, k)
Began(i) == IF Merged[i].kind = "entry" /\ Merged[i].wait THEN Stamp(i) ELSE NotPending
CallsPendingAre(p, n) ==
    \A t \in Threads :
       /\ \A i : LastCall(t, n, i) => p.pendingFx[t] = Began(i)
       /\ (\A i \in 1 .. n : ~CallBy(t, i)) => p.pendingFx[t] = NotPending
WaitRowsAre(s, n) ==
    /\ \A i \in 1 .. Len(s) : \E t \in Threads : \E j, k : k <= n /\ WaitLines(t, j, k) /\ s[i] = Tile(t, j, k)
    /\ \A t \in Threads : \A j, k : k <= n /\ WaitLines(t, j, k) => \E i \in 1 .. Len(s) : s[i] = Tile(t, j, k)
CallsRead(b, n) == CallsPendingAre(b[n], n) /\ WaitRowsAre(b[n].fx, n)

LEMMA CallsReadBegin ==
    ASSUME KernelBasics, NEW b, Reading(b)
    PROVE  CallsRead(b, 0)
<1>1. b[0] = Start0
  BY DEF Reading
<1>2. CallsPendingAre(b[0], 0)
  BY <1>1 DEF CallsPendingAre, LastCall, Start0
<1>3. b[0].fx = <<>>
  BY <1>1 DEF Start0
<1>4. \A t \in Threads : \A j, k : WaitLines(t, j, k) => ~(k <= 0)
  <2> SUFFICES ASSUME NEW t \in Threads, NEW j, NEW k, WaitLines(t, j, k) PROVE ~(k <= 0)
    OBVIOUS
  <2>1. k \in 1 .. Len(Merged)
    BY DEF WaitLines
  <2> QED
    BY <2>1
<1> QED
  BY <1>2, <1>3, <1>4 DEF CallsRead, WaitRowsAre

LEMMA LastCallGrows ==
    ASSUME NEW n \in Nat, NEW t
    PROVE  /\ CallBy(t, n + 1) => \A i : LastCall(t, n + 1, i) <=> i = n + 1
           /\ ~CallBy(t, n + 1) => \A i : LastCall(t, n + 1, i) => LastCall(t, n, i)
<1>1. \A i : i \in 1 .. n + 1 <=> i \in 1 .. n \/ i = n + 1
  OBVIOUS
<1>2. \A i \in 1 .. n : i < n + 1
  OBVIOUS
<1>3. ~(n + 1 < n + 1) /\ \A k \in 1 .. n + 1 : ~(n + 1 < k)
  OBVIOUS
<1> QED
  BY <1>1, <1>2, <1>3 DEF LastCall

LEMMA LastCallExists ==
    ASSUME NEW n \in Nat, NEW t, \E i \in 1 .. n : CallBy(t, i)
    PROVE  \E i : LastCall(t, n, i)
<1> DEFINE T == {i \in 1 .. n : CallBy(t, i)}
<1>1. T \subseteq 1 .. n /\ T # {}
  OBVIOUS
<1>2. PICK x \in T : \A y \in T : y <= x
  <2> HIDE DEF T
  <2> QED
    BY <1>1, LastExists
<1>3. \A k \in 1 .. n : x < k => ~CallBy(t, k)
  BY <1>2
<1> QED
  BY <1>2, <1>3 DEF LastCall

(* A line that is no call of a thread.                                     *)
LEMMA PendingStays ==
    ASSUME NEW n \in Nat, NEW t \in Threads, NEW p, NEW q, CallsPendingAre(p, n), q.pendingFx[t] = p.pendingFx[t],
           ~CallBy(t, n + 1)
    PROVE  /\ \A i : LastCall(t, n + 1, i) => q.pendingFx[t] = Began(i)
           /\ (\A i \in 1 .. n + 1 : ~CallBy(t, i)) => q.pendingFx[t] = NotPending
<1>1. \A i \in 1 .. n : i \in 1 .. n + 1
  OBVIOUS
<1>2. \A i : LastCall(t, n + 1, i) => LastCall(t, n, i)
  BY LastCallGrows
<1> QED
  BY <1>1, <1>2 DEF CallsPendingAre

LEMMA WaitRowsStay ==
    ASSUME NEW n \in Nat, NEW s, WaitRowsAre(s, n), \A t \in Threads : \A j : ~WaitLines(t, j, n + 1)
    PROVE  WaitRowsAre(s, n + 1)
<1>1. ASSUME NEW t \in Threads, NEW j, NEW k, WaitLines(t, j, k)
      PROVE  k <= n + 1 <=> k <= n
  <2>1. k \in Nat
    BY <1>1 DEF WaitLines
  <2>2. k # n + 1
    BY <1>1
  <2> QED
    BY <2>1, <2>2
<1> QED
  BY <1>1 DEF WaitRowsAre

LEMMA NoCallRead ==
    ASSUME NEW b, NEW n \in Nat, CallsRead(b, n), \A t \in Threads : ~CallBy(t, n + 1),
           b[n + 1].pendingFx = b[n].pendingFx, b[n + 1].fx = b[n].fx
    PROVE  CallsRead(b, n + 1)
<1>1. CallsPendingAre(b[n + 1], n + 1)
  BY PendingStays DEF CallsRead, CallsPendingAre
<1>2. \A t \in Threads : \A j : ~WaitLines(t, j, n + 1)
  BY DEF WaitLines
<1>3. WaitRowsAre(b[n + 1].fx, n + 1)
  BY <1>2, WaitRowsStay DEF CallsRead
<1> QED
  BY <1>1, <1>3 DEF CallsRead

(* The parser knows whose call it reads.                                   *)
LEMMA CallerIs ==
    ASSUME KernelBasics, NEW b, NEW n \in Nat, n + 1 <= Len(Merged), RunningIs(b[n], n),
           Merged[n + 1].cpu \in Cpus, NEW t \in Threads
    PROVE  CallBy(t, n + 1) <=> /\ Merged[n + 1].kind \in {"entry", "exit"}
                                /\ b[n].running[Merged[n + 1].cpu].tid = t
<1> DEFINE c == Merged[n + 1].cpu
           r == b[n].running[c]
<1>1. \A j : LastOn(c, n, j) => r.tid = Merged[j].next
  <2> SUFFICES ASSUME NEW j, LastOn(c, n, j) PROVE r.tid = Merged[j].next
    OBVIOUS
  <2>1. r = [tid |-> Merged[j].next, at |-> Stamp(j)]
    BY DEF RunningIs
  <2> HIDE DEF r
  <2> QED
    BY <2>1
<1>2. r.tid = t => \E j : LastOn(c, n, j)
  <2> SUFFICES ASSUME r.tid = t PROVE \E j : LastOn(c, n, j)
    OBVIOUS
  <2> DEFINE T == {i \in 1 .. n : SwitchOn(c, i)}
  <2>1. T \subseteq 1 .. n /\ T # {}
    <3>1. ~\A i \in 1 .. n : ~SwitchOn(c, i)
      BY TidsAre DEF RunningIs
    <3> QED
      BY <3>1
  <2>2. PICK x \in T : \A y \in T : y <= x
    <3> HIDE DEF T
    <3> QED
      BY <2>1, LastExists
  <2>3. \A k \in 1 .. n : x < k => ~SwitchOn(c, k)
    BY <2>2
  <2> QED
    BY <2>2, <2>3 DEF LastOn
<1>3. CallBy(t, n + 1) <=> /\ Merged[n + 1].kind \in {"entry", "exit"}
                           /\ \E j : LastOn(c, n, j) /\ Merged[j].next = t
  <2>1. (n + 1) - 1 = n
    OBVIOUS
  <2> QED
    BY <2>1 DEF CallBy
<1> HIDE DEF r, c
<1>4. CallBy(t, n + 1) <=> Merged[n + 1].kind \in {"entry", "exit"} /\ r.tid = t
  BY <1>1, <1>2, <1>3
<1> QED
  BY <1>4 DEF r, c

LEMMA EntryRead ==
    ASSUME KernelBasics, NEW b, Reading(b), NEW n \in Nat, n + 1 <= Len(Merged), CallsRead(b, n),
           NEW t \in Threads, \A u \in Threads : CallBy(u, n + 1) <=> u = t,
           Merged[n + 1].kind = "entry", b[n].pendingFx \in [Threads -> Nat],
           b[n + 1].pendingFx = [b[n].pendingFx EXCEPT ![t] = IF Merged[n + 1].wait THEN Stamp(n + 1) ELSE NotPending],
           b[n + 1].fx = b[n].fx
    PROVE  CallsRead(b, n + 1)
<1>1. CallsPendingAre(b[n + 1], n + 1)
  <2> SUFFICES ASSUME NEW u \in Threads
               PROVE  /\ \A i : LastCall(u, n + 1, i) => b[n + 1].pendingFx[u] = Began(i)
                      /\ (\A i \in 1 .. n + 1 : ~CallBy(u, i)) => b[n + 1].pendingFx[u] = NotPending
    BY DEF CallsPendingAre
  <2>1. CASE u = t
    <3>1. b[n + 1].pendingFx[u] = Began(n + 1)
      BY <2>1 DEF Began
    <3>2. \A i : LastCall(u, n + 1, i) <=> i = n + 1
      BY <2>1, LastCallGrows
    <3>3. n + 1 \in 1 .. n + 1
      OBVIOUS
    <3> QED
      BY <2>1, <3>1, <3>2, <3>3
  <2>2. CASE u # t
    <3>1. b[n + 1].pendingFx[u] = b[n].pendingFx[u] /\ ~CallBy(u, n + 1)
      BY <2>2
    <3>2. PICK p, q : p = b[n] /\ q = b[n + 1]
      OBVIOUS
    <3>3. CallsPendingAre(p, n) /\ q.pendingFx[u] = p.pendingFx[u]
      BY <3>1, <3>2 DEF CallsRead
    <3>4. /\ \A i : LastCall(u, n + 1, i) => q.pendingFx[u] = Began(i)
          /\ (\A i \in 1 .. n + 1 : ~CallBy(u, i)) => q.pendingFx[u] = NotPending
      BY <3>1, <3>3, PendingStays
    <3> QED
      BY <3>2, <3>4
  <2> QED
    BY <2>1, <2>2
<1>2. \A u \in Threads : \A j : ~WaitLines(u, j, n + 1)
  BY DEF WaitLines
<1>3. WaitRowsAre(b[n + 1].fx, n + 1)
  BY <1>2, WaitRowsStay DEF CallsRead
<1> QED
  BY <1>1, <1>3 DEF CallsRead

LEMMA ExitRead ==
    ASSUME KernelBasics, Scheduling, NEW b, Reading(b), NEW n \in Nat, n + 1 <= Len(Merged), CallsRead(b, n),
           NEW t \in Threads, \A u \in Threads : CallBy(u, n + 1) <=> u = t,
           Merged[n + 1].kind = "exit", b[n].pendingFx \in [Threads -> Nat], b[n].fx \in Seq(Rows),
           b[n + 1].pendingFx = [b[n].pendingFx EXCEPT ![t] = NotPending],
           LET began == b[n].pendingFx[t]
           IN b[n + 1].fx = IF began # NotPending /\ Stamp(n + 1) > began
                               THEN Append(b[n].fx, Interval(t, began, Stamp(n + 1))) ELSE b[n].fx
    PROVE  CallsRead(b, n + 1)
<1> DEFINE began == b[n].pendingFx[t]
           s == b[n].fx
           M == Len(s)
<1>1. n + 1 \in 1 .. Len(Merged) /\ \A i \in 1 .. n : i \in 1 .. Len(Merged) /\ i < n + 1
  BY MergedIs
<1>2. CallsPendingAre(b[n + 1], n + 1)
  <2> SUFFICES ASSUME NEW u \in Threads
               PROVE  /\ \A i : LastCall(u, n + 1, i) => b[n + 1].pendingFx[u] = Began(i)
                      /\ (\A i \in 1 .. n + 1 : ~CallBy(u, i)) => b[n + 1].pendingFx[u] = NotPending
    BY DEF CallsPendingAre
  <2>1. CASE u = t
    <3>1. b[n + 1].pendingFx[u] = Began(n + 1)
      BY <2>1 DEF Began
    <3>2. \A i : LastCall(u, n + 1, i) <=> i = n + 1
      BY <2>1, LastCallGrows
    <3>3. n + 1 \in 1 .. n + 1
      OBVIOUS
    <3> QED
      BY <2>1, <3>1, <3>2, <3>3
  <2>2. CASE u # t
    <3>1. b[n + 1].pendingFx[u] = b[n].pendingFx[u] /\ ~CallBy(u, n + 1)
      BY <2>2
    <3>2. PICK p, q : p = b[n] /\ q = b[n + 1]
      OBVIOUS
    <3>3. CallsPendingAre(p, n) /\ q.pendingFx[u] = p.pendingFx[u]
      BY <3>1, <3>2 DEF CallsRead
    <3>4. /\ \A i : LastCall(u, n + 1, i) => q.pendingFx[u] = Began(i)
          /\ (\A i \in 1 .. n + 1 : ~CallBy(u, i)) => q.pendingFx[u] = NotPending
      BY <3>1, <3>3, PendingStays
    <3> QED
      BY <3>2, <3>4
  <2> QED
    BY <2>1, <2>2
<1>3. ASSUME NEW u \in Threads, NEW j, WaitLines(u, j, n + 1)
      PROVE  u = t /\ LastCall(t, n, j) /\ began = Stamp(j) /\ began # NotPending /\ Stamp(n + 1) > began
  <2>1. /\ u = t /\ j \in 1 .. Len(Merged) /\ j < n + 1 /\ CallBy(t, j) /\ CallBy(t, n + 1)
        /\ Merged[j].kind = "entry" /\ Merged[j].wait
        /\ \A i \in 1 .. Len(Merged) : j < i /\ i < n + 1 => ~CallBy(t, i)
    BY <1>3 DEF WaitLines
  <2>2. LastCall(t, n, j)
    <3>1. j \in 1 .. n
      BY <2>1
    <3> QED
      BY <1>1, <2>1, <3>1 DEF LastCall
  <2>3. began = Stamp(j)
    BY <2>1, <2>2 DEF CallsRead, CallsPendingAre, Began
  <2>4. Merged[j].at < Merged[n + 1].at /\ Merged[j].at \in Nat /\ Merged[n + 1].at \in Nat
    BY <1>1, <2>1, CallStampsGrow
  <2> DEFINE x == Merged[j].at
             y == Merged[n + 1].at
  <2>5. x < y /\ x \in Nat /\ y \in Nat /\ Stamp(j) = 1 + x /\ Stamp(n + 1) = 1 + y
    BY <2>4 DEF Stamp
  <2> HIDE DEF x, y
  <2>6. Stamp(j) # NotPending /\ Stamp(n + 1) > Stamp(j)
    BY <2>5 DEF NotPending
  <2> QED
    BY <2>1, <2>2, <2>3, <2>6
<1>4. CASE began # NotPending /\ Stamp(n + 1) > began
  <2>1. \E i \in 1 .. n : CallBy(t, i)
    BY <1>4 DEF CallsRead, CallsPendingAre
  <2>2. PICK j : LastCall(t, n, j)
    BY <2>1, LastCallExists
  <2>3. began = Began(j)
    BY <2>2 DEF CallsRead, CallsPendingAre
  <2>4. Merged[j].kind = "entry" /\ Merged[j].wait /\ began = Stamp(j)
    BY <1>4, <2>3 DEF Began
  <2>5. WaitLines(t, j, n + 1)
    <3>1. j \in 1 .. n /\ CallBy(t, j) /\ \A k \in 1 .. n : j < k => ~CallBy(t, k)
      BY <2>2 DEF LastCall
    <3>2. \A k \in 1 .. Len(Merged) : k < n + 1 => k \in 1 .. n
      OBVIOUS
    <3> QED
      BY <1>1, <2>4, <3>1, <3>2 DEF WaitLines
  <2> DEFINE new == Tile(t, j, n + 1)
  <2>6. b[n + 1].fx = Append(s, new)
    BY <1>4, <2>4 DEF Tile
  <2>7. new \in Rows
    <3>1. j \in 1 .. Len(Merged)
      BY <2>5 DEF WaitLines
    <3> QED
      BY <1>1, <3>1, MergedIsSorted DEF Tile, Interval, Stamp, Rows
  <2>8. /\ M \in Nat /\ Len(Append(s, new)) = M + 1 /\ Append(s, new)[M + 1] = new
        /\ \A i \in 1 .. M : Append(s, new)[i] = s[i]
    BY <2>7
  <2>9. \A u \in Threads : \A x : WaitLines(u, x, n + 1) => u = t /\ x = j
    <3> SUFFICES ASSUME NEW u \in Threads, NEW x, WaitLines(u, x, n + 1) PROVE u = t /\ x = j
      OBVIOUS
    <3>1. u = t /\ LastCall(t, n, x)
      BY <1>3
    <3>2. x \in Nat /\ j \in Nat /\ ~(x < j) /\ ~(j < x)
      BY <2>2, <3>1 DEF LastCall
    <3> QED
      BY <3>1, <3>2
  <2>10. /\ \A i \in 1 .. M : \E u \in Threads : \E x, k : k <= n /\ WaitLines(u, x, k) /\ s[i] = Tile(u, x, k)
         /\ \A u \in Threads : \A x, k : k <= n /\ WaitLines(u, x, k) => \E i \in 1 .. M : s[i] = Tile(u, x, k)
    BY DEF CallsRead, WaitRowsAre
  <2>11. \A u \in Threads : \A x, k : WaitLines(u, x, k) => k \in Nat
    BY DEF WaitLines
  <2>12. n <= n + 1 /\ n + 1 <= n + 1 /\ (\A k \in Nat : k <= n => k <= n + 1)
         /\ (\A k \in Nat : k <= n + 1 => k <= n \/ k = n + 1)
    OBVIOUS
  <2>13. (\A i \in 1 .. M + 1 : i \in 1 .. M \/ i = M + 1) /\ (\A i \in 1 .. M : i \in 1 .. M + 1) /\ M + 1 \in 1 .. M + 1
    BY <2>8
  <2> DEFINE s2 == Append(s, new)
  <2> HIDE DEF s2, M, s
  <2>14. ASSUME NEW i \in 1 .. M + 1
         PROVE  \E u \in Threads : \E x, k : k <= n + 1 /\ WaitLines(u, x, k) /\ s2[i] = Tile(u, x, k)
    <3>1. CASE i = M + 1
      BY <2>5, <2>8, <2>12, <3>1 DEF s2
    <3>2. CASE i \in 1 .. M
      <4>1. PICK u, x, k : u \in Threads /\ k <= n /\ WaitLines(u, x, k) /\ s[i] = Tile(u, x, k)
        BY <2>10, <3>2
      <4>2. k <= n + 1
        BY <2>11, <2>12, <4>1
      <4> QED
        BY <2>8, <3>2, <4>1, <4>2 DEF s2
    <3> QED
      BY <2>13, <3>1, <3>2
  <2>15. ASSUME NEW u \in Threads, NEW x, NEW k, k <= n + 1, WaitLines(u, x, k)
         PROVE  \E i \in 1 .. M + 1 : s2[i] = Tile(u, x, k)
    <3>1. k <= n \/ k = n + 1
      BY <2>11, <2>12, <2>15
    <3>2. CASE k <= n
      <4>1. PICK i \in 1 .. M : s[i] = Tile(u, x, k)
        BY <2>10, <2>15, <3>2
      <4> QED
        BY <2>8, <2>13, <4>1 DEF s2
    <3>3. CASE k = n + 1
      <4>1. u = t /\ x = j
        BY <2>9, <2>15, <3>3
      <4> QED
        BY <2>8, <2>13, <3>3, <4>1 DEF s2
    <3> QED
      BY <3>1, <3>2, <3>3
  <2>16. WaitRowsAre(s2, n + 1)
    <3>1. Len(s2) = M + 1
      BY <2>8 DEF s2
    <3> QED
      BY <2>14, <2>15, <3>1 DEF WaitRowsAre
  <2> QED
    <3>1. b[n + 1].fx = s2
      BY <2>6 DEF s2
    <3> QED
      BY <1>2, <2>16, <3>1 DEF CallsRead
<1>5. CASE ~(began # NotPending /\ Stamp(n + 1) > began)
  <2>1. b[n + 1].fx = s
    BY <1>5
  <2>2. \A u \in Threads : \A j : ~WaitLines(u, j, n + 1)
    BY <1>3, <1>5
  <2>3. WaitRowsAre(s, n + 1)
    BY <2>2, WaitRowsStay DEF CallsRead
  <2> QED
    BY <1>2, <2>1, <2>3 DEF CallsRead
<1> QED
  BY <1>4, <1>5

LEMMA CallsReadOn ==
    ASSUME KernelBasics, Scheduling, NEW b, Reading(b), NEW n \in Nat, n + 1 <= Len(Merged), CallsRead(b, n)
    PROVE  CallsRead(b, n + 1)
<1>1. n + 1 \in 1 .. Len(Merged) /\ n \in 0 .. Len(Merged) /\ (n + 1) - 1 = n
  BY MergedIs
<1>2. PICK e, ts, p, q : e = Merged[n + 1] /\ ts = Stamp(n + 1) /\ p = b[n] /\ q = b[n + 1]
  OBVIOUS
<1>3. q = SeqLine(p, e, ts) /\ p \in Parsers /\ e \in KernelEvents /\ ts \in Nat
  BY <1>1, <1>2, MergedIsSorted DEF Reading, Stamp
<1>4. e.cpu \in Cpus /\ (e.kind = "switch" \/ e.kind = "mark" \/ e.kind = "entry" \/ e.kind = "exit")
  BY <1>3 DEF KernelEvents
<1>5. /\ p.running \in [Cpus -> [tid : Tids, at : Nat]] /\ p.pendingFx \in [Threads -> Nat] /\ p.fx \in Seq(Rows)
  BY <1>3 DEF Parsers
<1>6. p.running[e.cpu].tid \in Tids
  BY <1>4, <1>5
<1> DEFINE r == p.running[e.cpu]
<1>7. ASSUME NEW t \in Threads
      PROVE  CallBy(t, n + 1) <=> e.kind \in {"entry", "exit"} /\ r.tid = t
  <2>1. RunningIs(b[n], n)
    BY <1>1, AllWalked DEF Walk
  <2> QED
    BY <1>2, <1>4, <2>1, CallerIs
<1>8. CASE e.kind = "switch"
  <2>1. e.prev # e.next
    BY <1>1, <1>2, <1>8, SwitchLine DEF SwitchAt
  <2>2. q.pendingFx = p.pendingFx /\ q.fx = p.fx
    <3>1. SwitchDoes(p, e, ts)
      BY <1>3, <1>8, <2>1, SwitchTakes
    <3> QED
      BY <1>3, <1>8, <2>1, <3>1 DEF SwitchDoes
  <2>3. \A t \in Threads : ~CallBy(t, n + 1)
    BY <1>7, <1>8
  <2> QED
    BY <1>2, <2>2, <2>3, NoCallRead
<1>9. CASE e.kind = "mark" \/ (e.kind # "switch" /\ r.tid = Idle)
  <2>1. q.pendingFx = p.pendingFx /\ q.fx = p.fx
    <3>1. OthersDo(p, e, ts)
      BY <1>3, <1>9, OthersTake
    <3> QED
      BY <1>3, <1>9, <3>1 DEF OthersDo
  <2>2. \A t \in Threads : ~CallBy(t, n + 1)
    BY <1>7, <1>9, TidsAre
  <2> QED
    BY <1>2, <2>1, <2>2, NoCallRead
<1>10. CASE e.kind = "entry" /\ r.tid # Idle
  <2>1. PICK t : t = r.tid
    OBVIOUS
  <2>2. t \in Threads
    BY <1>6, <1>10, <2>1, TidsAre
  <2>3. q.pendingFx = [p.pendingFx EXCEPT ![t] = IF e.wait THEN ts ELSE NotPending] /\ q.fx = p.fx
    <3>1. OthersDo(p, e, ts)
      BY <1>3, <1>10, <2>1, OthersTake
    <3> QED
      BY <1>3, <1>10, <2>1, <3>1 DEF OthersDo
  <2>4. \A u \in Threads : CallBy(u, n + 1) <=> u = t
    BY <1>7, <1>10, <2>1
  <2> QED
    BY <1>2, <1>5, <1>10, <2>2, <2>3, <2>4, EntryRead
<1>11. CASE e.kind = "exit" /\ r.tid # Idle
  <2>1. PICK t : t = r.tid
    OBVIOUS
  <2>2. t \in Threads
    BY <1>6, <1>11, <2>1, TidsAre
  <2>3. /\ q.pendingFx = [p.pendingFx EXCEPT ![t] = NotPending]
        /\ LET began == p.pendingFx[t]
           IN q.fx = IF began # NotPending /\ ts > began THEN Append(p.fx, Interval(t, began, ts)) ELSE p.fx
    <3>1. OthersDo(p, e, ts)
      BY <1>3, <1>11, <2>1, OthersTake
    <3> QED
      BY <1>3, <1>11, <2>1, <3>1 DEF OthersDo
  <2>4. \A u \in Threads : CallBy(u, n + 1) <=> u = t
    BY <1>7, <1>11, <2>1
  <2> QED
    BY <1>2, <1>5, <1>11, <2>2, <2>3, <2>4, ExitRead
<1> QED
  BY <1>4, <1>8, <1>9, <1>10, <1>11

LEMMA AllWaitRows ==
    ASSUME KernelBasics, Scheduling, StartsOnItsDay
    PROVE  WaitRowsAre(Sequential.fx, Len(Merged))
<1>1. \A i \in 1 .. Len(Merged) : SwitchAt(i) => Merged[i].prev # Merged[i].next
  BY SwitchLine
<1>2. PICK b : Reading(b)
  BY <1>1, SequentialReads
<1> DEFINE S == {n \in Nat : n <= Len(Merged) => CallsRead(b, n)}
<1>3. Len(Merged) \in Nat
  BY MergedIs
<1>4. 0 \in S
  BY <1>2, CallsReadBegin
<1>5. ASSUME NEW n \in Nat, n \in S PROVE n + 1 \in S
  <2> SUFFICES ASSUME n + 1 <= Len(Merged) PROVE CallsRead(b, n + 1)
    OBVIOUS
  <2>1. CallsRead(b, n)
    BY <1>3, <1>5
  <2> QED
    BY <1>2, <2>1, CallsReadOn
<1>6. Nat \subseteq S
  <2> HIDE DEF S
  <2> QED
    BY <1>4, <1>5, NatIsInductive
<1>7. CallsRead(b, Len(Merged))
  BY <1>3, <1>6
<1> QED
  BY <1>2, <1>7 DEF CallsRead, Reading

LEMMA AllRowTypes ==
    ASSUME KernelBasics, Scheduling, StartsOnItsDay
    PROVE  Sequential.fx \in Seq(Rows) /\ DOMAIN Sequential.fx = 1 .. Len(Sequential.fx)
<1>1. \A i \in 1 .. Len(Merged) : SwitchAt(i) => Merged[i].prev # Merged[i].next
  BY SwitchLine
<1>2. PICK b : Reading(b)
  BY <1>1, SequentialReads
<1>3. Len(Merged) \in 0 .. Len(Merged)
  BY MergedIs
<1>4. Sequential \in Parsers
  BY <1>2, <1>3 DEF Reading
<1> QED
  BY <1>4 DEF Parsers

\* The futex rows of parse_kernel are the waits that took place, however the
\* threads migrate and whatever else they call, if nothing was discarded.
THEOREM WaitsFound == KernelSpec => []WaitsAreFound
<1>1. FutexInv => WaitsAreFound
  <2> SUFFICES ASSUME FutexInv, lost = 0, StartsOnItsDay PROVE WaitsAreFound
    BY DEF WaitsAreFound
  <2> DEFINE fx == Sequential.fx
             found == {<<fx[i].tid, fx[i].t0 - 1, fx[i].t1 - 1>> : i \in DOMAIN fx}
             seen(w) == \E q \in Recorded : /\ Event(q).kind = "switch" /\ Event(q).next = w[1]
                                            /\ Event(q).at < w[2]
  <2>1. KernelBasics /\ Scheduling /\ FutexShows /\ waits \subseteq Threads \X Nat \X Nat
    BY DEF FutexInv, SchedulingInv, KernelBasics, KernelTypes
  <2>2. WaitRowsAre(fx, Len(Merged))
    BY <2>1, AllWaitRows
  <2>3. ASSUME NEW t \in Threads, NEW a, NEW b
        PROVE  <<t, a, b>> \in waits /\ SeenBefore(t, a) <=> WaitInLines(t, a, b)
    <3>1. <<t, a, b>> \in waits /\ SeenBefore(t, a) <=> WaitInEvents(t, a, b)
      BY <2>1 DEF FutexShows, WaitsShow, WaitInEvents
    <3> QED
      BY <2>1, <3>1, WaitLinesAre
  <2>4. \A t, a, b : seen(<<t, a, b>>) <=> SeenBefore(t, a)
    BY DEF SeenBefore, Switches
  <2>5. ASSUME NEW t, NEW j, NEW k, WaitLines(t, j, k)
        PROVE  /\ Tile(t, j, k).tid = t /\ Tile(t, j, k).t0 - 1 = Merged[j].at /\ Tile(t, j, k).t1 - 1 = Merged[k].at
               /\ k <= Len(Merged)
    <3>1. j \in 1 .. Len(Merged) /\ k \in 1 .. Len(Merged)
      BY <2>5 DEF WaitLines
    <3>2. Merged[j].at \in Nat /\ Merged[k].at \in Nat
      BY <2>1, <3>1, MergedIsSorted
    <3> QED
      BY <3>1, <3>2 DEF Tile, Interval, Stamp
  <2>6. ASSUME NEW i \in DOMAIN fx
        PROVE  <<fx[i].tid, fx[i].t0 - 1, fx[i].t1 - 1>> \in {w \in waits : seen(w)}
    <3>1. i \in 1 .. Len(fx)
      BY <2>1, AllRowTypes
    <3>2. PICK t, j, k : t \in Threads /\ WaitLines(t, j, k) /\ fx[i] = Tile(t, j, k)
      BY <2>2, <3>1 DEF WaitRowsAre
    <3>3. fx[i].tid = t /\ fx[i].t0 - 1 = Merged[j].at /\ fx[i].t1 - 1 = Merged[k].at
      BY <2>5, <3>2
    <3>4. <<t, Merged[j].at, Merged[k].at>> \in waits /\ SeenBefore(t, Merged[j].at)
      BY <2>3, <3>2 DEF WaitInLines
    <3> HIDE DEF fx
    <3> QED
      BY <2>4, <3>3, <3>4
  <2>7. ASSUME NEW w \in waits, seen(w) PROVE w \in found
    <3>1. PICK t \in Threads, a \in Nat, b \in Nat : w = <<t, a, b>>
      BY <2>1
    <3>2. SeenBefore(t, a)
      BY <2>4, <2>7, <3>1
    <3>3. PICK j, k : WaitLines(t, j, k) /\ a = Merged[j].at /\ b = Merged[k].at
      BY <2>3, <2>7, <3>1, <3>2 DEF WaitInLines
    <3>4. PICK i \in 1 .. Len(fx) : fx[i] = Tile(t, j, k)
      BY <2>2, <2>5, <3>3 DEF WaitRowsAre
    <3>5. i \in DOMAIN fx /\ w = <<fx[i].tid, fx[i].t0 - 1, fx[i].t1 - 1>>
      <4>1. i \in DOMAIN fx
        BY <2>1, AllRowTypes
      <4> QED
        BY <2>5, <3>1, <3>3, <3>4, <4>1
    <3> HIDE DEF fx
    <3> QED
      BY <3>5
  <2>8. found = {w \in waits : seen(w)}
    <3> HIDE DEF fx, seen
    <3> QED
      BY <2>6, <2>7
  <2> QED
    BY <2>8 DEF WaitsAreFound
<1> QED
  BY <1>1, FutexInvInit, FutexInvKept, PTL DEF KernelSpec

-----------------------------------------------------------------------------
(* A column lists the members of a set of numbers, each by its row, in an  *)
(* order W.  Two parsers that list the same set agree.                     *)
Enumerates(s, n, g, A, f) ==
    /\ n \in Nat /\ g \in [1 .. n -> A] /\ s = [k \in 1 .. n |-> f[g[k]]]
    /\ \A a \in A : \E k \in 1 .. n : g[k] = a
Rising(n, g, W) == \A i, j \in 1 .. n : i < j => <<g[i], g[j]>> \in W
Lists(s, A, f, W) == \E n, g : Enumerates(s, n, g, A, f) /\ Rising(n, g, W)

Less == {p \in Nat \X Nat : p[1] < p[2]}
Orders(W, A) ==
    /\ \A a \in A : <<a, a>> \notin W
    /\ \A a, b \in A : a # b => <<a, b>> \in W \/ <<b, a>> \in W
    /\ \A a, b, c \in A : <<a, b>> \in W /\ <<b, c>> \in W => <<a, c>> \in W

LEMMA LessIs == ASSUME NEW a \in Nat, NEW b \in Nat PROVE <<a, b>> \in Less <=> a < b
  BY DEF Less

LEMMA LessOrders == ASSUME NEW A, A \subseteq Nat PROVE Orders(Less, A)
<1>1. \A a \in A : a \in Nat
  OBVIOUS
<1>2. \A a, b \in A : <<a, b>> \in Less <=> a < b
  BY <1>1, LessIs
<1>3. \A a, b \in A : a # b => a < b \/ b < a
  BY <1>1
<1>4. \A a, b, c \in A : a < b /\ b < c => a < c
  BY <1>1
<1>5. \A a \in A : ~(a < a)
  BY <1>1
<1> QED
  BY <1>2, <1>3, <1>4, <1>5 DEF Orders

LEMMA ListedIs ==
    ASSUME NEW s, NEW n, NEW g, NEW A, NEW f, Enumerates(s, n, g, A, f)
    PROVE  /\ n \in Nat /\ Len(s) = n /\ DOMAIN s = 1 .. n
           /\ \A k \in 1 .. n : g[k] \in A /\ s[k] = f[g[k]]
<1>1. n \in Nat /\ g \in [1 .. n -> A] /\ s = [k \in 1 .. n |-> f[g[k]]]
  BY DEF Enumerates
<1> QED
  BY <1>1

LEMMA ListedIn ==
    ASSUME NEW s, NEW A, NEW f, NEW W, Lists(s, A, f, W), NEW V, \A a \in A : f[a] \in V
    PROVE  s \in Seq(V)
<1>1. PICK n, g : Enumerates(s, n, g, A, f)
  BY DEF Lists
<1>2. n \in Nat /\ g \in [1 .. n -> A] /\ s = [k \in 1 .. n |-> f[g[k]]]
  BY <1>1 DEF Enumerates
<1>3. \A k \in 1 .. n : f[g[k]] \in V
  BY <1>2
<1> QED
  BY <1>2, <1>3

LEMMA AppendIs ==
    ASSUME NEW n \in Nat, NEW e, NEW s, s = [k \in 1 .. n |-> e[k]], NEW x
    PROVE  Append(s, x) = [k \in 1 .. n + 1 |-> IF k = n + 1 THEN x ELSE e[k]]
<1> DEFINE S == {e[k] : k \in 1 .. n} \cup {x}
           r == [k \in 1 .. n + 1 |-> IF k = n + 1 THEN x ELSE e[k]]
<1>1. s \in Seq(S) /\ Len(s) = n /\ x \in S
  OBVIOUS
<1>2. /\ Append(s, x) \in Seq(S) /\ Len(Append(s, x)) = n + 1
      /\ \A i \in 1 .. n : Append(s, x)[i] = s[i]
      /\ Append(s, x)[n + 1] = x
  <2> HIDE DEF S
  <2> QED
    BY <1>1, AppendProperties
<1>3. r \in Seq(S) /\ Len(r) = n + 1
  OBVIOUS
<1>4. \A i \in 1 .. n + 1 : Append(s, x)[i] = r[i]
  BY <1>2
<1> HIDE DEF r, S
<1>5. Append(s, x) = r
  BY <1>2, <1>3, <1>4, SeqEqual
<1> QED
  BY <1>5 DEF r

LEMMA SameNumbers ==
    ASSUME NEW A, NEW W, Orders(W, A), NEW s, NEW r, NEW f, NEW n, NEW m, NEW g, NEW h,
           Enumerates(s, n, g, A, f), Enumerates(r, m, h, A, f), Rising(n, g, W), Rising(m, h, W)
    PROVE  n = m /\ \A k \in 1 .. n : g[k] = h[k]
<1>b. /\ n \in Nat /\ m \in Nat /\ g \in [1 .. n -> A] /\ h \in [1 .. m -> A]
      /\ \A a \in A : \E k \in 1 .. n : g[k] = a
      /\ \A a \in A : \E k \in 1 .. m : h[k] = a
  BY DEF Enumerates
<1>a. \A a, b \in A : <<a, b>> \in W => <<b, a>> \notin W /\ a # b
  BY DEF Orders
<1> DEFINE D == {k \in Nat : k \in 1 .. n /\ k \in 1 .. m /\ g[k] # h[k]}
<1>1. D = {}
  <2> SUFFICES ASSUME D # {} PROVE FALSE
    OBVIOUS
  <2>1. PICK k \in D : \A j \in D : k <= j
    <3>1. D \subseteq Nat
      OBVIOUS
    <3> HIDE DEF D
    <3> QED
      BY <3>1, LeastExists
  <2>2. k \in 1 .. n /\ k \in 1 .. m /\ g[k] # h[k] /\ g[k] \in A /\ h[k] \in A
    BY <1>b
  <2>3. ASSUME NEW j \in 1 .. n, j \in 1 .. m, j < k PROVE g[j] = h[j]
    <3>1. j \notin D
      BY <1>b, <2>1, <2>2, <2>3
    <3> QED
      BY <1>b, <2>3, <3>1
  <2>4. PICK j \in 1 .. m : h[j] = g[k]
    BY <1>b, <2>2
  <2>5. PICK i \in 1 .. n : g[i] = h[k]
    BY <1>b, <2>2
  <2>6. ~(j < k)
    <3> SUFFICES ASSUME j < k PROVE FALSE
      OBVIOUS
    <3>1. j \in 1 .. n /\ g[j] = h[j]
      BY <1>b, <2>2, <2>3
    <3>2. <<g[j], g[k]>> \in W
      BY <2>2, <3>1 DEF Rising
    <3> QED
      BY <1>a, <2>2, <2>4, <3>1, <3>2
  <2>7. ~(i < k)
    <3> SUFFICES ASSUME i < k PROVE FALSE
      OBVIOUS
    <3>1. i \in 1 .. m /\ g[i] = h[i]
      BY <1>b, <2>2, <2>3
    <3>2. <<h[i], h[k]>> \in W
      BY <2>2, <3>1 DEF Rising
    <3> QED
      BY <1>a, <2>2, <2>5, <3>1, <3>2
  <2>8. k < j /\ k < i
    <3>1. j # k /\ i # k
      BY <2>2, <2>4, <2>5
    <3> QED
      BY <1>b, <2>2, <2>6, <2>7, <3>1
  <2>9. <<h[k], h[j]>> \in W /\ <<g[k], g[i]>> \in W
    BY <2>2, <2>8 DEF Rising
  <2> QED
    BY <1>a, <2>2, <2>4, <2>5, <2>9
<1>2. ASSUME NEW k \in 1 .. n, k \in 1 .. m PROVE g[k] = h[k]
  <2>1. k \notin D
    <3> HIDE DEF D
    <3> QED
      BY <1>1
  <2>2. k \in Nat
    BY <1>b
  <2> QED
    BY <1>2, <2>1, <2>2
<1>3. ~(n < m)
  <2> SUFFICES ASSUME n < m PROVE FALSE
    OBVIOUS
  <2> PICK k : k = n + 1
    OBVIOUS
  <2>1. k \in 1 .. m /\ h[k] \in A
    BY <1>b
  <2>2. PICK j \in 1 .. n : g[j] = h[k]
    BY <1>b, <2>1
  <2>3. j \in 1 .. m /\ j < k
    BY <1>b
  <2>4. g[j] = h[j] /\ h[j] \in A
    BY <1>2, <1>b, <2>3
  <2>5. <<h[j], h[k]>> \in W
    BY <2>1, <2>3 DEF Rising
  <2> QED
    BY <1>a, <2>1, <2>2, <2>4, <2>5
<1>4. ~(m < n)
  <2> SUFFICES ASSUME m < n PROVE FALSE
    OBVIOUS
  <2> PICK k : k = m + 1
    OBVIOUS
  <2>1. k \in 1 .. n /\ g[k] \in A
    BY <1>b
  <2>2. PICK j \in 1 .. m : h[j] = g[k]
    BY <1>b, <2>1
  <2>3. j \in 1 .. n /\ j < k
    BY <1>b
  <2>4. g[j] = h[j] /\ g[j] \in A
    BY <1>2, <1>b, <2>3
  <2>5. <<g[j], g[k]>> \in W
    BY <2>1, <2>3 DEF Rising
  <2> QED
    BY <1>a, <2>1, <2>2, <2>4, <2>5
<1> QED
  BY <1>2, <1>3, <1>4, <1>b

(* Two listings of a set are the same.                                     *)
LEMMA OneListing ==
    ASSUME NEW A, NEW W, Orders(W, A), NEW s, NEW r, NEW f, Lists(s, A, f, W), Lists(r, A, f, W)
    PROVE  s = r
<1>1. PICK n, g : Enumerates(s, n, g, A, f) /\ Rising(n, g, W)
  BY DEF Lists
<1>2. PICK m, h : Enumerates(r, m, h, A, f) /\ Rising(m, h, W)
  BY DEF Lists
<1>3. n = m /\ \A k \in 1 .. n : g[k] = h[k]
  BY <1>1, <1>2, SameNumbers
<1>4. s = [k \in 1 .. n |-> f[g[k]]] /\ r = [k \in 1 .. n |-> f[h[k]]]
  BY <1>1, <1>2, <1>3 DEF Enumerates
<1>5. \A k \in 1 .. n : f[g[k]] = f[h[k]]
  BY <1>3
<1> QED
  BY <1>4, <1>5

LEMMA SameListing ==
    ASSUME NEW A, NEW s, NEW f, NEW h, NEW V, NEW W, Lists(s, A, f, V), \A a \in A : f[a] = h[a],
           \A a, b \in A : <<a, b>> \in V => <<a, b>> \in W
    PROVE  Lists(s, A, h, W)
<1>1. PICK n, g : Enumerates(s, n, g, A, f) /\ Rising(n, g, V)
  BY DEF Lists
<1>2. Enumerates(s, n, g, A, h)
  <2>1. \A k \in 1 .. n : f[g[k]] = h[g[k]]
    BY <1>1, ListedIs
  <2> QED
    BY <1>1, <2>1 DEF Enumerates
<1>3. Rising(n, g, W)
  BY <1>1, ListedIs DEF Rising
<1> QED
  BY <1>2, <1>3 DEF Lists

LEMMA NoneListed == ASSUME NEW f, NEW W PROVE Lists(<<>>, {}, f, W)
<1>1. Enumerates(<<>>, 0, <<>>, {}, f) /\ Rising(0, <<>>, W)
  BY DEF Enumerates, Rising
<1> QED
  BY <1>1 DEF Lists

LEMMA OneListedMore ==
    ASSUME NEW s, NEW A, NEW f, NEW W, Lists(s, A, f, W), NEW m, \A a \in A : <<a, m>> \in W
    PROVE  Lists(Append(s, f[m]), A \cup {m}, f, W)
<1>1. PICK n, g : Enumerates(s, n, g, A, f) /\ Rising(n, g, W)
  BY DEF Lists
<1> PICK h : h = [k \in 1 .. n + 1 |-> IF k = n + 1 THEN m ELSE g[k]]
  OBVIOUS
<1>2. n \in Nat /\ g \in [1 .. n -> A] /\ s = [k \in 1 .. n |-> f[g[k]]]
  BY <1>1 DEF Enumerates
<1>3. h \in [1 .. n + 1 -> A \cup {m}] /\ h[n + 1] = m /\ \A k \in 1 .. n : h[k] = g[k]
  BY <1>2
<1>4. Append(s, f[m]) = [k \in 1 .. n + 1 |-> f[h[k]]]
  <2> PICK e : e = [k \in 1 .. n |-> f[g[k]]]
    OBVIOUS
  <2>1. s = [k \in 1 .. n |-> e[k]]
    BY <1>2
  <2>2. Append(s, f[m]) = [k \in 1 .. n + 1 |-> IF k = n + 1 THEN f[m] ELSE e[k]]
    BY <1>2, <2>1, AppendIs
  <2> QED
    BY <1>2, <1>3, <2>2
<1>5. \A a \in A \cup {m} : \E k \in 1 .. n + 1 : h[k] = a
  <2>1. n + 1 \in 1 .. n + 1 /\ \A k \in 1 .. n : k \in 1 .. n + 1
    BY <1>2
  <2> QED
    BY <1>1, <1>3, <2>1 DEF Enumerates
<1>6. Rising(n + 1, h, W)
  <2> SUFFICES ASSUME NEW i \in 1 .. n + 1, NEW j \in 1 .. n + 1, i < j PROVE <<h[i], h[j]>> \in W
    BY DEF Rising
  <2>1. i \in 1 .. n /\ (j \in 1 .. n \/ j = n + 1)
    BY <1>2
  <2>2. g[i] \in A
    BY <1>2, <2>1
  <2> QED
    BY <1>1, <1>3, <2>1, <2>2 DEF Rising
<1>7. Enumerates(Append(s, f[m]), n + 1, h, A \cup {m}, f)
  BY <1>2, <1>3, <1>4, <1>5 DEF Enumerates
<1> QED
  BY <1>6, <1>7 DEF Lists

LEMMA KeptIs ==
    ASSUME NEW s, Len(s) \in Nat, NEW mask
    PROVE  \E b : Passes([of |-> "keep", s |-> s, mask |-> mask], Len(s), b) /\ Kept(s, mask) = b[Len(s)]
<1> DEFINE l == [of |-> "keep", s |-> s, mask |-> mask]
           b == CHOOSE b : Passes(l, Len(s), b)
<1>1. Passes(l, Len(s), b)
  BY PassesExist
<1>2. Kept(s, mask) = b[Len(s)]
  BY DEF Kept, Passes, Onward, Begun
<1> QED
  BY <1>1, <1>2

LEMMA SortedIs ==
    ASSUME NEW s, Len(s) \in Nat, NEW key
    PROVE  \E b : Passes([of |-> "sort", s |-> s, key |-> key], Len(s), b) /\ Sorted(s, key) = b[Len(s)]
<1> DEFINE l == [of |-> "sort", s |-> s, key |-> key]
           b == CHOOSE b : Passes(l, Len(s), b)
<1>1. Passes(l, Len(s), b)
  BY PassesExist
<1>2. Sorted(s, key) = b[Len(s)]
  BY DEF Sorted, Passes, Onward, Begun, Behind
<1> QED
  BY <1>1, <1>2

LEMMA JoinedIs ==
    ASSUME NEW ws, NEW column
    PROVE  \E b : Passes([of |-> "join", ws |-> ws, column |-> column], NCpus, b) /\ OfAll(ws, column) = b[NCpus]
<1> DEFINE l == [of |-> "join", ws |-> ws, column |-> column]
           b == CHOOSE b : Passes(l, NCpus, b)
<1>1. Passes(l, NCpus, b)
  BY PassesExist, KernelTraceAssumption
<1>2. OfAll(ws, column) = b[NCpus]
  BY DEF OfAll, Passes, Onward, Begun
<1> QED
  BY <1>1, <1>2

(* A column that grows by some of the numbers that come one after another. *)
Taken(pos, I, m) == {pos[k] : k \in {i \in 1 .. m : i \in I}}
Growing(c, N, pos, I, f) ==
    /\ c[0] = <<>>
    /\ \A m \in 1 .. N : c[m] = IF m \in I THEN Append(c[m - 1], f[pos[m]]) ELSE c[m - 1]

LEMMA Grows ==
    ASSUME NEW N \in Nat, NEW c, NEW pos, NEW I, NEW f, NEW W, Rising(N, pos, W), Growing(c, N, pos, I, f)
    PROVE  \A m \in 0 .. N : Lists(c[m], Taken(pos, I, m), f, W)
<1> DEFINE S == {m \in Nat : m <= N => Lists(c[m], Taken(pos, I, m), f, W)}
<1>1. 0 \in S
  <2>1. Taken(pos, I, 0) = {}
    BY DEF Taken
  <2> QED
    BY <2>1, NoneListed DEF Growing
<1>2. ASSUME NEW m \in Nat, m \in S PROVE m + 1 \in S
  <2> SUFFICES ASSUME m + 1 <= N PROVE Lists(c[m + 1], Taken(pos, I, m + 1), f, W)
    OBVIOUS
  <2> PICK n : n = m + 1
    OBVIOUS
  <2>1. n \in 1 .. N /\ n - 1 = m /\ m <= N /\ \A k : k \in 1 .. n <=> k \in 1 .. m \/ k = n
    OBVIOUS
  <2>2. c[n] = IF n \in I THEN Append(c[m], f[pos[n]]) ELSE c[m]
    BY <2>1 DEF Growing
  <2>3. Lists(c[m], Taken(pos, I, m), f, W)
    BY <1>2, <2>1
  <2>4. Taken(pos, I, n) = IF n \in I THEN Taken(pos, I, m) \cup {pos[n]} ELSE Taken(pos, I, m)
    BY <2>1 DEF Taken
  <2>5. \A a \in Taken(pos, I, m) : <<a, pos[n]>> \in W
    <3> SUFFICES ASSUME NEW k \in 1 .. m PROVE <<pos[k], pos[n]>> \in W
      BY DEF Taken
    <3>1. k \in 1 .. N /\ k < n
      BY <2>1
    <3> QED
      BY <2>1, <3>1 DEF Rising
  <2>6. Lists(c[n], Taken(pos, I, n), f, W)
    BY <2>2, <2>3, <2>4, <2>5, OneListedMore
  <2> QED
    BY <2>6
<1> HIDE DEF S
<1>3. Nat \subseteq S
  BY <1>1, <1>2, NatIsInductive
<1> QED
  BY <1>3 DEF S

(* The records at the places of a mask.                                    *)
LEMMA KeptLists ==
    ASSUME NEW s, NEW n, NEW g, NEW A, NEW f, NEW W, Enumerates(s, n, g, A, f), Rising(n, g, W), NEW mask
    PROVE  Lists(Kept(s, mask), Taken(g, mask, n), f, W)
<1>1. n \in Nat /\ Len(s) = n /\ DOMAIN s = 1 .. n /\ \A k \in 1 .. n : g[k] \in A /\ s[k] = f[g[k]]
  BY ListedIs
<1>2. PICK b : Passes([of |-> "keep", s |-> s, mask |-> mask], n, b) /\ Kept(s, mask) = b[n]
  BY <1>1, KeptIs
<1>3. Growing(b, n, g, mask, f)
  <2>1. /\ b[0] = Begun([of |-> "keep", s |-> s, mask |-> mask])
        /\ \A i \in 1 .. n : b[i] = Onward([of |-> "keep", s |-> s, mask |-> mask], b[i - 1], i)
    BY <1>1, <1>2, PassesOn
  <2> QED
    BY <1>1, <2>1 DEF Growing, Begun, Onward
<1>4. \A m \in 0 .. n : Lists(b[m], Taken(g, mask, m), f, W)
  BY <1>1, <1>3, Grows
<1> QED
  BY <1>1, <1>2, <1>4

(* Two columns one behind the other.                                       *)
LEMMA ConcatIs ==
    ASSUME NEW n \in Nat, NEW m \in Nat, NEW d, NEW e, NEW s, NEW r,
           s = [k \in 1 .. n |-> d[k]], r = [k \in 1 .. m |-> e[k]]
    PROVE  s \o r = [k \in 1 .. n + m |-> IF k <= n THEN d[k] ELSE e[k - n]]
<1> DEFINE S == {d[k] : k \in 1 .. n} \cup {e[k] : k \in 1 .. m}
           t == [k \in 1 .. n + m |-> IF k <= n THEN d[k] ELSE e[k - n]]
<1>1. s \in Seq(S) /\ r \in Seq(S) /\ Len(s) = n /\ Len(r) = m
  OBVIOUS
<1>2. /\ s \o r \in Seq(S) /\ Len(s \o r) = n + m
      /\ \A i \in 1 .. n + m : (s \o r)[i] = IF i <= n THEN s[i] ELSE r[i - n]
  <2> HIDE DEF S
  <2> QED
    BY <1>1, ConcatProperties
<1>3. t \in Seq(S) /\ Len(t) = n + m
  <2>1. \A k \in 1 .. n + m : t[k] \in S
    <3> SUFFICES ASSUME NEW k \in 1 .. n + m PROVE (IF k <= n THEN d[k] ELSE e[k - n]) \in S
      OBVIOUS
    <3>1. CASE k <= n
      BY <3>1
    <3>2. CASE ~(k <= n)
      <4>1. k - n \in 1 .. m
        BY <3>2
      <4> QED
        BY <3>2, <4>1
    <3> QED
      BY <3>1, <3>2
  <2> HIDE DEF S
  <2> QED
    BY <2>1
<1>4. \A i \in 1 .. n + m : (s \o r)[i] = t[i]
  <2> SUFFICES ASSUME NEW i \in 1 .. n + m PROVE (s \o r)[i] = t[i]
    OBVIOUS
  <2>1. CASE i <= n
    BY <1>2, <2>1
  <2>2. CASE ~(i <= n)
    <3>1. i - n \in 1 .. m
      BY <2>2
    <3> QED
      BY <1>2, <2>2, <3>1
  <2> QED
    BY <2>1, <2>2
<1> HIDE DEF S, t
<1>5. s \o r = t
  BY <1>2, <1>3, <1>4, SeqEqual
<1> QED
  BY <1>5 DEF t

LEMMA ConcatLists ==
    ASSUME NEW s, NEW r, NEW A, NEW B, NEW f, NEW W, Lists(s, A, f, W), Lists(r, B, f, W),
           \A a \in A, b \in B : <<a, b>> \in W
    PROVE  Lists(s \o r, A \cup B, f, W)
<1>1. PICK n, g : Enumerates(s, n, g, A, f) /\ Rising(n, g, W)
  BY DEF Lists
<1>2. PICK m, h : Enumerates(r, m, h, B, f) /\ Rising(m, h, W)
  BY DEF Lists
<1> PICK j : j = [k \in 1 .. n + m |-> IF k <= n THEN g[k] ELSE h[k - n]]
  OBVIOUS
<1>3. /\ n \in Nat /\ g \in [1 .. n -> A] /\ s = [k \in 1 .. n |-> f[g[k]]]
      /\ m \in Nat /\ h \in [1 .. m -> B] /\ r = [k \in 1 .. m |-> f[h[k]]]
  BY <1>1, <1>2 DEF Enumerates
<1>4. \A k \in 1 .. n + m : k \in 1 .. n \/ (~(k <= n) /\ k - n \in 1 .. m)
  BY <1>3
<1>5. /\ \A k \in 1 .. n + m : (k \in 1 .. n => j[k] = g[k]) /\ (~(k <= n) => j[k] = h[k - n])
      /\ j \in [1 .. n + m -> A \cup B]
  <2>1. \A k \in 1 .. n + m : (k \in 1 .. n => j[k] = g[k]) /\ (~(k <= n) => j[k] = h[k - n])
    BY <1>3
  <2>2. \A k \in 1 .. n + m : j[k] \in A \cup B
    BY <1>3, <1>4, <2>1
  <2> QED
    BY <2>1, <2>2
<1>6. s \o r = [k \in 1 .. n + m |-> f[j[k]]]
  <2> PICK d : d = [k \in 1 .. n |-> f[g[k]]]
    OBVIOUS
  <2> PICK e : e = [k \in 1 .. m |-> f[h[k]]]
    OBVIOUS
  <2>1. s = [k \in 1 .. n |-> d[k]] /\ r = [k \in 1 .. m |-> e[k]]
    BY <1>3
  <2>2. s \o r = [k \in 1 .. n + m |-> IF k <= n THEN d[k] ELSE e[k - n]]
    BY <1>3, <2>1, ConcatIs
  <2>3. \A k \in 1 .. n + m : (IF k <= n THEN d[k] ELSE e[k - n]) = f[j[k]]
    BY <1>3, <1>4, <1>5
  <2> QED
    BY <2>2, <2>3
<1>7. ASSUME NEW a \in A \cup B PROVE \E k \in 1 .. n + m : j[k] = a
  <2>1. CASE a \in A
    <3>1. PICK k \in 1 .. n : g[k] = a
      BY <1>1, <2>1 DEF Enumerates
    <3>2. k \in 1 .. n + m
      BY <1>3
    <3> QED
      BY <1>5, <3>1, <3>2
  <2>2. CASE a \in B
    <3>1. PICK k \in 1 .. m : h[k] = a
      BY <1>2, <2>2 DEF Enumerates
    <3>2. k + n \in 1 .. n + m /\ ~(k + n <= n) /\ (k + n) - n = k
      BY <1>3
    <3> QED
      BY <1>5, <3>1, <3>2
  <2> QED
    BY <2>1, <2>2
<1>8. ASSUME NEW i \in 1 .. n + m, NEW k \in 1 .. n + m, i < k PROVE <<j[i], j[k]>> \in W
  <2>1. CASE k \in 1 .. n
    <3>1. i \in 1 .. n
      BY <1>3, <1>8, <2>1
    <3> QED
      BY <1>1, <1>5, <1>8, <2>1, <3>1 DEF Rising
  <2>2. CASE ~(k <= n) /\ i \in 1 .. n
    <3>1. j[i] \in A /\ j[k] \in B
      BY <1>3, <1>4, <1>5, <2>2
    <3> QED
      BY <3>1
  <2>3. CASE ~(k <= n) /\ ~(i <= n)
    <3>1. i - n \in 1 .. m /\ k - n \in 1 .. m /\ i - n < k - n
      BY <1>3, <1>4, <1>8, <2>3
    <3> QED
      BY <1>2, <1>5, <2>3, <3>1 DEF Rising
  <2> QED
    BY <1>3, <1>4, <2>1, <2>2, <2>3
<1>9. n + m \in Nat
  BY <1>3
<1>10. Enumerates(s \o r, n + m, j, A \cup B, f)
  BY <1>5, <1>6, <1>7, <1>9 DEF Enumerates
<1>11. Rising(n + m, j, W)
  BY <1>8 DEF Rising
<1> QED
  BY <1>10, <1>11 DEF Lists

(* The columns of all workers.                                             *)
LEMMA JoinLists ==
    ASSUME NEW ws, NEW column, NEW A, NEW f, NEW W,
           \A n \in Cpus : Lists(ws[n][column], A[n], f, W),
           \A i, j \in Cpus : i < j => \A a \in A[i], b \in A[j] : <<a, b>> \in W
    PROVE  Lists(OfAll(ws, column), UNION {A[n] : n \in Cpus}, f, W)
<1> DEFINE U(m) == UNION {A[n] : n \in 1 .. m}
<1>1. PICK b : Passes([of |-> "join", ws |-> ws, column |-> column], NCpus, b) /\ OfAll(ws, column) = b[NCpus]
  BY JoinedIs
<1>2. b[0] = <<>> /\ \A n \in Cpus : b[n] = b[n - 1] \o ws[n][column]
  <2>1. /\ b[0] = Begun([of |-> "join", ws |-> ws, column |-> column])
        /\ \A i \in 1 .. NCpus : b[i] = Onward([of |-> "join", ws |-> ws, column |-> column], b[i - 1], i)
    BY <1>1, PassesOn, KernelTraceAssumption
  <2> QED
    BY <2>1 DEF Begun, Onward, Cpus
<1> DEFINE S == {m \in Nat : m <= NCpus => Lists(b[m], U(m), f, W)}
<1>3. 0 \in S
  <2>1. U(0) = {}
    OBVIOUS
  <2> HIDE DEF U
  <2> QED
    BY <1>2, <2>1, NoneListed
<1>4. ASSUME NEW m \in Nat, m \in S PROVE m + 1 \in S
  <2> SUFFICES ASSUME m + 1 <= NCpus PROVE Lists(b[m + 1], U(m + 1), f, W)
    OBVIOUS
  <2> PICK n : n = m + 1
    OBVIOUS
  <2>1. /\ n \in Cpus /\ n - 1 = m /\ m <= NCpus /\ n \in Nat
        /\ \A k : k \in 1 .. n <=> k \in 1 .. m \/ k = n
        /\ \A k \in 1 .. m : k \in Cpus /\ k < n
    BY KernelTraceAssumption DEF Cpus
  <2>2. U(n) = U(m) \cup A[n]
    BY <2>1
  <2>3. \A a \in U(m), c \in A[n] : <<a, c>> \in W
    BY <2>1
  <2>4. Lists(b[m], U(m), f, W)
    BY <1>4, <2>1
  <2>5. Lists(ws[n][column], A[n], f, W) /\ b[n] = b[m] \o ws[n][column]
    BY <1>2, <2>1
  <2> HIDE DEF U
  <2>6. Lists(b[n], U(n), f, W)
    BY <2>2, <2>3, <2>4, <2>5, ConcatLists
  <2> QED
    BY <2>6
<1> HIDE DEF S
<1>5. Nat \subseteq S
  BY <1>3, <1>4, NatIsInductive
<1>6. NCpus \in Nat
  BY KernelTraceAssumption
<1>7. Lists(b[NCpus], U(NCpus), f, W)
  <2>1. NCpus \in S /\ NCpus <= NCpus
    BY <1>5, <1>6
  <2> HIDE DEF U
  <2> QED
    BY <2>1 DEF S
<1> QED
  BY <1>1, <1>7 DEF Cpus

-----------------------------------------------------------------------------
(* Sorting: each record goes behind those that are not greater.            *)
LEMMA LastOfIs ==
    ASSUME NEW n \in Nat, NEW T, T \subseteq 1 .. n
    PROVE  /\ LastOf(T) \in 0 .. n /\ \A y \in T : y <= LastOf(T)
           /\ LastOf(T) = 0 \/ LastOf(T) \in T
           /\ T # {} => LastOf(T) \in T
<1>1. CASE T = {}
  BY <1>1 DEF LastOf
<1>2. CASE T # {}
  <2>1. \E x \in T : \A y \in T : y <= x
    BY <1>2, LastExists
  <2>2. \E x \in T : \A y \in T : x >= y
    <3>1. \A x, y \in T : y <= x => x >= y
      OBVIOUS
    <3> QED
      BY <2>1, <3>1
  <2>3. LastOf(T) \in T /\ \A y \in T : LastOf(T) >= y
    BY <1>2, <2>2 DEF LastOf, Max
  <2>4. \A x, y \in T : x >= y => y <= x
    OBVIOUS
  <2>5. \A x \in T : x \in 0 .. n
    OBVIOUS
  <2> QED
    BY <2>3, <2>4, <2>5
<1> QED
  BY <1>1, <1>2

LEMMA InsertLists ==
    ASSUME NEW r, NEW q, NEW h, NEW G, NEW f, NEW V, Enumerates(r, q, h, G, f), Rising(q, h, V),
           NEW a, NEW p \in 0 .. q,
           \A i \in 1 .. q : (i <= p => <<h[i], a>> \in V) /\ (~(i <= p) => <<a, h[i]>> \in V)
    PROVE  Lists(Insert(r, f[a], p), G \cup {a}, f, V)
<1>1. /\ q \in Nat /\ Len(r) = q /\ \A k \in 1 .. q : h[k] \in G /\ r[k] = f[h[k]]
  BY ListedIs
<1> PICK j : j = [k \in 1 .. q + 1 |-> IF k <= p THEN h[k] ELSE IF k = p + 1 THEN a ELSE h[k - 1]]
  OBVIOUS
<1>2. \A k \in 1 .. q + 1 : \/ k <= p /\ k \in 1 .. q
                            \/ k = p + 1 /\ ~(k <= p)
                            \/ ~(k <= p) /\ k # p + 1 /\ k - 1 \in 1 .. q /\ ~(k - 1 <= p)
  BY <1>1
<1>3. \A k \in 1 .. q + 1 : /\ k <= p => j[k] = h[k]
                            /\ k = p + 1 => j[k] = a
                            /\ ~(k <= p) /\ k # p + 1 => j[k] = h[k - 1]
  BY <1>1
<1>4. j \in [1 .. q + 1 -> G \cup {a}]
  <2>1. \A k \in 1 .. q + 1 : j[k] \in G \cup {a}
    BY <1>1, <1>2, <1>3
  <2> QED
    BY <2>1
<1>5. Insert(r, f[a], p) = [k \in 1 .. q + 1 |-> f[j[k]]]
  <2>1. Insert(r, f[a], p) = [k \in 1 .. q + 1 |-> IF k <= p THEN r[k] ELSE IF k = p + 1 THEN f[a] ELSE r[k - 1]]
    BY <1>1 DEF Insert
  <2>2. ASSUME NEW k \in 1 .. q + 1
        PROVE  (IF k <= p THEN r[k] ELSE IF k = p + 1 THEN f[a] ELSE r[k - 1]) = f[j[k]]
    <3>1. CASE k <= p /\ k \in 1 .. q
      BY <1>1, <1>3, <3>1
    <3>2. CASE k = p + 1 /\ ~(k <= p)
      BY <1>3, <3>2
    <3>3. CASE ~(k <= p) /\ k # p + 1 /\ k - 1 \in 1 .. q
      BY <1>1, <1>3, <3>3
    <3> QED
      BY <1>2, <3>1, <3>2, <3>3
  <2> QED
    BY <2>1, <2>2
<1>6. ASSUME NEW x \in G \cup {a} PROVE \E k \in 1 .. q + 1 : j[k] = x
  <2>1. CASE x = a
    <3>1. p + 1 \in 1 .. q + 1
      BY <1>1
    <3> QED
      BY <1>3, <2>1, <3>1
  <2>2. CASE x \in G
    <3>1. PICK k \in 1 .. q : h[k] = x
      BY <2>2 DEF Enumerates
    <3>2. CASE k <= p
      <4>1. k \in 1 .. q + 1
        BY <1>1
      <4> QED
        BY <1>3, <3>1, <3>2, <4>1
    <3>3. CASE ~(k <= p)
      <4>1. k + 1 \in 1 .. q + 1 /\ ~(k + 1 <= p) /\ k + 1 # p + 1 /\ (k + 1) - 1 = k
        BY <1>1, <3>3
      <4> QED
        BY <1>3, <3>1, <4>1
    <3> QED
      BY <3>2, <3>3
  <2> QED
    BY <2>1, <2>2
<1>7. ASSUME NEW i \in 1 .. q + 1, NEW k \in 1 .. q + 1, i < k PROVE <<j[i], j[k]>> \in V
  <2>1. CASE k <= p
    <3>1. i <= p /\ i \in 1 .. q /\ k \in 1 .. q
      BY <1>1, <1>7, <2>1
    <3> QED
      BY <1>3, <1>7, <2>1, <3>1 DEF Rising
  <2>2. CASE k = p + 1
    <3>1. i <= p /\ i \in 1 .. q
      BY <1>1, <1>7, <2>2
    <3> QED
      BY <1>3, <2>2, <3>1
  <2>3. CASE ~(k <= p) /\ k # p + 1
    <3>1. k - 1 \in 1 .. q /\ ~(k - 1 <= p) /\ j[k] = h[k - 1]
      BY <1>2, <1>3, <2>3
    <3>2. CASE i <= p
      <4>1. i \in 1 .. q /\ i < k - 1 /\ j[i] = h[i]
        BY <1>1, <1>3, <3>1, <3>2
      <4> QED
        BY <3>1, <4>1 DEF Rising
    <3>3. CASE i = p + 1
      BY <1>3, <3>1, <3>3
    <3>4. CASE ~(i <= p) /\ i # p + 1
      <4>1. i - 1 \in 1 .. q /\ i - 1 < k - 1 /\ j[i] = h[i - 1]
        BY <1>2, <1>3, <1>7, <3>4
      <4> QED
        BY <3>1, <4>1 DEF Rising
    <3> QED
      BY <3>2, <3>3, <3>4
  <2> QED
    BY <2>1, <2>2, <2>3
<1>8. q + 1 \in Nat
  BY <1>1
<1>9. Enumerates(Insert(r, f[a], p), q + 1, j, G \cup {a}, f)
  BY <1>4, <1>5, <1>6, <1>8 DEF Enumerates
<1>10. Rising(q + 1, j, V)
  BY <1>7 DEF Rising
<1> QED
  BY <1>9, <1>10 DEF Lists

ByKey(A, f, key, W) ==
    {p \in A \X A : \/ f[p[1]][key] < f[p[2]][key]
                    \/ f[p[1]][key] = f[p[2]][key] /\ <<p[1], p[2]>> \in W}

LEMMA ByKeyIs ==
    ASSUME NEW A, NEW f, NEW key, NEW W, NEW a \in A, NEW b \in A
    PROVE  <<a, b>> \in ByKey(A, f, key, W) <=>
              f[a][key] < f[b][key] \/ (f[a][key] = f[b][key] /\ <<a, b>> \in W)
  BY DEF ByKey

LEMMA ByKeyOrders ==
    ASSUME NEW A, NEW f, NEW key, NEW W, Orders(W, A), \A a \in A : f[a][key] \in Nat
    PROVE  Orders(ByKey(A, f, key, W), A)
<1> DEFINE V == ByKey(A, f, key, W)
<1>1. \A a, b \in A : <<a, b>> \in V <=> f[a][key] < f[b][key] \/ (f[a][key] = f[b][key] /\ <<a, b>> \in W)
  BY ByKeyIs
<1> HIDE DEF V
<1>2. ASSUME NEW a \in A PROVE <<a, a>> \notin V
  BY <1>1 DEF Orders
<1>3. ASSUME NEW a \in A, NEW b \in A, a # b PROVE <<a, b>> \in V \/ <<b, a>> \in V
  <2>1. <<a, b>> \in W \/ <<b, a>> \in W
    BY <1>3 DEF Orders
  <2>2. f[a][key] \in Nat /\ f[b][key] \in Nat
    OBVIOUS
  <2>3. f[a][key] < f[b][key] \/ f[a][key] = f[b][key] \/ f[b][key] < f[a][key]
    BY <2>2
  <2> QED
    BY <1>1, <2>1, <2>3
<1>4. ASSUME NEW a \in A, NEW b \in A, NEW c \in A, <<a, b>> \in V, <<b, c>> \in V PROVE <<a, c>> \in V
  <2>1. f[a][key] \in Nat /\ f[b][key] \in Nat /\ f[c][key] \in Nat
    OBVIOUS
  <2>2. /\ f[a][key] < f[b][key] \/ (f[a][key] = f[b][key] /\ <<a, b>> \in W)
        /\ f[b][key] < f[c][key] \/ (f[b][key] = f[c][key] /\ <<b, c>> \in W)
    BY <1>1, <1>4
  <2>3. <<a, b>> \in W /\ <<b, c>> \in W => <<a, c>> \in W
    BY DEF Orders
  <2>4. f[a][key] < f[c][key] \/ (f[a][key] = f[c][key] /\ <<a, c>> \in W)
    BY <2>1, <2>2, <2>3
  <2> QED
    BY <1>1, <2>4
<1>5. Orders(V, A)
  BY <1>2, <1>3, <1>4 DEF Orders
<1> QED
  BY <1>5 DEF V

LEMMA StableSort ==
    ASSUME NEW s, NEW A, NEW f, NEW W, Lists(s, A, f, W), Orders(W, A), NEW key, \A a \in A : f[a][key] \in Nat
    PROVE  Lists(Sorted(s, key), A, f, ByKey(A, f, key, W))
<1> DEFINE V == ByKey(A, f, key, W)
<1>1. PICK n, g : Enumerates(s, n, g, A, f) /\ Rising(n, g, W)
  BY DEF Lists
<1>2. n \in Nat /\ Len(s) = n /\ \A k \in 1 .. n : g[k] \in A /\ s[k] = f[g[k]]
  BY <1>1, ListedIs
<1>3. PICK b : Passes([of |-> "sort", s |-> s, key |-> key], n, b) /\ Sorted(s, key) = b[n]
  BY <1>2, SortedIs
<1>4. b[0] = <<>> /\ \A i \in 1 .. n : b[i] = Insert(b[i - 1], s[i], Behind(b[i - 1], s[i], key))
  <2>1. /\ b[0] = Begun([of |-> "sort", s |-> s, key |-> key])
        /\ \A i \in 1 .. n : b[i] = Onward([of |-> "sort", s |-> s, key |-> key], b[i - 1], i)
    BY <1>2, <1>3, PassesOn
  <2> QED
    BY <2>1 DEF Begun, Onward
<1>5. \A x, y \in A : <<x, y>> \in V <=> f[x][key] < f[y][key] \/ (f[x][key] = f[y][key] /\ <<x, y>> \in W)
  BY ByKeyIs
<1> HIDE DEF V
<1> DEFINE U(m) == {g[k] : k \in 1 .. m}
           S == {m \in Nat : m <= n => Lists(b[m], U(m), f, V)}
<1>6. 0 \in S
  <2>1. U(0) = {}
    OBVIOUS
  <2> HIDE DEF U
  <2> QED
    BY <1>4, <2>1, NoneListed
<1>7. ASSUME NEW m \in Nat, m \in S PROVE m + 1 \in S
  <2> SUFFICES ASSUME m + 1 <= n PROVE Lists(b[m + 1], U(m + 1), f, V)
    OBVIOUS
  <2> PICK o : o = m + 1
    OBVIOUS
  <2>1. /\ o \in 1 .. n /\ o - 1 = m /\ m <= n
        /\ \A k : k \in 1 .. o <=> k \in 1 .. m \/ k = o
        /\ \A k \in 1 .. m : k \in 1 .. n /\ k < o
    BY <1>2
  <2> PICK a : a = g[o]
    OBVIOUS
  <2> PICK r : r = b[m]
    OBVIOUS
  <2>2. U(o) = U(m) \cup {a}
    BY <2>1
  <2>3. \A x \in U(m) : x \in A /\ <<x, a>> \in W
    BY <1>1, <1>2, <2>1 DEF Rising
  <2>4. Lists(r, U(m), f, V)
    BY <1>7, <2>1
  <2> HIDE DEF U
  <2>5. PICK q, h : Enumerates(r, q, h, U(m), f) /\ Rising(q, h, V)
    BY <2>4 DEF Lists
  <2>6. q \in Nat /\ DOMAIN r = 1 .. q /\ \A k \in 1 .. q : h[k] \in U(m) /\ r[k] = f[h[k]]
    BY <2>5, ListedIs
  <2>7. a \in A /\ f[a][key] \in Nat /\ s[o] = f[a]
    BY <1>2, <2>1
  <2>8. \A i \in 1 .. q : h[i] \in A /\ f[h[i]][key] \in Nat /\ <<h[i], a>> \in W
    BY <2>3, <2>6
  <2> DEFINE T == {i \in 1 .. q : f[h[i]][key] <= f[a][key]}
  <2>9. \A i \in 1 .. q : /\ f[h[i]][key] <= f[a][key] => <<h[i], a>> \in V
                          /\ ~(f[h[i]][key] <= f[a][key]) => <<a, h[i]>> \in V
    <3> SUFFICES ASSUME NEW i \in 1 .. q
                 PROVE  /\ f[h[i]][key] <= f[a][key] => <<h[i], a>> \in V
                        /\ ~(f[h[i]][key] <= f[a][key]) => <<a, h[i]>> \in V
      OBVIOUS
    <3>1. h[i] \in A /\ f[h[i]][key] \in Nat /\ <<h[i], a>> \in W
      BY <2>8
    <3>2. f[h[i]][key] <= f[a][key] => f[h[i]][key] < f[a][key] \/ f[h[i]][key] = f[a][key]
      BY <2>7, <3>1
    <3>3. ~(f[h[i]][key] <= f[a][key]) => f[a][key] < f[h[i]][key]
      BY <2>7, <3>1
    <3> QED
      BY <1>5, <2>7, <3>1, <3>2, <3>3
  <2>10. Behind(r, s[o], key) = LastOf(T)
    <3>1. {i \in DOMAIN r : r[i][key] <= s[o][key]} = T
      BY <2>6, <2>7
    <3> QED
      BY <3>1 DEF Behind
  <2>11. T \subseteq 1 .. q
    OBVIOUS
  <2>12. \A i, k \in 1 .. q : i < k /\ k \in T => i \in T
    <3> SUFFICES ASSUME NEW i \in 1 .. q, NEW k \in 1 .. q, i < k, f[h[k]][key] <= f[a][key]
                 PROVE  f[h[i]][key] <= f[a][key]
      OBVIOUS
    <3>1. <<h[i], h[k]>> \in V /\ h[i] \in A /\ h[k] \in A
      BY <2>5, <2>8 DEF Rising
    <3>2. f[h[i]][key] < f[h[k]][key] \/ f[h[i]][key] = f[h[k]][key]
      BY <1>5, <3>1
    <3>3. f[h[i]][key] \in Nat /\ f[h[k]][key] \in Nat
      BY <2>8
    <3> QED
      BY <2>7, <3>2, <3>3
  <2>13. \A i \in 1 .. q : i \in T => <<h[i], a>> \in V
    BY <2>9
  <2>14. \A i \in 1 .. q : i \notin T => <<a, h[i]>> \in V
    BY <2>9
  <2> HIDE DEF T
  <2> PICK p : p = LastOf(T)
    OBVIOUS
  <2>15. /\ p \in 0 .. q /\ \A y \in T : y <= p
         /\ p = 0 \/ p \in T
    BY <2>6, <2>11, LastOfIs
  <2>16. \A i \in 1 .. q : i <= p <=> i \in T
    <3> SUFFICES ASSUME NEW i \in 1 .. q, i <= p PROVE i \in T
      BY <2>15
    <3>1. p \in T /\ p \in 1 .. q
      BY <2>6, <2>11, <2>15
    <3>2. i = p \/ i < p
      BY <2>6, <2>15
    <3> QED
      BY <2>12, <3>1, <3>2
  <2>17. Lists(Insert(r, f[a], p), U(m) \cup {a}, f, V)
    <3>1. \A i \in 1 .. q : (i <= p => <<h[i], a>> \in V) /\ (~(i <= p) => <<a, h[i]>> \in V)
      BY <2>13, <2>14, <2>16
    <3> QED
      BY <2>5, <2>15, <3>1, InsertLists
  <2>18. b[o] = Insert(r, f[a], p)
    BY <1>4, <2>1, <2>7, <2>10
  <2> QED
    BY <2>2, <2>17, <2>18
<1> HIDE DEF S
<1>8. Nat \subseteq S
  BY <1>6, <1>7, NatIsInductive
<1>9. Lists(b[n], U(n), f, V)
  <2>1. n \in S /\ n <= n
    BY <1>2, <1>8
  <2> HIDE DEF U
  <2> QED
    BY <2>1 DEF S
<1>10. U(n) = A
  BY <1>1, <1>2 DEF Enumerates
<1> QED
  BY <1>3, <1>9, <1>10 DEF V

-----------------------------------------------------------------------------
(* Pairing: each take with the record before it of its thread, if a set.   *)
Opener(s, j) == LastOf({i \in 1 .. j : s[i].kind # "take"})
TakenBefore(s, j) == LastOf({i \in 1 .. j - 1 : s[i].kind = "take"})
Pairable(s, j) ==
    /\ s[j].kind = "take"
    /\ Opener(s, j) > TakenBefore(s, j)
    /\ s[Opener(s, j)].tid = s[j].tid
    /\ s[Opener(s, j)].kind = "set"
Places(s) == Kept([j \in DOMAIN s |-> j], {j \in DOMAIN s : Pairable(s, j)})
RowAt(s, j) == Interval(s[j].tid, s[Opener(s, j)].ts, s[j].ts)

LEMMA PairIs ==
    ASSUME NEW recs, NEW s, s = Sorted(recs, "tid")
    PROVE  Pair(recs) = [k \in DOMAIN Places(s) |-> RowAt(s, Places(s)[k])]
  BY DEF Pair, Places, RowAt, Pairable, Opener, TakenBefore

(* The last record that is no take is the one before.                      *)
LEMMA PairableIs ==
    ASSUME NEW n \in Nat, NEW s, NEW j \in 1 .. n
    PROVE  /\ Pairable(s, j) <=> /\ j - 1 \in 1 .. n /\ s[j].kind = "take"
                                 /\ s[j - 1].kind = "set" /\ s[j - 1].tid = s[j].tid
           /\ Pairable(s, j) => Opener(s, j) = j - 1
<1> DEFINE O == {i \in 1 .. j : s[i].kind # "take"}
           T == {i \in 1 .. j - 1 : s[i].kind = "take"}
<1>1. /\ LastOf(O) \in 0 .. j /\ \A y \in O : y <= LastOf(O)
      /\ LastOf(O) = 0 \/ LastOf(O) \in O
  <2>1. O \subseteq 1 .. j /\ j \in Nat
    OBVIOUS
  <2> HIDE DEF O
  <2> QED
    BY <2>1, LastOfIs
<1>2. /\ LastOf(T) \in 0 .. j - 1 /\ \A y \in T : y <= LastOf(T)
      /\ LastOf(T) = 0 \/ LastOf(T) \in T
  <2>1. T \subseteq 1 .. j - 1 /\ j - 1 \in Nat
    OBVIOUS
  <2> HIDE DEF T
  <2> QED
    BY <2>1, LastOfIs
<1>3. Opener(s, j) = LastOf(O) /\ TakenBefore(s, j) = LastOf(T)
  BY DEF Opener, TakenBefore
<1> PICK o : o = LastOf(O)
  OBVIOUS
<1> PICK t : t = LastOf(T)
  OBVIOUS
<1>4. ASSUME s[j].kind = "take", o > t PROVE o = j - 1 /\ j - 1 \in 1 .. n
  <2>1. o \in O /\ o # j
    BY <1>1, <1>2, <1>4
  <2>2. ~(o < j - 1)
    <3> SUFFICES ASSUME o < j - 1 PROVE FALSE
      OBVIOUS
    <3>1. j - 1 \in 1 .. j - 1 /\ j - 1 \in 1 .. j
      BY <1>1
    <3>2. j - 1 \notin O
      BY <1>1
    <3>3. j - 1 \in T
      BY <3>1, <3>2
    <3> QED
      BY <1>1, <1>2, <1>4, <3>3
  <2> QED
    BY <1>1, <2>1, <2>2
<1>5. ASSUME s[j].kind = "take", j - 1 \in 1 .. n, s[j - 1].kind = "set" PROVE o > t /\ o = j - 1
  <2>1. j - 1 \in O
    BY <1>5
  <2>2. j - 1 <= o /\ o # j
    BY <1>1, <1>5, <2>1
  <2>3. o = j - 1
    BY <1>1, <2>2
  <2>4. t # j - 1
    BY <1>2, <1>5
  <2> QED
    BY <1>1, <1>2, <2>3, <2>4
<1> HIDE DEF O, T
<1>6. Pairable(s, j) <=> s[j].kind = "take" /\ o > t /\ s[o].tid = s[j].tid /\ s[o].kind = "set"
  BY <1>3 DEF Pairable
<1> QED
  BY <1>3, <1>4, <1>5, <1>6

Before(A, f, b, a) ==
    /\ b \in A /\ a \in A /\ b < a /\ f[b].tid = f[a].tid
    /\ \A c \in A : f[c].tid = f[a].tid /\ b < c => ~(c < a)
Opens(A, f, b, a) == Before(A, f, b, a) /\ f[b].kind = "set" /\ f[a].kind = "take"
Closers(A, f) == {a \in A : \E b \in A : Opens(A, f, b, a)}
PairRowOf(f, b, a) == Interval(f[a].tid, f[b].ts, f[a].ts)
PairRow(A, f) == [a \in Closers(A, f) |-> PairRowOf(f, CHOOSE b \in A : Opens(A, f, b, a), a)]

LEMMA OneOpens ==
    ASSUME NEW A, A \subseteq Nat, NEW f, NEW a, NEW b, Opens(A, f, b, a)
    PROVE  a \in Closers(A, f) /\ PairRow(A, f)[a] = PairRowOf(f, b, a)
<1>1. b \in A /\ a \in A /\ a \in Closers(A, f)
  BY DEF Opens, Before, Closers
<1>2. ASSUME NEW c \in A, Opens(A, f, c, a) PROVE c = b
  <2>1. /\ b < a /\ f[b].tid = f[a].tid /\ (f[c].tid = f[a].tid /\ b < c => ~(c < a))
        /\ c < a /\ f[c].tid = f[a].tid /\ (f[b].tid = f[a].tid /\ c < b => ~(b < a))
    BY <1>1, <1>2 DEF Opens, Before
  <2>2. b \in Nat /\ c \in Nat /\ a \in Nat
    BY <1>1
  <2> QED
    BY <2>1, <2>2
<1>3. (CHOOSE c \in A : Opens(A, f, c, a)) = b
  BY <1>1, <1>2
<1> QED
  BY <1>1, <1>3 DEF PairRow

(* The places of a mask, in order.                                         *)
Picks(p, q, mask) ==
    /\ DOMAIN p = 1 .. q /\ \A k \in 1 .. q : p[k] \in mask
    /\ \A i, k \in 1 .. q : i < k => p[i] < p[k]
    /\ \A j \in mask : \E k \in 1 .. q : p[k] = j

LEMMA KeptPlaces ==
    ASSUME NEW n \in Nat, NEW mask, mask \subseteq 1 .. n
    PROVE  \E q \in Nat : Picks(Kept([j \in 1 .. n |-> j], mask), q, mask)
<1> PICK id : id = [j \in 1 .. n |-> j]
  OBVIOUS
<1>1. Enumerates(id, n, id, 1 .. n, id)
  BY DEF Enumerates
<1>2. Rising(n, id, Less)
  <2>1. \A i, j \in 1 .. n : i < j => <<id[i], id[j]>> \in Less
    BY LessIs
  <2> QED
    BY <2>1 DEF Rising
<1>3. Lists(Kept(id, mask), Taken(id, mask, n), id, Less)
  BY <1>1, <1>2, KeptLists
<1>4. Taken(id, mask, n) = mask
  BY DEF Taken
<1>5. PICK q, h : Enumerates(Kept(id, mask), q, h, mask, id) /\ Rising(q, h, Less)
  BY <1>3, <1>4 DEF Lists
<1>6. /\ q \in Nat /\ h \in [1 .. q -> mask] /\ Kept(id, mask) = [k \in 1 .. q |-> id[h[k]]]
      /\ \A j \in mask : \E k \in 1 .. q : h[k] = j
  BY <1>5 DEF Enumerates
<1>7. \A k \in 1 .. q : id[h[k]] = h[k]
  BY <1>6
<1>8. Kept(id, mask) = h
  BY <1>6, <1>7
<1>9. \A i, k \in 1 .. q : i < k => h[i] < h[k]
  <2> SUFFICES ASSUME NEW i \in 1 .. q, NEW k \in 1 .. q, i < k PROVE h[i] < h[k]
    OBVIOUS
  <2>1. <<h[i], h[k]>> \in Less
    BY <1>5 DEF Rising
  <2>2. \A j \in mask : j \in Nat
    OBVIOUS
  <2>3. h[i] \in Nat /\ h[k] \in Nat
    BY <1>6, <2>2
  <2> QED
    BY <2>1, <2>3, LessIs
<1>10. Picks(h, q, mask)
  BY <1>6, <1>9 DEF Picks
<1> QED
  BY <1>6, <1>8, <1>10

LEMMA PairLists ==
    ASSUME NEW recs, NEW A, A \subseteq Nat, NEW f, Lists(recs, A, f, Less), \A a \in A : f[a].tid \in Nat
    PROVE  Lists(Pair(recs), Closers(A, f), PairRow(A, f), ByKey(A, f, "tid", Less))
<1> DEFINE W == ByKey(A, f, "tid", Less)
<1> PICK s : s = Sorted(recs, "tid")
  OBVIOUS
<1>1. Lists(s, A, f, W)
  <2>1. Orders(Less, A)
    BY LessOrders
  <2> QED
    BY <2>1, StableSort
<1>2. \A a, b \in A : <<a, b>> \in W <=> f[a].tid < f[b].tid \/ (f[a].tid = f[b].tid /\ a < b)
  <2>1. \A a, b \in A : <<a, b>> \in W <=> f[a].tid < f[b].tid \/ (f[a].tid = f[b].tid /\ <<a, b>> \in Less)
    BY ByKeyIs
  <2>2. \A a, b \in A : <<a, b>> \in Less <=> a < b
    BY LessIs
  <2> HIDE DEF W
  <2> QED
    BY <2>1, <2>2
<1> HIDE DEF W
<1>3. PICK n, g : Enumerates(s, n, g, A, f) /\ Rising(n, g, W)
  BY <1>1 DEF Lists
<1>4. n \in Nat /\ DOMAIN s = 1 .. n /\ \A k \in 1 .. n : g[k] \in A /\ s[k] = f[g[k]]
  BY <1>3, ListedIs
<1>5. \A k \in 1 .. n : g[k] \in Nat /\ f[g[k]].tid \in Nat
  BY <1>4
<1>6. ASSUME NEW i \in 1 .. n, NEW k \in 1 .. n, i < k
      PROVE  f[g[i]].tid < f[g[k]].tid \/ (f[g[i]].tid = f[g[k]].tid /\ g[i] < g[k])
  BY <1>2, <1>3, <1>4, <1>6 DEF Rising
<1>7. ASSUME NEW j \in 1 .. n, Pairable(s, j) PROVE Opens(A, f, g[j - 1], g[j])
  <2>1. j - 1 \in 1 .. n /\ s[j].kind = "take" /\ s[j - 1].kind = "set" /\ s[j - 1].tid = s[j].tid
    BY <1>4, <1>7, PairableIs
  <2> PICK i : i = j - 1
    OBVIOUS
  <2>2. /\ i \in 1 .. n /\ f[g[j]].kind = "take" /\ f[g[i]].kind = "set" /\ f[g[i]].tid = f[g[j]].tid /\ i < j
    BY <1>4, <2>1
  <2>3. g[i] < g[j]
    BY <1>5, <1>6, <2>2
  <2>4. ASSUME NEW c \in A, f[c].tid = f[g[j]].tid, g[i] < c, c < g[j] PROVE FALSE
    <3>1. PICK k \in 1 .. n : g[k] = c
      BY <1>3 DEF Enumerates
    <3>2. k # i /\ k # j
      BY <1>5, <2>2, <2>4, <3>1
    <3>3. ~(k < i)
      BY <1>5, <1>6, <2>2, <2>4, <3>1
    <3>4. ~(j < k)
      BY <1>5, <1>6, <2>2, <2>4, <3>1
    <3> QED
      BY <1>4, <2>2, <3>2, <3>3, <3>4
  <2> QED
    BY <1>4, <2>2, <2>3, <2>4 DEF Opens, Before
<1>8. ASSUME NEW j \in 1 .. n, NEW b \in A, Opens(A, f, b, g[j]) PROVE Pairable(s, j)
  <2>1. PICK i \in 1 .. n : g[i] = b
    BY <1>3 DEF Enumerates
  <2>2. /\ g[i] < g[j] /\ f[g[i]].tid = f[g[j]].tid /\ f[g[i]].kind = "set" /\ f[g[j]].kind = "take"
        /\ \A c \in A : f[c].tid = f[g[j]].tid /\ g[i] < c => ~(c < g[j])
    BY <1>8, <2>1 DEF Opens, Before
  <2>3. i < j
    <3>1. ~(j < i) /\ i # j
      BY <1>5, <1>6, <2>2
    <3> QED
      BY <1>4, <3>1
  <2>4. ~(i < j - 1)
    <3> SUFFICES ASSUME i < j - 1 PROVE FALSE
      OBVIOUS
    <3> PICK k : k = j - 1
      OBVIOUS
    <3>1. k \in 1 .. n /\ i < k /\ k < j
      BY <1>4
    <3>2. /\ f[g[i]].tid < f[g[k]].tid \/ (f[g[i]].tid = f[g[k]].tid /\ g[i] < g[k])
          /\ f[g[k]].tid < f[g[j]].tid \/ (f[g[k]].tid = f[g[j]].tid /\ g[k] < g[j])
      BY <1>6, <3>1
    <3>3. f[g[k]].tid = f[g[j]].tid /\ g[i] < g[k] /\ g[k] < g[j]
      BY <1>5, <2>2, <3>1, <3>2
    <3> QED
      BY <1>4, <2>2, <3>1, <3>3
  <2>5. j - 1 = i
    BY <1>4, <2>3, <2>4
  <2>6. s[i].kind = "set" /\ s[j].kind = "take" /\ s[i].tid = s[j].tid
    BY <1>4, <2>2
  <2>7. j - 1 \in 1 .. n /\ s[j].kind = "take" /\ s[j - 1].kind = "set" /\ s[j - 1].tid = s[j].tid
    BY <2>5, <2>6
  <2>8. n \in Nat
    BY <1>4
  <2> QED
    BY <2>7, <2>8, PairableIs
<1> DEFINE OK == {j \in 1 .. n : Pairable(s, j)}
<1> PICK pairs : pairs = Places(s)
  OBVIOUS
<1>9. pairs = Kept([j \in 1 .. n |-> j], OK)
  BY <1>4 DEF Places
<1>10. OK \subseteq 1 .. n
  OBVIOUS
<1>a. \E q \in Nat : Picks(pairs, q, OK)
  <2> HIDE DEF OK
  <2> QED
    BY <1>4, <1>9, <1>10, KeptPlaces
<1>11. PICK q \in Nat : Picks(pairs, q, OK)
  BY <1>a
<1>12. /\ DOMAIN pairs = 1 .. q
       /\ \A i, k \in 1 .. q : i < k => pairs[i] < pairs[k]
       /\ \A j \in OK : \E k \in 1 .. q : pairs[k] = j
  BY <1>11 DEF Picks
<1>13. \A k \in 1 .. q : pairs[k] \in 1 .. n /\ Pairable(s, pairs[k])
  BY <1>11 DEF Picks
<1>14. Pair(recs) = [k \in 1 .. q |-> RowAt(s, pairs[k])]
  BY <1>12, PairIs
<1> PICK e : e = [k \in 1 .. q |-> g[pairs[k]]]
  OBVIOUS
<1>b. ASSUME NEW a, NEW b, Opens(A, f, b, a)
      PROVE  a \in Closers(A, f) /\ PairRow(A, f)[a] = PairRowOf(f, b, a)
  BY <1>b, OneOpens
<1>15. ASSUME NEW k \in 1 .. q
       PROVE  e[k] \in Closers(A, f) /\ RowAt(s, pairs[k]) = PairRow(A, f)[e[k]]
  <2> PICK j : j = pairs[k]
    OBVIOUS
  <2> PICK a : a = g[j]
    OBVIOUS
  <2> PICK b : b = g[j - 1]
    OBVIOUS
  <2>1. j \in 1 .. n /\ Pairable(s, j) /\ e[k] = a
    BY <1>13
  <2>2. Opens(A, f, b, a)
    BY <1>7, <2>1
  <2>3. a \in Closers(A, f) /\ PairRow(A, f)[a] = PairRowOf(f, b, a)
    BY <1>b, <2>2
  <2>4. j - 1 \in 1 .. n /\ Opener(s, j) = j - 1
    BY <1>4, <2>1, PairableIs
  <2>5. RowAt(s, j) = PairRowOf(f, b, a)
    BY <1>4, <2>1, <2>4 DEF RowAt, PairRowOf
  <2> QED
    BY <2>1, <2>3, <2>5
<1>16. ASSUME NEW a \in Closers(A, f) PROVE \E k \in 1 .. q : e[k] = a
  <2>1. PICK b \in A : Opens(A, f, b, a)
    BY DEF Closers
  <2>2. a \in A
    BY DEF Closers
  <2>3. PICK j \in 1 .. n : g[j] = a
    BY <1>3, <2>2 DEF Enumerates
  <2>4. j \in OK
    BY <1>8, <2>1, <2>3
  <2>5. PICK k \in 1 .. q : pairs[k] = j
    BY <1>12, <2>4
  <2> QED
    BY <2>3, <2>5
<1>17. Enumerates(Pair(recs), q, e, Closers(A, f), PairRow(A, f))
  <2>1. Pair(recs) = [k \in 1 .. q |-> PairRow(A, f)[e[k]]]
    BY <1>14, <1>15
  <2>2. e \in [1 .. q -> Closers(A, f)]
    BY <1>15
  <2> QED
    BY <1>11, <1>16, <2>1, <2>2 DEF Enumerates
<1>18. Rising(q, e, W)
  <2> SUFFICES ASSUME NEW i \in 1 .. q, NEW k \in 1 .. q, i < k PROVE <<e[i], e[k]>> \in W
    BY DEF Rising
  <2>2. pairs[i] \in 1 .. n /\ pairs[k] \in 1 .. n
    BY <1>13
  <2>3. pairs[i] < pairs[k]
    BY <1>12
  <2> QED
    BY <1>3, <2>2, <2>3 DEF Rising
<1>19. Lists(Pair(recs), Closers(A, f), PairRow(A, f), W)
  BY <1>17, <1>18 DEF Lists
<1> QED
  BY <1>19 DEF W

(* What is pending of a thread, after one number and the next, shows which *)
(* takes have a partner.                                                   *)
Leaves(f, m) == IF f[m].kind = "set" THEN f[m].ts ELSE 0
IsOf(A, f, t, m) == m \in A /\ f[m].tid = t
Pends(q, M, A, f, t) ==
    /\ q[0] = 0
    /\ \A m \in 1 .. M : q[m] = IF IsOf(A, f, t, m) THEN Leaves(f, m) ELSE q[m - 1]
LastUpTo(A, f, t, k, b) == IsOf(A, f, t, b) /\ b <= k /\ \A c \in A : IsOf(A, f, t, c) /\ b < c => ~(c <= k)
PendingOf(q, A, f, t, k) ==
    \/ q[k] = 0 /\ \A b \in A : IsOf(A, f, t, b) => ~(b <= k)
    \/ \E b \in A : LastUpTo(A, f, t, k, b) /\ q[k] = Leaves(f, b)

LEMMA PendingShows ==
    ASSUME NEW A, A \subseteq Nat, NEW f, NEW t, NEW M \in Nat, NEW q, Pends(q, M, A, f, t)
    PROVE  \A k \in 0 .. M : 0 \notin A => PendingOf(q, A, f, t, k)
<1> SUFFICES ASSUME 0 \notin A PROVE \A k \in 0 .. M : PendingOf(q, A, f, t, k)
  OBVIOUS
<1>0. \A a \in A : a \in Nat /\ a # 0
  OBVIOUS
<1> DEFINE S == {k \in Nat : k <= M => PendingOf(q, A, f, t, k)}
<1>1. 0 \in S
  <2>1. \A b \in A : ~(b <= 0)
    BY <1>0
  <2> QED
    BY <2>1 DEF Pends, PendingOf
<1>2. ASSUME NEW m \in Nat, m \in S PROVE m + 1 \in S
  <2> SUFFICES ASSUME m + 1 <= M PROVE PendingOf(q, A, f, t, m + 1)
    OBVIOUS
  <2> PICK n : n = m + 1
    OBVIOUS
  <2>1. n \in 1 .. M /\ n - 1 = m /\ m <= M /\ \A b \in Nat : b <= n <=> b <= m \/ b = n
    OBVIOUS
  <2>2. q[n] = IF IsOf(A, f, t, n) THEN Leaves(f, n) ELSE q[m]
    BY <2>1 DEF Pends
  <2>3. PendingOf(q, A, f, t, m)
    BY <1>2, <2>1
  <2>4. CASE IsOf(A, f, t, n)
    <3>1. n \in A /\ n <= n /\ \A c \in A : n < c => ~(c <= n)
      BY <1>0, <2>1, <2>4 DEF IsOf
    <3>2. LastUpTo(A, f, t, n, n)
      BY <2>4, <3>1 DEF LastUpTo
    <3>3. PendingOf(q, A, f, t, n)
      BY <2>2, <2>4, <3>1, <3>2 DEF PendingOf
    <3> QED
      BY <3>3
  <2>5. CASE ~IsOf(A, f, t, n)
    <3>1. \A b \in A : IsOf(A, f, t, b) => (b <= n <=> b <= m)
      BY <1>0, <2>1, <2>5
    <3>2. q[n] = q[m]
      BY <2>2, <2>5
    <3>3. CASE q[m] = 0 /\ \A b \in A : IsOf(A, f, t, b) => ~(b <= m)
      BY <3>1, <3>2, <3>3 DEF PendingOf
    <3>4. ASSUME NEW b \in A, LastUpTo(A, f, t, m, b), q[m] = Leaves(f, b)
          PROVE  PendingOf(q, A, f, t, n)
      <4>1. LastUpTo(A, f, t, n, b)
        BY <3>1, <3>4 DEF LastUpTo
      <4> QED
        BY <3>2, <3>4, <4>1 DEF PendingOf
    <3> QED
      BY <2>3, <3>3, <3>4 DEF PendingOf
  <2> QED
    BY <2>4, <2>5
<1> HIDE DEF S
<1>3. Nat \subseteq S
  BY <1>1, <1>2, NatIsInductive
<1> QED
  BY <1>3 DEF S

Timed(A, f) == \A a \in A : f[a].ts \in Nat /\ f[a].ts # 0
TakeOf(A, f, t, m) == IsOf(A, f, t, m) /\ f[m].kind = "take"
Shows(q, A, f, t, m) ==
    /\ m \in Closers(A, f) <=> q[m - 1] # 0
    /\ m \in Closers(A, f) => PairRow(A, f)[m] = Interval(t, q[m - 1], f[m].ts)

LEMMA PartnerShows ==
    ASSUME NEW A, A \subseteq Nat, 0 \notin A, NEW f, Timed(A, f), NEW t,
           NEW M \in Nat, NEW q, Pends(q, M, A, f, t), NEW m \in 1 .. M, TakeOf(A, f, t, m)
    PROVE  Shows(q, A, f, t, m)
<1>t. (\A a \in A : f[a].ts \in Nat /\ f[a].ts # 0) /\ IsOf(A, f, t, m) /\ f[m].kind = "take"
  BY DEF Timed, TakeOf
<1> PICK k : k = m - 1
  OBVIOUS
<1>0. /\ k \in 0 .. M /\ m \in A /\ m \in Nat /\ f[m].tid = t
      /\ \A c \in A : c \in Nat /\ (c <= k <=> c < m)
  <2>1. \A c \in A : c \in Nat
    OBVIOUS
  <2> QED
    BY <1>t, <2>1 DEF IsOf
<1>1. PendingOf(q, A, f, t, k)
  BY <1>0, PendingShows
<1>2. ASSUME NEW c \in A, Opens(A, f, c, m)
      PROVE  LastUpTo(A, f, t, k, c) /\ f[c].kind = "set"
  BY <1>t, <1>0, <1>2 DEF Opens, Before, LastUpTo, IsOf
<1>3. ASSUME NEW c \in A, LastUpTo(A, f, t, k, c), f[c].kind = "set"
      PROVE  Opens(A, f, c, m)
  BY <1>t, <1>0, <1>3 DEF Opens, Before, LastUpTo, IsOf
<1>4. ASSUME NEW b \in A, NEW c \in A, LastUpTo(A, f, t, k, b), LastUpTo(A, f, t, k, c)
      PROVE  b = c
  <2>1. ~(b < c) /\ ~(c < b)
    BY <1>4 DEF LastUpTo
  <2> QED
    BY <1>0, <2>1
<1>5. CASE q[k] = 0 /\ \A b \in A : IsOf(A, f, t, b) => ~(b <= k)
  <2>1. m \notin Closers(A, f)
    <3> SUFFICES ASSUME NEW c \in A, Opens(A, f, c, m) PROVE FALSE
      BY DEF Closers
    <3>1. LastUpTo(A, f, t, k, c)
      BY <1>2
    <3> QED
      BY <1>5, <3>1 DEF LastUpTo
  <2> QED
    BY <1>5, <2>1 DEF Shows
<1>6. ASSUME NEW b \in A, LastUpTo(A, f, t, k, b), q[k] = Leaves(f, b)
      PROVE  /\ m \in Closers(A, f) <=> q[k] # 0
             /\ m \in Closers(A, f) => PairRow(A, f)[m] = Interval(t, q[k], f[m].ts)
  <2>1. CASE f[b].kind = "set"
    <3>1. Opens(A, f, b, m)
      BY <1>3, <1>6, <2>1
    <3>2. m \in Closers(A, f) /\ PairRow(A, f)[m] = PairRowOf(f, b, m)
      BY <3>1, OneOpens
    <3>3. q[k] = f[b].ts /\ q[k] # 0
      BY <1>t, <1>6, <2>1 DEF Leaves
    <3>4. PairRowOf(f, b, m) = Interval(t, q[k], f[m].ts)
      BY <1>0, <3>3 DEF PairRowOf
    <3> QED
      BY <3>2, <3>3, <3>4
  <2>2. CASE f[b].kind # "set"
    <3>1. m \notin Closers(A, f)
      <4> SUFFICES ASSUME NEW c \in A, Opens(A, f, c, m) PROVE FALSE
        BY DEF Closers
      <4>1. LastUpTo(A, f, t, k, c) /\ f[c].kind = "set"
        BY <1>2
      <4>2. c = b
        BY <1>4, <1>6, <4>1
      <4> QED
        BY <2>2, <4>1, <4>2
    <3>2. q[k] = 0
      BY <1>6, <2>2 DEF Leaves
    <3> QED
      BY <3>1, <3>2
  <2> QED
    BY <2>1, <2>2
<1> QED
  BY <1>1, <1>5, <1>6 DEF PendingOf, Shows

-----------------------------------------------------------------------------
(* A switch changes the thread, whatever was discarded before it.          *)
SwitchesMove == \A p \in Switches : Event(p).prev # Event(p).next
MoveInv == KernelBasics /\ SwitchesMove

LEMMA MovesAdd ==
    ASSUME KernelBasics, SwitchesMove, NEW c \in Cpus, NEW e, Recording(c, e), e.kind = "switch" => e.prev # e.next
    PROVE  SwitchesMove'
<1>1. PICK new : /\ Recorded' = Recorded \cup {new} /\ new \notin Recorded
                 /\ Event(new)' = e /\ \A p \in Recorded : Event(p)' = Event(p)
  BY RecordAdds DEF Recording, KernelBasics
<1> QED
  BY <1>1 DEF SwitchesMove, Switches

LEMMA MoveInvInit == KernelInit => MoveInv
<1> SUFFICES ASSUME KernelInit PROVE MoveInv
  OBVIOUS
<1>1. Recorded = {}
  BY DEF KernelInit, Recorded
<1> QED
  BY <1>1, KernelBasicsInit DEF MoveInv, SwitchesMove, Switches

LEMMA MoveInvKept == MoveInv /\ [KernelNext]_kernelVars => MoveInv'
<1> SUFFICES ASSUME MoveInv, [KernelNext]_kernelVars PROVE MoveInv'
  OBVIOUS
<1>1. KernelBasics /\ SwitchesMove /\ KernelBasics'
  BY KernelBasicsKept DEF MoveInv
<1>2. ASSUME streams' = streams PROVE SwitchesMove'
  BY <1>1, <1>2 DEF SwitchesMove, Switches, Recorded, Event
<1>3. ASSUME UNCHANGED kernelVars PROVE SwitchesMove'
  BY <1>2, <1>3 DEF kernelVars
<1>4. ASSUME Tick PROVE SwitchesMove'
  BY <1>2, <1>4 DEF Tick
<1>5. ASSUME NEW c \in Cpus, Switch(c) PROVE SwitchesMove'
  <2>1. PICK next \in Tids \ {cur[c]} :
              \/ Recording(c, [kind |-> "switch", cpu |-> c, at |-> now, prev |-> cur[c], next |-> next])
              \/ streams' = streams
    BY <1>1, <1>5, SwitchIs
  <2> QED
    BY <1>1, <1>2, <2>1, MovesAdd
<1>6. ASSUME NEW c \in Cpus, Mark(c) PROVE SwitchesMove'
  <2>1. Recording(c, [kind |-> "mark", cpu |-> c, at |-> now])
    BY <1>1, <1>6, MarkIs
  <2> QED
    BY <1>1, <2>1, MovesAdd
<1>7. ASSUME NEW c \in Cpus, FutexEntry(c) PROVE SwitchesMove'
  <2>1. PICK kind \in {"wait", "wake"} :
              \/ Recording(c, [kind |-> "entry", cpu |-> c, at |-> now, wait |-> kind = "wait"])
              \/ streams' = streams
    BY <1>1, <1>7, FutexEntryIs
  <2> QED
    BY <1>1, <1>2, <2>1, MovesAdd
<1>8. ASSUME NEW c \in Cpus, FutexExit(c) PROVE SwitchesMove'
  <2>1. \/ Recording(c, [kind |-> "exit", cpu |-> c, at |-> now])
        \/ streams' = streams
    BY <1>1, <1>8, FutexExitIs
  <2> QED
    BY <1>1, <1>2, <2>1, MovesAdd
<1>9. SwitchesMove'
  BY <1>3, <1>4, <1>5, <1>6, <1>7, <1>8 DEF KernelNext
<1> QED
  BY <1>1, <1>9 DEF MoveInv

LEMMA LinesMove ==
    ASSUME MoveInv, NEW n \in 1 .. Len(Merged), SwitchAt(n)
    PROVE  Merged[n].prev # Merged[n].next
<1>1. Order[n] \in Switches /\ Merged[n] = Event(Order[n])
  BY LinesOf DEF MoveInv
<1> QED
  BY <1>1 DEF MoveInv, SwitchesMove

-----------------------------------------------------------------------------
(* The stream of a CPU is the lines of that CPU.                           *)
LineOf(p) == CHOOSE i \in 1 .. Len(Merged) : Order[i] = p

LEMMA LineOfIs ==
    ASSUME KernelBasics
    PROVE  /\ \A p \in Recorded : /\ LineOf(p) \in 1 .. Len(Merged) /\ Order[LineOf(p)] = p
                                  /\ Merged[LineOf(p)] = Event(p)
           /\ \A i \in 1 .. Len(Merged) : LineOf(Order[i]) = i
<1>1. ASSUME NEW p \in Recorded
      PROVE  /\ LineOf(p) \in 1 .. Len(Merged) /\ Order[LineOf(p)] = p /\ Merged[LineOf(p)] = Event(p)
  <2>1. \E i \in 1 .. Len(Merged) : Order[i] = p
    BY MergedIs
  <2>2. LineOf(p) \in 1 .. Len(Merged) /\ Order[LineOf(p)] = p
    BY <2>1 DEF LineOf
  <2> QED
    BY <2>2, MergedIs
<1>2. ASSUME NEW i \in 1 .. Len(Merged) PROVE LineOf(Order[i]) = i
  <2>1. Order[i] \in Recorded
    BY MergedIs
  <2>2. LineOf(Order[i]) \in 1 .. Len(Merged) /\ Order[LineOf(Order[i])] = Order[i]
    BY <1>1, <2>1
  <2> QED
    BY <2>2, LinesOf
<1> QED
  BY <1>1, <1>2

Place(c) == [k \in 1 .. Len(streams[c]) |-> LineOf(<<c, k>>)]

LEMMA StreamLines ==
    ASSUME KernelBasics, NEW c \in Cpus
    PROVE  /\ Len(streams[c]) \in Nat
           /\ \A k \in 1 .. Len(streams[c]) : /\ Place(c)[k] \in 1 .. Len(Merged)
                                              /\ Order[Place(c)[k]] = <<c, k>>
                                              /\ Merged[Place(c)[k]] = streams[c][k]
                                              /\ Merged[Place(c)[k]].cpu = c
           /\ \A n \in 1 .. Len(Merged) : Merged[n].cpu = c => \E k \in 1 .. Len(streams[c]) : Place(c)[k] = n
           /\ Rising(Len(streams[c]), Place(c), Less)
           /\ \A i, k \in 1 .. Len(streams[c]) : i < k => Place(c)[i] < Place(c)[k]
<1>1. streams[c] \in Seq(KernelEvents) /\ Len(streams[c]) \in Nat /\ DOMAIN streams[c] = 1 .. Len(streams[c])
  BY DEF KernelBasics, KernelTypes
<1>2. ASSUME NEW k \in 1 .. Len(streams[c])
      PROVE  /\ <<c, k>> \in Recorded
             /\ Place(c)[k] \in 1 .. Len(Merged) /\ Order[Place(c)[k]] = <<c, k>>
             /\ Merged[Place(c)[k]] = streams[c][k] /\ Merged[Place(c)[k]].cpu = c
  <2>1. <<c, k>> \in Recorded
    BY <1>1, RecordedIs
  <2>2. Place(c)[k] = LineOf(<<c, k>>)
    BY DEF Place
  <2>3. /\ LineOf(<<c, k>>) \in 1 .. Len(Merged) /\ Order[LineOf(<<c, k>>)] = <<c, k>>
        /\ Merged[LineOf(<<c, k>>)] = Event(<<c, k>>)
    BY <2>1, LineOfIs
  <2>4. Event(<<c, k>>) = streams[c][k] /\ Event(<<c, k>>).cpu = c
    BY <2>1, EventTypes DEF Event
  <2> QED
    BY <2>1, <2>2, <2>3, <2>4
<1>3. ASSUME NEW n \in 1 .. Len(Merged), Merged[n].cpu = c PROVE \E k \in 1 .. Len(streams[c]) : Place(c)[k] = n
  <2>1. Order[n] \in Recorded /\ Order[n][1] = c
    BY <1>3, LinesOf
  <2>2. Order[n] = <<c, Order[n][2]>> /\ Order[n][2] \in 1 .. Len(streams[c])
    BY <1>1, <2>1, RecordedIs
  <2>3. Place(c)[Order[n][2]] = LineOf(Order[n])
    BY <2>2 DEF Place
  <2>4. LineOf(Order[n]) = n
    BY LineOfIs
  <2> QED
    BY <2>2, <2>3, <2>4
<1>4. ASSUME NEW i \in 1 .. Len(streams[c]), NEW k \in 1 .. Len(streams[c]), i < k
      PROVE  Place(c)[i] < Place(c)[k] /\ <<Place(c)[i], Place(c)[k]>> \in Less
  <2> PICK x : x = Place(c)[i]
    OBVIOUS
  <2> PICK y : y = Place(c)[k]
    OBVIOUS
  <2>1. x \in 1 .. Len(Merged) /\ y \in 1 .. Len(Merged) /\ Order[x] = <<c, i>> /\ Order[y] = <<c, k>>
    BY <1>2
  <2>2. <<c, i>> \in Recorded /\ <<c, k>> \in Recorded
    BY <1>2
  <2>3. Event(<<c, i>>) = streams[c][i] /\ Event(<<c, k>>) = streams[c][k]
    BY DEF Event
  <2>4. streams[c][i].at < streams[c][k].at
    BY <1>1, <1>4 DEF KernelBasics, StreamsInOrder
  <2>5. Merged[x].at < Merged[y].at
    BY <1>2, <2>4
  <2>6. Merged[x].at \in Nat /\ Merged[y].at \in Nat /\ Len(Merged) \in Nat
    BY <2>1, LinesOf
  <2>7. ~(y < x) /\ x # y
    <3>1. y < x => Merged[y].at <= Merged[x].at
      BY <2>1, MergedIsSorted
    <3> QED
      BY <2>5, <2>6, <3>1
  <2>8. x < y /\ x \in Nat /\ y \in Nat
    BY <2>1, <2>6, <2>7
  <2> QED
    BY <2>8, LessIs
<1>5. Rising(Len(streams[c]), Place(c), Less)
  BY <1>4 DEF Rising
<1> QED
  BY <1>1, <1>2, <1>3, <1>4, <1>5

-----------------------------------------------------------------------------
(* What a worker does with an event.                                       *)
Marks == [tid : Threads, ts : Nat]
Lookers ==
    [running : [tid : Tids, at : Nat], on : Seq(Rows), sw : Seq([prev : Tids, next : Tids, ts : Nat]),
     wk : Seq(Marks), fx : Seq([tid : Threads, ts : Nat, kind : {"set", "clear", "take"}]), ctx : Seq(Marks)]
SeenBy(w) == {w.ctx[i].tid : i \in DOMAIN w.ctx}

LEMMA Worker0Types == Worker0 \in Lookers
<1>1. Unknown \in [tid : Tids, at : Nat]
  BY TidsAre DEF Unknown
<1>2. \A S : <<>> \in Seq(S)
  OBVIOUS
<1> QED
  BY <1>1, <1>2 DEF Worker0, Lookers

ParSwitched(w, e, ts) ==
    LET isOn == e.prev # Idle /\ w.running.tid = e.prev
    IN [running |-> [tid |-> e.next, at |-> ts],
        on |-> IF isOn THEN Append(w.on, Interval(e.prev, w.running.at, ts)) ELSE w.on,
        sw |-> Append(w.sw, [prev |-> e.prev, next |-> e.next, ts |-> ts]),
        wk |-> w.wk, fx |-> w.fx,
        ctx |-> IF e.prev \in SeenBy(w) \cup {Idle} THEN w.ctx ELSE Append(w.ctx, [tid |-> e.prev, ts |-> ts])]

LEMMA ParSwitchTakes ==
    ASSUME NEW w \in Lookers, NEW e \in KernelEvents, e.kind = "switch", NEW ts \in Nat, ParStamp(e) = ts
    PROVE  ParLine(w, e) = ParSwitched(w, e, ts) /\ ParLine(w, e) \in Lookers
<1>1. e.prev \in Tids /\ e.next \in Tids
  BY DEF KernelEvents
<1>2. /\ w.running \in [tid : Tids, at : Nat] /\ w.on \in Seq(Rows)
      /\ w.sw \in Seq([prev : Tids, next : Tids, ts : Nat]) /\ w.wk \in Seq(Marks)
      /\ w.fx \in Seq([tid : Threads, ts : Nat, kind : {"set", "clear", "take"}]) /\ w.ctx \in Seq(Marks)
      /\ w = [running |-> w.running, on |-> w.on, sw |-> w.sw, wk |-> w.wk, fx |-> w.fx, ctx |-> w.ctx]
  BY DEF Lookers
<1> DEFINE on == IF e.prev # Idle /\ w.running.tid = e.prev
                    THEN Append(w.on, Interval(e.prev, w.running.at, ts)) ELSE w.on
           sw == Append(w.sw, [prev |-> e.prev, next |-> e.next, ts |-> ts])
           ctx == IF e.prev \in SeenBy(w) \cup {Idle} THEN w.ctx ELSE Append(w.ctx, [tid |-> e.prev, ts |-> ts])
           running == [tid |-> e.next, at |-> ts]
<1>3. on \in Seq(Rows)
  <2>1. e.prev # Idle => Interval(e.prev, w.running.at, ts) \in Rows
    BY <1>1, <1>2, TidsAre DEF Interval, Rows
  <2> QED
    BY <1>2, <2>1
<1>4. sw \in Seq([prev : Tids, next : Tids, ts : Nat])
  BY <1>1, <1>2
<1>5. ctx \in Seq(Marks)
  <2>1. e.prev # Idle => [tid |-> e.prev, ts |-> ts] \in Marks
    BY <1>1, TidsAre DEF Marks
  <2> QED
    BY <1>2, <2>1
<1>6. running \in [tid : Tids, at : Nat]
  BY <1>1
<1>7. ParLine(w, e) = ParSwitch(w, e, ts)
  BY DEF ParLine
<1>8. ParSwitch(w, e, ts) = [w EXCEPT !.ctx = ctx, !.on = on, !.sw = sw, !.running = running]
  BY DEF ParSwitch, SeenBy
<1> HIDE DEF on, sw, ctx, running
<1>9. ParLine(w, e) = [running |-> running, on |-> on, sw |-> sw, wk |-> w.wk, fx |-> w.fx, ctx |-> ctx]
  BY <1>2, <1>7, <1>8
<1>10. ParLine(w, e) \in Lookers
  BY <1>2, <1>3, <1>4, <1>5, <1>6, <1>9 DEF Lookers
<1>11. ParLine(w, e) = ParSwitched(w, e, ts)
  BY <1>9 DEF ParSwitched, on, sw, ctx, running
<1> QED
  BY <1>10, <1>11

LEMMA ParOthersTake ==
    ASSUME NEW w \in Lookers, NEW e \in KernelEvents, e.kind # "switch", NEW ts \in Nat, ParStamp(e) = ts
    PROVE  /\ ParLine(w, e) \in Lookers /\ ParLine(w, e).running = w.running
           /\ ParLine(w, e).on = w.on /\ ParLine(w, e).sw = w.sw /\ ParLine(w, e).ctx = w.ctx
           /\ ParLine(w, e).wk = IF e.kind = "mark" /\ w.running.tid # Idle
                                    THEN Append(w.wk, [tid |-> w.running.tid, ts |-> ts]) ELSE w.wk
           /\ ParLine(w, e).fx = IF e.kind \in {"entry", "exit"} /\ w.running.tid # Idle
                                    THEN Append(w.fx, [tid |-> w.running.tid, ts |-> ts, kind |-> FxKind(e)]) ELSE w.fx
<1>1. e.kind = "mark" \/ e.kind = "entry" \/ e.kind = "exit"
  BY DEF KernelEvents
<1>2. /\ w.running \in [tid : Tids, at : Nat] /\ w.on \in Seq(Rows)
      /\ w.sw \in Seq([prev : Tids, next : Tids, ts : Nat]) /\ w.wk \in Seq(Marks)
      /\ w.fx \in Seq([tid : Threads, ts : Nat, kind : {"set", "clear", "take"}]) /\ w.ctx \in Seq(Marks)
      /\ w = [running |-> w.running, on |-> w.on, sw |-> w.sw, wk |-> w.wk, fx |-> w.fx, ctx |-> w.ctx]
  BY DEF Lookers
<1> PICK t : t = w.running.tid
  OBVIOUS
<1>3. t = Idle \/ t \in Threads
  BY <1>2, TidsAre
<1>4. CASE t = Idle
  <2>1. ParLine(w, e) = w
    BY <1>4 DEF ParLine
  <2> QED
    BY <1>4, <2>1
<1>5. CASE t # Idle /\ e.kind = "mark"
  <2> DEFINE wk == Append(w.wk, [tid |-> t, ts |-> ts])
  <2>1. ParLine(w, e) = [w EXCEPT !.wk = wk]
    BY <1>5 DEF ParLine
  <2>2. wk \in Seq(Marks)
    BY <1>2, <1>3, <1>5 DEF Marks
  <2> HIDE DEF wk
  <2>3. ParLine(w, e) = [running |-> w.running, on |-> w.on, sw |-> w.sw, wk |-> wk, fx |-> w.fx, ctx |-> w.ctx]
    BY <1>2, <2>1
  <2>4. ParLine(w, e) \in Lookers
    BY <1>2, <2>2, <2>3 DEF Lookers
  <2> QED
    BY <1>5, <2>3, <2>4 DEF wk
<1>6. CASE t # Idle /\ e.kind \in {"entry", "exit"}
  <2> DEFINE fx == Append(w.fx, [tid |-> t, ts |-> ts, kind |-> FxKind(e)])
  <2>1. ParLine(w, e) = [w EXCEPT !.fx = fx]
    BY <1>6 DEF ParLine
  <2>2. FxKind(e) \in {"set", "clear", "take"}
    BY DEF FxKind
  <2>3. fx \in Seq([tid : Threads, ts : Nat, kind : {"set", "clear", "take"}])
    BY <1>2, <1>3, <1>6, <2>2
  <2> HIDE DEF fx
  <2>4. ParLine(w, e) = [running |-> w.running, on |-> w.on, sw |-> w.sw, wk |-> w.wk, fx |-> fx, ctx |-> w.ctx]
    BY <1>2, <2>1
  <2>5. ParLine(w, e) \in Lookers
    BY <1>2, <2>3, <2>4 DEF Lookers
  <2> QED
    BY <1>6, <2>4, <2>5 DEF fx
<1> QED
  BY <1>1, <1>4, <1>5, <1>6

LEMMA ReadIs ==
    ASSUME NEW s, Len(s) \in Nat
    PROVE  \E b : Passes([of |-> "read", s |-> s], Len(s), b) /\ Worker(s) = b[Len(s)]
<1> DEFINE l == [of |-> "read", s |-> s]
           b == CHOOSE b : Passes(l, Len(s), b)
<1>1. Passes(l, Len(s), b)
  BY PassesExist
<1>2. Worker(s) = b[Len(s)]
  BY DEF Worker, Passes, Onward, Begun
<1> QED
  BY <1>1, <1>2

(* The states of the worker of a CPU, an event after the other.            *)
Watching(c, u) ==
    /\ u[0] = Worker0 /\ Worker(streams[c]) = u[Len(streams[c])]
    /\ \A k \in 0 .. Len(streams[c]) : u[k] \in Lookers
    /\ \A k \in 1 .. Len(streams[c]) : u[k] = ParLine(u[k - 1], streams[c][k])

LEMMA WorkersWatch ==
    ASSUME KernelBasics, NEW c \in Cpus
    PROVE  \E u : Watching(c, u)
<1> DEFINE s == streams[c]
           L == Len(s)
<1>1. L \in Nat /\ \A k \in 1 .. L : s[k] \in KernelEvents /\ ParStamp(s[k]) \in Nat
  <2>1. s \in Seq(KernelEvents) /\ L \in Nat /\ DOMAIN s = 1 .. L
    BY DEF KernelBasics, KernelTypes
  <2>2. ASSUME NEW k \in 1 .. L PROVE s[k] \in KernelEvents /\ ParStamp(s[k]) \in Nat
    <3>1. <<c, k>> \in Recorded
      BY <2>1, RecordedIs
    <3>2. Event(<<c, k>>) = s[k]
      BY DEF Event
    <3>3. s[k] \in KernelEvents /\ s[k].at \in Nat /\ ParStamp(s[k]) = 1 + s[k].at
      BY <3>1, <3>2, EventTypes, ParStampsAre
    <3> QED
      BY <3>3
  <2> QED
    BY <2>1, <2>2
<1>2. PICK u : Passes([of |-> "read", s |-> s], L, u) /\ Worker(s) = u[L]
  BY <1>1, ReadIs
<1>3. u[0] = Worker0 /\ \A k \in 1 .. L : u[k] = ParLine(u[k - 1], s[k])
  <2>1. /\ u[0] = Begun([of |-> "read", s |-> s])
        /\ \A k \in 1 .. L : u[k] = Onward([of |-> "read", s |-> s], u[k - 1], k)
    BY <1>1, <1>2, PassesOn
  <2> QED
    BY <2>1 DEF Begun, Onward
<1> HIDE DEF s, L
<1> DEFINE S == {k \in Nat : k <= L => u[k] \in Lookers}
<1>4. 0 \in S
  BY <1>3, Worker0Types
<1>5. ASSUME NEW k \in Nat, k \in S PROVE k + 1 \in S
  <2> SUFFICES ASSUME k + 1 <= L PROVE u[k + 1] \in Lookers
    OBVIOUS
  <2> PICK w : w = u[k]
    OBVIOUS
  <2> PICK e : e = s[k + 1]
    OBVIOUS
  <2>1. k + 1 \in 1 .. L /\ (k + 1) - 1 = k /\ w \in Lookers
    BY <1>1, <1>5
  <2>2. u[k + 1] = ParLine(w, e) /\ e \in KernelEvents /\ ParStamp(e) \in Nat
    BY <1>1, <1>3, <2>1
  <2>3. ParLine(w, e) \in Lookers
    <3>1. CASE e.kind = "switch"
      BY <2>1, <2>2, <3>1, ParSwitchTakes
    <3>2. CASE e.kind # "switch"
      BY <2>1, <2>2, <3>2, ParOthersTake
    <3> QED
      BY <3>1, <3>2
  <2> QED
    BY <2>2, <2>3
<1> HIDE DEF S
<1>6. Nat \subseteq S
  BY <1>4, <1>5, NatIsInductive
<1>7. \A k \in 0 .. L : u[k] \in Lookers
  BY <1>1, <1>6 DEF S
<1> QED
  BY <1>2, <1>3, <1>7 DEF Watching, s, L

LEMMA WorkersAre == \A c \in Cpus : Workers[c] = Worker(streams[c])
<1> DEFINE l == [of |-> "work"]
           b == CHOOSE b : Passes(l, NCpus, b)
<1>0. NCpus \in Nat
  BY KernelTraceAssumption
<1>1. Passes(l, NCpus, b)
  BY <1>0, PassesExist
<1>2. Workers = b[NCpus]
  BY DEF Workers, Passes, Onward, Begun
<1> HIDE DEF b
<1>3. b[0] = <<>> /\ \A n \in Cpus : b[n] = Append(b[n - 1], Worker(streams[n]))
  <2>1. /\ b[0] = Begun([of |-> "work"])
        /\ \A i \in 1 .. NCpus : b[i] = Onward([of |-> "work"], b[i - 1], i)
    BY <1>0, <1>1, PassesOn
  <2> QED
    BY <2>1 DEF Begun, Onward, Cpus
<1> DEFINE S == {m \in Nat : m <= NCpus => b[m] = [k \in 1 .. m |-> Worker(streams[k])]}
<1>4. 0 \in S
  BY <1>3
<1>5. ASSUME NEW m \in Nat, m \in S PROVE m + 1 \in S
  <2> SUFFICES ASSUME m + 1 <= NCpus PROVE b[m + 1] = [k \in 1 .. m + 1 |-> Worker(streams[k])]
    OBVIOUS
  <2>1. m + 1 \in Cpus /\ (m + 1) - 1 = m /\ m <= NCpus
    BY <1>0 DEF Cpus
  <2>2. b[m] = [k \in 1 .. m |-> Worker(streams[k])] /\ b[m + 1] = Append(b[m], Worker(streams[m + 1]))
    BY <1>3, <1>5, <2>1
  <2> PICK x : x = Worker(streams[m + 1])
    OBVIOUS
  <2> PICK e : e = [k \in 1 .. m |-> Worker(streams[k])]
    OBVIOUS
  <2>3. b[m] = [k \in 1 .. m |-> e[k]]
    BY <2>2
  <2>4. Append(b[m], x) = [k \in 1 .. m + 1 |-> IF k = m + 1 THEN x ELSE e[k]]
    BY <2>3, AppendIs
  <2>5. \A k \in 1 .. m + 1 : (IF k = m + 1 THEN x ELSE e[k]) = Worker(streams[k])
    OBVIOUS
  <2> QED
    BY <2>2, <2>4, <2>5
<1> HIDE DEF S
<1>6. Nat \subseteq S
  BY <1>4, <1>5, NatIsInductive
<1>7. b[NCpus] = [k \in Cpus |-> Worker(streams[k])]
  BY <1>0, <1>6 DEF S, Cpus
<1> QED
  BY <1>2, <1>7

-----------------------------------------------------------------------------
(* What a line adds to the marks and to the threads met.                   *)
LEMMA SwitchMeets ==
    ASSUME NEW p \in Parsers, NEW e \in KernelEvents, e.kind = "switch", NEW ts
    PROVE  /\ SeqLine(p, e, ts).wk = p.wk
           /\ SeqLine(p, e, ts).ctx = IF e.prev \in ToSet(p.ctx) \cup {Idle} THEN p.ctx ELSE Append(p.ctx, e.prev)
<1>1. SeqLine(p, e, ts) = SeqSwitch(p, e, ts)
  BY DEF SeqLine
<1>2. p = [running |-> p.running, pending |-> p.pending, pendingFx |-> p.pendingFx, on |-> p.on, off |-> p.off,
           wk |-> p.wk, fx |-> p.fx, ctx |-> p.ctx]
  BY DEF Parsers
<1> DEFINE ctx == IF e.prev \in ToSet(p.ctx) \cup {Idle} THEN p.ctx ELSE Append(p.ctx, e.prev)
<1>3. SeqSwitch(p, e, ts).ctx = ctx /\ SeqSwitch(p, e, ts).wk = p.wk
  BY <1>2 DEF SeqSwitch
<1> QED
  BY <1>1, <1>3

LEMMA OthersMeet ==
    ASSUME NEW p \in Parsers, NEW e \in KernelEvents, e.kind # "switch", NEW ts \in Nat
    PROVE  /\ SeqLine(p, e, ts).ctx = p.ctx
           /\ SeqLine(p, e, ts).wk = IF e.kind = "mark" /\ p.running[e.cpu].tid # Idle
                                        THEN Append(p.wk, [tid |-> p.running[e.cpu].tid, ts |-> ts]) ELSE p.wk
<1>1. e.kind = "mark" \/ e.kind = "entry" \/ e.kind = "exit"
  BY DEF KernelEvents
<1>2. p = [running |-> p.running, pending |-> p.pending, pendingFx |-> p.pendingFx, on |-> p.on, off |-> p.off,
           wk |-> p.wk, fx |-> p.fx, ctx |-> p.ctx]
  BY DEF Parsers
<1> PICK t : t = p.running[e.cpu].tid
  OBVIOUS
<1>3. CASE e.kind = "mark"
  <2>1. SeqLine(p, e, ts) = IF t = Idle THEN p ELSE [p EXCEPT !.wk = Append(p.wk, [tid |-> t, ts |-> ts])]
    BY <1>3 DEF SeqLine, SeqMark
  <2> QED
    BY <1>2, <1>3, <2>1
<1>4. CASE e.kind = "entry"
  <2>1. SeqLine(p, e, ts) = SeqEntry(p, e, ts)
    BY <1>4 DEF SeqLine
  <2>2. SeqEntry(p, e, ts).ctx = p.ctx /\ SeqEntry(p, e, ts).wk = p.wk
    BY <1>2 DEF SeqEntry
  <2> QED
    BY <1>4, <2>1, <2>2
<1>5. CASE e.kind = "exit"
  <2>1. SeqLine(p, e, ts) = SeqExit(p, e, ts)
    BY <1>5 DEF SeqLine
  <2>2. SeqExit(p, e, ts).ctx = p.ctx /\ SeqExit(p, e, ts).wk = p.wk
    BY <1>2 DEF SeqExit
  <2> QED
    BY <1>5, <2>1, <2>2
<1> QED
  BY <1>1, <1>3, <1>4, <1>5

(* A line of the sequential parser: the thread that runs, what it reads.   *)
Ran(b, n) == b[n - 1].running[Merged[n].cpu]

LEMMA LineIs ==
    ASSUME MoveInv, NEW b, Reading(b), NEW n \in 1 .. Len(Merged)
    PROVE  /\ b[n - 1] \in Parsers /\ b[n] \in Parsers /\ Merged[n] \in KernelEvents /\ Merged[n].cpu \in Cpus
           /\ Stamp(n) \in Nat /\ Stamp(n) # 0
           /\ b[n] = SeqLine(b[n - 1], Merged[n], Stamp(n))
           /\ SwitchAt(n) => Merged[n].prev # Merged[n].next /\ Merged[n].prev \in Tids /\ Merged[n].next \in Tids
           /\ Ran(b, n) \in [tid : Tids, at : Nat]
<1>0. KernelBasics
  BY DEF MoveInv
<1>1. Len(Merged) \in Nat /\ Merged[n] \in KernelEvents /\ Merged[n].at \in Nat
  BY <1>0, MergedIs, MergedIsSorted
<1>2. n - 1 \in 0 .. Len(Merged) /\ n \in 0 .. Len(Merged)
  BY <1>1
<1>3. b[n - 1] \in Parsers /\ b[n] \in Parsers /\ b[n] = SeqLine(b[n - 1], Merged[n], Stamp(n))
  BY <1>2 DEF Reading
<1>4. Merged[n].cpu \in Cpus
  BY <1>1 DEF KernelEvents
<1>5. SwitchAt(n) => Merged[n].prev # Merged[n].next
  BY LinesMove
<1>6. SwitchAt(n) => Merged[n].prev \in Tids /\ Merged[n].next \in Tids
  BY <1>1 DEF SwitchAt, KernelEvents
<1>7. Ran(b, n) \in [tid : Tids, at : Nat]
  BY <1>3, <1>4 DEF Ran, Parsers
<1>8. Stamp(n) \in Nat /\ Stamp(n) # 0
  BY <1>1 DEF Stamp
<1> QED
  BY <1>1, <1>3, <1>4, <1>5, <1>6, <1>7, <1>8

LEMMA LineRunsOn ==
    ASSUME NEW p \in Parsers, NEW e \in KernelEvents, NEW ts \in Nat, NEW c \in Cpus,
           e.kind = "switch" => e.prev # e.next
    PROVE  SeqLine(p, e, ts).running[c] =
             IF e.kind = "switch" /\ e.cpu = c THEN [tid |-> e.next, at |-> ts] ELSE p.running[c]
<1>1. p.running \in [Cpus -> [tid : Tids, at : Nat]]
  BY DEF Parsers
<1>2. CASE e.kind = "switch"
  <2>1. SeqLine(p, e, ts).running = [p.running EXCEPT ![e.cpu] = [tid |-> e.next, at |-> ts]]
    BY <1>2, SwitchTakes DEF SwitchDoes
  <2> QED
    BY <1>1, <1>2, <2>1
<1>3. CASE e.kind # "switch"
  <2>1. SeqLine(p, e, ts).running = p.running
    BY <1>3, OthersTake DEF OthersDo
  <2> QED
    BY <1>3, <2>1
<1> QED
  BY <1>2, <1>3

LEMMA LineRuns ==
    ASSUME MoveInv, NEW b, Reading(b), NEW n \in 1 .. Len(Merged), NEW c \in Cpus
    PROVE  /\ ~SwitchOn(c, n) => b[n].running[c] = b[n - 1].running[c]
           /\ SwitchOn(c, n) => b[n].running[c] = [tid |-> Merged[n].next, at |-> Stamp(n)]
<1>1. /\ b[n - 1] \in Parsers /\ Merged[n] \in KernelEvents /\ Stamp(n) \in Nat
      /\ b[n] = SeqLine(b[n - 1], Merged[n], Stamp(n))
  BY LineIs
<1>2. Merged[n].kind = "switch" => Merged[n].prev # Merged[n].next
  BY LineIs DEF SwitchAt
<1>3. SeqLine(b[n - 1], Merged[n], Stamp(n)).running[c] =
        IF Merged[n].kind = "switch" /\ Merged[n].cpu = c
           THEN [tid |-> Merged[n].next, at |-> Stamp(n)] ELSE b[n - 1].running[c]
  BY <1>1, <1>2, LineRunsOn
<1> QED
  BY <1>1, <1>3 DEF SwitchOn, SwitchAt

LEMMA ParRunsOn ==
    ASSUME NEW w \in Lookers, NEW e \in KernelEvents, NEW ts \in Nat, ParStamp(e) = ts
    PROVE  ParLine(w, e).running = IF e.kind = "switch" THEN [tid |-> e.next, at |-> ts] ELSE w.running
<1>1. CASE e.kind = "switch"
  <2>1. ParLine(w, e) = ParSwitched(w, e, ts)
    BY <1>1, ParSwitchTakes
  <2>2. ParSwitched(w, e, ts).running = [tid |-> e.next, at |-> ts]
    BY DEF ParSwitched
  <2> QED
    BY <1>1, <2>1, <2>2
<1>2. CASE e.kind # "switch"
  BY <1>2, ParOthersTake
<1> QED
  BY <1>1, <1>2

(* When n lines hold the first k events of a CPU, its worker has after k   *)
(* events the same thread on it as the sequential parser after n lines.    *)
Upto(c, k, n) ==
    /\ k \in 0 .. Len(streams[c])
    /\ \A i \in 1 .. Len(streams[c]) : Place(c)[i] <= n <=> i <= k
RunsAlike(b, u, c, n) == \A k : Upto(c, k, n) => b[n].running[c] = u[k].running

LEMMA WorkerRuns ==
    ASSUME KernelBasics, NEW c \in Cpus, NEW u, Watching(c, u), NEW k \in 1 .. Len(streams[c])
    PROVE  /\ u[k - 1] \in Lookers /\ streams[c][k] \in KernelEvents
           /\ Place(c)[k] \in 1 .. Len(Merged) /\ Merged[Place(c)[k]] = streams[c][k]
           /\ Merged[Place(c)[k]].cpu = c
           /\ Stamp(Place(c)[k]) \in Nat /\ ParStamp(streams[c][k]) = Stamp(Place(c)[k])
           /\ u[k] = ParLine(u[k - 1], streams[c][k])
<1>1. Len(streams[c]) \in Nat
  BY StreamLines
<1>2. k - 1 \in 0 .. Len(streams[c])
  BY <1>1
<1> PICK n : n = Place(c)[k]
  OBVIOUS
<1>3. n \in 1 .. Len(Merged) /\ Order[n] = <<c, k>> /\ Merged[n] = streams[c][k] /\ Merged[n].cpu = c
  BY StreamLines
<1>4. Order[n] \in Recorded /\ Merged[n] = Event(Order[n])
  BY <1>3, LinesOf
<1>5. Event(Order[n]) \in KernelEvents /\ Event(Order[n]).at \in Nat
      /\ ParStamp(Event(Order[n])) = 1 + Event(Order[n]).at
  BY <1>4, EventTypes, ParStampsAre
<1>6. Stamp(n) \in Nat /\ ParStamp(streams[c][k]) = Stamp(n) /\ streams[c][k] \in KernelEvents
  BY <1>3, <1>4, <1>5 DEF Stamp
<1>7. u[k - 1] \in Lookers /\ u[k] = ParLine(u[k - 1], streams[c][k])
  BY <1>2 DEF Watching
<1> QED
  BY <1>3, <1>6, <1>7

LEMMA RunningAgrees ==
    ASSUME MoveInv, NEW b, Reading(b), NEW c \in Cpus, NEW u, Watching(c, u)
    PROVE  \A n \in 0 .. Len(Merged) : RunsAlike(b, u, c, n)
<1> DEFINE N == Len(Merged)
           L == Len(streams[c])
<1>0. KernelBasics
  BY DEF MoveInv
<1>1. N \in Nat /\ L \in Nat
  BY <1>0, MergedIs, StreamLines
<1>2. /\ \A k \in 1 .. L : Place(c)[k] \in 1 .. N /\ Merged[Place(c)[k]].cpu = c
      /\ \A n \in 1 .. N : Merged[n].cpu = c => \E k \in 1 .. L : Place(c)[k] = n
      /\ \A i, k \in 1 .. L : i < k => Place(c)[i] < Place(c)[k]
  BY <1>0, StreamLines
<1> DEFINE S == {n \in Nat : n <= N => RunsAlike(b, u, c, n)}
<1>3. 0 \in S
  <2> SUFFICES ASSUME NEW k, Upto(c, k, 0) PROVE b[0].running[c] = u[k].running
    BY DEF RunsAlike
  <2>1. k \in 0 .. L /\ \A i \in 1 .. L : Place(c)[i] <= 0 <=> i <= k
    BY DEF Upto
  <2>2. k = 0
    <3> SUFFICES ASSUME k # 0 PROVE FALSE
      OBVIOUS
    <3>1. k \in 1 .. L /\ k <= k
      BY <1>1, <2>1
    <3>2. Place(c)[k] <= 0 /\ Place(c)[k] \in 1 .. N
      BY <1>2, <2>1, <3>1
    <3> QED
      BY <1>1, <3>2
  <2>3. b[0].running[c] = Unknown /\ u[0].running = Unknown
    BY DEF Reading, Watching, Start0, Worker0
  <2> QED
    BY <2>2, <2>3
<1>4. ASSUME NEW m \in Nat, m \in S PROVE m + 1 \in S
  <2> SUFFICES ASSUME m + 1 <= N PROVE RunsAlike(b, u, c, m + 1)
    OBVIOUS
  <2> PICK n : n = m + 1
    OBVIOUS
  <2>1. n \in 1 .. N /\ n - 1 = m /\ m <= N /\ n \in Nat /\ \A i \in Nat : i <= n <=> i <= m \/ i = n
    BY <1>1
  <2>2. RunsAlike(b, u, c, m)
    BY <1>4, <2>1
  <2> HIDE DEF S
  <2>3. /\ ~SwitchOn(c, n) => b[n].running[c] = b[m].running[c]
        /\ SwitchOn(c, n) => b[n].running[c] = [tid |-> Merged[n].next, at |-> Stamp(n)]
    BY <2>1, LineRuns
  <2>4. ASSUME NEW k, Upto(c, k, n) PROVE b[n].running[c] = u[k].running
    <3>1. k \in 0 .. L /\ \A i \in 1 .. L : Place(c)[i] <= n <=> i <= k
      BY <2>4 DEF Upto
    <3>2. CASE Merged[n].cpu # c
      <4>1. \A i \in 1 .. L : Place(c)[i] # n /\ Place(c)[i] \in Nat
        BY <1>1, <1>2, <3>2
      <4>2. Upto(c, k, m)
        BY <2>1, <3>1, <4>1 DEF Upto
      <4> QED
        BY <2>2, <2>3, <3>2, <4>2 DEF RunsAlike, SwitchOn
    <3>3. CASE Merged[n].cpu = c
      <4>1. PICK j \in 1 .. L : Place(c)[j] = n
        BY <1>2, <2>1, <3>3
      <4>2. j <= k
        BY <2>1, <3>1, <4>1
      <4>3. ~(j < k)
        <5> SUFFICES ASSUME j < k PROVE FALSE
          OBVIOUS
        <5>1. k \in 1 .. L /\ k <= k
          BY <1>1, <3>1
        <5>2. Place(c)[k] <= n /\ Place(c)[j] < Place(c)[k] /\ Place(c)[k] \in 1 .. N
          BY <1>2, <3>1, <5>1
        <5> QED
          BY <1>1, <2>1, <4>1, <5>2
      <4>4. k = j /\ k - 1 \in 0 .. L
        BY <1>1, <3>1, <4>2, <4>3
      <4>5. \A i \in 1 .. L : Place(c)[i] \in Nat /\ (i <= k - 1 <=> i <= k /\ i # k) /\ (Place(c)[i] = n <=> i = k)
        <5> SUFFICES ASSUME NEW i \in 1 .. L
                     PROVE  /\ Place(c)[i] \in Nat /\ (i <= k - 1 <=> i <= k /\ i # k)
                            /\ Place(c)[i] = n <=> i = k
          OBVIOUS
        <5>1. Place(c)[i] \in Nat
          BY <1>1, <1>2
        <5>2. i <= k - 1 <=> i <= k /\ i # k
          BY <1>1, <3>1
        <5>3. i < k \/ i = k \/ k < i
          BY <1>1, <3>1
        <5>4. i < k => Place(c)[i] < n
          BY <1>2, <4>1, <4>4
        <5>5. k < i => n < Place(c)[i]
          BY <1>2, <4>1, <4>4
        <5>6. Place(c)[i] = n <=> i = k
          BY <2>1, <4>1, <4>4, <5>1, <5>3, <5>4, <5>5
        <5> QED
          BY <5>1, <5>2, <5>6
      <4>6. Upto(c, k - 1, m)
        BY <2>1, <3>1, <4>4, <4>5 DEF Upto
      <4>7. b[m].running[c] = u[k - 1].running
        BY <2>2, <4>6 DEF RunsAlike
      <4>8. k \in 1 .. L /\ Place(c)[k] = n
        BY <4>1, <4>4
      <4>9. /\ u[k - 1] \in Lookers /\ streams[c][k] \in KernelEvents /\ Merged[n] = streams[c][k] /\ Stamp(n) \in Nat
            /\ ParStamp(streams[c][k]) = Stamp(n) /\ u[k] = ParLine(u[k - 1], streams[c][k])
        BY <1>0, <4>8, WorkerRuns
      <4>10. u[k].running = IF Merged[n].kind = "switch" THEN [tid |-> Merged[n].next, at |-> Stamp(n)] ELSE u[k - 1].running
        BY <4>9, ParRunsOn
      <4> QED
        BY <2>3, <3>3, <4>7, <4>10 DEF SwitchOn, SwitchAt
    <3> QED
      BY <3>2, <3>3
  <2> QED
    BY <2>4 DEF RunsAlike
<1> HIDE DEF S
<1>5. Nat \subseteq S
  BY <1>3, <1>4, NatIsInductive
<1> QED
  BY <1>1, <1>5 DEF S

LEMMA WorkerSees ==
    ASSUME MoveInv, NEW b, Reading(b), NEW c \in Cpus, NEW u, Watching(c, u), NEW k \in 1 .. Len(streams[c])
    PROVE  u[k - 1].running = Ran(b, Place(c)[k])
<1>0. KernelBasics
  BY DEF MoveInv
<1> PICK n : n = Place(c)[k]
  OBVIOUS
<1>1. /\ Len(streams[c]) \in Nat /\ n \in 1 .. Len(Merged) /\ Merged[n].cpu = c /\ Len(Merged) \in Nat
      /\ \A i \in 1 .. Len(streams[c]) : Place(c)[i] \in 1 .. Len(Merged)
      /\ \A i, j \in 1 .. Len(streams[c]) : i < j => Place(c)[i] < Place(c)[j]
  BY <1>0, StreamLines, MergedIs
<1>2. n - 1 \in 0 .. Len(Merged)
  BY <1>1
<1>3. ASSUME NEW i \in 1 .. Len(streams[c]) PROVE Place(c)[i] <= n - 1 <=> i <= k - 1
  <2>1. Place(c)[i] \in Nat /\ n \in Nat
    BY <1>1
  <2>2. i < k \/ i = k \/ k < i
    BY <1>1
  <2>3. i < k => Place(c)[i] < n
    BY <1>1
  <2>4. k < i => n < Place(c)[i]
    BY <1>1
  <2> QED
    BY <1>1, <2>1, <2>2, <2>3, <2>4
<1>4. Upto(c, k - 1, n - 1)
  BY <1>1, <1>3 DEF Upto
<1>5. RunsAlike(b, u, c, n - 1)
  BY <1>2, RunningAgrees
<1> QED
  BY <1>1, <1>4, <1>5 DEF RunsAlike, Ran

-----------------------------------------------------------------------------
(* A column of a worker, of all workers, of the sequential parser: the     *)
(* lines that give it a row.                                               *)
LinesOn(A, c) == {n \in A : Merged[n].cpu = c}

LEMMA WorkerLists ==
    ASSUME KernelBasics, NEW c \in Cpus, NEW u, Watching(c, u), NEW col, NEW A, A \subseteq 1 .. Len(Merged), NEW f,
           Worker0[col] = <<>>,
           \A k \in 1 .. Len(streams[c]) :
              u[k][col] = IF Place(c)[k] \in A THEN Append(u[k - 1][col], f[Place(c)[k]]) ELSE u[k - 1][col]
    PROVE  Lists(Workers[c][col], LinesOn(A, c), f, Less)
<1> DEFINE L == Len(streams[c])
           d == [k \in 0 .. L |-> u[k][col]]
           I == {k \in 1 .. L : Place(c)[k] \in A}
<1>1. L \in Nat /\ Rising(L, Place(c), Less)
      /\ (\A k \in 1 .. L : Place(c)[k] \in 1 .. Len(Merged) /\ Merged[Place(c)[k]].cpu = c)
      /\ (\A n \in 1 .. Len(Merged) : Merged[n].cpu = c => \E k \in 1 .. L : Place(c)[k] = n)
  BY StreamLines
<1>2. Growing(d, L, Place(c), I, f)
  <2>1. d[0] = <<>>
    BY <1>1 DEF Watching
  <2>2. ASSUME NEW k \in 1 .. L PROVE d[k] = IF k \in I THEN Append(d[k - 1], f[Place(c)[k]]) ELSE d[k - 1]
    <3>1. k \in 0 .. L /\ k - 1 \in 0 .. L
      BY <1>1
    <3>2. d[k] = u[k][col] /\ d[k - 1] = u[k - 1][col]
      BY <3>1
    <3>3. k \in I <=> Place(c)[k] \in A
      OBVIOUS
    <3> HIDE DEF I, d
    <3> QED
      BY <3>2, <3>3
  <2> HIDE DEF d, I
  <2> QED
    BY <2>1, <2>2 DEF Growing
<1>3. d[L] = u[L][col] /\ L \in 0 .. L
  BY <1>1
<1>4. Workers[c][col] = d[L]
  BY <1>3, WorkersAre DEF Watching
<1>5. Taken(Place(c), I, L) = LinesOn(A, c)
  <2>1. ASSUME NEW x \in Taken(Place(c), I, L) PROVE x \in LinesOn(A, c)
    BY <1>1 DEF Taken, LinesOn
  <2>2. ASSUME NEW x \in LinesOn(A, c) PROVE x \in Taken(Place(c), I, L)
    <3>1. x \in A /\ Merged[x].cpu = c /\ x \in 1 .. Len(Merged)
      BY DEF LinesOn
    <3>2. PICK k \in 1 .. L : Place(c)[k] = x
      BY <1>1, <3>1
    <3> QED
      BY <3>1, <3>2 DEF Taken
  <2> HIDE DEF I
  <2> QED
    BY <2>1, <2>2
<1> HIDE DEF d, I, L
<1>6. \A m \in 0 .. L : Lists(d[m], Taken(Place(c), I, m), f, Less)
  BY <1>1, <1>2, Grows
<1> QED
  BY <1>3, <1>4, <1>5, <1>6

ByCpu == {p \in Nat \X Nat : \/ Merged[p[1]].cpu < Merged[p[2]].cpu
                             \/ Merged[p[1]].cpu = Merged[p[2]].cpu /\ p[1] < p[2]}

LEMMA ByCpuIs ==
    ASSUME NEW a \in Nat, NEW b \in Nat
    PROVE  <<a, b>> \in ByCpu <=> \/ Merged[a].cpu < Merged[b].cpu
                                  \/ Merged[a].cpu = Merged[b].cpu /\ a < b
  BY DEF ByCpu

LEMMA LineCpu ==
    ASSUME KernelBasics
    PROVE  /\ Len(Merged) \in Nat
           /\ \A n \in 1 .. Len(Merged) : Merged[n].cpu \in Cpus /\ Merged[n].cpu \in Nat
           /\ \A n \in 1 .. Len(Merged) : Stamp(n) \in Nat /\ Stamp(n) # 0
<1>1. Len(Merged) \in Nat
  BY MergedIs
<1>2. ASSUME NEW n \in 1 .. Len(Merged)
      PROVE  Merged[n].cpu \in Cpus /\ Merged[n].cpu \in Nat /\ Stamp(n) \in Nat /\ Stamp(n) # 0
  <2>1. Merged[n] \in KernelEvents /\ Merged[n].at \in Nat
    BY MergedIsSorted
  <2>2. Merged[n].cpu \in Cpus
    BY <2>1 DEF KernelEvents
  <2> QED
    BY <2>1, <2>2, KernelTraceAssumption DEF Cpus, Stamp
<1> QED
  BY <1>1, <1>2

LEMMA ByCpuOrders ==
    ASSUME KernelBasics, NEW A, A \subseteq 1 .. Len(Merged)
    PROVE  Orders(ByCpu, A)
<1>1. \A a \in A : a \in Nat /\ Merged[a].cpu \in Nat
  BY LineCpu
<1>2. ASSUME NEW a \in A PROVE <<a, a>> \notin ByCpu
  BY <1>1, ByCpuIs
<1>3. ASSUME NEW a \in A, NEW b \in A, a # b PROVE <<a, b>> \in ByCpu \/ <<b, a>> \in ByCpu
  BY <1>1, <1>3, ByCpuIs
<1>4. ASSUME NEW a \in A, NEW b \in A, NEW x \in A, <<a, b>> \in ByCpu, <<b, x>> \in ByCpu PROVE <<a, x>> \in ByCpu
  BY <1>1, <1>4, ByCpuIs
<1> QED
  BY <1>2, <1>3, <1>4 DEF Orders

(* By time, and at the same time by CPU, is the order of the lines.        *)
LEMMA LinesByTime ==
    ASSUME KernelBasics, NEW a \in 1 .. Len(Merged), NEW b \in 1 .. Len(Merged),
           \/ Stamp(a) < Stamp(b)
           \/ Stamp(a) = Stamp(b) /\ <<a, b>> \in ByCpu
    PROVE  a < b
<1>1. /\ a \in Nat /\ b \in Nat /\ Merged[a].at \in Nat /\ Merged[b].at \in Nat
      /\ Merged[a].cpu \in Nat /\ Merged[b].cpu \in Nat
      /\ Merged[a] = Event(Order[a]) /\ Merged[b] = Event(Order[b])
      /\ Merged[a].cpu = Order[a][1] /\ Merged[b].cpu = Order[b][1]
  BY LineCpu, LinesOf
<1>2. ~(b < a)
  <2> SUFFICES ASSUME b < a PROVE FALSE
    OBVIOUS
  <2>1. Earlier(Order[b], Order[a])
    BY MergedIs
  <2>2. Merged[b].at < Merged[a].at \/ (Merged[b].at = Merged[a].at /\ Merged[b].cpu < Merged[a].cpu)
    BY <1>1, <2>1 DEF Earlier
  <2>3. <<a, b>> \in ByCpu => Merged[a].cpu < Merged[b].cpu \/ (Merged[a].cpu = Merged[b].cpu /\ a < b)
    BY <1>1, ByCpuIs
  <2> QED
    BY <1>1, <2>2, <2>3 DEF Stamp
<1>3. a # b
  <2> SUFFICES ASSUME a = b PROVE FALSE
    OBVIOUS
  <2>1. <<a, b>> \in ByCpu => Merged[a].cpu < Merged[b].cpu \/ (Merged[a].cpu = Merged[b].cpu /\ a < b)
    BY <1>1, ByCpuIs
  <2> QED
    BY <1>1, <2>1 DEF Stamp
<1> QED
  BY <1>1, <1>2, <1>3

LEMMA AllLists ==
    ASSUME KernelBasics, NEW col, NEW key, NEW A, A \subseteq 1 .. Len(Merged), NEW f,
           \A n \in A : f[n][key] = Stamp(n),
           \A c \in Cpus : Lists(Workers[c][col], LinesOn(A, c), f, Less)
    PROVE  Lists(Sorted(OfAll(Workers, col), key), A, f, Less)
<1> DEFINE B == [c \in Cpus |-> LinesOn(A, c)]
<1>1. ASSUME NEW c \in Cpus PROVE Lists(Workers[c][col], B[c], f, ByCpu)
  <2>1. ASSUME NEW a \in LinesOn(A, c), NEW b \in LinesOn(A, c), <<a, b>> \in Less PROVE <<a, b>> \in ByCpu
    <3>1. a \in Nat /\ b \in Nat /\ Merged[a].cpu = c /\ Merged[b].cpu = c
      BY LineCpu DEF LinesOn
    <3> QED
      BY <2>1, <3>1, LessIs, ByCpuIs
  <2>2. Lists(Workers[c][col], LinesOn(A, c), f, ByCpu)
    BY <2>1, SameListing
  <2> QED
    BY <2>2
<1>2. ASSUME NEW i \in Cpus, NEW j \in Cpus, i < j, NEW a \in B[i], NEW b \in B[j] PROVE <<a, b>> \in ByCpu
  <2>1. a \in Nat /\ b \in Nat /\ Merged[a].cpu = i /\ Merged[b].cpu = j
    BY LineCpu DEF LinesOn
  <2> QED
    BY <1>2, <2>1, ByCpuIs
<1>3. UNION {B[c] : c \in Cpus} = A
  <2>1. ASSUME NEW a \in A PROVE \E c \in Cpus : a \in B[c]
    BY LineCpu DEF LinesOn
  <2>2. ASSUME NEW c \in Cpus PROVE B[c] \subseteq A
    BY DEF LinesOn
  <2> QED
    BY <2>1, <2>2
<1> HIDE DEF B
<1>4. Lists(OfAll(Workers, col), UNION {B[c] : c \in Cpus}, f, ByCpu)
  BY <1>1, <1>2, JoinLists
<1>5. \A n \in A : f[n][key] \in Nat
  BY LineCpu
<1>6. Orders(ByCpu, A)
  BY ByCpuOrders
<1>7. Lists(Sorted(OfAll(Workers, col), key), A, f, ByKey(A, f, key, ByCpu))
  BY <1>3, <1>4, <1>5, <1>6, StableSort
<1>8. ASSUME NEW a \in A, NEW b \in A, <<a, b>> \in ByKey(A, f, key, ByCpu) PROVE <<a, b>> \in Less
  <2>1. f[a][key] < f[b][key] \/ (f[a][key] = f[b][key] /\ <<a, b>> \in ByCpu)
    BY <1>8, ByKeyIs
  <2>2. a < b
    BY <2>1, LinesByTime
  <2>3. a \in Nat /\ b \in Nat
    BY LineCpu
  <2> QED
    BY <2>2, <2>3, LessIs
<1> QED
  BY <1>7, <1>8, SameListing

LEMMA SequentialLists ==
    ASSUME MoveInv, NEW b, Reading(b), NEW col, NEW A, A \subseteq 1 .. Len(Merged), NEW f, Start0[col] = <<>>,
           \A n \in 1 .. Len(Merged) : b[n][col] = IF n \in A THEN Append(b[n - 1][col], f[n]) ELSE b[n - 1][col]
    PROVE  Lists(Sequential[col], A, f, Less)
<1> DEFINE N == Len(Merged)
           d == [n \in 0 .. N |-> b[n][col]]
           pos == [n \in 1 .. N |-> n]
<1>1. N \in Nat
  BY MergedIs DEF MoveInv
<1>2. Rising(N, pos, Less)
  BY <1>1, LessIs DEF Rising
<1>3. Growing(d, N, pos, A, f)
  <2>1. d[0] = <<>>
    BY <1>1 DEF Reading
  <2>2. ASSUME NEW n \in 1 .. N PROVE d[n] = IF n \in A THEN Append(d[n - 1], f[pos[n]]) ELSE d[n - 1]
    BY <1>1
  <2> HIDE DEF d, pos
  <2> QED
    BY <2>1, <2>2 DEF Growing
<1>4. Taken(pos, A, N) = A
  BY DEF Taken
<1>5. Sequential[col] = d[N] /\ N \in 0 .. N
  BY <1>1 DEF Reading
<1> HIDE DEF d, pos, N
<1>6. \A m \in 0 .. N : Lists(d[m], Taken(pos, A, m), f, Less)
  BY <1>1, <1>2, <1>3, Grows
<1> QED
  BY <1>4, <1>5, <1>6

LEMMA SameColumns ==
    ASSUME MoveInv, NEW s, NEW r, NEW A, A \subseteq 1 .. Len(Merged), NEW f, Lists(s, A, f, Less), Lists(r, A, f, Less)
    PROVE  s = r
<1>1. A \subseteq Nat
  OBVIOUS
<1> QED
  BY <1>1, LessOrders, OneListing

-----------------------------------------------------------------------------
(* The lines that give a row to a column, and the row.                     *)
OnLines(b) == {n \in 1 .. Len(Merged) : SwitchAt(n) /\ Merged[n].prev # Idle /\ Ran(b, n).tid = Merged[n].prev}
OnRow(b, n) == Interval(Merged[n].prev, Ran(b, n).at, Stamp(n))
OnRows(b) == [n \in OnLines(b) |-> OnRow(b, n)]
SwLines == {n \in 1 .. Len(Merged) : SwitchAt(n)}
SwRow(n) == [prev |-> Merged[n].prev, next |-> Merged[n].next, ts |-> Stamp(n)]
SwRows == [n \in SwLines |-> SwRow(n)]
WkLines(b) == {n \in 1 .. Len(Merged) : Merged[n].kind = "mark" /\ Ran(b, n).tid # Idle}
WkRow(b, n) == [tid |-> Ran(b, n).tid, ts |-> Stamp(n)]
WkRows(b) == [n \in WkLines(b) |-> WkRow(b, n)]
FxLines(b) == {n \in 1 .. Len(Merged) : Merged[n].kind \in {"entry", "exit"} /\ Ran(b, n).tid # Idle}
FxRow(b, n) == [tid |-> Ran(b, n).tid, ts |-> Stamp(n), kind |-> FxKind(Merged[n])]
FxRows(b) == [n \in FxLines(b) |-> FxRow(b, n)]

LEMMA ParAdds ==
    ASSUME NEW w \in Lookers, NEW e \in KernelEvents, NEW ts \in Nat, ParStamp(e) = ts
    PROVE  /\ ParLine(w, e).on = IF e.kind = "switch" /\ e.prev # Idle /\ w.running.tid = e.prev
                                    THEN Append(w.on, Interval(e.prev, w.running.at, ts)) ELSE w.on
           /\ ParLine(w, e).sw = IF e.kind = "switch"
                                    THEN Append(w.sw, [prev |-> e.prev, next |-> e.next, ts |-> ts]) ELSE w.sw
           /\ ParLine(w, e).wk = IF e.kind = "mark" /\ w.running.tid # Idle
                                    THEN Append(w.wk, [tid |-> w.running.tid, ts |-> ts]) ELSE w.wk
           /\ ParLine(w, e).fx = IF e.kind \in {"entry", "exit"} /\ w.running.tid # Idle
                                    THEN Append(w.fx, [tid |-> w.running.tid, ts |-> ts, kind |-> FxKind(e)]) ELSE w.fx
<1>1. CASE e.kind = "switch"
  <2> DEFINE on == IF e.prev # Idle /\ w.running.tid = e.prev
                      THEN Append(w.on, Interval(e.prev, w.running.at, ts)) ELSE w.on
             sw == Append(w.sw, [prev |-> e.prev, next |-> e.next, ts |-> ts])
  <2>1. ParLine(w, e) = ParSwitched(w, e, ts)
    BY <1>1, ParSwitchTakes
  <2>2. ParSwitched(w, e, ts).on = on /\ ParSwitched(w, e, ts).sw = sw
        /\ ParSwitched(w, e, ts).wk = w.wk /\ ParSwitched(w, e, ts).fx = w.fx
    BY DEF ParSwitched
  <2> QED
    BY <1>1, <2>1, <2>2
<1>2. CASE e.kind # "switch"
  BY <1>2, ParOthersTake
<1> QED
  BY <1>1, <1>2

LEMMA WorkerAdds ==
    ASSUME MoveInv, NEW b, Reading(b), NEW c \in Cpus, NEW u, Watching(c, u),
           NEW k \in 1 .. Len(streams[c]), NEW n, n = Place(c)[k]
    PROVE  /\ n \in 1 .. Len(Merged)
           /\ u[k].on = IF n \in OnLines(b) THEN Append(u[k - 1].on, OnRow(b, n)) ELSE u[k - 1].on
           /\ u[k].sw = IF n \in SwLines THEN Append(u[k - 1].sw, SwRow(n)) ELSE u[k - 1].sw
           /\ u[k].wk = IF n \in WkLines(b) THEN Append(u[k - 1].wk, WkRow(b, n)) ELSE u[k - 1].wk
           /\ u[k].fx = IF n \in FxLines(b) THEN Append(u[k - 1].fx, FxRow(b, n)) ELSE u[k - 1].fx
<1> DEFINE w == u[k - 1]
           e == Merged[n]
           ts == Stamp(n)
<1>0. KernelBasics
  BY DEF MoveInv
<1>1. /\ w \in Lookers /\ e \in KernelEvents /\ n \in 1 .. Len(Merged) /\ e = streams[c][k]
      /\ ts \in Nat /\ ParStamp(e) = ts /\ u[k] = ParLine(w, e)
  BY <1>0, WorkerRuns
<1>2. w.running = Ran(b, n)
  BY WorkerSees
<1> HIDE DEF w, e, ts
<1>3. /\ u[k].on = IF e.kind = "switch" /\ e.prev # Idle /\ w.running.tid = e.prev
                      THEN Append(w.on, Interval(e.prev, w.running.at, ts)) ELSE w.on
      /\ u[k].sw = IF e.kind = "switch"
                      THEN Append(w.sw, [prev |-> e.prev, next |-> e.next, ts |-> ts]) ELSE w.sw
      /\ u[k].wk = IF e.kind = "mark" /\ w.running.tid # Idle
                      THEN Append(w.wk, [tid |-> w.running.tid, ts |-> ts]) ELSE w.wk
      /\ u[k].fx = IF e.kind \in {"entry", "exit"} /\ w.running.tid # Idle
                      THEN Append(w.fx, [tid |-> w.running.tid, ts |-> ts, kind |-> FxKind(e)]) ELSE w.fx
  BY <1>1, ParAdds
<1>4. n \in OnLines(b) <=> e.kind = "switch" /\ e.prev # Idle /\ w.running.tid = e.prev
  BY <1>1, <1>2 DEF OnLines, SwitchAt, e
<1>5. n \in SwLines <=> e.kind = "switch"
  BY <1>1 DEF SwLines, SwitchAt, e
<1>6. n \in WkLines(b) <=> e.kind = "mark" /\ w.running.tid # Idle
  BY <1>1, <1>2 DEF WkLines, e
<1>7. n \in FxLines(b) <=> e.kind \in {"entry", "exit"} /\ w.running.tid # Idle
  BY <1>1, <1>2 DEF FxLines, e
<1>8. /\ OnRow(b, n) = Interval(e.prev, w.running.at, ts)
      /\ SwRow(n) = [prev |-> e.prev, next |-> e.next, ts |-> ts]
      /\ WkRow(b, n) = [tid |-> w.running.tid, ts |-> ts]
      /\ FxRow(b, n) = [tid |-> w.running.tid, ts |-> ts, kind |-> FxKind(e)]
  BY <1>2 DEF OnRow, SwRow, WkRow, FxRow, e, ts
<1>9. n \in 1 .. Len(Merged)
  BY <1>1
<1> QED
  BY <1>3, <1>4, <1>5, <1>6, <1>7, <1>8, <1>9 DEF w

Adding(c, u, col, A, f) ==
    \A k \in 1 .. Len(streams[c]) :
       u[k][col] = IF Place(c)[k] \in A THEN Append(u[k - 1][col], f[Place(c)[k]]) ELSE u[k - 1][col]

LEMMA AddingLists ==
    ASSUME KernelBasics, NEW c \in Cpus, NEW u, Watching(c, u), NEW col, NEW A, A \subseteq 1 .. Len(Merged), NEW f,
           Worker0[col] = <<>>, Adding(c, u, col, A, f)
    PROVE  Lists(Workers[c][col], LinesOn(A, c), f, Less)
BY WorkerLists DEF Adding

LEMMA WorkersList ==
    ASSUME MoveInv, NEW b, Reading(b), NEW c \in Cpus
    PROVE  /\ Lists(Workers[c]["on"], LinesOn(OnLines(b), c), OnRows(b), Less)
           /\ Lists(Workers[c]["sw"], LinesOn(SwLines, c), SwRows, Less)
           /\ Lists(Workers[c]["wk"], LinesOn(WkLines(b), c), WkRows(b), Less)
           /\ Lists(Workers[c]["fx"], LinesOn(FxLines(b), c), FxRows(b), Less)
<1> DEFINE L == Len(streams[c])
<1>0. KernelBasics
  BY DEF MoveInv
<1>1. PICK u : Watching(c, u)
  BY <1>0, WorkersWatch
<1>2. Worker0["on"] = <<>> /\ Worker0["sw"] = <<>> /\ Worker0["wk"] = <<>> /\ Worker0["fx"] = <<>>
  BY DEF Worker0
<1>3. /\ OnLines(b) \subseteq 1 .. Len(Merged) /\ SwLines \subseteq 1 .. Len(Merged)
      /\ WkLines(b) \subseteq 1 .. Len(Merged) /\ FxLines(b) \subseteq 1 .. Len(Merged)
  BY DEF OnLines, SwLines, WkLines, FxLines
<1>4. /\ \A n \in OnLines(b) : OnRows(b)[n] = OnRow(b, n)
      /\ \A n \in SwLines : SwRows[n] = SwRow(n)
      /\ \A n \in WkLines(b) : WkRows(b)[n] = WkRow(b, n)
      /\ \A n \in FxLines(b) : FxRows(b)[n] = FxRow(b, n)
  BY DEF OnRows, SwRows, WkRows, FxRows
<1>5. ASSUME NEW k \in 1 .. L, NEW n, n = Place(c)[k]
      PROVE  /\ u[k]["on"] = IF n \in OnLines(b) THEN Append(u[k - 1]["on"], OnRows(b)[n]) ELSE u[k - 1]["on"]
             /\ u[k]["sw"] = IF n \in SwLines THEN Append(u[k - 1]["sw"], SwRows[n]) ELSE u[k - 1]["sw"]
             /\ u[k]["wk"] = IF n \in WkLines(b) THEN Append(u[k - 1]["wk"], WkRows(b)[n]) ELSE u[k - 1]["wk"]
             /\ u[k]["fx"] = IF n \in FxLines(b) THEN Append(u[k - 1]["fx"], FxRows(b)[n]) ELSE u[k - 1]["fx"]
  <2>1. /\ u[k].on = IF n \in OnLines(b) THEN Append(u[k - 1].on, OnRow(b, n)) ELSE u[k - 1].on
        /\ u[k].sw = IF n \in SwLines THEN Append(u[k - 1].sw, SwRow(n)) ELSE u[k - 1].sw
        /\ u[k].wk = IF n \in WkLines(b) THEN Append(u[k - 1].wk, WkRow(b, n)) ELSE u[k - 1].wk
        /\ u[k].fx = IF n \in FxLines(b) THEN Append(u[k - 1].fx, FxRow(b, n)) ELSE u[k - 1].fx
    BY <1>1, <1>5, WorkerAdds
  <2> QED
    BY <1>4, <2>1
<1>6. /\ Adding(c, u, "on", OnLines(b), OnRows(b)) /\ Adding(c, u, "sw", SwLines, SwRows)
      /\ Adding(c, u, "wk", WkLines(b), WkRows(b)) /\ Adding(c, u, "fx", FxLines(b), FxRows(b))
  BY <1>5 DEF Adding
<1> QED
  BY <1>0, <1>1, <1>2, <1>3, <1>6, AddingLists

LEMMA AllColumns ==
    ASSUME MoveInv, NEW b, Reading(b)
    PROVE  /\ Lists(Sorted(OfAll(Workers, "on"), "t1"), OnLines(b), OnRows(b), Less)
           /\ Lists(Sorted(OfAll(Workers, "sw"), "ts"), SwLines, SwRows, Less)
           /\ Lists(Sorted(OfAll(Workers, "wk"), "ts"), WkLines(b), WkRows(b), Less)
           /\ Lists(Sorted(OfAll(Workers, "fx"), "ts"), FxLines(b), FxRows(b), Less)
<1>0. KernelBasics
  BY DEF MoveInv
<1>1. /\ OnLines(b) \subseteq 1 .. Len(Merged) /\ SwLines \subseteq 1 .. Len(Merged)
      /\ WkLines(b) \subseteq 1 .. Len(Merged) /\ FxLines(b) \subseteq 1 .. Len(Merged)
  BY DEF OnLines, SwLines, WkLines, FxLines
<1>2. /\ \A n \in OnLines(b) : OnRows(b)[n]["t1"] = Stamp(n)
      /\ \A n \in SwLines : SwRows[n]["ts"] = Stamp(n)
      /\ \A n \in WkLines(b) : WkRows(b)[n]["ts"] = Stamp(n)
      /\ \A n \in FxLines(b) : FxRows(b)[n]["ts"] = Stamp(n)
  BY DEF OnRows, SwRows, WkRows, FxRows, OnRow, SwRow, WkRow, FxRow, Interval
<1>3. Lists(Sorted(OfAll(Workers, "on"), "t1"), OnLines(b), OnRows(b), Less)
  BY <1>0, <1>1, <1>2, WorkersList, AllLists
<1>4. Lists(Sorted(OfAll(Workers, "sw"), "ts"), SwLines, SwRows, Less)
  BY <1>0, <1>1, <1>2, WorkersList, AllLists
<1>5. Lists(Sorted(OfAll(Workers, "wk"), "ts"), WkLines(b), WkRows(b), Less)
  BY <1>0, <1>1, <1>2, WorkersList, AllLists
<1>6. Lists(Sorted(OfAll(Workers, "fx"), "ts"), FxLines(b), FxRows(b), Less)
  BY <1>0, <1>1, <1>2, WorkersList, AllLists
<1> QED
  BY <1>3, <1>4, <1>5, <1>6

(* The sequential parser's on-CPU intervals and marks.                     *)
LEMMA LineAdds ==
    ASSUME MoveInv, NEW b, Reading(b), NEW n \in 1 .. Len(Merged)
    PROVE  /\ b[n].on = IF n \in OnLines(b) THEN Append(b[n - 1].on, OnRow(b, n)) ELSE b[n - 1].on
           /\ b[n].wk = IF n \in WkLines(b) THEN Append(b[n - 1].wk, WkRow(b, n)) ELSE b[n - 1].wk
<1> DEFINE p == b[n - 1]
           e == Merged[n]
           ts == Stamp(n)
<1>1. /\ p \in Parsers /\ e \in KernelEvents /\ ts \in Nat /\ b[n] = SeqLine(p, e, ts)
      /\ p.running[e.cpu] = Ran(b, n)
  BY LineIs DEF Ran
<1>2. e.kind = "switch" => e.prev # e.next
  BY LineIs DEF SwitchAt
<1> HIDE DEF p, e, ts
<1> DEFINE r == p.running[e.cpu]
<1>3. /\ b[n].on = IF e.kind = "switch" /\ e.prev # Idle /\ r.tid = e.prev
                      THEN Append(p.on, Interval(e.prev, r.at, ts)) ELSE p.on
      /\ b[n].wk = IF e.kind = "mark" /\ r.tid # Idle THEN Append(p.wk, [tid |-> r.tid, ts |-> ts]) ELSE p.wk
  <2>1. CASE e.kind = "switch"
    <3>1. SeqLine(p, e, ts).wk = p.wk
      BY <1>1, <2>1, SwitchMeets
    <3>2. SeqLine(p, e, ts).on = IF e.prev # Idle /\ r.tid = e.prev
                                    THEN Append(p.on, Interval(e.prev, r.at, ts)) ELSE p.on
      BY <1>1, <1>2, <2>1, SwitchTakes DEF SwitchDoes
    <3> QED
      BY <1>1, <2>1, <3>1, <3>2
  <2>2. CASE e.kind # "switch"
    <3>1. SeqLine(p, e, ts).wk = IF e.kind = "mark" /\ r.tid # Idle THEN Append(p.wk, [tid |-> r.tid, ts |-> ts]) ELSE p.wk
      BY <1>1, <2>2, OthersMeet
    <3>2. SeqLine(p, e, ts).on = p.on
      BY <1>1, <2>2, OthersTake DEF OthersDo
    <3> QED
      BY <1>1, <2>2, <3>1, <3>2
  <2> QED
    BY <2>1, <2>2
<1>4. n \in OnLines(b) <=> e.kind = "switch" /\ e.prev # Idle /\ r.tid = e.prev
  BY <1>1 DEF OnLines, SwitchAt, e
<1>5. n \in WkLines(b) <=> e.kind = "mark" /\ r.tid # Idle
  BY <1>1 DEF WkLines, e
<1>6. OnRow(b, n) = Interval(e.prev, r.at, ts) /\ WkRow(b, n) = [tid |-> r.tid, ts |-> ts]
  BY <1>1 DEF OnRow, WkRow, e, ts
<1> QED
  BY <1>3, <1>4, <1>5, <1>6 DEF p

LEMMA SequentialColumns ==
    ASSUME MoveInv, NEW b, Reading(b)
    PROVE  /\ Lists(Sequential["on"], OnLines(b), OnRows(b), Less)
           /\ Lists(Sequential["wk"], WkLines(b), WkRows(b), Less)
<1>1. OnLines(b) \subseteq 1 .. Len(Merged) /\ WkLines(b) \subseteq 1 .. Len(Merged)
  BY DEF OnLines, WkLines
<1>2. /\ \A n \in OnLines(b) : OnRows(b)[n] = OnRow(b, n)
      /\ \A n \in WkLines(b) : WkRows(b)[n] = WkRow(b, n)
  BY DEF OnRows, WkRows
<1>3. Start0["on"] = <<>> /\ Start0["wk"] = <<>>
  BY DEF Start0
<1>4. ASSUME NEW n \in 1 .. Len(Merged)
      PROVE  /\ b[n]["on"] = IF n \in OnLines(b) THEN Append(b[n - 1]["on"], OnRows(b)[n]) ELSE b[n - 1]["on"]
             /\ b[n]["wk"] = IF n \in WkLines(b) THEN Append(b[n - 1]["wk"], WkRows(b)[n]) ELSE b[n - 1]["wk"]
  BY <1>2, LineAdds
<1>5. Lists(Sequential["on"], OnLines(b), OnRows(b), Less)
  BY <1>1, <1>3, <1>4, SequentialLists
<1>6. Lists(Sequential["wk"], WkLines(b), WkRows(b), Less)
  BY <1>1, <1>3, <1>4, SequentialLists
<1> QED
  BY <1>5, <1>6

LEMMA SameOnAndMarks ==
    ASSUME MoveInv, NEW b, Reading(b)
    PROVE  Parallel.on = Sequential.on /\ Parallel.wk = Sequential.wk
<1>1. OnLines(b) \subseteq 1 .. Len(Merged) /\ WkLines(b) \subseteq 1 .. Len(Merged)
  BY DEF OnLines, WkLines
<1>2. Parallel.on = Sorted(OfAll(Workers, "on"), "t1") /\ Parallel.wk = Sorted(OfAll(Workers, "wk"), "ts")
  BY DEF Parallel
<1>3. Parallel.on = Sequential["on"]
  BY <1>1, <1>2, AllColumns, SequentialColumns, SameColumns
<1>4. Parallel.wk = Sequential["wk"]
  BY <1>1, <1>2, AllColumns, SequentialColumns, SameColumns
<1> QED
  BY <1>3, <1>4

-----------------------------------------------------------------------------
(* The rows of some, in the order of all.                                  *)
LEMMA OrdersSome ==
    ASSUME NEW A, NEW B, B \subseteq A, NEW W, Orders(W, A)
    PROVE  Orders(W, B)
<1>1. ASSUME NEW a \in B PROVE <<a, a>> \notin W
  BY DEF Orders
<1>2. ASSUME NEW a \in B, NEW b \in B, a # b PROVE <<a, b>> \in W \/ <<b, a>> \in W
  BY <1>2 DEF Orders
<1>3. ASSUME NEW a \in B, NEW b \in B, NEW c \in B, <<a, b>> \in W, <<b, c>> \in W PROVE <<a, c>> \in W
  BY <1>3 DEF Orders
<1> QED
  BY <1>1, <1>2, <1>3 DEF Orders

Chosen(s, V) == Kept(s, {i \in DOMAIN s : s[i] \in V})
Shown(A, f, V) == {a \in A : f[a] \in V}

LEMMA FilterLists ==
    ASSUME NEW s, NEW A, NEW f, NEW W, Lists(s, A, f, W), NEW V
    PROVE  Lists(Chosen(s, V), Shown(A, f, V), f, W)
<1>1. PICK n, g : Enumerates(s, n, g, A, f) /\ Rising(n, g, W)
  BY DEF Lists
<1> DEFINE mask == {i \in DOMAIN s : s[i] \in V}
<1>2. Lists(Kept(s, mask), Taken(g, mask, n), f, W)
  BY <1>1, KeptLists
<1>3. n \in Nat /\ DOMAIN s = 1 .. n /\ \A k \in 1 .. n : g[k] \in A /\ s[k] = f[g[k]]
  BY <1>1, ListedIs
<1>4. \A a \in A : \E k \in 1 .. n : g[k] = a
  BY <1>1 DEF Enumerates
<1>5. \A k \in 1 .. n : k \in mask <=> f[g[k]] \in V
  BY <1>3
<1>6. Taken(g, mask, n) = {a \in A : f[a] \in V}
  <2> HIDE DEF mask
  <2>1. ASSUME NEW x \in Taken(g, mask, n) PROVE x \in A /\ f[x] \in V
    BY <1>3, <1>5 DEF Taken
  <2>2. ASSUME NEW x \in A, f[x] \in V PROVE x \in Taken(g, mask, n)
    <3>1. PICK k \in 1 .. n : g[k] = x
      BY <1>4
    <3> QED
      BY <1>5, <2>2, <3>1 DEF Taken
  <2> QED
    BY <2>1, <2>2
<1> QED
  BY <1>2, <1>6 DEF Chosen, Shown

LEMMA OfThreadLists ==
    ASSUME NEW s, NEW A, NEW f, NEW W, Lists(s, A, f, W), \A a \in A : f[a] \in Rows, NEW t
    PROVE  Lists(OfThread(t, s), {a \in A : f[a].tid = t}, f, W)
<1> DEFINE V == {x \in Rows : x.tid = t}
<1>1. s \in Seq(Rows)
  BY ListedIn
<1>2. {i \in DOMAIN s : s[i] \in V} = {i \in DOMAIN s : s[i].tid = t}
  BY <1>1
<1>3. {a \in A : f[a] \in V} = {a \in A : f[a].tid = t}
  OBVIOUS
<1>4. Lists(Chosen(s, V), Shown(A, f, V), f, W)
  <2> HIDE DEF V
  <2> QED
    BY FilterLists
<1> QED
  BY <1>2, <1>3, <1>4 DEF OfThread, Chosen, Shown

(* Of the rows that pairing gives, those of a thread, sorted by their end. *)
Closes(A, f, a) ==
    a \in A /\ f[a].kind = "take" /\ PairRow(A, f)[a].tid = f[a].tid /\ PairRow(A, f)[a].t1 = f[a].ts
LEMMA PairRowCloses ==
    ASSUME NEW A, A \subseteq Nat, NEW f, NEW a \in Closers(A, f)
    PROVE  Closes(A, f, a)
<1>1. PICK b \in A : Opens(A, f, b, a)
  BY DEF Closers
<1>2. PairRow(A, f)[a] = PairRowOf(f, b, a)
  BY <1>1, OneOpens
<1> QED
  BY <1>1, <1>2 DEF Closes, PairRowOf, Interval, Opens, Closers

PairsOfThreads(A, f, B, row) ==
    /\ A \subseteq Nat /\ \A a \in A : f[a].tid \in Nat
    /\ B \subseteq Closers(A, f) /\ \A a \in B : row[a] = PairRow(A, f)[a] /\ row[a] \in Rows
    /\ \A a, b \in B : row[a].t1 < row[b].t1 => a < b

LEMMA SameOfThread ==
    ASSUME NEW A, NEW f, NEW B, NEW row, PairsOfThreads(A, f, B, row),
           NEW s, Lists(s, B, PairRow(A, f), ByKey(A, f, "tid", Less)), NEW r, Lists(r, B, row, Less), NEW t
    PROVE  OfThread(t, Sorted(s, "t1")) = OfThread(t, r)
<1> DEFINE W == ByKey(A, f, "tid", Less)
           V == ByKey(B, row, "t1", W)
           C == {a \in B : row[a].tid = t}
<1>t. /\ A \subseteq Nat /\ B \subseteq Closers(A, f)
      /\ \A a \in A : f[a].tid \in Nat
      /\ \A a \in B : row[a] = PairRow(A, f)[a] /\ row[a] \in Rows
      /\ \A a, b \in B : row[a].t1 < row[b].t1 => a < b
  BY DEF PairsOfThreads
<1>0. ASSUME NEW a \in B PROVE PairRow(A, f)[a].tid = f[a].tid
  <2>1. a \in Closers(A, f) /\ A \subseteq Nat
    BY <1>t
  <2>2. Closes(A, f, a)
    BY <2>1, PairRowCloses
  <2> QED
    BY <2>2 DEF Closes
<1>1. B \subseteq A /\ B \subseteq Nat /\ C \subseteq B
  BY <1>t DEF Closers
<1>2. Orders(W, B)
  <2>1. Orders(Less, A)
    BY <1>t, LessOrders
  <2>2. Orders(ByKey(A, f, "tid", Less), A)
    BY <1>t, <2>1, ByKeyOrders
  <2> QED
    BY <1>1, <2>2, OrdersSome
<1>3. \A a \in B : row[a]["t1"] \in Nat
  BY <1>t DEF Rows
<1> HIDE DEF W
<1>4. Lists(s, B, row, W)
  BY <1>t, SameListing DEF W
<1>5. Lists(Sorted(s, "t1"), B, row, V)
  BY <1>2, <1>3, <1>4, StableSort
<1> HIDE DEF V
<1>6. Lists(OfThread(t, Sorted(s, "t1")), C, row, V)
  BY <1>t, <1>5, OfThreadLists
<1>7. ASSUME NEW a \in C, NEW b \in C, <<a, b>> \in V PROVE <<a, b>> \in Less
  <2>1. a \in A /\ b \in A /\ a \in B /\ b \in B /\ a \in Nat /\ b \in Nat
    BY <1>1
  <2>2. row[a]["t1"] < row[b]["t1"] \/ (row[a]["t1"] = row[b]["t1"] /\ <<a, b>> \in W)
    BY <1>7, <2>1, ByKeyIs DEF V
  <2>3. CASE row[a]["t1"] < row[b]["t1"]
    <3>1. a < b
      BY <1>t, <2>1, <2>3
    <3> QED
      BY <2>1, <3>1, LessIs
  <2>4. CASE <<a, b>> \in W
    <3>1. f[a]["tid"] < f[b]["tid"] \/ <<a, b>> \in Less
      BY <2>1, <2>4, ByKeyIs DEF W
    <3>2. f[a].tid = t /\ f[b].tid = t /\ t \in Nat
      <4>1. row[a].tid = t /\ row[b].tid = t /\ row[a] = PairRow(A, f)[a] /\ row[b] = PairRow(A, f)[b]
        BY <1>t, <2>1
      <4>2. PairRow(A, f)[a].tid = f[a].tid /\ PairRow(A, f)[b].tid = f[b].tid
        BY <1>0, <2>1
      <4> QED
        BY <1>t, <2>1, <4>1, <4>2
    <3> QED
      BY <3>1, <3>2
  <2> QED
    BY <2>2, <2>3, <2>4
<1>8. Lists(OfThread(t, Sorted(s, "t1")), C, row, Less)
  BY <1>6, <1>7, SameListing
<1>9. Lists(OfThread(t, r), C, row, Less)
  BY <1>t, OfThreadLists
<1>10. Orders(Less, C)
  <2>1. C \subseteq Nat
    BY <1>1
  <2> QED
    BY <2>1, LessOrders
<1> QED
  BY <1>8, <1>9, <1>10, OneListing

-----------------------------------------------------------------------------
(* The futex waits.                                                        *)
LEMMA TidsInNat == Tids \subseteq Nat
  BY TidsAre, KernelTraceAssumption DEF Tids

LEMMA FutexTakes ==
    ASSUME NEW p \in Parsers, NEW e \in KernelEvents, NEW ts \in Nat, NEW t \in Threads,
           e.kind = "switch" => e.prev # e.next
    PROVE  /\ SeqLine(p, e, ts).pendingFx[t] =
                IF e.kind \in {"entry", "exit"} /\ p.running[e.cpu].tid = t
                   THEN IF FxKind(e) = "set" THEN ts ELSE 0 ELSE p.pendingFx[t]
           /\ SeqLine(p, e, ts).fx =
                IF e.kind = "exit" /\ p.running[e.cpu].tid # Idle /\ p.pendingFx[p.running[e.cpu].tid] # 0
                      /\ ts > p.pendingFx[p.running[e.cpu].tid]
                   THEN Append(p.fx, Interval(p.running[e.cpu].tid, p.pendingFx[p.running[e.cpu].tid], ts))
                   ELSE p.fx
<1> DEFINE r == p.running[e.cpu]
<1>1. e.cpu \in Cpus /\ (e.kind = "switch" \/ e.kind = "mark" \/ e.kind = "entry" \/ e.kind = "exit")
  BY DEF KernelEvents
<1>2. p.running \in [Cpus -> [tid : Tids, at : Nat]] /\ p.pendingFx \in [Threads -> Nat]
  BY DEF Parsers
<1>3. r.tid \in Tids /\ t # Idle /\ (r.tid # Idle => r.tid \in Threads)
  BY <1>1, <1>2, TidsAre
<1> HIDE DEF r
<1>4. CASE e.kind = "switch"
  <2>1. SeqLine(p, e, ts).pendingFx = p.pendingFx /\ SeqLine(p, e, ts).fx = p.fx
    BY <1>4, SwitchTakes DEF SwitchDoes
  <2> QED
    BY <1>4, <2>1
<1>5. CASE e.kind = "mark" \/ (r.tid = Idle /\ e.kind # "switch")
  <2>1. SeqLine(p, e, ts).pendingFx = p.pendingFx /\ SeqLine(p, e, ts).fx = p.fx
    BY <1>5, OthersTake DEF r, OthersDo
  <2> QED
    BY <1>3, <1>5, <2>1 DEF r
<1>6. CASE e.kind = "entry" /\ r.tid # Idle
  <2>1. /\ SeqLine(p, e, ts).pendingFx = [p.pendingFx EXCEPT ![r.tid] = IF e.wait THEN ts ELSE NotPending]
        /\ SeqLine(p, e, ts).fx = p.fx
    BY <1>6, OthersTake DEF r, OthersDo
  <2>2. FxKind(e) = "set" <=> e.wait
    BY <1>6 DEF FxKind
  <2>3. SeqLine(p, e, ts).pendingFx[t] = IF r.tid = t THEN IF e.wait THEN ts ELSE 0 ELSE p.pendingFx[t]
    BY <1>2, <1>3, <1>6, <2>1 DEF NotPending
  <2> QED
    BY <1>6, <2>1, <2>2, <2>3 DEF r
<1>7. CASE e.kind = "exit" /\ r.tid # Idle
  <2>1. SeqLine(p, e, ts).pendingFx = [p.pendingFx EXCEPT ![r.tid] = NotPending]
    BY <1>7, OthersTake DEF r, OthersDo
  <2>2. SeqLine(p, e, ts).fx = IF p.pendingFx[r.tid] # NotPending /\ ts > p.pendingFx[r.tid]
                                  THEN Append(p.fx, Interval(r.tid, p.pendingFx[r.tid], ts)) ELSE p.fx
    BY <1>7, OthersTake DEF r, OthersDo
  <2>3. FxKind(e) # "set"
    BY <1>7 DEF FxKind
  <2>4. SeqLine(p, e, ts).pendingFx[t] = IF r.tid = t THEN 0 ELSE p.pendingFx[t]
    BY <1>2, <1>3, <1>7, <2>1 DEF NotPending
  <2> QED
    BY <1>7, <2>2, <2>3, <2>4 DEF r, NotPending
<1> QED
  BY <1>1, <1>4, <1>5, <1>6, <1>7

FutexBegan(b, n) == b[n - 1].pendingFx[Ran(b, n).tid]
ExLines(b) == {n \in 1 .. Len(Merged) : /\ Merged[n].kind = "exit" /\ Ran(b, n).tid # Idle
                                        /\ FutexBegan(b, n) # 0 /\ Stamp(n) > FutexBegan(b, n)}
ExRow(b, n) == Interval(Ran(b, n).tid, FutexBegan(b, n), Stamp(n))
ExRows(b) == [n \in ExLines(b) |-> ExRow(b, n)]
FxPending(b, t) == [n \in 0 .. Len(Merged) |-> b[n].pendingFx[t]]

LEMMA FxRowIs ==
    ASSUME NEW b, NEW n \in FxLines(b)
    PROVE  /\ FxRows(b)[n].tid = Ran(b, n).tid /\ FxRows(b)[n].ts = Stamp(n)
           /\ FxRows(b)[n].kind = FxKind(Merged[n])
  BY DEF FxRows, FxRow

LEMMA FutexLines ==
    ASSUME MoveInv, NEW b, Reading(b), NEW n \in 1 .. Len(Merged)
    PROVE  /\ b[n].fx = IF n \in ExLines(b) THEN Append(b[n - 1].fx, ExRow(b, n)) ELSE b[n - 1].fx
           /\ \A t \in Threads : FxPending(b, t)[n] =
                 IF IsOf(FxLines(b), FxRows(b), t, n) THEN Leaves(FxRows(b), n) ELSE FxPending(b, t)[n - 1]
<1> DEFINE p == b[n - 1]
           e == Merged[n]
           ts == Stamp(n)
<1>1. /\ p \in Parsers /\ e \in KernelEvents /\ ts \in Nat /\ b[n] = SeqLine(p, e, ts)
      /\ p.running[e.cpu] = Ran(b, n)
  BY LineIs DEF Ran
<1>2. e.kind = "switch" => e.prev # e.next
  BY LineIs DEF SwitchAt
<1>3. n \in 0 .. Len(Merged) /\ n - 1 \in 0 .. Len(Merged)
  BY LineCpu DEF MoveInv
<1>4. FutexBegan(b, n) = p.pendingFx[Ran(b, n).tid]
  BY DEF FutexBegan
<1>5. n \in ExLines(b) <=> /\ e.kind = "exit" /\ Ran(b, n).tid # Idle
                           /\ FutexBegan(b, n) # 0 /\ ts > FutexBegan(b, n)
  BY DEF ExLines
<1>6. ExRow(b, n) = Interval(Ran(b, n).tid, FutexBegan(b, n), ts)
  BY DEF ExRow
<1>7. n \in FxLines(b) <=> e.kind \in {"entry", "exit"} /\ Ran(b, n).tid # Idle
  BY DEF FxLines
<1>8. n \in FxLines(b) => /\ FxRows(b)[n].tid = Ran(b, n).tid /\ FxRows(b)[n].ts = ts
                          /\ FxRows(b)[n].kind = FxKind(e)
  BY FxRowIs
<1> HIDE DEF p, e, ts
<1>9. b[n].fx = IF n \in ExLines(b) THEN Append(p.fx, ExRow(b, n)) ELSE p.fx
  <2>1. SeqLine(p, e, ts).fx =
           IF e.kind = "exit" /\ p.running[e.cpu].tid # Idle /\ p.pendingFx[p.running[e.cpu].tid] # 0
                 /\ ts > p.pendingFx[p.running[e.cpu].tid]
              THEN Append(p.fx, Interval(p.running[e.cpu].tid, p.pendingFx[p.running[e.cpu].tid], ts))
              ELSE p.fx
    <3>1. CASE \E t : t \in Threads
      BY <1>1, <1>2, <3>1, FutexTakes
    <3>2. CASE ~\E t : t \in Threads
      <4>1. p.running[e.cpu].tid = Idle
        <5>1. e.cpu \in Cpus /\ p.running \in [Cpus -> [tid : Tids, at : Nat]]
          BY <1>1 DEF KernelEvents, Parsers
        <5> QED
          BY <3>2, <5>1, TidsAre
      <4>2. SeqLine(p, e, ts).fx = p.fx
        <5>1. CASE e.kind = "switch"
          BY <1>1, <1>2, <5>1, SwitchTakes DEF SwitchDoes
        <5>2. CASE e.kind # "switch"
          BY <1>1, <4>1, <5>2, OthersTake DEF OthersDo
        <5> QED
          BY <5>1, <5>2
      <4> QED
        BY <4>1, <4>2
    <3> QED
      BY <3>1, <3>2
  <2> QED
    BY <1>1, <1>4, <1>5, <1>6, <2>1
<1>10. ASSUME NEW t \in Threads
       PROVE  FxPending(b, t)[n] =
                 IF IsOf(FxLines(b), FxRows(b), t, n) THEN Leaves(FxRows(b), n) ELSE FxPending(b, t)[n - 1]
  <2>1. SeqLine(p, e, ts).pendingFx[t] =
                IF e.kind \in {"entry", "exit"} /\ p.running[e.cpu].tid = t
                   THEN IF FxKind(e) = "set" THEN ts ELSE 0 ELSE p.pendingFx[t]
    BY <1>1, <1>2, FutexTakes
  <2>2. FxPending(b, t)[n] = b[n].pendingFx[t] /\ FxPending(b, t)[n - 1] = p.pendingFx[t]
    BY <1>3 DEF FxPending, p
  <2>3. IsOf(FxLines(b), FxRows(b), t, n) <=> e.kind \in {"entry", "exit"} /\ Ran(b, n).tid = t
    BY <1>7, <1>8, TidsAre DEF IsOf
  <2>4. n \in FxLines(b) => Leaves(FxRows(b), n) = IF FxKind(e) = "set" THEN ts ELSE 0
    BY <1>8 DEF Leaves
  <2> QED
    BY <1>1, <2>1, <2>2, <2>3, <2>4 DEF IsOf
<1> QED
  BY <1>9, <1>10 DEF p

LEMMA FutexPends ==
    ASSUME MoveInv, NEW b, Reading(b), NEW t \in Threads
    PROVE  Pends(FxPending(b, t), Len(Merged), FxLines(b), FxRows(b), t)
<1>1. FxPending(b, t)[0] = 0
  <2>1. 0 \in 0 .. Len(Merged) /\ b[0] = Start0
    BY LineCpu DEF MoveInv, Reading
  <2> QED
    BY <2>1 DEF FxPending, Start0, NotPending
<1> QED
  BY <1>1, FutexLines DEF Pends

LEMMA FutexPairs ==
    ASSUME MoveInv, NEW b, Reading(b), NEW n
    PROVE  LET A == FxLines(b)
               f == FxRows(b)
           IN /\ n \in ExLines(b) <=> n \in Closers(A, f) /\ PairRow(A, f)[n].t1 > PairRow(A, f)[n].t0
              /\ n \in ExLines(b) => PairRow(A, f)[n] = ExRow(b, n)
              /\ n \in Closers(A, f) => PairRow(A, f)[n] \in Rows
<1> DEFINE A == FxLines(b)
           f == FxRows(b)
           t == Ran(b, n).tid
           q == FxPending(b, t)
<1>0. KernelBasics
  BY DEF MoveInv
<1>1. Len(Merged) \in Nat /\ A \subseteq Nat /\ 0 \notin A /\ A \subseteq 1 .. Len(Merged)
  BY <1>0, LineCpu DEF FxLines
<1>2. Timed(A, f)
  BY <1>0, <1>1, LineCpu, FxRowIs DEF Timed
<1>3. ASSUME n \in A, Merged[n].kind = "exit"
      PROVE  /\ n \in Closers(A, f) <=> FutexBegan(b, n) # 0
             /\ n \in Closers(A, f) => PairRow(A, f)[n] = ExRow(b, n)
             /\ ExRow(b, n) \in Rows
  <2>1. n \in 1 .. Len(Merged) /\ t # Idle
    BY <1>3 DEF FxLines
  <2>2. t \in Threads
    BY <2>1, LineIs, TidsAre
  <2>3. TakeOf(A, f, t, n) /\ f[n].ts = Stamp(n)
    BY <1>3, FxRowIs DEF TakeOf, IsOf, FxKind
  <2>4. Pends(q, Len(Merged), A, f, t)
    BY <2>2, FutexPends
  <2>5. q[n - 1] = FutexBegan(b, n)
    <3>1. n - 1 \in 0 .. Len(Merged)
      BY <1>1, <2>1
    <3> QED
      BY <3>1 DEF FxPending, FutexBegan
  <2> HIDE DEF A, f, t, q
  <2>6. /\ n \in Closers(A, f) <=> q[n - 1] # 0
        /\ n \in Closers(A, f) => PairRow(A, f)[n] = Interval(t, q[n - 1], f[n].ts)
    <3>1. Shows(q, A, f, t, n)
      BY <1>1, <1>2, <2>1, <2>3, <2>4, PartnerShows
    <3> QED
      BY <3>1 DEF Shows
  <2>7. Interval(t, q[n - 1], f[n].ts) = ExRow(b, n)
    BY <2>3, <2>5 DEF ExRow, t
  <2>8. FutexBegan(b, n) \in Nat /\ Stamp(n) \in Nat
    <3>1. b[n - 1] \in Parsers /\ Stamp(n) \in Nat
      BY <2>1, LineIs
    <3> QED
      BY <2>2, <3>1 DEF FutexBegan, Parsers, t
  <2>9. ExRow(b, n) \in Rows
    BY <2>2, <2>8 DEF ExRow, Interval, Rows, t
  <2> QED
    BY <2>5, <2>6, <2>7, <2>9
<1>4. n \in Closers(A, f) => n \in A /\ Merged[n].kind = "exit"
  <2> SUFFICES ASSUME n \in Closers(A, f) PROVE n \in A /\ Merged[n].kind = "exit"
    OBVIOUS
  <2>1. n \in A /\ f[n].kind = "take"
    BY DEF Closers, Opens
  <2>2. FxKind(Merged[n]) = "take" /\ Merged[n].kind \in {"entry", "exit"}
    BY <2>1, FxRowIs DEF FxLines
  <2> QED
    BY <2>1, <2>2 DEF FxKind
<1>5. n \in ExLines(b) <=> n \in A /\ Merged[n].kind = "exit" /\ FutexBegan(b, n) # 0 /\ Stamp(n) > FutexBegan(b, n)
  BY DEF ExLines, FxLines
<1>6. ExRow(b, n).t0 = FutexBegan(b, n) /\ ExRow(b, n).t1 = Stamp(n)
  BY DEF ExRow, Interval
<1> HIDE DEF A, f
<1> QED
  BY <1>3, <1>4, <1>5, <1>6 DEF A, f

LEMMA SameFutex ==
    ASSUME MoveInv, NEW b, Reading(b), NEW t
    PROVE  OfThread(t, Parallel.fx) = OfThread(t, Sequential.fx)
<1> DEFINE A == FxLines(b)
           f == FxRows(b)
           B == ExLines(b)
           row == ExRows(b)
           W == ByKey(A, f, "tid", Less)
           P == Pair(Sorted(OfAll(Workers, "fx"), "ts"))
           S == Kept(P, {i \in DOMAIN P : P[i].t1 > P[i].t0})
<1>0. KernelBasics
  BY DEF MoveInv
<1>1. A \subseteq Nat /\ B \subseteq 1 .. Len(Merged)
  BY DEF FxLines, ExLines
<1>2. \A a \in A : f[a].tid \in Nat
  <2> SUFFICES ASSUME NEW a \in A PROVE f[a].tid \in Nat
    OBVIOUS
  <2>1. a \in 1 .. Len(Merged) /\ f[a].tid = Ran(b, a).tid
    BY FxRowIs DEF FxLines
  <2>2. Ran(b, a).tid \in Tids
    BY <2>1, LineIs
  <2> QED
    BY <2>1, <2>2, TidsInNat
<1>3. ASSUME NEW n \in B PROVE row[n] = PairRow(A, f)[n] /\ row[n] \in Rows /\ n \in Closers(A, f) /\ row[n].t1 = Stamp(n)
  <2>1. row[n] = ExRow(b, n) /\ row[n].t1 = Stamp(n)
    BY DEF ExRows, ExRow, Interval
  <2>2. n \in Closers(A, f) /\ PairRow(A, f)[n] = ExRow(b, n) /\ PairRow(A, f)[n] \in Rows
    BY FutexPairs
  <2> QED
    BY <2>1, <2>2
<1>4. Lists(P, Closers(A, f), PairRow(A, f), W)
  <2>1. Lists(Sorted(OfAll(Workers, "fx"), "ts"), A, f, Less)
    BY AllColumns
  <2> QED
    BY <1>1, <1>2, <2>1, PairLists
<1>5. Lists(S, B, PairRow(A, f), W)
  <2> DEFINE V == {x \in Rows : x.t1 > x.t0}
  <2>1. \A n \in Closers(A, f) : PairRow(A, f)[n] \in Rows
    BY FutexPairs
  <2>2. P \in Seq(Rows)
    <3> HIDE DEF P, A, f, W
    <3> QED
      BY <1>4, <2>1, ListedIn
  <2>3. {i \in DOMAIN P : P[i].t1 > P[i].t0} = {i \in DOMAIN P : P[i] \in V}
    <3> HIDE DEF P
    <3> QED
      BY <2>2
  <2>4. {n \in Closers(A, f) : PairRow(A, f)[n] \in V} = B
    <3>1. \A n : n \in B <=> n \in Closers(A, f) /\ PairRow(A, f)[n].t1 > PairRow(A, f)[n].t0
      BY FutexPairs
    <3> HIDE DEF A, f, B
    <3> QED
      BY <2>1, <3>1
  <2>5. S = Chosen(P, V) /\ Shown(Closers(A, f), PairRow(A, f), V) = B
    <3> HIDE DEF P, A, f, B, V
    <3> QED
      BY <2>3, <2>4 DEF Chosen, Shown
  <2> HIDE DEF P, A, f, W, V, B, S, row
  <2>6. Lists(Chosen(P, V), Shown(Closers(A, f), PairRow(A, f), V), PairRow(A, f), W)
    BY <1>4, FilterLists
  <2> QED
    BY <2>5, <2>6
<1>6. Lists(Sequential["fx"], B, row, Less)
  <2>1. Start0["fx"] = <<>>
    BY DEF Start0
  <2>2. ASSUME NEW n \in 1 .. Len(Merged)
        PROVE  b[n]["fx"] = IF n \in B THEN Append(b[n - 1]["fx"], row[n]) ELSE b[n - 1]["fx"]
    <3>1. b[n].fx = IF n \in ExLines(b) THEN Append(b[n - 1].fx, ExRow(b, n)) ELSE b[n - 1].fx
      BY FutexLines
    <3> QED
      BY <3>1 DEF ExRows
  <2> HIDE DEF B, row
  <2> QED
    BY <1>1, <2>1, <2>2, SequentialLists
<1>7. ASSUME NEW m \in B, NEW n \in B, row[m].t1 < row[n].t1 PROVE m < n
  <2>1. Stamp(m) < Stamp(n) /\ m \in 1 .. Len(Merged) /\ n \in 1 .. Len(Merged)
    BY <1>1, <1>3, <1>7
  <2> QED
    BY <1>0, <2>1, LinesByTime
<1>8. Parallel.fx = Sorted(S, "t1")
  BY DEF Parallel
<1> HIDE DEF A, f, B, row, W, P, S
<1>9. OfThread(t, Sorted(S, "t1")) = OfThread(t, Sequential["fx"])
  <2>1. PairsOfThreads(A, f, B, row)
    BY <1>1, <1>2, <1>3, <1>7 DEF PairsOfThreads
  <2>2. Lists(S, B, PairRow(A, f), ByKey(A, f, "tid", Less))
    BY <1>5 DEF W
  <2> QED
    BY <1>6, <2>1, <2>2, SameOfThread
<1> QED
  BY <1>8, <1>9

-----------------------------------------------------------------------------
(* Two records of each switch: of line n the one with number 2n-1 for the  *)
(* thread that leaves, the one with 2n for the thread that gets the CPU.   *)
HalfLine(m) == (m + 1) \div 2
Odd(m) == m % 2 = 1

LEMMA HalfIs ==
    ASSUME NEW n \in Nat, n # 0
    PROVE  /\ 2 * n \in Nat /\ 2 * n - 1 \in Nat
           /\ HalfLine(2 * n - 1) = n /\ Odd(2 * n - 1)
           /\ HalfLine(2 * n) = n /\ ~Odd(2 * n)
  BY DEF HalfLine, Odd

LEMMA HalvesAre ==
    ASSUME NEW N \in Nat, NEW m \in 1 .. 2 * N
    PROVE  /\ HalfLine(m) \in 1 .. N
           /\ m = IF Odd(m) THEN 2 * HalfLine(m) - 1 ELSE 2 * HalfLine(m)
  BY DEF HalfLine, Odd

HalfRow(m) ==
    IF Odd(m) THEN [tid |-> Merged[HalfLine(m)].prev, ts |-> Stamp(HalfLine(m)), kind |-> "set"]
    ELSE [tid |-> Merged[HalfLine(m)].next, ts |-> Stamp(HalfLine(m)), kind |-> "take"]
Halves == {m \in 1 .. 2 * Len(Merged) : SwitchAt(HalfLine(m))}
HalfRows == [m \in Halves |-> HalfRow(m)]
ThreadHalves == {m \in Halves : HalfRows[m].tid # Idle}
HalfRecord(x, k) == IF Odd(k) THEN [tid |-> x.prev, ts |-> x.ts, kind |-> "set"]
                    ELSE [tid |-> x.next, ts |-> x.ts, kind |-> "take"]

LEMMA HalfTypes ==
    ASSUME KernelBasics, NEW m \in Halves
    PROVE  HalfRows[m] \in [tid : Tids, ts : Nat, kind : {"set", "take"}] /\ HalfRows[m].ts # 0
<1> DEFINE n == HalfLine(m)
<1>1. Len(Merged) \in Nat
  BY LineCpu
<1>2. n \in 1 .. Len(Merged) /\ SwitchAt(n)
  BY <1>1, HalvesAre DEF Halves
<1> HIDE DEF n
<1>3. Merged[n].prev \in Tids /\ Merged[n].next \in Tids
  <2>1. Merged[n] \in KernelEvents
    BY <1>2, MergedIsSorted
  <2> QED
    BY <1>2, <2>1 DEF SwitchAt, KernelEvents
<1>4. Stamp(n) \in Nat /\ Stamp(n) # 0
  BY <1>2, LineCpu
<1>5. HalfRows[m] = IF Odd(m) THEN [tid |-> Merged[n].prev, ts |-> Stamp(n), kind |-> "set"]
                    ELSE [tid |-> Merged[n].next, ts |-> Stamp(n), kind |-> "take"]
  BY DEF HalfRows, HalfRow, n
<1> QED
  BY <1>3, <1>4, <1>5

LEMMA HalvesOf ==
    ASSUME NEW n \in 1 .. Len(Merged), SwitchAt(n), Len(Merged) \in Nat
    PROVE  /\ 2 * n \in Halves /\ 2 * n - 1 \in Halves
           /\ HalfRows[2 * n - 1] = [tid |-> Merged[n].prev, ts |-> Stamp(n), kind |-> "set"]
           /\ HalfRows[2 * n] = [tid |-> Merged[n].next, ts |-> Stamp(n), kind |-> "take"]
<1>1. /\ n \in Nat /\ n # 0 /\ 2 * n \in 1 .. 2 * Len(Merged) /\ 2 * n - 1 \in 1 .. 2 * Len(Merged)
      /\ HalfLine(2 * n - 1) = n /\ Odd(2 * n - 1) /\ HalfLine(2 * n) = n /\ ~Odd(2 * n)
  <2>1. n \in Nat /\ n # 0 /\ 2 * n \in 1 .. 2 * Len(Merged) /\ 2 * n - 1 \in 1 .. 2 * Len(Merged)
    OBVIOUS
  <2>2. HalfLine(2 * n - 1) = n /\ Odd(2 * n - 1) /\ HalfLine(2 * n) = n /\ ~Odd(2 * n)
    BY <2>1, HalfIs
  <2> QED
    BY <2>1, <2>2
<1>2. 2 * n \in Halves /\ 2 * n - 1 \in Halves
  BY <1>1 DEF Halves
<1>3. HalfRow(2 * n - 1) = [tid |-> Merged[n].prev, ts |-> Stamp(n), kind |-> "set"]
  BY <1>1 DEF HalfRow
<1>4. HalfRow(2 * n) = [tid |-> Merged[n].next, ts |-> Stamp(n), kind |-> "take"]
  BY <1>1 DEF HalfRow
<1> QED
  BY <1>2, <1>3, <1>4 DEF HalfRows

(* The records of the switches, listed by their numbers.                   *)
LEMMA HalvesList ==
    ASSUME KernelBasics, NEW s, Lists(s, SwLines, SwRows, Less)
    PROVE  Lists([k \in 1 .. 2 * Len(s) |-> HalfRecord(s[HalfLine(k)], k)], Halves, HalfRows, Less)
<1>1. PICK q, g : Enumerates(s, q, g, SwLines, SwRows) /\ Rising(q, g, Less)
  BY DEF Lists
<1>2. q \in Nat /\ Len(s) = q /\ \A k \in 1 .. q : g[k] \in SwLines /\ s[k] = SwRows[g[k]]
  BY <1>1, ListedIs
<1>3. \A a \in SwLines : \E k \in 1 .. q : g[k] = a
  BY <1>1 DEF Enumerates
<1>4. Len(Merged) \in Nat /\ \A a \in SwLines : a \in 1 .. Len(Merged) /\ SwitchAt(a) /\ a \in Nat /\ a # 0
  BY LineCpu DEF SwLines
<1>5. \A i, j \in 1 .. q : i < j => g[i] < g[j]
  <2> SUFFICES ASSUME NEW i \in 1 .. q, NEW j \in 1 .. q, i < j PROVE g[i] < g[j]
    OBVIOUS
  <2>1. <<g[i], g[j]>> \in Less /\ g[i] \in Nat /\ g[j] \in Nat
    BY <1>1, <1>2, <1>4 DEF Rising
  <2> QED
    BY <2>1, LessIs
<1> DEFINE pos == [k \in 1 .. 2 * q |-> IF Odd(k) THEN 2 * g[HalfLine(k)] - 1 ELSE 2 * g[HalfLine(k)]]
           recs == [k \in 1 .. 2 * q |-> HalfRecord(s[HalfLine(k)], k)]
<1>6. ASSUME NEW k \in 1 .. 2 * q
      PROVE  HalfLine(k) \in 1 .. q /\ k = IF Odd(k) THEN 2 * HalfLine(k) - 1 ELSE 2 * HalfLine(k)
  BY <1>2, HalvesAre
<1>7. ASSUME NEW k \in 1 .. 2 * q PROVE pos[k] \in Halves /\ recs[k] = HalfRows[pos[k]]
  <2>1. PICK j \in 1 .. q : j = HalfLine(k)
    BY <1>6
  <2>2. PICK n \in 1 .. Len(Merged) : n = g[j] /\ SwitchAt(n) /\ n \in SwLines
    BY <1>2, <1>4
  <2>3. s[j] = SwRow(n)
    BY <1>2, <2>2 DEF SwRows
  <2>4. /\ 2 * n \in Halves /\ 2 * n - 1 \in Halves
        /\ HalfRows[2 * n - 1] = [tid |-> Merged[n].prev, ts |-> Stamp(n), kind |-> "set"]
        /\ HalfRows[2 * n] = [tid |-> Merged[n].next, ts |-> Stamp(n), kind |-> "take"]
    BY <1>4, <2>2, HalvesOf
  <2>5. pos[k] = (IF Odd(k) THEN 2 * n - 1 ELSE 2 * n) /\ recs[k] = HalfRecord(SwRow(n), k)
    BY <2>1, <2>2, <2>3
  <2>6. HalfRecord(SwRow(n), k) = IF Odd(k) THEN [tid |-> Merged[n].prev, ts |-> Stamp(n), kind |-> "set"]
                                  ELSE [tid |-> Merged[n].next, ts |-> Stamp(n), kind |-> "take"]
    BY DEF HalfRecord, SwRow
  <2> HIDE DEF pos, recs
  <2>7. CASE Odd(k)
    BY <2>4, <2>5, <2>6, <2>7
  <2>8. CASE ~Odd(k)
    BY <2>4, <2>5, <2>6, <2>8
  <2> QED
    BY <2>7, <2>8
<1>8. ASSUME NEW m \in Halves PROVE \E k \in 1 .. 2 * q : pos[k] = m
  <2>1. PICK n \in 1 .. Len(Merged) : SwitchAt(n) /\ (m = 2 * n - 1 \/ m = 2 * n)
    BY <1>4, HalvesAre DEF Halves
  <2>2. PICK j \in 1 .. q : g[j] = n
    BY <1>3, <2>1 DEF SwLines
  <2>3. /\ j \in Nat /\ j # 0 /\ 2 * j \in 1 .. 2 * q /\ 2 * j - 1 \in 1 .. 2 * q
    BY <1>2
  <2>4. HalfLine(2 * j - 1) = j /\ Odd(2 * j - 1) /\ HalfLine(2 * j) = j /\ ~Odd(2 * j)
    BY <2>3, HalfIs
  <2>5. pos[2 * j - 1] = 2 * n - 1
    BY <2>2, <2>3, <2>4
  <2>6. pos[2 * j] = 2 * n
    BY <2>2, <2>3, <2>4
  <2> HIDE DEF pos
  <2> QED
    BY <2>1, <2>3, <2>5, <2>6
<1>9. ASSUME NEW i \in 1 .. 2 * q, NEW k \in 1 .. 2 * q, i < k PROVE <<pos[i], pos[k]>> \in Less
  <2>1. PICK a \in 1 .. q : a = HalfLine(i) /\ i = IF Odd(i) THEN 2 * a - 1 ELSE 2 * a
    BY <1>6
  <2>2. PICK b \in 1 .. q : b = HalfLine(k) /\ k = IF Odd(k) THEN 2 * b - 1 ELSE 2 * b
    BY <1>6
  <2>3. PICK x \in Nat : x = g[a] /\ x # 0
    BY <1>2, <1>4
  <2>4. PICK y \in Nat : y = g[b] /\ y # 0
    BY <1>2, <1>4
  <2>5. /\ pos[i] = IF Odd(i) THEN 2 * x - 1 ELSE 2 * x
        /\ pos[k] = IF Odd(k) THEN 2 * y - 1 ELSE 2 * y
    BY <2>1, <2>2, <2>3, <2>4
  <2>6. a < b \/ (a = b /\ Odd(i) /\ ~Odd(k))
    BY <1>2, <1>9, <2>1, <2>2
  <2>7. (a < b => x < y) /\ (a = b => x = y)
    BY <1>5, <2>3, <2>4
  <2> HIDE DEF pos
  <2>8. pos[i] < pos[k] /\ pos[i] \in Nat /\ pos[k] \in Nat
    <3>1. 2 * x - 1 \in Nat /\ 2 * x \in Nat /\ 2 * y - 1 \in Nat /\ 2 * y \in Nat /\ 2 * x - 1 < 2 * x
      BY <2>3, <2>4
    <3>2. x < y => 2 * x < 2 * y - 1 /\ 2 * x < 2 * y /\ 2 * x - 1 < 2 * y - 1 /\ 2 * x - 1 < 2 * y
      OBVIOUS
    <3>3. CASE a < b
      BY <2>5, <2>7, <3>1, <3>2, <3>3
    <3>4. CASE a = b /\ Odd(i) /\ ~Odd(k)
      BY <2>5, <2>7, <3>1, <3>4
    <3> QED
      BY <2>6, <3>3, <3>4
  <2> QED
    BY <2>8, LessIs
<1>10. Enumerates(recs, 2 * q, pos, Halves, HalfRows)
  <2>1. recs = [k \in 1 .. 2 * q |-> HalfRows[pos[k]]]
    BY <1>7
  <2>2. pos \in [1 .. 2 * q -> Halves] /\ 2 * q \in Nat
    BY <1>2, <1>7
  <2> HIDE DEF recs, pos
  <2> QED
    BY <1>8, <2>1, <2>2 DEF Enumerates
<1>11. Rising(2 * q, pos, Less)
  <2> HIDE DEF pos
  <2> QED
    BY <1>9 DEF Rising
<1>12. Lists(recs, Halves, HalfRows, Less)
  <2> HIDE DEF recs, pos
  <2> QED
    BY <1>10, <1>11 DEF Lists
<1> QED
  BY <1>2, <1>12

HalfRecords == [tid : Tids, ts : Nat, kind : {"set", "take"}]
LEMMA ThreadRecords ==
    ASSUME NEW s, NEW A, NEW f, NEW W, Lists(s, A, f, W), \A a \in A : f[a] \in HalfRecords
    PROVE  Lists(Kept(s, {i \in DOMAIN s : s[i].tid # Idle}), {a \in A : f[a].tid # Idle}, f, W)
<1> DEFINE V == {x \in HalfRecords : x.tid # Idle}
<1>1. s \in Seq(HalfRecords)
  BY ListedIn
<1>2. {i \in DOMAIN s : s[i] \in V} = {i \in DOMAIN s : s[i].tid # Idle}
  BY <1>1
<1>3. {a \in A : f[a] \in V} = {a \in A : f[a].tid # Idle}
  OBVIOUS
<1>4. Lists(Chosen(s, V), Shown(A, f, V), f, W)
  <2> HIDE DEF V
  <2> QED
    BY FilterLists
<1> QED
  BY <1>2, <1>3, <1>4 DEF Chosen, Shown

LEMMA SwitchRecordsList ==
    ASSUME MoveInv, NEW b, Reading(b)
    PROVE  Lists(SwitchRecords(Workers), ThreadHalves, HalfRows, Less)
<1> DEFINE sw == Sorted(OfAll(Workers, "sw"), "ts")
           recs == [k \in 1 .. 2 * Len(sw) |-> HalfRecord(sw[HalfLine(k)], k)]
<1>0. KernelBasics
  BY DEF MoveInv
<1>1. Lists(sw, SwLines, SwRows, Less)
  BY AllColumns
<1>2. Lists(recs, Halves, HalfRows, Less)
  <2> HIDE DEF sw
  <2> QED
    BY <1>0, <1>1, HalvesList
<1>3. SwitchRecords(Workers) = Kept(recs, {k \in DOMAIN recs : recs[k].tid # Idle})
  BY DEF SwitchRecords, HalfRecord, HalfLine, Odd
<1>4. \A m \in Halves : HalfRows[m] \in HalfRecords
  BY <1>0, HalfTypes DEF HalfRecords
<1> HIDE DEF sw, recs
<1> QED
  BY <1>2, <1>3, <1>4, ThreadRecords DEF ThreadHalves

-----------------------------------------------------------------------------
(* The off-CPU intervals.                                                  *)
LEMMA OffTakes ==
    ASSUME NEW p \in Parsers, NEW e \in KernelEvents, NEW ts \in Nat,
           e.kind = "switch" => e.prev # e.next
    PROVE  /\ SeqLine(p, e, ts).off =
                IF e.kind = "switch" /\ e.next # Idle /\ p.pending[e.next] # 0
                   THEN Append(p.off, Interval(e.next, p.pending[e.next], ts)) ELSE p.off
           /\ \A t \in Threads : SeqLine(p, e, ts).pending[t] =
                IF e.kind = "switch" /\ e.next = t THEN 0
                ELSE IF e.kind = "switch" /\ e.prev = t THEN ts ELSE p.pending[t]
<1>1. p.pending \in [Tids -> Nat] /\ Threads \subseteq Tids
  BY DEF Parsers, Tids
<1>2. CASE e.kind = "switch"
  <2>1. SeqLine(p, e, ts).pending = [p.pending EXCEPT ![e.prev] = ts, ![e.next] = NotPending]
    <3>1. SwitchDoes(p, e, ts)
      BY <1>2, SwitchTakes
    <3> QED
      BY <1>2, <3>1 DEF SwitchDoes
  <2>2. SeqLine(p, e, ts).off = IF e.next # Idle /\ p.pending[e.next] # NotPending
                                   THEN Append(p.off, Interval(e.next, p.pending[e.next], ts)) ELSE p.off
    <3>1. SwitchDoes(p, e, ts)
      BY <1>2, SwitchTakes
    <3> QED
      BY <1>2, <3>1 DEF SwitchDoes
  <2>3. e.prev \in Tids /\ e.next \in Tids
    BY <1>2 DEF KernelEvents
  <2>4. \A t \in Threads : SeqLine(p, e, ts).pending[t] =
          IF e.next = t THEN 0 ELSE IF e.prev = t THEN ts ELSE p.pending[t]
    BY <1>1, <2>1, <2>3 DEF NotPending
  <2> QED
    BY <1>2, <2>2, <2>4 DEF NotPending
<1>3. CASE e.kind # "switch"
  <2>1. SeqLine(p, e, ts).pending = p.pending /\ SeqLine(p, e, ts).off = p.off
    BY <1>3, OthersTake DEF OthersDo
  <2> QED
    BY <1>3, <2>1
<1> QED
  BY <1>2, <1>3

OutSince(b, n) == b[n - 1].pending[Merged[n].next]
OffLines(b) == {n \in 1 .. Len(Merged) : SwitchAt(n) /\ Merged[n].next # Idle /\ OutSince(b, n) # 0}
OffRow(b, n) == Interval(Merged[n].next, OutSince(b, n), Stamp(n))
OffRows(b) == [n \in OffLines(b) |-> OffRow(b, n)]

LEMMA OffAdds ==
    ASSUME MoveInv, NEW b, Reading(b), NEW n \in 1 .. Len(Merged)
    PROVE  /\ b[n].off = IF n \in OffLines(b) THEN Append(b[n - 1].off, OffRow(b, n)) ELSE b[n - 1].off
           /\ \A t \in Threads : b[n].pending[t] =
                 IF SwitchAt(n) /\ Merged[n].next = t THEN 0
                 ELSE IF SwitchAt(n) /\ Merged[n].prev = t THEN Stamp(n) ELSE b[n - 1].pending[t]
<1> DEFINE p == b[n - 1]
           e == Merged[n]
           ts == Stamp(n)
<1>1. p \in Parsers /\ e \in KernelEvents /\ ts \in Nat /\ b[n] = SeqLine(p, e, ts)
  BY LineIs
<1>2. e.kind = "switch" => e.prev # e.next
  BY LineIs DEF SwitchAt
<1>3. n \in OffLines(b) <=> e.kind = "switch" /\ e.next # Idle /\ p.pending[e.next] # 0
  BY DEF OffLines, SwitchAt, OutSince
<1>4. OffRow(b, n) = Interval(e.next, p.pending[e.next], ts)
  BY DEF OffRow, OutSince
<1>5. SwitchAt(n) <=> e.kind = "switch"
  BY DEF SwitchAt
<1> HIDE DEF p, e, ts
<1>6. /\ b[n].off = IF e.kind = "switch" /\ e.next # Idle /\ p.pending[e.next] # 0
                       THEN Append(p.off, Interval(e.next, p.pending[e.next], ts)) ELSE p.off
      /\ \A t \in Threads : b[n].pending[t] =
            IF e.kind = "switch" /\ e.next = t THEN 0
            ELSE IF e.kind = "switch" /\ e.prev = t THEN ts ELSE p.pending[t]
  BY <1>1, <1>2, OffTakes
<1> QED
  BY <1>3, <1>4, <1>5, <1>6 DEF p, e, ts

(* What is pending of a thread before and after each of the two records.   *)
Between(b, t) ==
    [m \in 0 .. 2 * Len(Merged) |->
       IF Odd(m) THEN IF SwitchAt(HalfLine(m)) /\ Merged[HalfLine(m)].prev = t THEN Stamp(HalfLine(m))
                      ELSE b[HalfLine(m) - 1].pending[t]
       ELSE b[HalfLine(m)].pending[t]]

LEMMA BetweenIs ==
    ASSUME NEW b, NEW t, Len(Merged) \in Nat
    PROVE  /\ \A n \in 0 .. Len(Merged) : Between(b, t)[2 * n] = b[n].pending[t]
           /\ \A n \in 1 .. Len(Merged) :
                 Between(b, t)[2 * n - 1] = IF SwitchAt(n) /\ Merged[n].prev = t THEN Stamp(n) ELSE b[n - 1].pending[t]
<1>1. ASSUME NEW n \in 0 .. Len(Merged) PROVE Between(b, t)[2 * n] = b[n].pending[t]
  <2>1. 2 * n \in 0 .. 2 * Len(Merged)
    OBVIOUS
  <2>2. HalfLine(2 * n) = n /\ ~Odd(2 * n)
    BY DEF HalfLine, Odd
  <2> QED
    BY <2>1, <2>2 DEF Between
<1>2. ASSUME NEW n \in 1 .. Len(Merged)
      PROVE  Between(b, t)[2 * n - 1] = IF SwitchAt(n) /\ Merged[n].prev = t THEN Stamp(n) ELSE b[n - 1].pending[t]
  <2>1. 2 * n - 1 \in 0 .. 2 * Len(Merged) /\ n \in Nat /\ n # 0
    OBVIOUS
  <2>2. HalfLine(2 * n - 1) = n /\ Odd(2 * n - 1)
    BY <2>1, HalfIs
  <2> QED
    BY <2>1, <2>2 DEF Between
<1> QED
  BY <1>1, <1>2

LEMMA HalfOf ==
    ASSUME NEW n \in 1 .. Len(Merged), Len(Merged) \in Nat, NEW t \in Threads
    PROVE  /\ IsOf(ThreadHalves, HalfRows, t, 2 * n - 1) <=> SwitchAt(n) /\ Merged[n].prev = t
           /\ IsOf(ThreadHalves, HalfRows, t, 2 * n) <=> SwitchAt(n) /\ Merged[n].next = t
           /\ SwitchAt(n) => Leaves(HalfRows, 2 * n - 1) = Stamp(n) /\ Leaves(HalfRows, 2 * n) = 0
<1>1. n \in Nat /\ n # 0 /\ t # Idle
  BY TidsAre
<1>2. HalfLine(2 * n - 1) = n /\ HalfLine(2 * n) = n
  BY <1>1, HalfIs
<1>3. CASE ~SwitchAt(n)
  <2>1. 2 * n \notin Halves /\ 2 * n - 1 \notin Halves
    BY <1>2, <1>3 DEF Halves
  <2> QED
    BY <1>3, <2>1 DEF IsOf, ThreadHalves
<1>4. CASE SwitchAt(n)
  <2>1. /\ 2 * n \in Halves /\ 2 * n - 1 \in Halves
        /\ HalfRows[2 * n - 1] = [tid |-> Merged[n].prev, ts |-> Stamp(n), kind |-> "set"]
        /\ HalfRows[2 * n] = [tid |-> Merged[n].next, ts |-> Stamp(n), kind |-> "take"]
    BY <1>4, HalvesOf
  <2>2. /\ HalfRows[2 * n - 1].tid = Merged[n].prev /\ HalfRows[2 * n].tid = Merged[n].next
        /\ Leaves(HalfRows, 2 * n - 1) = Stamp(n) /\ Leaves(HalfRows, 2 * n) = 0
    BY <2>1 DEF Leaves
  <2>3. /\ 2 * n - 1 \in ThreadHalves <=> Merged[n].prev # Idle
        /\ 2 * n \in ThreadHalves <=> Merged[n].next # Idle
    BY <2>1, <2>2 DEF ThreadHalves
  <2> QED
    BY <1>1, <1>4, <2>2, <2>3 DEF IsOf
<1> QED
  BY <1>3, <1>4

LEMMA HalvesPend ==
    ASSUME MoveInv, NEW b, Reading(b), NEW t \in Threads
    PROVE  Pends(Between(b, t), 2 * Len(Merged), ThreadHalves, HalfRows, t)
<1> DEFINE q == Between(b, t)
<1>0. Len(Merged) \in Nat
  BY LineCpu DEF MoveInv
<1>1. q[0] = 0
  <2>1. 0 \in 0 .. Len(Merged) /\ 2 * 0 = 0
    BY <1>0
  <2>2. q[2 * 0] = b[0].pending[t]
    BY <1>0, <2>1, BetweenIs
  <2>3. b[0] = Start0
    BY DEF Reading
  <2>4. Start0.pending[t] = 0
    BY DEF Start0, NotPending
  <2> QED
    BY <2>1, <2>2, <2>3, <2>4
<1>2. ASSUME NEW m \in 1 .. 2 * Len(Merged)
      PROVE  q[m] = IF IsOf(ThreadHalves, HalfRows, t, m) THEN Leaves(HalfRows, m) ELSE q[m - 1]
  <2>1. PICK n \in 1 .. Len(Merged) : m = 2 * n - 1 \/ m = 2 * n
    BY <1>0, HalvesAre
  <2>2. n \in 0 .. Len(Merged) /\ n - 1 \in 0 .. Len(Merged)
    BY <1>0
  <2>3. /\ q[2 * n] = b[n].pending[t] /\ q[2 * (n - 1)] = b[n - 1].pending[t]
        /\ q[2 * n - 1] = IF SwitchAt(n) /\ Merged[n].prev = t THEN Stamp(n) ELSE b[n - 1].pending[t]
    BY <1>0, <2>2, BetweenIs
  <2>4. b[n].pending[t] = IF SwitchAt(n) /\ Merged[n].next = t THEN 0
                          ELSE IF SwitchAt(n) /\ Merged[n].prev = t THEN Stamp(n) ELSE b[n - 1].pending[t]
    BY OffAdds
  <2>5. 2 * (n - 1) = (2 * n - 1) - 1
    BY <1>0
  <2> HIDE DEF q
  <2>6. CASE m = 2 * n - 1
    BY <1>0, <2>3, <2>5, <2>6, HalfOf
  <2>7. CASE m = 2 * n
    BY <1>0, <2>3, <2>4, <2>7, HalfOf
  <2> QED
    BY <2>1, <2>6, <2>7
<1> HIDE DEF q
<1> QED
  BY <1>1, <1>2 DEF Pends, q

LEMMA OffPairs ==
    ASSUME MoveInv, NEW b, Reading(b)
    PROVE  LET A == ThreadHalves
               f == HalfRows
           IN /\ \A m : m \in Closers(A, f) <=> \E n \in OffLines(b) : m = 2 * n
              /\ \A n \in OffLines(b) : PairRow(A, f)[2 * n] = OffRow(b, n) /\ OffRow(b, n) \in Rows
<1> DEFINE A == ThreadHalves
           f == HalfRows
<1>0. KernelBasics /\ Len(Merged) \in Nat
  BY LineCpu DEF MoveInv
<1>1. A \subseteq Nat /\ 0 \notin A /\ A \subseteq Halves
  BY <1>0 DEF ThreadHalves, Halves
<1>2. Timed(A, f)
  BY <1>0, <1>1, HalfTypes DEF Timed
<1>3. ASSUME NEW n \in 1 .. Len(Merged), SwitchAt(n), Merged[n].next # Idle
      PROVE  /\ 2 * n \in Closers(A, f) <=> OutSince(b, n) # 0
             /\ 2 * n \in Closers(A, f) => PairRow(A, f)[2 * n] = OffRow(b, n)
             /\ OffRow(b, n) \in Rows
  <2> DEFINE t == Merged[n].next
             q == Between(b, t)
  <2>1. t \in Threads /\ Merged[n].prev # t /\ Stamp(n) \in Nat /\ b[n - 1] \in Parsers
    <3>1. t \in Tids /\ Merged[n].prev # t /\ Stamp(n) \in Nat /\ b[n - 1] \in Parsers
      BY <1>3, LineIs
    <3> QED
      BY <1>3, <3>1, TidsAre
  <2>2. f[2 * n] = [tid |-> t, ts |-> Stamp(n), kind |-> "take"]
    BY <1>0, <1>3, HalvesOf
  <2>3. q[2 * n - 1] = OutSince(b, n)
    <3> HIDE DEF t
    <3>1. q[2 * n - 1] = IF SwitchAt(n) /\ Merged[n].prev = t THEN Stamp(n) ELSE b[n - 1].pending[t]
      BY <1>0, BetweenIs
    <3>2. q[2 * n - 1] = b[n - 1].pending[t]
      BY <2>1, <3>1
    <3> QED
      BY <3>2 DEF OutSince, t
  <2>4. OutSince(b, n) \in Nat
    BY <2>1 DEF OutSince, Parsers, Tids
  <2>5. OffRow(b, n) \in Rows /\ OffRow(b, n) = Interval(t, OutSince(b, n), Stamp(n))
    BY <2>1, <2>4 DEF OffRow, Interval, Rows
  <2>6. Pends(q, 2 * Len(Merged), A, f, t)
    BY <2>1, HalvesPend
  <2>7. IsOf(A, f, t, 2 * n)
    BY <1>0, <1>3, <2>1, HalfOf
  <2>8. TakeOf(A, f, t, 2 * n) /\ f[2 * n].ts = Stamp(n)
    BY <2>2, <2>7 DEF TakeOf
  <2> HIDE DEF q, t, A, f
  <2>9. 2 * n \in 1 .. 2 * Len(Merged) /\ 2 * Len(Merged) \in Nat
    BY <1>0
  <2>10. Shows(q, A, f, t, 2 * n)
    BY <1>1, <1>2, <2>6, <2>8, <2>9, PartnerShows
  <2> QED
    BY <2>3, <2>5, <2>8, <2>10 DEF Shows
<1>4. ASSUME NEW m \in Closers(A, f)
      PROVE  \E n \in 1 .. Len(Merged) : m = 2 * n /\ SwitchAt(n) /\ Merged[n].next # Idle
  <2>1. m \in A /\ f[m].kind = "take" /\ m \in Halves /\ f[m].tid # Idle
    <3>1. m \in A /\ f[m].kind = "take"
      BY DEF Closers, Opens
    <3> QED
      BY <3>1 DEF ThreadHalves
  <2>2. PICK n \in 1 .. Len(Merged) : SwitchAt(n) /\ (m = 2 * n - 1 \/ m = 2 * n)
    BY <1>0, <2>1, HalvesAre DEF Halves
  <2>3. /\ f[2 * n - 1] = [tid |-> Merged[n].prev, ts |-> Stamp(n), kind |-> "set"]
        /\ f[2 * n] = [tid |-> Merged[n].next, ts |-> Stamp(n), kind |-> "take"]
    BY <1>0, <2>2, HalvesOf
  <2> QED
    BY <2>1, <2>2, <2>3
<1>5. ASSUME NEW m PROVE m \in Closers(A, f) <=> \E n \in OffLines(b) : m = 2 * n
  <2> HIDE DEF A, f
  <2>1. ASSUME m \in Closers(A, f) PROVE \E n \in OffLines(b) : m = 2 * n
    BY <1>3, <1>4, <2>1 DEF OffLines
  <2>2. ASSUME NEW n \in OffLines(b), m = 2 * n PROVE m \in Closers(A, f)
    BY <1>3, <2>2 DEF OffLines
  <2> QED
    BY <2>1, <2>2
<1>6. ASSUME NEW n \in OffLines(b) PROVE PairRow(A, f)[2 * n] = OffRow(b, n) /\ OffRow(b, n) \in Rows
  <2> HIDE DEF A, f
  <2> QED
    BY <1>3 DEF OffLines
<1> HIDE DEF A, f
<1> QED
  BY <1>5, <1>6 DEF A, f

LEMMA Renumber ==
    ASSUME NEW s, NEW A, A \subseteq Nat, NEW f, Lists(s, A, f, Less), NEW h, \A a \in A : h[2 * a] = f[a]
    PROVE  Lists(s, {2 * a : a \in A}, h, Less)
<1>1. PICK n, g : Enumerates(s, n, g, A, f) /\ Rising(n, g, Less)
  BY DEF Lists
<1>2. n \in Nat /\ g \in [1 .. n -> A] /\ s = [k \in 1 .. n |-> f[g[k]]] /\ \A a \in A : \E k \in 1 .. n : g[k] = a
  BY <1>1 DEF Enumerates
<1> DEFINE B == {2 * a : a \in A}
           d == [k \in 1 .. n |-> 2 * g[k]]
<1>3. d \in [1 .. n -> B]
  BY <1>2
<1>4. s = [k \in 1 .. n |-> h[d[k]]]
  BY <1>2
<1>5. ASSUME NEW x \in B PROVE \E k \in 1 .. n : d[k] = x
  BY <1>2
<1>6. ASSUME NEW i \in 1 .. n, NEW j \in 1 .. n, i < j PROVE <<d[i], d[j]>> \in Less
  <2>1. <<g[i], g[j]>> \in Less /\ g[i] \in Nat /\ g[j] \in Nat
    BY <1>1, <1>2, <1>6 DEF Rising
  <2>2. g[i] < g[j]
    BY <2>1, LessIs
  <2>3. d[i] \in Nat /\ d[j] \in Nat /\ d[i] < d[j]
    BY <2>1, <2>2
  <2> HIDE DEF d
  <2> QED
    BY <2>3, LessIs
<1> HIDE DEF B, d
<1>7. Enumerates(s, n, d, B, h) /\ Rising(n, d, Less)
  BY <1>2, <1>3, <1>4, <1>5, <1>6 DEF Enumerates, Rising
<1> QED
  BY <1>7 DEF Lists, B

LEMMA SameOff ==
    ASSUME MoveInv, NEW b, Reading(b), NEW t
    PROVE  OfThread(t, Parallel.off) = OfThread(t, Sequential.off)
<1> DEFINE A == ThreadHalves
           f == HalfRows
           B == Closers(A, f)
           row == PairRow(A, f)
           S == Pair(SwitchRecords(Workers))
<1>0. KernelBasics /\ Len(Merged) \in Nat
  BY LineCpu DEF MoveInv
<1>1. A \subseteq Nat /\ \A a \in A : f[a].tid \in Nat
  <2>1. A \subseteq Halves /\ Halves \subseteq Nat
    BY <1>0 DEF ThreadHalves, Halves
  <2> QED
    BY <1>0, <2>1, HalfTypes, TidsInNat
<1>2. Lists(S, B, row, ByKey(A, f, "tid", Less))
  <2>1. Lists(SwitchRecords(Workers), A, f, Less)
    BY SwitchRecordsList
  <2> QED
    BY <1>1, <2>1, PairLists
<1>3. /\ \A m : m \in B <=> \E n \in OffLines(b) : m = 2 * n
      /\ \A n \in OffLines(b) : row[2 * n] = OffRow(b, n) /\ OffRow(b, n) \in Rows
  BY OffPairs
<1>4. \A n \in OffLines(b) : n \in 1 .. Len(Merged) /\ n \in Nat /\ OffRow(b, n).t1 = Stamp(n)
  BY DEF OffLines, OffRow, Interval
<1> HIDE DEF A, f, B, row, S
<1>5. Lists(Sequential["off"], OffLines(b), OffRows(b), Less)
  <2>1. Start0["off"] = <<>> /\ OffLines(b) \subseteq 1 .. Len(Merged)
    BY <1>4 DEF Start0
  <2>2. ASSUME NEW n \in 1 .. Len(Merged)
        PROVE  b[n]["off"] = IF n \in OffLines(b) THEN Append(b[n - 1]["off"], OffRows(b)[n]) ELSE b[n - 1]["off"]
    <3>1. b[n].off = IF n \in OffLines(b) THEN Append(b[n - 1].off, OffRow(b, n)) ELSE b[n - 1].off
      BY OffAdds
    <3> QED
      BY <3>1 DEF OffRows
  <2> QED
    BY <2>1, <2>2, SequentialLists
<1>6. Lists(Sequential["off"], B, row, Less)
  <2>1. \A n \in OffLines(b) : row[2 * n] = OffRows(b)[n]
    BY <1>3 DEF OffRows
  <2>2. OffLines(b) \subseteq Nat
    BY <1>4
  <2>3. {2 * n : n \in OffLines(b)} = B
    BY <1>3
  <2>4. Lists(Sequential["off"], {2 * n : n \in OffLines(b)}, row, Less)
    BY <1>5, <2>1, <2>2, Renumber
  <2> QED
    BY <2>3, <2>4
<1>7. ASSUME NEW i \in B, NEW k \in B, row[i].t1 < row[k].t1 PROVE i < k
  <2>1. PICK m \in OffLines(b) : i = 2 * m
    BY <1>3
  <2>2. PICK n \in OffLines(b) : k = 2 * n
    BY <1>3
  <2>3. Stamp(m) < Stamp(n)
    BY <1>3, <1>4, <1>7, <2>1, <2>2
  <2>4. m < n
    BY <1>0, <1>4, <2>3, LinesByTime
  <2> QED
    BY <1>4, <2>1, <2>2, <2>4
<1>8. PairsOfThreads(A, f, B, row)
  <2>1. ASSUME NEW i \in B PROVE row[i] = PairRow(A, f)[i] /\ row[i] \in Rows
    BY <1>3 DEF row
  <2>2. B \subseteq Closers(A, f)
    BY DEF B
  <2> QED
    BY <1>1, <1>7, <2>1, <2>2 DEF PairsOfThreads
<1>9. Lists(S, B, PairRow(A, f), ByKey(A, f, "tid", Less))
  BY <1>2 DEF row
<1>10. OfThread(t, Sorted(S, "t1")) = OfThread(t, Sequential["off"])
  BY <1>6, <1>8, <1>9, SameOfThread
<1>11. Parallel.off = Sorted(S, "t1")
  BY DEF Parallel, S
<1> QED
  BY <1>10, <1>11

-----------------------------------------------------------------------------
(* The threads met, in the order in which they first left a CPU.           *)
LeaveAt(n) == SwitchAt(n) /\ Merged[n].prev # Idle
CtxLines == {n \in 1 .. Len(Merged) :
               /\ LeaveAt(n)
               /\ \A m \in 1 .. Len(Merged) : m < n /\ LeaveAt(m) /\ Merged[m].cpu = Merged[n].cpu
                                                 => Merged[m].prev # Merged[n].prev}
MetRow(n) == [tid |-> Merged[n].prev, ts |-> Stamp(n)]
MetRows == [n \in CtxLines |-> MetRow(n)]
FirstLines == {n \in 1 .. Len(Merged) :
                 /\ LeaveAt(n)
                 /\ \A m \in 1 .. Len(Merged) : m < n /\ LeaveAt(m) => Merged[m].prev # Merged[n].prev}
FirstRows == [n \in FirstLines |-> Merged[n].prev]

LEMMA SeenMore ==
    ASSUME NEW w \in Lookers, NEW e \in KernelEvents, NEW ts \in Nat, ParStamp(e) = ts
    PROVE  /\ ParLine(w, e).ctx = IF e.kind = "switch" /\ e.prev # Idle /\ e.prev \notin SeenBy(w)
                                     THEN Append(w.ctx, [tid |-> e.prev, ts |-> ts]) ELSE w.ctx
           /\ SeenBy(ParLine(w, e)) = IF e.kind = "switch" /\ e.prev # Idle THEN SeenBy(w) \cup {e.prev} ELSE SeenBy(w)
<1> DEFINE x == [tid |-> e.prev, ts |-> ts]
<1>1. w.ctx \in Seq(Marks)
  BY DEF Lookers
<1>2. CASE e.kind # "switch"
  <2>1. ParLine(w, e).ctx = w.ctx
    BY <1>2, ParOthersTake
  <2> QED
    BY <1>2, <2>1 DEF SeenBy
<1>3. CASE e.kind = "switch"
  <2>1. ParLine(w, e) = ParSwitched(w, e, ts)
    BY <1>3, ParSwitchTakes
  <2>2. ParSwitched(w, e, ts).ctx = IF e.prev \in SeenBy(w) \cup {Idle} THEN w.ctx ELSE Append(w.ctx, x)
    BY DEF ParSwitched
  <2>3. ParLine(w, e).ctx = IF e.prev \in SeenBy(w) \cup {Idle} THEN w.ctx ELSE Append(w.ctx, x)
    BY <2>1, <2>2
  <2>4. CASE e.prev \in SeenBy(w) \cup {Idle}
    <3>1. ParLine(w, e).ctx = w.ctx
      BY <2>3, <2>4
    <3>2. SeenBy(ParLine(w, e)) = SeenBy(w)
      BY <3>1 DEF SeenBy
    <3> QED
      BY <1>3, <2>4, <3>1, <3>2
  <2>5. CASE e.prev \notin SeenBy(w) \cup {Idle}
    <3> DEFINE s == w.ctx
               r == Append(s, x)
    <3>1. ParLine(w, e).ctx = r
      BY <2>3, <2>5
    <3>2. x \in Marks
      <4>1. e.prev \in Tids
        BY <1>3 DEF KernelEvents
      <4> QED
        BY <2>5, <4>1, TidsAre DEF Marks
    <3> HIDE DEF x
    <3>3. /\ s \in Seq(Marks) /\ Len(s) \in Nat /\ DOMAIN s = 1 .. Len(s) /\ DOMAIN r = 1 .. Len(s) + 1
          /\ (\A i \in 1 .. Len(s) : r[i] = s[i]) /\ r[Len(s) + 1] = x
      BY <1>1, <3>2, AppendProperties
    <3> HIDE DEF s, r
    <3>4. {r[i].tid : i \in DOMAIN r} = {s[i].tid : i \in DOMAIN s} \cup {x.tid}
      <4>1. ASSUME NEW i \in DOMAIN r PROVE r[i].tid \in {s[j].tid : j \in DOMAIN s} \cup {x.tid}
        <5>1. i \in 1 .. Len(s) \/ i = Len(s) + 1
          BY <3>3
        <5> QED
          BY <3>3, <5>1
      <4>2. ASSUME NEW i \in DOMAIN s PROVE s[i].tid \in {r[j].tid : j \in DOMAIN r}
        <5>1. i \in DOMAIN r /\ r[i] = s[i]
          BY <3>3
        <5> QED
          BY <5>1
      <4>3. x.tid \in {r[j].tid : j \in DOMAIN r}
        <5>1. Len(s) + 1 \in DOMAIN r /\ r[Len(s) + 1] = x
          BY <3>3
        <5> QED
          BY <5>1
      <4> QED
        BY <4>1, <4>2, <4>3
    <3>5. SeenBy(ParLine(w, e)) = SeenBy(w) \cup {e.prev}
      BY <3>1, <3>4 DEF SeenBy, s, x
    <3> QED
      BY <1>3, <2>5, <3>1, <3>5 DEF r, s, x
  <2> QED
    BY <2>4, <2>5
<1> QED
  BY <1>2, <1>3

LeftOn(c, k) == {Merged[Place(c)[i]].prev : i \in {j \in 1 .. k : LeaveAt(Place(c)[j])}}

LEMMA WorkerSeen ==
    ASSUME KernelBasics, NEW c \in Cpus, NEW u, Watching(c, u), NEW k \in 1 .. Len(streams[c]), NEW n, n = Place(c)[k]
    PROVE  /\ u[k].ctx = IF LeaveAt(n) /\ Merged[n].prev \notin SeenBy(u[k - 1])
                            THEN Append(u[k - 1].ctx, MetRow(n)) ELSE u[k - 1].ctx
           /\ SeenBy(u[k]) = IF LeaveAt(n) THEN SeenBy(u[k - 1]) \cup {Merged[n].prev} ELSE SeenBy(u[k - 1])
<1> DEFINE w == u[k - 1]
           e == Merged[n]
           ts == Stamp(n)
<1>1. w \in Lookers /\ e \in KernelEvents /\ ts \in Nat /\ ParStamp(e) = ts /\ u[k] = ParLine(w, e)
  <2>1. w \in Lookers /\ e = streams[c][k] /\ e \in KernelEvents /\ ts \in Nat
        /\ ParStamp(streams[c][k]) = ts /\ u[k] = ParLine(w, streams[c][k])
    BY WorkerRuns
  <2> QED
    BY <2>1
<1>2. LeaveAt(n) <=> e.kind = "switch" /\ e.prev # Idle
  BY DEF LeaveAt, SwitchAt
<1>3. MetRow(n) = [tid |-> e.prev, ts |-> ts]
  BY DEF MetRow
<1> HIDE DEF w, e, ts
<1>4. /\ u[k].ctx = IF e.kind = "switch" /\ e.prev # Idle /\ e.prev \notin SeenBy(w)
                       THEN Append(w.ctx, [tid |-> e.prev, ts |-> ts]) ELSE w.ctx
      /\ SeenBy(u[k]) = IF e.kind = "switch" /\ e.prev # Idle THEN SeenBy(w) \cup {e.prev} ELSE SeenBy(w)
  <2>1. /\ ParLine(w, e).ctx = IF e.kind = "switch" /\ e.prev # Idle /\ e.prev \notin SeenBy(w)
                                  THEN Append(w.ctx, [tid |-> e.prev, ts |-> ts]) ELSE w.ctx
        /\ SeenBy(ParLine(w, e)) = IF e.kind = "switch" /\ e.prev # Idle THEN SeenBy(w) \cup {e.prev} ELSE SeenBy(w)
    BY <1>1, SeenMore
  <2> QED
    BY <1>1, <2>1
<1> QED
  BY <1>2, <1>3, <1>4 DEF w, e

LEMMA WorkerSeenIs ==
    ASSUME KernelBasics, NEW c \in Cpus, NEW u, Watching(c, u)
    PROVE  \A k \in 0 .. Len(streams[c]) : SeenBy(u[k]) = LeftOn(c, k)
<1> DEFINE L == Len(streams[c])
           S == {k \in Nat : k <= L => SeenBy(u[k]) = LeftOn(c, k)}
<1>1. L \in Nat
  BY StreamLines
<1>2. 0 \in S
  <2>1. SeenBy(u[0]) = {}
    BY DEF Watching, Worker0, SeenBy
  <2>2. LeftOn(c, 0) = {}
    BY DEF LeftOn
  <2> QED
    BY <2>1, <2>2
<1>3. ASSUME NEW m \in Nat, m \in S PROVE m + 1 \in S
  <2> SUFFICES ASSUME m + 1 <= L PROVE SeenBy(u[m + 1]) = LeftOn(c, m + 1)
    OBVIOUS
  <2> DEFINE n == Place(c)[m + 1]
  <2>1. SeenBy(u[m]) = LeftOn(c, m) /\ m + 1 \in 1 .. L /\ (m + 1) - 1 = m
    BY <1>1, <1>3
  <2>2. SeenBy(u[m + 1]) = IF LeaveAt(n) THEN SeenBy(u[(m + 1) - 1]) \cup {Merged[n].prev} ELSE SeenBy(u[(m + 1) - 1])
    BY <2>1, WorkerSeen
  <2>3. LeftOn(c, m + 1) = IF LeaveAt(n) THEN LeftOn(c, m) \cup {Merged[n].prev} ELSE LeftOn(c, m)
    <3>1. \A j : j \in 1 .. m + 1 <=> j \in 1 .. m \/ j = m + 1
      OBVIOUS
    <3> QED
      BY <3>1 DEF LeftOn
  <2> QED
    BY <2>1, <2>2, <2>3
<1> HIDE DEF S
<1>4. Nat \subseteq S
  BY <1>2, <1>3, NatIsInductive
<1> QED
  BY <1>1, <1>4 DEF S

LEMMA WorkersMeet ==
    ASSUME KernelBasics, NEW c \in Cpus
    PROVE  Lists(Workers[c]["ctx"], LinesOn(CtxLines, c), MetRows, Less)
<1>1. PICK u : Watching(c, u)
  BY WorkersWatch
<1>2. /\ Len(streams[c]) \in Nat /\ Len(Merged) \in Nat
      /\ \A k \in 1 .. Len(streams[c]) : Place(c)[k] \in 1 .. Len(Merged) /\ Merged[Place(c)[k]].cpu = c
      /\ \A n \in 1 .. Len(Merged) : Merged[n].cpu = c => \E k \in 1 .. Len(streams[c]) : Place(c)[k] = n
      /\ \A i, k \in 1 .. Len(streams[c]) : i < k => Place(c)[i] < Place(c)[k]
  BY StreamLines, LineCpu
<1>3. ASSUME NEW k \in 1 .. Len(streams[c]), NEW n, n = Place(c)[k]
      PROVE  u[k]["ctx"] = IF n \in CtxLines THEN Append(u[k - 1]["ctx"], MetRows[n]) ELSE u[k - 1]["ctx"]
  <2>1. u[k].ctx = IF LeaveAt(n) /\ Merged[n].prev \notin SeenBy(u[k - 1])
                      THEN Append(u[k - 1].ctx, MetRow(n)) ELSE u[k - 1].ctx
    BY <1>1, <1>3, WorkerSeen
  <2>2. SeenBy(u[k - 1]) = LeftOn(c, k - 1)
    <3>1. k - 1 \in 0 .. Len(streams[c])
      BY <1>2
    <3> QED
      BY <1>1, <3>1, WorkerSeenIs
  <2>3. n \in 1 .. Len(Merged) /\ Merged[n].cpu = c
    BY <1>2, <1>3
  <2>4. ASSUME Merged[n].prev \in LeftOn(c, k - 1) PROVE n \notin CtxLines
    <3>1. PICK i \in 1 .. k - 1 : LeaveAt(Place(c)[i]) /\ Merged[n].prev = Merged[Place(c)[i]].prev
      BY <2>4 DEF LeftOn
    <3>2. i \in 1 .. Len(streams[c]) /\ i < k
      BY <1>2
    <3>3. Place(c)[i] \in 1 .. Len(Merged) /\ Place(c)[i] < n /\ Merged[Place(c)[i]].cpu = Merged[n].cpu
      BY <1>2, <1>3, <2>3, <3>2
    <3> QED
      BY <3>1, <3>3 DEF CtxLines
  <2>5. ASSUME LeaveAt(n), n \notin CtxLines PROVE Merged[n].prev \in LeftOn(c, k - 1)
    <3>1. PICK m \in 1 .. Len(Merged) : m < n /\ LeaveAt(m) /\ Merged[m].cpu = c /\ Merged[m].prev = Merged[n].prev
      BY <2>3, <2>5 DEF CtxLines
    <3>2. PICK i \in 1 .. Len(streams[c]) : Place(c)[i] = m
      BY <1>2, <3>1
    <3>3. i \in 1 .. k - 1
      <4>1. ~(k < i) /\ k # i
        <5>1. k < i => n < m
          BY <1>2, <1>3, <3>2
        <5>2. m < n /\ m \in Nat /\ n \in Nat
          BY <2>3, <3>1
        <5> QED
          BY <1>3, <3>2, <5>1, <5>2
      <4> QED
        BY <1>2, <4>1
    <3> QED
      BY <3>1, <3>2, <3>3 DEF LeftOn
  <2>6. n \in CtxLines => LeaveAt(n) /\ MetRows[n] = MetRow(n)
    BY DEF CtxLines, MetRows
  <2> QED
    BY <2>1, <2>2, <2>4, <2>5, <2>6
<1>4. Worker0["ctx"] = <<>> /\ CtxLines \subseteq 1 .. Len(Merged)
  BY DEF Worker0, CtxLines
<1> QED
  BY <1>1, <1>3, <1>4, WorkerLists

LEMMA AllMet ==
    ASSUME KernelBasics
    PROVE  Lists(Sorted(OfAll(Workers, "ctx"), "ts"), CtxLines, MetRows, Less)
<1>1. CtxLines \subseteq 1 .. Len(Merged) /\ \A n \in CtxLines : MetRows[n]["ts"] = Stamp(n)
  BY DEF CtxLines, MetRows, MetRow
<1> QED
  BY <1>1, WorkersMeet, AllLists

LEMMA FirstIsMet ==
    ASSUME KernelBasics, NEW n \in 1 .. Len(Merged), LeaveAt(n)
    PROVE  \E m \in CtxLines : m <= n /\ Merged[m].prev = Merged[n].prev
<1> DEFINE T == {m \in 1 .. Len(Merged) : LeaveAt(m) /\ Merged[m].prev = Merged[n].prev}
<1>0. Len(Merged) \in Nat
  BY LineCpu
<1>1. T \subseteq Nat /\ T # {} /\ n \in T
  BY <1>0
<1>2. PICK m \in T : \A j \in T : m <= j
  <2> HIDE DEF T
  <2> QED
    BY <1>1, LeastExists
<1>3. m \in CtxLines
  <2> SUFFICES ASSUME NEW j \in 1 .. Len(Merged), j < m, LeaveAt(j), Merged[j].prev = Merged[m].prev PROVE FALSE
    BY DEF CtxLines
  <2>1. j \in T
    OBVIOUS
  <2>2. m <= j /\ m \in Nat /\ j \in Nat
    BY <1>0, <1>2, <2>1
  <2> QED
    BY <2>2
<1> QED
  BY <1>1, <1>2, <1>3

LEMMA ProjectLists ==
    ASSUME NEW s, NEW A, NEW f, NEW W, Lists(s, A, f, W), NEW h, \A a \in A : h[a] = f[a].tid
    PROVE  Lists([k \in DOMAIN s |-> s[k].tid], A, h, W)
<1>1. PICK n, g : Enumerates(s, n, g, A, f) /\ Rising(n, g, W)
  BY DEF Lists
<1>2. n \in Nat /\ g \in [1 .. n -> A] /\ \A a \in A : \E k \in 1 .. n : g[k] = a
  BY <1>1 DEF Enumerates
<1>3. DOMAIN s = 1 .. n /\ \A k \in 1 .. n : g[k] \in A /\ s[k] = f[g[k]]
  BY <1>1, ListedIs
<1> DEFINE r == [k \in DOMAIN s |-> s[k].tid]
<1>4. r = [k \in 1 .. n |-> h[g[k]]]
  <2>1. \A k \in 1 .. n : s[k].tid = h[g[k]]
    BY <1>3
  <2> QED
    BY <1>3, <2>1
<1> HIDE DEF r
<1>5. Enumerates(r, n, g, A, h)
  BY <1>2, <1>4 DEF Enumerates
<1> QED
  BY <1>1, <1>5 DEF Lists, r

LEMMA ContextLists ==
    ASSUME KernelBasics
    PROVE  Lists(Context(Workers), FirstLines, FirstRows, Less)
<1> DEFINE all == Sorted(OfAll(Workers, "ctx"), "ts")
           mask == {i \in DOMAIN all : \A j \in 1 .. i - 1 : all[j].tid # all[i].tid}
           firsts == Kept(all, mask)
<1>0. Len(Merged) \in Nat
  BY LineCpu
<1>1. Context(Workers) = [k \in DOMAIN firsts |-> firsts[k].tid]
  BY DEF Context
<1>2. Lists(all, CtxLines, MetRows, Less)
  BY AllMet
<1> HIDE DEF all
<1>3. PICK n, g : Enumerates(all, n, g, CtxLines, MetRows) /\ Rising(n, g, Less)
  BY <1>2 DEF Lists
<1>4. n \in Nat /\ DOMAIN all = 1 .. n /\ \A k \in 1 .. n : g[k] \in CtxLines /\ all[k] = MetRows[g[k]]
  BY <1>3, ListedIs
<1>5. \A a \in CtxLines : \E k \in 1 .. n : g[k] = a
  BY <1>3 DEF Enumerates
<1>6. /\ \A a \in CtxLines : a \in 1 .. Len(Merged) /\ a \in Nat /\ LeaveAt(a) /\ MetRows[a].tid = Merged[a].prev
      /\ \A a \in FirstLines : a \in CtxLines
  BY <1>0 DEF CtxLines, FirstLines, MetRows, MetRow
<1>7. ASSUME NEW i \in 1 .. n, NEW k \in 1 .. n PROVE i < k <=> g[i] < g[k]
  <2>1. g[i] \in Nat /\ g[k] \in Nat
    BY <1>4, <1>6
  <2>2. i < k => g[i] < g[k]
    BY <1>3, <2>1, LessIs DEF Rising
  <2>3. k < i => g[k] < g[i]
    BY <1>3, <2>1, LessIs DEF Rising
  <2> QED
    BY <1>4, <2>1, <2>2, <2>3
<1>8. ASSUME NEW k \in 1 .. n PROVE all[k].tid = Merged[g[k]].prev
  <2>1. g[k] \in CtxLines /\ all[k] = MetRows[g[k]]
    BY <1>4
  <2> QED
    BY <1>6, <2>1
<1>9. Taken(g, mask, n) = FirstLines
  <2>1. ASSUME NEW x \in Taken(g, mask, n) PROVE x \in FirstLines
    <3>1. PICK k \in 1 .. n : k \in mask /\ x = g[k]
      BY DEF Taken
    <3>2. x \in CtxLines /\ x \in 1 .. Len(Merged) /\ LeaveAt(x)
      BY <1>4, <1>6, <3>1
    <3>3. ASSUME NEW m \in 1 .. Len(Merged), m < x, LeaveAt(m), Merged[m].prev = Merged[x].prev PROVE FALSE
      <4>1. PICK y \in CtxLines : y <= m /\ Merged[y].prev = Merged[m].prev
        BY <3>3, FirstIsMet
      <4>2. PICK j \in 1 .. n : g[j] = y
        BY <1>5
      <4>3. g[j] < g[k]
        BY <1>0, <1>6, <3>1, <3>2, <3>3, <4>1, <4>2
      <4>4. j \in 1 .. k - 1
        <5>1. j < k
          BY <1>7, <4>3
        <5> QED
          BY <1>4, <5>1
      <4>5. all[j].tid # all[k].tid
        BY <3>1, <4>4
      <4> QED
        BY <1>8, <3>1, <3>3, <4>1, <4>2, <4>5
    <3> QED
      BY <3>2, <3>3 DEF FirstLines
  <2>2. ASSUME NEW x \in FirstLines PROVE x \in Taken(g, mask, n)
    <3>1. x \in CtxLines
      BY <1>6
    <3>2. PICK k \in 1 .. n : g[k] = x
      BY <1>5, <3>1
    <3>3. ASSUME NEW j \in 1 .. k - 1 PROVE all[j].tid # all[k].tid
      <4>1. j \in 1 .. n /\ j < k
        BY <1>4
      <4>2. g[j] < x /\ g[j] \in 1 .. Len(Merged) /\ LeaveAt(g[j])
        BY <1>4, <1>6, <1>7, <3>2, <4>1
      <4>3. Merged[g[j]].prev # Merged[x].prev
        BY <4>2 DEF FirstLines
      <4> QED
        BY <1>8, <3>2, <4>1, <4>3
    <3>4. k \in mask
      BY <1>4, <3>3
    <3> QED
      BY <3>2, <3>4 DEF Taken
  <2> QED
    BY <2>1, <2>2
<1> HIDE DEF mask
<1>10. Lists(firsts, FirstLines, MetRows, Less)
  BY <1>3, <1>9, KeptLists
<1> HIDE DEF firsts
<1>11. \A a \in FirstLines : FirstRows[a] = MetRows[a].tid
  BY <1>6 DEF FirstRows
<1>12. Lists([k \in DOMAIN firsts |-> firsts[k].tid], FirstLines, FirstRows, Less)
  BY <1>10, <1>11, ProjectLists
<1> QED
  BY <1>1, <1>12

(* The threads that the sequential parser has met.                         *)
LEMMA MeetsMore ==
    ASSUME NEW p \in Parsers, NEW e \in KernelEvents, NEW ts \in Nat
    PROVE  /\ SeqLine(p, e, ts).ctx = IF e.kind = "switch" /\ e.prev # Idle /\ e.prev \notin ToSet(p.ctx)
                                         THEN Append(p.ctx, e.prev) ELSE p.ctx
           /\ ToSet(SeqLine(p, e, ts).ctx) =
                IF e.kind = "switch" /\ e.prev # Idle THEN ToSet(p.ctx) \cup {e.prev} ELSE ToSet(p.ctx)
<1>1. p.ctx \in Seq(Threads)
  BY DEF Parsers
<1>2. CASE e.kind # "switch"
  <2>1. SeqLine(p, e, ts).ctx = p.ctx
    BY <1>2, OthersMeet
  <2> QED
    BY <1>2, <2>1
<1>3. CASE e.kind = "switch"
  <2>1. SeqLine(p, e, ts).ctx = IF e.prev \in ToSet(p.ctx) \cup {Idle} THEN p.ctx ELSE Append(p.ctx, e.prev)
    BY <1>3, SwitchMeets
  <2>2. CASE e.prev \in ToSet(p.ctx) \cup {Idle}
    BY <1>3, <2>1, <2>2
  <2>3. CASE e.prev \notin ToSet(p.ctx) \cup {Idle}
    <3> DEFINE s == p.ctx
               r == Append(s, e.prev)
    <3>1. e.prev \in Threads
      <4>1. e.prev \in Tids
        BY <1>3 DEF KernelEvents
      <4> QED
        BY <2>3, <4>1, TidsAre
    <3>2. /\ s \in Seq(Threads) /\ Len(s) \in Nat /\ DOMAIN s = 1 .. Len(s) /\ DOMAIN r = 1 .. Len(s) + 1
          /\ (\A i \in 1 .. Len(s) : r[i] = s[i]) /\ r[Len(s) + 1] = e.prev
      BY <1>1, <3>1, AppendProperties
    <3>3. SeqLine(p, e, ts).ctx = r
      BY <2>1, <2>3
    <3> HIDE DEF s, r
    <3>4. ToSet(r) = ToSet(s) \cup {e.prev}
      <4>1. ASSUME NEW i \in DOMAIN r PROVE r[i] \in {s[j] : j \in DOMAIN s} \cup {e.prev}
        <5>1. i \in 1 .. Len(s) \/ i = Len(s) + 1
          BY <3>2
        <5> QED
          BY <3>2, <5>1
      <4>2. ASSUME NEW i \in DOMAIN s PROVE s[i] \in {r[j] : j \in DOMAIN r}
        <5>1. i \in DOMAIN r /\ r[i] = s[i]
          BY <3>2
        <5> QED
          BY <5>1
      <4>3. e.prev \in {r[j] : j \in DOMAIN r}
        <5>1. Len(s) + 1 \in DOMAIN r /\ r[Len(s) + 1] = e.prev
          BY <3>2
        <5> QED
          BY <5>1
      <4> QED
        BY <4>1, <4>2, <4>3 DEF ToSet
    <3> QED
      BY <1>3, <2>3, <3>3, <3>4 DEF r, s
  <2> QED
    BY <2>2, <2>3
<1> QED
  BY <1>2, <1>3

LEMMA LineMeets ==
    ASSUME MoveInv, NEW b, Reading(b), NEW n \in 1 .. Len(Merged)
    PROVE  /\ b[n].ctx = IF LeaveAt(n) /\ Merged[n].prev \notin ToSet(b[n - 1].ctx)
                            THEN Append(b[n - 1].ctx, Merged[n].prev) ELSE b[n - 1].ctx
           /\ ToSet(b[n].ctx) = IF LeaveAt(n) THEN ToSet(b[n - 1].ctx) \cup {Merged[n].prev} ELSE ToSet(b[n - 1].ctx)
<1> DEFINE p == b[n - 1]
           e == Merged[n]
           ts == Stamp(n)
<1>1. p \in Parsers /\ e \in KernelEvents /\ ts \in Nat /\ b[n] = SeqLine(p, e, ts)
  BY LineIs
<1>2. LeaveAt(n) <=> e.kind = "switch" /\ e.prev # Idle
  BY DEF LeaveAt, SwitchAt
<1> HIDE DEF p, e, ts
<1>3. /\ SeqLine(p, e, ts).ctx = IF e.kind = "switch" /\ e.prev # Idle /\ e.prev \notin ToSet(p.ctx)
                                    THEN Append(p.ctx, e.prev) ELSE p.ctx
      /\ ToSet(SeqLine(p, e, ts).ctx) =
            IF e.kind = "switch" /\ e.prev # Idle THEN ToSet(p.ctx) \cup {e.prev} ELSE ToSet(p.ctx)
  BY <1>1, MeetsMore
<1> QED
  BY <1>1, <1>2, <1>3 DEF p, e

LeftBy(n) == {Merged[i].prev : i \in {j \in 1 .. n : LeaveAt(j)}}

LEMMA MetIs ==
    ASSUME MoveInv, NEW b, Reading(b)
    PROVE  \A n \in 0 .. Len(Merged) : ToSet(b[n].ctx) = LeftBy(n)
<1> DEFINE N == Len(Merged)
           S == {n \in Nat : n <= N => ToSet(b[n].ctx) = LeftBy(n)}
<1>1. N \in Nat
  BY LineCpu DEF MoveInv
<1>2. 0 \in S
  <2>1. ToSet(b[0].ctx) = {}
    BY DEF Reading, Start0, ToSet
  <2>2. LeftBy(0) = {}
    BY DEF LeftBy
  <2> QED
    BY <2>1, <2>2
<1>3. ASSUME NEW m \in Nat, m \in S PROVE m + 1 \in S
  <2> SUFFICES ASSUME m + 1 <= N PROVE ToSet(b[m + 1].ctx) = LeftBy(m + 1)
    OBVIOUS
  <2>1. ToSet(b[m].ctx) = LeftBy(m) /\ m + 1 \in 1 .. N /\ (m + 1) - 1 = m
    BY <1>1, <1>3
  <2>2. ToSet(b[m + 1].ctx) = IF LeaveAt(m + 1) THEN ToSet(b[(m + 1) - 1].ctx) \cup {Merged[m + 1].prev}
                              ELSE ToSet(b[(m + 1) - 1].ctx)
    BY <2>1, LineMeets
  <2>3. LeftBy(m + 1) = IF LeaveAt(m + 1) THEN LeftBy(m) \cup {Merged[m + 1].prev} ELSE LeftBy(m)
    <3>1. \A j : j \in 1 .. m + 1 <=> j \in 1 .. m \/ j = m + 1
      OBVIOUS
    <3> QED
      BY <3>1 DEF LeftBy
  <2> QED
    BY <2>1, <2>2, <2>3
<1> HIDE DEF S
<1>4. Nat \subseteq S
  BY <1>2, <1>3, NatIsInductive
<1> QED
  BY <1>1, <1>4 DEF S

LEMMA SameContext ==
    ASSUME MoveInv, NEW b, Reading(b)
    PROVE  Parallel.ctx = Sequential.ctx
<1>0. KernelBasics /\ Len(Merged) \in Nat
  BY LineCpu DEF MoveInv
<1>1. Lists(Parallel.ctx, FirstLines, FirstRows, Less)
  <2>1. Parallel.ctx = Context(Workers)
    BY DEF Parallel
  <2> QED
    BY <1>0, <2>1, ContextLists
<1>2. FirstLines \subseteq 1 .. Len(Merged) /\ Start0["ctx"] = <<>>
  BY DEF FirstLines, Start0
<1>3. ASSUME NEW n \in 1 .. Len(Merged)
      PROVE  b[n]["ctx"] = IF n \in FirstLines THEN Append(b[n - 1]["ctx"], FirstRows[n]) ELSE b[n - 1]["ctx"]
  <2>1. b[n].ctx = IF LeaveAt(n) /\ Merged[n].prev \notin ToSet(b[n - 1].ctx)
                      THEN Append(b[n - 1].ctx, Merged[n].prev) ELSE b[n - 1].ctx
    BY LineMeets
  <2>2. ToSet(b[n - 1].ctx) = LeftBy(n - 1)
    <3>1. n - 1 \in 0 .. Len(Merged)
      BY <1>0
    <3> QED
      BY <3>1, MetIs
  <2>3. \A m : m \in 1 .. n - 1 <=> m \in 1 .. Len(Merged) /\ m < n
    BY <1>0
  <2>4. n \in FirstLines <=> LeaveAt(n) /\ Merged[n].prev \notin LeftBy(n - 1)
    BY <2>3 DEF FirstLines, LeftBy
  <2>5. n \in FirstLines => FirstRows[n] = Merged[n].prev
    BY DEF FirstRows
  <2> QED
    BY <2>1, <2>2, <2>4, <2>5
<1>4. Lists(Sequential["ctx"], FirstLines, FirstRows, Less)
  BY <1>2, <1>3, SequentialLists
<1> QED
  BY <1>1, <1>2, <1>4, SameColumns

LEMMA MoveInvSame == MoveInv => SameResult
<1> SUFFICES ASSUME MoveInv, StartsOnItsDay PROVE SameResult
  BY DEF SameResult
<1>1. PICK b : Reading(b)
  <2>1. \A i \in 1 .. Len(Merged) : SwitchAt(i) => Merged[i].prev # Merged[i].next
    BY LinesMove
  <2> QED
    BY <2>1, SequentialReads DEF MoveInv
<1>2. Parallel.on = Sequential.on /\ Parallel.wk = Sequential.wk
  BY <1>1, SameOnAndMarks
<1>3. Parallel.ctx = Sequential.ctx
  BY <1>1, SameContext
<1>4. ASSUME NEW t PROVE /\ OfThread(t, Parallel.off) = OfThread(t, Sequential.off)
                         /\ OfThread(t, Parallel.fx) = OfThread(t, Sequential.fx)
  BY <1>1, SameOff, SameFutex
<1> QED
  BY <1>2, <1>3, <1>4 DEF SameResult

(* "Same return value", ksched_parse_parallel.py:3: whatever the kernel     *)
(* session, however many CPUs, and whatever was discarded, a worker for     *)
(* each stream and the sorts and pairings behind them give what             *)
(* parse_kernel reads line by line.                                         *)
THEOREM SameResults == KernelSpec => []SameResult
<1>1. KernelInit => MoveInv
  BY MoveInvInit
<1>2. MoveInv /\ [KernelNext]_kernelVars => MoveInv'
  BY MoveInvKept
<1>3. MoveInv => SameResult
  BY MoveInvSame
<1> QED
  BY <1>1, <1>2, <1>3, PTL DEF KernelSpec
=============================================================================
