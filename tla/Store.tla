------------------------------- MODULE Store -------------------------------
(***************************************************************************)
(* The database of one recorded session and the programs that fill and     *)
(* read it: ingest_pg.py loads the session directory, model_improved_pg.py *)
(* saves the task graph, fish_viz_server.py (and the pipeline, through it) *)
(* keeps the callback windows of the session in gantt_spans for its views. *)
(* scripts/post_run_pipeline.sh runs them one after the other, each        *)
(* whatever became of the one before.                                      *)
(*                                                                         *)
(* A commit is one action; statements of connections in autocommit mode    *)
(* are one action each.  Rows are counted by where they come from: a part  *)
(* is what one loading transaction writes.  Babeltrace may end before the  *)
(* trace does; that is only logged, and the trace counts as loaded.        *)
(* gpu_info stands for all the metadata of a report.                       *)
(***************************************************************************)
EXTENDS Naturals, Sequences, FiniteSets

CONSTANTS
    NProcs,         \* bound: programs and requests, numbered as they are started
    NReports,       \* number of nsys reports
    GpuTables,      \* the tables of a report that are loaded side by side
    Missing,        \* the parts that the session directory does not have
    MayOverlap,     \* may a program be started while another one runs?
    MaxDeaths       \* bound: programs that are killed

(* The small files in their order: how each table takes a row that it has. *)
ProcessTree == <<[part |-> "process_tree", again |-> "twice"],
                 [part |-> "process_tree_threads", again |-> "error"]>>
NodeInfo == <<[part |-> "node_info", again |-> "once"]>>
TopicInfo == <<[part |-> "topic_info", again |-> "once"]>>
TopicHz == <<[part |-> "topic_hz", again |-> "twice"]>>
ComponentList == <<[part |-> "component_list", again |-> "once"]>>
NodeList == <<[part |-> "node_list", again |-> "once"]>>
FishEvents == <<[part |-> "fish_events", again |-> "twice"]>>
Small == ProcessTree \o NodeInfo \o TopicInfo \o TopicHz \o ComponentList \o NodeList \o FishEvents

Procs == 1..NProcs
Reports == 1..NReports
Trace == <<"ros2_trace", 0>>
Metadata(f) == <<"gpu_info", f>>
SmallParts == {<<Small[i].part, 0>> : i \in DOMAIN Small}
Parts == SmallParts \cup {Trace} \cup (GpuTables \X Reports) \cup {Metadata(f) : f \in Reports}

ASSUME StoreAssumption ==
    /\ NProcs \in Nat /\ NReports \in Nat /\ "gpu_info" \notin GpuTables
    /\ Missing \subseteq Parts \ {Metadata(f) : f \in Reports} /\ MayOverlap \in BOOLEAN /\ MaxDeaths \in Nat

VARIABLES
    session,    \* the row of the session: the ingest that registered it, or Nobody
    rows,       \* how many times each part is in the database
    graph,      \* the saved graph, or NoGraph
    spans,      \* the fillings of gantt_spans
    meta,       \* the row of gantt_meta: the filling that it describes, or NoSpans
    page,       \* the file of the viewer's cache: the fillings it shows, or NoPage
    cmd, pc,    \* what each program is, and where
    at,         \* the next small file of an ingest
    ros,        \* its thread for the trace: "busy", "loaded" or "failed"
    nsys,       \* its thread for the reports, and what sqlite would not read of them
    said,       \* what the ingest has logged at its end
    got,        \* what a program has read
    swept,      \* has a program removed all windows, or seen that there are none?
    deaths

storeVars == <<session, rows, graph, spans, meta, page>>
vars == <<session, rows, graph, spans, meta, page, cmd, pc, at, ros, nsys, said, got, swept, deaths>>

Nobody == 0
NoGraph == [by |-> Nobody, of |-> Nobody, threads |-> FALSE]
NoSpans == [by |-> Nobody, of |-> Nobody, graph |-> Nobody]
NoPage == {NoSpans}
Nothing == [of |-> Nobody, exists |-> FALSE, filled |-> NoSpans, shown |-> {}]
NoReport == [report |-> 1, phase |-> "open", left |-> {}, passed |-> {}, failed |-> FALSE]
Commands == {"pipeline", "ingest", "model", "view"}

Labels == {"idle", "exists", "clean", "delete", "register", "small", "big", "extract", "look", "save",
           "meta", "fill", "note", "threads", "page", "rows", "keep", "over", "dead"}
Someone == Procs \cup {Nobody}
Fillings == [by : Someone, of : Someone, graph : Someone]
Readings == [of : Someone, exists : BOOLEAN, filled : Fillings, shown : SUBSET Fillings]
ReportStates == [report : Nat \ {0}, phase : {"open", "tables", "failed"}, left : SUBSET GpuTables,
                 passed : SUBSET ((GpuTables \cup {"gpu_info"}) \X (Nat \ {0})), failed : BOOLEAN]

TypeOK ==
    /\ session \in Someone /\ rows \in [Parts -> Nat]
    /\ graph \in [by : Someone, of : Someone, threads : BOOLEAN]
    /\ spans \subseteq Fillings /\ meta \in Fillings /\ page \subseteq Fillings
    /\ cmd \in [Procs -> Commands \cup {"none"}] /\ pc \in [Procs -> Labels]
    /\ at \in [Procs -> 1..(Len(Small) + 1)]
    /\ ros \in [Procs -> {"busy", "loaded", "failed"}]
    /\ nsys \in [Procs -> ReportStates]
    /\ said \in [Procs -> {"nothing", "skipped", "failed", "errors", "done"}]
    /\ got \in [Procs -> Readings] /\ swept \in [Procs -> BOOLEAN]
    /\ deaths \in 0..MaxDeaths

Init ==
    /\ session = Nobody /\ rows = [x \in Parts |-> 0] /\ graph = NoGraph
    /\ spans = {} /\ meta = NoSpans /\ page = NoPage
    /\ cmd = [p \in Procs |-> "none"] /\ pc = [p \in Procs |-> "idle"]
    /\ at = [p \in Procs |-> 1] /\ ros = [p \in Procs |-> "busy"]
    /\ nsys = [p \in Procs |-> NoReport] /\ said = [p \in Procs |-> "nothing"]
    /\ got = [p \in Procs |-> Nothing]
    /\ swept = [p \in Procs |-> FALSE] /\ deaths = 0

Go(p, label) == pc' = [pc EXCEPT ![p] = label]

(* What a program holds in memory ends with it. *)
Forget(p) ==
    /\ at' = [at EXCEPT ![p] = 1] /\ ros' = [ros EXCEPT ![p] = "busy"]
    /\ nsys' = [nsys EXCEPT ![p] = NoReport] /\ got' = [got EXCEPT ![p] = Nothing]

Quiet(p) == \A q \in Procs \ {p} : pc[q] \in {"idle", "over", "dead"}

(* The viewer answers for any session, one that is not in the database too. *)
Begin(p, c) ==
    /\ pc[p] = "idle" /\ \A q \in Procs : q < p => pc[q] # "idle"
    /\ MayOverlap \/ Quiet(p)
    /\ cmd' = [cmd EXCEPT ![p] = c]
    /\ Go(p, CASE c \in {"pipeline", "ingest"} -> "exists" [] c = "model" -> "extract" [] c = "view" -> "page")
    /\ UNCHANGED <<storeVars, at, ros, nsys, said, got, swept, deaths>>

Die(p) ==
    /\ pc[p] \notin {"idle", "over", "dead"} /\ deaths < MaxDeaths
    /\ Go(p, "dead") /\ deaths' = deaths + 1 /\ Forget(p)
    /\ UNCHANGED <<storeVars, cmd, said, swept>>

-----------------------------------------------------------------------------
(* ingest_session                                                          *)
ingestVars == <<cmd, at, ros, nsys, got, deaths>>

(* The end of an ingest; the pipeline goes on to the model in any case. *)
IngestEnds(p, words) ==
    /\ said' = [said EXCEPT ![p] = words] /\ Forget(p)
    /\ Go(p, IF cmd[p] = "pipeline" THEN "extract" ELSE "over")

(* Only the pipeline says --force. *)
Exists(p) ==
    /\ pc[p] = "exists"
    /\ \/ /\ session = Nobody /\ Go(p, "register")
          /\ swept' = [swept EXCEPT ![p] = (spans = {} /\ meta = NoSpans)]
          /\ UNCHANGED <<said, ingestVars>>
       \/ session # Nobody /\ cmd[p] = "pipeline" /\ Go(p, "clean") /\ UNCHANGED <<said, swept, ingestVars>>
       \/ session # Nobody /\ cmd[p] # "pipeline" /\ IngestEnds(p, "skipped") /\ UNCHANGED <<swept, cmd, deaths>>
    /\ UNCHANGED storeVars

(* There is no such directory, or the database does not answer. *)
IngestFails(p) ==
    /\ pc[p] \in {"exists", "delete", "register"}
    /\ IngestEnds(p, "failed")
    /\ UNCHANGED <<storeVars, swept, cmd, deaths>>

(* Slip: the meta row is removed and the spans stay. *)
SlipCleanSpans(p) ==
    /\ pc[p] = "clean"
    /\ meta' = NoSpans /\ swept' = [swept EXCEPT ![p] = TRUE]
    /\ Go(p, "delete")
    /\ UNCHANGED <<session, rows, graph, spans, page, said, ingestVars>>

(* No foreign key takes the spans along; they are removed by name, in one   *)
(* transaction.  When that fails the session is deleted all the same.       *)
CleanSpans(p) ==
    /\ pc[p] = "clean"
    /\ \/ spans' = {} /\ meta' = NoSpans /\ swept' = [swept EXCEPT ![p] = TRUE]
       \/ UNCHANGED <<spans, meta, swept>>
    /\ Go(p, "delete")
    /\ UNCHANGED <<session, rows, graph, page, said, ingestVars>>

(* Slip: the tables of the report lack the cascade. *)
SlipDeleteSession(p) ==
    /\ pc[p] = "delete"
    /\ session' = Nobody /\ graph' = NoGraph
    /\ rows' = [x \in Parts |-> IF x[1] \in GpuTables THEN rows[x] ELSE 0]
    /\ Go(p, "register")
    /\ UNCHANGED <<spans, meta, page, said, swept, ingestVars>>

(* ON DELETE CASCADE *)
DeleteSession(p) ==
    /\ pc[p] = "delete"
    /\ session' = Nobody /\ graph' = NoGraph /\ rows' = [x \in Parts |-> 0]
    /\ Go(p, "register")
    /\ UNCHANGED <<spans, meta, page, said, swept, ingestVars>>

RegisterSession(p) ==
    /\ pc[p] = "register"
    /\ session' = p
    /\ Go(p, "small")
    /\ UNCHANGED <<rows, graph, spans, meta, page, said, swept, ingestVars>>

(* One transaction, which needs the row of the session; a part that is not *)
(* there is skipped.                                                        *)
Adds(x, again) == IF x \in Missing \/ (again = "once" /\ rows[x] > 0) THEN 0 ELSE 1
Load(x, again) ==
    /\ x \notin Missing => session # Nobody /\ (again = "error" => rows[x] = 0)
    /\ rows' = [rows EXCEPT ![x] = @ + Adds(x, again)]

LoadSmall(p) ==
    /\ pc[p] = "small" /\ at[p] <= Len(Small)
    /\ Load(<<Small[at[p]].part, 0>>, Small[at[p]].again)
    /\ at' = [at EXCEPT ![p] = @ + 1]
    /\ UNCHANGED <<session, graph, spans, meta, page, cmd, pc, ros, nsys, said, got, swept, deaths>>

(* A file that cannot be read, or a row that does not fit, ends the ingest. *)
SmallFails(p) ==
    /\ pc[p] = "small" /\ at[p] <= Len(Small) /\ <<Small[at[p]].part, 0>> \notin Missing
    /\ IngestEnds(p, "failed")
    /\ UNCHANGED <<storeVars, swept, cmd, deaths>>

StartThreads(p) ==
    /\ pc[p] = "small" /\ at[p] > Len(Small)
    /\ Go(p, "big")
    /\ UNCHANGED <<storeVars, said, swept, ingestVars>>

LoadTrace(p) ==
    /\ pc[p] = "big" /\ ros[p] = "busy"
    /\ \/ Load(Trace, "twice") /\ ros' = [ros EXCEPT ![p] = "loaded"]
       \/ UNCHANGED rows /\ ros' = [ros EXCEPT ![p] = "failed"]
    /\ UNCHANGED <<session, graph, spans, meta, page, cmd, pc, at, nsys, said, got, swept, deaths>>

NsysAt(p, phase) == pc[p] = "big" /\ nsys[p].phase = phase
Nsys(p, s) == nsys' = [nsys EXCEPT ![p] = s]
nsysSame == <<session, graph, spans, meta, page, cmd, pc, at, ros, said, got, swept, deaths>>

OpenReport(p) ==
    LET n == nsys[p]
    IN /\ NsysAt(p, "open") /\ n.report \in Reports
       /\ \/ Nsys(p, [n EXCEPT !.phase = "tables", !.left = GpuTables])
          \/ Nsys(p, [n EXCEPT !.phase = "failed"])
       /\ UNCHANGED rows /\ UNCHANGED nsysSame

(* The tables of a report, each in a transaction of its own, in any order.  *)
(* One that sqlite does not count the rows of is taken for absent, whatever *)
(* the reason: it is locked, or cannot be read.                             *)
LoadTable(p, t) ==
    LET n == nsys[p]
        x == <<t, n.report>>
    IN /\ NsysAt(p, "tables") /\ t \in n.left
       /\ \/ Load(x, "twice") /\ Nsys(p, [n EXCEPT !.left = @ \ {t}])
          \/ /\ x \notin Missing /\ UNCHANGED rows
             /\ Nsys(p, [n EXCEPT !.left = @ \ {t}, !.passed = @ \cup {x}])
       /\ UNCHANGED nsysSame

(* Slip: nobody asks for the result. *)
SlipTableFails(p, t) ==
    LET n == nsys[p]
    IN /\ NsysAt(p, "tables") /\ t \in n.left
       /\ Nsys(p, [n EXCEPT !.left = @ \ {t}])
       /\ UNCHANGED rows /\ UNCHANGED nsysSame

TableFails(p, t) ==
    LET n == nsys[p]
    IN /\ NsysAt(p, "tables") /\ t \in n.left
       /\ Nsys(p, [n EXCEPT !.left = @ \ {t}, !.failed = TRUE])
       /\ UNCHANGED rows /\ UNCHANGED nsysSame

(* The pool is left when every table has ended.  The metadata of a report   *)
(* replaces that of the one before, unless sqlite does not read it, and     *)
(* what comes after gpu_info may still fail.                                *)
EndReport(p) ==
    LET n == nsys[p]
        x == Metadata(n.report)
    IN /\ NsysAt(p, "tables") /\ n.left = {}
       /\ \/ /\ ~n.failed /\ session # Nobody
             /\ rows' = [y \in Parts |-> IF y[1] # "gpu_info" THEN rows[y] ELSE IF y = x THEN 1 ELSE 0]
             /\ \/ Nsys(p, [n EXCEPT !.report = @ + 1, !.phase = "open"])
                \/ Nsys(p, [n EXCEPT !.phase = "failed"])
          \/ /\ ~n.failed /\ UNCHANGED rows
             /\ Nsys(p, [n EXCEPT !.report = @ + 1, !.phase = "open", !.passed = @ \cup {x}])
          \/ UNCHANGED rows /\ Nsys(p, [n EXCEPT !.phase = "failed"])
       /\ UNCHANGED nsysSame

NsysOver(p) == nsys[p].phase = "failed" \/ (nsys[p].phase = "open" /\ nsys[p].report > NReports)

(* Both threads are joined; errors are logged and nothing else.  The start  *)
(* and the end of the session are looked up then, which may fail.           *)
Join(p) ==
    /\ pc[p] = "big" /\ ros[p] # "busy" /\ NsysOver(p)
    /\ \/ IngestEnds(p, IF ros[p] = "failed" \/ nsys[p].phase = "failed" THEN "errors" ELSE "done")
       \/ IngestEnds(p, "failed")
    /\ UNCHANGED <<storeVars, swept, cmd, deaths>>

-----------------------------------------------------------------------------
(* model_improved_pg.extract and save_graph                                *)
ModelEnds(p) == Go(p, IF cmd[p] = "pipeline" THEN "meta" ELSE "over")
Read(p, g) == got' = [got EXCEPT ![p] = g]
readSame == <<cmd, at, ros, nsys, said, swept, deaths>>

Extract(p) ==
    /\ pc[p] = "extract"
    /\ \/ Read(p, [got[p] EXCEPT !.of = session]) /\ Go(p, "look")
       \/ UNCHANGED got /\ ModelEnds(p)
    /\ UNCHANGED <<storeVars, readSame>>

GraphExists(p) ==
    /\ pc[p] = "look"
    /\ Read(p, [got[p] EXCEPT !.exists = graph # NoGraph]) /\ Go(p, "save")
    /\ UNCHANGED <<storeVars, readSame>>

(* Nodes, edges and the meta row in one transaction; without a session, or  *)
(* over a graph that was not there a moment ago, it fails.                  *)
SaveGraph(p) ==
    /\ pc[p] = "save"
    /\ graph' = IF session # Nobody /\ (graph # NoGraph => got[p].exists)
                   THEN [by |-> p, of |-> got[p].of, threads |-> FALSE] ELSE graph
    /\ Read(p, Nothing) /\ ModelEnds(p)
    /\ UNCHANGED <<session, rows, spans, meta, page, readSame>>

-----------------------------------------------------------------------------
(* _ensure_gantt_spans, in autocommit mode                                 *)
SpansEnd(p) == Go(p, IF cmd[p] = "pipeline" THEN "threads" ELSE "rows")

HasMeta(p) ==
    /\ pc[p] = "meta"
    /\ IF meta = NoSpans THEN Go(p, "fill") ELSE SpansEnd(p)
    /\ UNCHANGED <<storeVars, got, readSame>>

FillSpans(p) ==
    LET filled == [by |-> p, of |-> session, graph |-> graph.by]
    IN /\ pc[p] = "fill"
       /\ spans' = spans \cup {filled} /\ Read(p, [got[p] EXCEPT !.filled = filled])
       /\ Go(p, "note")
       /\ UNCHANGED <<session, rows, graph, meta, page, readSame>>

WriteMeta(p) ==
    /\ pc[p] = "note" /\ meta = NoSpans
    /\ meta' = got[p].filled /\ SpansEnd(p)
    /\ Read(p, Nothing)
    /\ UNCHANGED <<session, rows, graph, spans, page, readSame>>

(* A statement fails, a second row of meta among others: what was committed *)
(* stays, the pipeline goes on, a request is answered 500.                  *)
SpansFail(p) ==
    /\ pc[p] \in {"meta", "fill", "note"}
    /\ Go(p, IF cmd[p] = "pipeline" THEN "threads" ELSE "over") /\ Read(p, Nothing)
    /\ UNCHANGED <<storeVars, readSame>>

(* attach_thread_attrs: into the graph's rows, if the snapshot has them. *)
AttachThreads(p) ==
    /\ pc[p] = "threads"
    /\ graph' \in {graph, [graph EXCEPT !.threads = graph # NoGraph]}
    /\ Go(p, "over")
    /\ UNCHANGED <<session, rows, spans, meta, page, got, readSame>>

-----------------------------------------------------------------------------
(* _serve_gantt_data: a page of the whole session is kept in a file; one of *)
(* a window or a process is not.                                            *)
FromFile(p) ==
    /\ pc[p] = "page" /\ page # NoPage
    /\ Go(p, "over")
    /\ UNCHANGED <<storeVars, got, readSame>>

NotFromFile(p) ==
    /\ pc[p] = "page"
    /\ Go(p, "meta")
    /\ UNCHANGED <<storeVars, got, readSame>>

ReadRows(p) ==
    /\ pc[p] = "rows"
    /\ \/ Read(p, [got[p] EXCEPT !.shown = spans]) /\ Go(p, "keep")
       \/ UNCHANGED got /\ Go(p, "over")
    /\ UNCHANGED <<storeVars, readSame>>

KeepPage(p) ==
    /\ pc[p] = "keep"
    /\ page' = got[p].shown
    /\ Read(p, Nothing) /\ Go(p, "over")
    /\ UNCHANGED <<session, rows, graph, spans, meta, readSame>>

-----------------------------------------------------------------------------
Ingest(p) ==
    \/ Exists(p) \/ IngestFails(p) \/ CleanSpans(p) \/ DeleteSession(p) \/ RegisterSession(p)
    \/ LoadSmall(p) \/ SmallFails(p) \/ StartThreads(p) \/ LoadTrace(p) \/ OpenReport(p)
    \/ \E t \in GpuTables : LoadTable(p, t) \/ TableFails(p, t)
    \/ EndReport(p) \/ Join(p)
Model(p) == Extract(p) \/ GraphExists(p) \/ SaveGraph(p)
Spans(p) == HasMeta(p) \/ FillSpans(p) \/ WriteMeta(p) \/ SpansFail(p) \/ AttachThreads(p)
View(p) == FromFile(p) \/ NotFromFile(p) \/ ReadRows(p) \/ KeepPage(p)

Next == \E p \in Procs :
    \/ \E c \in Commands : Begin(p, c)
    \/ Die(p) \/ Ingest(p) \/ Model(p) \/ Spans(p) \/ View(p)

Spec == Init /\ [][Next]_vars
-----------------------------------------------------------------------------
(* No part of the session directory is in the database twice, however many  *)
(* ingests have failed or been killed half-way: pg_store.delete_session     *)
(* takes all of it along before it is loaded again.                         *)
PartsOnce == \A x \in Parts : rows[x] <= 1

(* An ingest that logs DONE without errors has loaded every part, those of  *)
(* the threads and of their pools included, but for those that sqlite would *)
(* not read when it was asked for them; of the reports' metadata it keeps   *)
(* the last.                                                                *)
Counted(R, x) == R[x] = 1 \/ \E f, g \in Reports : f < g /\ x = Metadata(f) /\ R[Metadata(g)] = 1

DoneIsWhole ==
    [][\A p \in Procs : said[p] # "done" /\ said'[p] = "done" =>
          \A x \in Parts \ (Missing \cup nsys[p].passed) : Counted(rows', x)]_vars

(* "surface errors immediately" (ingest_pg.py:1299): an OperationalError of  *)
(* sqlite is passed over, and DONE is logged without the part.               *)
EveryErrorShows ==
    [][\A p \in Procs : said[p] # "done" /\ said'[p] = "done" =>
          \A x \in Parts \ Missing : Counted(rows', x)]_vars

(* When the pipeline has come to its end and the callback windows that all  *)
(* the analyses read count as built, they are those of this session's rows  *)
(* and of the graph saved last, each of them once: nothing of an earlier    *)
(* ingest, of a killed or failed build or of a view in between is left.     *)
(* That is so when its ingest removed the windows or there were none; it    *)
(* does not when it fails before that or while it tries, and it does not    *)
(* look for any when the session has no row.                                *)
CurrentWindows(S, m, s, g) ==
    /\ S = {m} /\ m.of = s /\ m.graph = g.by
    /\ g # NoGraph => g.of = s

SpansAreCurrent ==
    [][\A p \in Procs :
          cmd[p] = "pipeline" /\ pc[p] # "over" /\ pc'[p] = "over" /\ swept[p] /\ meta' # NoSpans =>
             CurrentWindows(spans', meta', session', graph')]_vars

(* The same of every pipeline, whatever became of its ingest. *)
EveryPipelineRebuilds ==
    [][\A p \in Procs : cmd[p] = "pipeline" /\ pc[p] # "over" /\ pc'[p] = "over" /\ meta' # NoSpans =>
          CurrentWindows(spans', meta', session', graph')]_vars

(* docs/pipeline.md, on the viewer: "it survives model rebuilds - reload the *)
(* page".  A page from the file shows what the database has.                 *)
PageIsCurrent ==
    [][\A p \in Procs : pc[p] = "page" /\ pc'[p] = "over" => page = spans /\ meta.graph = graph.by]_vars
=============================================================================
