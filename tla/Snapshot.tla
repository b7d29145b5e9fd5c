------------------------------ MODULE Snapshot ------------------------------
(***************************************************************************)
(* What a session records of the running system besides its trace:         *)
(* python/fish/snapshot.py.  The collector thread of the daemon            *)
(* (LiveCollector) lists the nodes again and again, has workers ask every  *)
(* listed node for its description once, and lets a thread sweep the       *)
(* parameters (module ParamsFile).  At the stop the process of             *)
(* shutdown_snapshot lists, asks and sweeps again and merges what it gets  *)
(* into the same files.                                                    *)
(*                                                                         *)
(* In an explicit stop the script takes the shutdown snapshot first and    *)
(* stops the daemon afterwards; with auto_stop the daemon stops its        *)
(* collector and calls the script itself.  A node that is up answers or    *)
(* not; a command without an answer is given up after its timeout.  Files  *)
(* are sets of nodes; node_list.txt and node_info_all.json are read and    *)
(* written in one step each.  The samplers of topics, and the records of   *)
(* processes, threads and libraries, share nothing with these files.       *)
(***************************************************************************)
EXTENDS ParamsFile

CONSTANTS
    Early,      \* the nodes that are up when the collector starts
    Workers,    \* the threads of one batch of questions (num_workers)
    Modes,      \* the ways to stop: "explicit" and "auto"
    MaxPolls,   \* bound: the polls of the node list
    MaxDeaths   \* bound: the nodes that go before the system does

ASSUME SnapshotAssumption ==
    /\ IsFiniteSet(Nodes) /\ Early \subseteq Nodes
    /\ IsFiniteSet(Workers)
    /\ {"none", "free", "over"} \cap Nodes = {}
    /\ Modes \subseteq {"explicit", "auto"}
    /\ MaxPolls \in Nat /\ MaxDeaths \in Nat

VARIABLES
    unborn, up,     \* the nodes that have not come up yet, and those that are up
    pc,             \* where the collector thread is
    polls,          \* poll_count
    allNodes,       \* all_nodes
    allInfo,        \* the keys of all_info, which the workers share
    queue,          \* work_queue
    worker,         \* of each worker: "none", "free", "over" or the node it asks
    stopEvent,      \* _stop_event
    mode, stop,     \* how the session is stopped, and where the stop is
    seen,           \* shutdown_nodes, in the process of the shutdown snapshot
    merged, fresh,  \* its all_info: what it has read, and what is new
    todo,           \* the nodes it still asks
    nodeList,       \* node_list.txt
    infoFile,       \* node_info_all.json
    answered,       \* history: the nodes whose description anyone has got
    refused,        \* history: the nodes that did not answer the shutdown snapshot
    gaveUp          \* history: has a join run into its timeout?

worldVars == <<unborn, up>>
collectorVars == <<pc, polls, allNodes, allInfo, queue, worker>>
shutdownVars == <<seen, merged, fresh, todo>>
stopVars == <<stopEvent, mode, stop, shutdownVars>>
fileVars == <<nodeList, infoFile>>
historyVars == <<answered, refused, gaveUp>>
vars == <<sweepVars, unborn, up, pc, polls, allNodes, allInfo, queue, worker, stopEvent, mode, stop,
          shutdownVars, nodeList, infoFile, answered, refused, gaveUp>>

TypeOK ==
    /\ SweepTypeOK
    /\ unborn \subseteq Nodes /\ up \subseteq Nodes
    /\ pc \in {"poll", "wait", "batch", "join", "dump", "final", "over"}
    /\ polls \in 0..MaxPolls
    /\ allNodes \subseteq Nodes /\ allInfo \subseteq Nodes /\ queue \subseteq Nodes
    /\ worker \in [Workers -> {"none", "free", "over"} \cup Nodes]
    /\ stopEvent \in BOOLEAN /\ mode \in Modes
    /\ stop \in {"none", "event", "join", "list", "ask", "sweep", "exit", "over"}
    /\ seen \subseteq Nodes /\ merged \subseteq Nodes /\ fresh \subseteq Nodes /\ todo \subseteq Nodes
    /\ nodeList \subseteq Nodes /\ infoFile \subseteq Nodes
    /\ answered \subseteq Nodes /\ refused \subseteq Nodes /\ gaveUp \in BOOLEAN

Init ==
    /\ SweepInit
    /\ unborn = Nodes \ Early /\ up = Early
    /\ pc = "poll" /\ polls = 0
    /\ allNodes = {} /\ allInfo = {} /\ queue = {}
    /\ worker = [w \in Workers |-> "none"]
    /\ stopEvent = FALSE /\ mode \in Modes /\ stop = "none"
    /\ seen = {}  /\ merged = {} /\ fresh = {} /\ todo = {}
    /\ nodeList = {} /\ infoFile = {}
    /\ answered = {} /\ refused = {} /\ gaveUp = FALSE

(* The threads of the daemon end with it.                                  *)
DaemonUp == stop # "over"

-----------------------------------------------------------------------------
(* The application, until the stop begins: a node comes up and goes once.  *)
NodeUp(n) ==
    /\ n \in unborn /\ stop = "none"
    /\ unborn' = unborn \ {n} /\ up' = up \cup {n}
    /\ UNCHANGED <<sweepVars, collectorVars, stopVars, fileVars, historyVars>>

NodeDown(n) ==
    /\ n \in up /\ stop = "none"
    /\ Cardinality(Nodes \ (up \cup unborn)) < MaxDeaths
    /\ up' = up \ {n}
    /\ UNCHANGED <<unborn, sweepVars, collectorVars, stopVars, fileVars, historyVars>>

-----------------------------------------------------------------------------
(* The collector thread.  `ros2 node list', during which the stop event    *)
(* may be set, shows who is up, or nothing when it fails; the file holds   *)
(* all that was ever seen.  From the second poll on a thread sweeps the    *)
(* parameters, unless the last one is still at it.                         *)
Poll(some) ==
    /\ DaemonUp /\ pc = "poll" /\ polls < MaxPolls
    /\ pc' = IF polls + 1 = 2 THEN "batch" ELSE "wait"
    /\ polls' = polls + 1
    /\ allNodes' = allNodes \cup some
    /\ nodeList' = IF some = {} THEN nodeList ELSE allNodes'
    /\ IF polls + 1 >= 2 /\ ~stopEvent /\ sweep["daemon"] = "none"
       THEN ReadParams("daemon", allNodes')
       ELSE UNCHANGED sweepVars
    /\ UNCHANGED <<worldVars, allInfo, queue, worker, stopVars, infoFile, historyVars>>

(* _collect_all_node_info after the second poll: the nodes that nothing is *)
(* known of go to a queue, and a worker is started for each of the first.  *)
StartBatch ==
    /\ DaemonUp /\ pc = "batch"
    /\ LET work == allNodes \ allInfo IN
       IF work = {}
       THEN pc' = "wait" /\ UNCHANGED <<queue, worker>>
       ELSE /\ pc' = "join" /\ queue' = work
            /\ worker' = [w \in Workers |-> IF w <= Cardinality(work) THEN "free" ELSE "none"]
    /\ UNCHANGED <<sweepVars, worldVars, polls, allNodes, allInfo, stopVars, fileVars, historyVars>>

(* A worker takes a node, and puts none back when the stop event is set.   *)
Take(w) ==
    /\ DaemonUp /\ worker[w] = "free"
    /\ IF queue = {}
       THEN worker' = [worker EXCEPT ![w] = "over"] /\ UNCHANGED queue
       ELSE \E n \in queue :
              /\ queue' = queue \ {n}
              /\ worker' = [worker EXCEPT ![w] = IF stopEvent THEN "over" ELSE n]
    /\ UNCHANGED <<sweepVars, worldVars, pc, polls, allNodes, allInfo, stopVars, fileVars,
                   historyVars>>

(* `ros2 node info', and one without an answer.                            *)
Answer(w) ==
    /\ DaemonUp /\ worker[w] \in up
    /\ allInfo' = allInfo \cup {worker[w]} /\ answered' = answered \cup {worker[w]}
    /\ worker' = [worker EXCEPT ![w] = "free"]
    /\ UNCHANGED <<sweepVars, worldVars, pc, polls, allNodes, queue, stopVars, fileVars, gaveUp,
                   refused>>

NoAnswer(w) ==
    /\ DaemonUp /\ worker[w] \in Nodes
    /\ worker' = [worker EXCEPT ![w] = "free"]
    /\ UNCHANGED <<sweepVars, worldVars, pc, polls, allNodes, allInfo, queue, stopVars, fileVars,
                   historyVars>>

(* The collector waits 30 s for every worker; one that takes longer goes   *)
(* on, and what it gets is not in the file that is written now.            *)
JoinWorkers ==
    /\ DaemonUp /\ pc = "join"
    /\ pc' = "dump"
    /\ gaveUp' = (gaveUp \/ \E w \in Workers : worker[w] \notin {"none", "over"})
    /\ UNCHANGED <<sweepVars, worldVars, polls, allNodes, allInfo, queue, worker, stopVars, fileVars,
                   answered, refused>>

DumpInfo(from, to) ==
    /\ DaemonUp /\ pc = from
    /\ pc' = to
    /\ infoFile' = allInfo
    /\ UNCHANGED <<sweepVars, worldVars, polls, allNodes, allInfo, queue, worker, stopVars, nodeList,
                   historyVars>>

(* The pause between two polls.                                            *)
NextPoll ==
    /\ DaemonUp /\ pc = "wait" /\ ~stopEvent
    /\ pc' = "poll"
    /\ UNCHANGED <<sweepVars, worldVars, polls, allNodes, allInfo, queue, worker, stopVars, fileVars,
                   historyVars>>

(* Once the stop event is set.  When a node is missing another batch is    *)
(* started: its workers see the event before they ask, and the file is     *)
(* written again.                                                          *)
EndPolling ==
    /\ DaemonUp /\ pc = "wait" /\ stopEvent
    /\ pc' = IF allNodes \subseteq allInfo THEN "over" ELSE "final"
    /\ UNCHANGED <<sweepVars, worldVars, polls, allNodes, allInfo, queue, worker, stopVars, fileVars,
                   historyVars>>

Collect ==
    \/ \E some \in {up, {}} : Poll(some)
    \/ StartBatch \/ JoinWorkers
    \/ DumpInfo("dump", "wait") \/ NextPoll \/ EndPolling \/ DumpInfo("final", "over")

-----------------------------------------------------------------------------
(* The stop.  explicit: shutdown snapshot, then LiveCollector.stop in the  *)
(* daemon; auto: the other way round.                                      *)
StopGoto(from, to) == stop = from /\ stop' = to /\ UNCHANGED mode
AfterJoin == IF mode = "auto" THEN "list" ELSE "exit"
AfterRefresh == IF mode = "auto" THEN "exit" ELSE "event"

SetEvent ==
    /\ StopGoto(IF mode = "auto" THEN "none" ELSE "event", "join")
    /\ stopEvent' = TRUE
    /\ UNCHANGED <<sweepVars, worldVars, collectorVars, shutdownVars, fileVars, historyVars>>

SlipJoinCollector ==    \* slip: a join without a timeout
    /\ pc = "over"
    /\ StopGoto("join", AfterJoin)
    /\ UNCHANGED <<sweepVars, worldVars, collectorVars, stopEvent, shutdownVars, fileVars, historyVars>>

(* t.join(timeout=15)                                                      *)
JoinCollector ==
    /\ StopGoto("join", AfterJoin)
    /\ gaveUp' = (gaveUp \/ pc # "over")
    /\ UNCHANGED <<sweepVars, worldVars, collectorVars, stopEvent, shutdownVars, fileVars, answered,
                   refused>>

DaemonExit ==
    /\ StopGoto("exit", "over")
    /\ UNCHANGED <<sweepVars, worldVars, collectorVars, stopEvent, shutdownVars, fileVars, historyVars>>

(* _refresh_node_info: add who is up to the list, and read what is known.  *)
(* Nothing is merged when `ros2 node list' shows nothing.                  *)
ListAtStop(some) ==
    /\ StopGoto(IF mode = "auto" THEN "list" ELSE "none", IF some = {} THEN AfterRefresh ELSE "ask")
    /\ seen' = some
    /\ nodeList' = nodeList \cup some
    /\ merged' = infoFile /\ todo' = some \ infoFile
    /\ UNCHANGED <<sweepVars, worldVars, collectorVars, stopEvent, fresh, infoFile, historyVars>>

AskAtStop(n) ==
    /\ stop = "ask" /\ n \in todo
    /\ todo' = todo \ {n}
    /\ \/ /\ n \in up
          /\ fresh' = fresh \cup {n} /\ answered' = answered \cup {n} /\ UNCHANGED refused
       \/ refused' = refused \cup {n} /\ UNCHANGED <<fresh, answered>>
    /\ UNCHANGED <<sweepVars, worldVars, collectorVars, stopEvent, mode, stop, seen, merged, fileVars,
                   gaveUp>>

SlipWriteInfo ==    \* slip: what was read is not written again
    /\ todo = {}
    /\ StopGoto("ask", "sweep")
    /\ infoFile' = IF fresh = {} THEN infoFile ELSE fresh
    /\ ReadParams("shutdown", seen)
    /\ UNCHANGED <<worldVars, collectorVars, stopEvent, shutdownVars, nodeList, historyVars>>

(* The file is written when anything is new; then the parameters.          *)
WriteInfo ==
    /\ todo = {}
    /\ StopGoto("ask", "sweep")
    /\ infoFile' = IF fresh = {} THEN infoFile ELSE merged \cup fresh
    /\ ReadParams("shutdown", seen)
    /\ UNCHANGED <<worldVars, collectorVars, stopEvent, shutdownVars, nodeList, historyVars>>

EndRefresh ==
    /\ sweep["shutdown"] = "none"
    /\ StopGoto("sweep", AfterRefresh)
    /\ UNCHANGED <<sweepVars, worldVars, collectorVars, stopEvent, shutdownVars, fileVars, historyVars>>

Stop ==
    \/ SetEvent \/ JoinCollector \/ DaemonExit
    \/ \E some \in {up, {}} : ListAtStop(some)
    \/ \E n \in Nodes : AskAtStop(n)
    \/ WriteInfo \/ EndRefresh

Sweep(s) ==
    /\ s = "daemon" => DaemonUp
    /\ SweepStep(s, up)
    /\ UNCHANGED <<worldVars, collectorVars, stopVars, fileVars, historyVars>>

Next ==
    \/ \E n \in Nodes : NodeUp(n) \/ NodeDown(n)
    \/ Collect
    \/ \E w \in Workers : Take(w) \/ Answer(w) \/ NoAnswer(w)
    \/ Stop
    \/ \E s \in Sweepers : Sweep(s)

(* Only what a timeout bounds is sure to happen: the steps of the stop and *)
(* of its sweep.  The threads of the daemon may hang.                      *)
Spec ==
    Init /\ [][Next]_vars /\ WF_vars(stop # "none" /\ Stop) /\ WF_vars(Sweep("shutdown"))

-----------------------------------------------------------------------------
(* "Merging both gives the most complete picture" (_refresh_node_info): in *)
(* the end the files have every node that anyone has seen, and the         *)
(* description of every node that has given one or that was up at the stop *)
(* and answered, unless a thread was given up.                             *)
MergeIsComplete ==
    stop = "over" /\ ~gaveUp =>
        /\ allNodes \cup seen \subseteq nodeList
        /\ answered \cup (seen \ refused) \subseteq infoFile

(* That is so when the collector has been stopped before the merge.        *)
AutoStopMerges == mode = "auto" => MergeIsComplete

(* No node is left in the queue: as long as the session goes on, a worker  *)
(* is there that will come to it, however many questions have failed.      *)
QueueIsServed ==
    queue # {} /\ ~stopEvent => \E w \in Workers : worker[w] \notin {"none", "over"}

(* A stop comes to its end, whatever hangs in the daemon.                  *)
StopReturns == stop # "none" ~> stop = "over"
=============================================================================
