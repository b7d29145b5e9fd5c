----------------------------- MODULE ParamsFile -----------------------------
(***************************************************************************)
(* capture_params of python/fish/snapshot.py: read params.json, ask the    *)
(* nodes that it lacks for their parameters, merge, and replace the file   *)
(* through params.json.tmp.  A thread of the daemon does it after every    *)
(* poll of the node list and the process of the shutdown snapshot does it  *)
(* once; both use the same two paths.                                      *)
(*                                                                         *)
(* A file is the set of the nodes it has parameters of; it is torn when it *)
(* is no JSON, as is one that has been opened for writing and not been     *)
(* written yet.  A sweeper that has the temporary file open goes on        *)
(* writing to it when the other one has moved it over params.json.  What   *)
(* two sweepers have written into one file is the later text, or Torn when *)
(* a rest of the longer one sticks out.                                    *)
(***************************************************************************)
EXTENDS Naturals, FiniteSets

CONSTANTS
    Nodes       \* the ROS 2 nodes that may be asked

Sweepers == {"daemon", "shutdown"}

(* The content of a file.                                                  *)
Json(nodes) == [kind |-> "json", nodes |-> nodes]
Torn == [kind |-> "torn", nodes |-> {}]
Absent == [kind |-> "absent", nodes |-> {}]
Contents == [kind : {"json", "torn", "absent"}, nodes : SUBSET Nodes]

VARIABLES
    sweep,      \* of each sweeper: where capture_params is
    asked,      \* todo: the nodes it asks
    found,      \* allp: the nodes whose parameters it holds
    handle,     \* what its open file is by now: "none", "tmp" or "params"
    params,     \* params.json
    tmp,        \* params.json.tmp
    overlap     \* history: have two sweeps been under way at the same time?

sweepVars == <<sweep, asked, found, handle, params, tmp, overlap>>

SweepTypeOK ==
    /\ sweep \in [Sweepers -> {"none", "read", "ask", "open", "dump", "replace"}]
    /\ asked \in [Sweepers -> SUBSET Nodes]
    /\ found \in [Sweepers -> SUBSET Nodes]
    /\ handle \in [Sweepers -> {"none", "tmp", "params"}]
    /\ params \in Contents /\ tmp \in Contents
    /\ overlap \in BOOLEAN

SweepInit ==
    /\ sweep = [s \in Sweepers |-> "none"]
    /\ asked = [s \in Sweepers |-> {}] /\ found = [s \in Sweepers |-> {}]
    /\ handle = [s \in Sweepers |-> "none"]
    /\ params = Absent /\ tmp = Absent
    /\ overlap = FALSE

Other(s) == CHOOSE o \in Sweepers : o # s

(* s returns, and forgets what it held.                                    *)
Leave(s) ==
    /\ sweep' = [sweep EXCEPT ![s] = "none"]
    /\ asked' = [asked EXCEPT ![s] = {}] /\ found' = [found EXCEPT ![s] = {}]
    /\ handle' = [handle EXCEPT ![s] = "none"]

-----------------------------------------------------------------------------
(* Operators named Slip... are plausible slips in the code; no action uses *)
(* them, they show that the properties notice.  This one starts from an    *)
(* empty file instead of merging.                                          *)
SlipReadParams(s, nodes) ==
    /\ sweep[s] = "none"
    /\ asked' = [asked EXCEPT ![s] = nodes]
    /\ sweep' = [sweep EXCEPT ![s] = "ask"]
    /\ overlap' = (overlap \/ sweep[Other(s)] # "none")
    /\ UNCHANGED <<found, handle, params, tmp>>

(* A call of capture_params, to the point where it knows whom to ask: an   *)
(* unreadable file is left alone, and nothing happens when nobody is new.  *)
ReadParams(s, nodes) ==
    /\ sweep[s] = "none"
    /\ IF params = Torn \/ nodes \subseteq params.nodes
       THEN UNCHANGED <<sweep, asked, found, overlap>>
       ELSE /\ asked' = [asked EXCEPT ![s] = nodes \ params.nodes]
            /\ found' = [found EXCEPT ![s] = params.nodes]
            /\ sweep' = [sweep EXCEPT ![s] = "ask"]
            /\ overlap' = (overlap \/ sweep[Other(s)] # "none")
    /\ UNCHANGED <<handle, params, tmp>>

(* The sweep over the nodes, with the services of those in got answering.  *)
AskParams(s, got) ==
    /\ sweep[s] = "ask" /\ got \subseteq asked[s]
    /\ IF got = {}
       THEN Leave(s)
       ELSE /\ sweep' = [sweep EXCEPT ![s] = "open"]
            /\ found' = [found EXCEPT ![s] = @ \cup got]
            /\ asked' = [asked EXCEPT ![s] = {}]
            /\ UNCHANGED handle
    /\ UNCHANGED <<params, tmp, overlap>>

(* open(tmp, "w") empties a file that is there already, under whatever     *)
(* name the other sweeper has it open.                                     *)
OpenTmp(s) ==
    /\ sweep[s] = "open"
    /\ sweep' = [sweep EXCEPT ![s] = "dump"]
    /\ handle' = [handle EXCEPT ![s] = "tmp"]
    /\ tmp' = Torn
    /\ UNCHANGED <<asked, found, params, overlap>>

(* json.dump into what the handle is now.  A file that is not empty has    *)
(* been written by the other one since s has opened it.                    *)
Written(s, before) == IF before = Torn THEN {Json(found[s])} ELSE {Json(found[s]), Torn}

Dump(s) ==
    /\ sweep[s] = "dump"
    /\ sweep' = [sweep EXCEPT ![s] = "replace"]
    /\ \/ handle[s] = "tmp" /\ tmp' \in Written(s, tmp) /\ UNCHANGED params
       \/ handle[s] = "params" /\ params' \in Written(s, params) /\ UNCHANGED tmp
       \/ handle[s] = "none" /\ UNCHANGED <<params, tmp>>
    /\ handle' = [handle EXCEPT ![s] = "none"]
    /\ UNCHANGED <<asked, found, overlap>>

(* os.replace; without a temporary file it raises, which ends the call.    *)
Replace(s) ==
    /\ sweep[s] = "replace"
    /\ sweep' = [sweep EXCEPT ![s] = "none"]
    /\ asked' = [asked EXCEPT ![s] = {}] /\ found' = [found EXCEPT ![s] = {}]
    /\ IF tmp = Absent
       THEN UNCHANGED <<handle, params, tmp>>
       ELSE /\ params' = tmp /\ tmp' = Absent
            /\ handle' = [o \in Sweepers |-> IF handle[o] = "tmp" THEN "params" ELSE "none"]
    /\ UNCHANGED overlap

SweepStep(s, up) ==
    \/ \E got \in {asked[s] \cap up, {}} : AskParams(s, got)
    \/ OpenTmp(s) \/ Dump(s) \/ Replace(s)

-----------------------------------------------------------------------------
(* "writes atomically; never clobbers a file it could not read": as long   *)
(* as no two sweeps are under way together, params.json is readable and    *)
(* loses no node, whoever dies when.                                       *)
ParamsOnlyGrow == [][~overlap' => params' # Torn /\ params.nodes \subseteq params'.nodes]_params
=============================================================================
