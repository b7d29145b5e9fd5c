------------------------------ MODULE FlowGraph ------------------------------
(***************************************************************************)
(* postprocess/model_improved_pg.py, the graph it builds from what is      *)
(* known of an application: which endpoint a callback belongs to           *)
(* (identify_callbacks, attribute_aspects), which callbacks complete a set *)
(* of inputs together (detect_joins) or read what others deposit           *)
(* (detect_state_links), and the edges between callbacks, endpoints, nodes *)
(* and executors (split_callbacks, add_horizontal_edges).                  *)
(*                                                                         *)
(* The endpoints are given; the application is what was recorded of them.  *)
(* Addresses are not reused.  CallbackFlow models how polled reads are     *)
(* found.  The graph is a networkx DiGraph: an ordered pair of vertices    *)
(* has one edge, and a second add_edge replaces the attributes of the      *)
(* first.                                                                  *)
(***************************************************************************)
EXTENDS FiniteSets, Naturals

CONSTANTS
    Endpoints,      \* <<node, name>>: an entity of the code
    Kind,           \* "sub", "tmr", "serv", "cli" or "waitable"
    On,             \* the topic or service of an endpoint, NoTopic for the others
    NoTopic,
    Twice,          \* subscriptions of two rclcpp objects, neither a waitable
    Intra,          \* subscriptions whose second object is an intra-process waitable
    Bare,           \* endpoints whose callback was never registered
    Synchronised,   \* subscriptions with the callback of a message_filters::Subscriber
    DataTopics,     \* topics of class "data"
    TypeOf,         \* the message type of a topic
    ExecOf,         \* the executor of a node
    Applications    \* what may have been recorded

VARIABLES
    app,        \* the application, and whether callbacks are split
    stage,      \* the next part of add_horizontal_edges
    todo,       \* calls whose edges are not declared yet
    entityEdges, callbackEdges, nodeEdges, execEdges

graphVars == <<app, stage, todo, entityEdges, callbackEdges, nodeEdges, execEdges>>

(***************************************************************************)
(* A callback is <<node, name, k>>: k is 1 for the endpoint's own, 2 for   *)
(* that of a second object, 0 for the intra-process waitable around it.    *)
(* The primary callback of a subscription is one that fired, the           *)
(* intra-process copy before the other; further ones that fired are        *)
(* alternatives.                                                           *)
(***************************************************************************)
Copy(e, k) == <<e[1], e[2], k>>
Copies(e) == {Copy(e, k) : k \in IF e \in Twice \cup Intra THEN {1, 2} ELSE {1}}

(* What can have been recorded: what is published, called or taken is so   *)
(* by a callback that has fired (of an endpoint that has only one it need  *)
(* not be told), a polled read stays in its node (1782-1788), and a GXF    *)
(* graph leads from subscriptions to waitables of one node (3220-3237).    *)
Recordable(a) ==
    /\ \A r \in a.publishes \cup a.calls \cup a.receives :
          \E e \in Endpoints : r[1] \in Copies(e) /\ (r[1] \in a.fired \/ Copies(e) = {r[1]})
    /\ a.polled \cup a.tf \subseteq Endpoints \X Endpoints
    /\ \A p \in a.polled : p[1][1] = p[2][1]
    /\ \A g \in a.groups :
          /\ g.ingress \cup g.egress \subseteq Endpoints
          /\ \A e \in g.ingress, f \in g.egress : e[1] = f[1] /\ Kind[f] = "waitable"

ASSUME FlowGraphAssumption ==
    /\ IsFiniteSet(Endpoints)
    /\ \A e \in Endpoints : e = <<e[1], e[2]>> /\ e[1] # "ext"
    /\ Twice \cap Intra = {}
    /\ \A e \in Twice \cup Intra \cup Synchronised : Kind[e] = "sub"
    /\ \A e \in Bare : Kind[e] \notin {"cli", "waitable"}
    /\ \A a \in Applications : Recordable(a)

Firing(e) == Copies(e) \cap app.fired

Primary(e) ==
    LET Preferred == IF e \in Intra THEN <<Copy(e, 2), Copy(e, 1)>> ELSE <<Copy(e, 1), Copy(e, 2)>>
    IN IF Firing(e) = {} \/ Preferred[1] \in Firing(e) THEN Preferred[1] ELSE Preferred[2]

Alternates(e) == Firing(e) \ {Primary(e)}

Known(e) ==
    IF e \in Bare THEN {}
    ELSE {Primary(e)} \cup Alternates(e) \cup IF e \in Intra THEN {Copy(e, 0)} ELSE {}

(* attribute_aspects: a publication, a call or a take counts for the       *)
(* endpoint of the callback that was active.                               *)
PubTopics(e) == {p[2] : p \in {q \in app.publishes : q[1] \in Known(e)}}
Calls(e) == {c[2] : c \in {d \in app.calls : d[1] \in Known(e)}}
SubTopics(e) ==
    (IF Kind[e] = "sub" THEN {On[e]} ELSE {}) \cup
    {r[2] : r \in {q \in app.receives : q[1] \in Known(e)}}

-----------------------------------------------------------------------------
Of(n) == {e \in Endpoints : e[1] = n}
NodesOf == {e[1] : e \in Endpoints}
DataPubs(e) == PubTopics(e) \cap DataTopics

Completers(n, x) == {e \in Of(n) : Kind[e] = "sub" /\ x \in PubTopics(e)}

PublishJoins(n) == {x \in DataTopics : Cardinality(Completers(n, x)) >= 2}

Members(n, x) ==
    Completers(n, x)
    \cup {e \in Of(n) : /\ Kind[e] = "sub" /\ On[e] \in DataTopics
                        /\ \E c \in Completers(n, x) : TypeOf[On[c]] = TypeOf[On[e]]}
    \cup {e \in Of(n) : Kind[e] = "tmr" /\ x \in PubTopics(e)}

InPublishJoin(n) == UNION {Members(n, x) : x \in PublishJoins(n)}

(* The inputs of a message_filters synchroniser are a join by themselves   *)
(* unless one of them is in a join already.                                *)
Filtered(n) == {e \in Of(n) \cap Synchronised : e \notin Bare}

FilterJoin(n) ==
    IF Cardinality(Filtered(n)) >= 2 /\ Filtered(n) \cap InPublishJoin(n) = {} THEN Filtered(n) ELSE {}

(* Each join is the set of its callbacks and those that may be its anchor: *)
(* those that complete some join, or any when there is none.               *)
MayAnchor(n) ==
    (UNION {Completers(n, x) : x \in PublishJoins(n)}) \cup {e \in FilterJoin(n) : DataPubs(e) # {}}

Joins(n) ==
    {J \ Bare : J \in {Members(n, x) : x \in PublishJoins(n)} \cup {FilterJoin(n)}}

Anchors(n, J) == IF J \cap MayAnchor(n) # {} THEN J \cap MayAnchor(n) ELSE J

\* A slip: the silent inputs of a join are taken for deposits.
SlipDeposits(n) ==
    {e \in Of(n) \ Bare : /\ Kind[e] = "sub" /\ On[e] \in DataTopics /\ DataPubs(e) = {}
                          /\ Known(e) \cap app.fired # {}}

Deposits(n) ==
    {e \in Of(n) \ Bare : /\ Kind[e] = "sub" /\ On[e] \in DataTopics /\ DataPubs(e) = {}
                          /\ e \notin InPublishJoin(n) \cup FilterJoin(n)
                          /\ Known(e) \cap app.fired # {}}

Producers(n) == {e \in Of(n) \ Bare : DataPubs(e) # {}}

InferredLinks == UNION {Deposits(n) \X Producers(n) : n \in NodesOf}

-----------------------------------------------------------------------------
(* The vertices of the callback layer: <<node, name, part>>, a callback    *)
(* that calls a service is split at the answer.                            *)
Ext(x) == <<"ext", x>>
Main(e) == IF e \in Bare THEN {} ELSE {<<e[1], e[2], "main">>}
Continuation(e) ==
    IF e \in Endpoints \ Bare /\ app.split /\ Calls(e) # {} THEN {<<e[1], e[2], "rest">>} ELSE {}
EntityOf(f) == <<f[1], f[2]>>

NoEdges == [p \in {} |-> <<>>]

\* add_edge
AddEdges(G, pairs, nature, direction) ==
    [p \in DOMAIN G \cup pairs |->
        IF p \in pairs THEN [nature |-> nature, direction |-> direction,
                             ties |-> IF p \in DOMAIN G THEN G[p].ties ELSE {}]
        ELSE G[p]]

\* A slip: a tie replaces whatever joined the two callbacks.
SlipKeepHop(G, p) == FALSE

KeepHop(G, p) == p \in DOMAIN G /\ G[p].nature = "msg"

(* A tie between two callbacks does not replace a message hop between them *)
(* but is noted on it.                                                     *)
AddTies(G, pairs, nature) ==
    LET Kept == {p \in pairs : KeepHop(G, p)}
        G1 == [p \in DOMAIN G |-> IF p \in Kept THEN [G[p] EXCEPT !.ties = @ \cup {nature}] ELSE G[p]]
    IN AddEdges(G1, pairs \ Kept, nature, "none")

Published == UNION {PubTopics(e) : e \in Endpoints}
Subscribed == UNION {SubTopics(e) : e \in Endpoints}

MainPairs(pairs) == UNION {Main(p[1]) \X Main(p[2]) : p \in pairs}

GraphInit ==
    /\ app \in Applications
    /\ stage = "messages" /\ todo = {}
    /\ entityEdges = NoEdges /\ callbackEdges = NoEdges
    /\ nodeEdges = {} /\ execEdges = {}

(* Every publisher of a topic and every subscription to it.  A client is   *)
(* listed among the servers: it has a "sub" aspect of its service too.     *)
DeclareMessages ==
    /\ stage = "messages" /\ stage' = "calls"
    /\ entityEdges' = AddEdges(entityEdges,
           {p \in Endpoints \X Endpoints : PubTopics(p[1]) \cap SubTopics(p[2]) # {}}, "msg", "none")
    /\ todo' = {p \in Endpoints \X Endpoints : Kind[p[2]] \in {"serv", "cli"} /\ On[p[2]] \in Calls(p[1])}
    /\ UNCHANGED <<app, callbackEdges, nodeEdges, execEdges>>

(* The order of the calls is that of the events in the trace.              *)
DeclareCall ==
    /\ stage = "calls"
    /\ \E p \in todo :
          /\ entityEdges' = AddEdges(AddEdges(entityEdges, {p}, "dep", "request"),
                                     {<<p[2], p[1]>>}, "dep", "response")
          /\ todo' = todo \ {p}
    /\ UNCHANGED <<app, stage, callbackEdges, nodeEdges, execEdges>>

(* Topics that are only read or only written here have an external peer.   *)
DeclareBoundary ==
    /\ stage = "calls" /\ todo = {} /\ stage' = "propagate"
    /\ LET Read == {r \in (Subscribed \ Published) \X Endpoints : r[1] \in SubTopics(r[2])}
           Written == {w \in (Published \ Subscribed) \X Endpoints : w[1] \in PubTopics(w[2])}
       IN entityEdges' = AddEdges(entityEdges,
              {<<Ext(r[1]), r[2]>> : r \in Read} \cup {<<w[2], Ext(w[1])>> : w \in Written}, "msg", "none")
    /\ UNCHANGED <<app, todo, callbackEdges, nodeEdges, execEdges>>

\* A slip: every edge ends at the first half of a split callback.
SlipTargets(p) == Main(p[2])

Targets(p) ==
    IF entityEdges[p].direction = "response" /\ Continuation(p[2]) # {}
    THEN Continuation(p[2]) ELSE Main(p[2])

Propagate ==
    /\ stage = "propagate" /\ stage' = "joins"
    /\ callbackEdges' =
          LET From == UNION {Main(p[1]) \X Targets(p) : p \in DOMAIN entityEdges}
          IN [q \in From |-> entityEdges[<<EntityOf(q[1]), EntityOf(q[2])>>]]
    /\ UNCHANGED <<app, todo, entityEdges, nodeEdges, execEdges>>

TieJoins ==
    /\ stage = "joins" /\ stage' = "state"
    /\ LET Groups == {g \in UNION {{n} \X Joins(n) : n \in NodesOf} : Cardinality(g[2]) >= 2}
       IN \E anchor \in [Groups -> Endpoints] :
             /\ \A g \in Groups : anchor[g] \in Anchors(g[1], g[2])
             /\ callbackEdges' = AddTies(callbackEdges,
                    MainPairs(UNION {(g[2] \ {anchor[g]}) \X {anchor[g]} : g \in Groups}), "join")
    /\ UNCHANGED <<app, todo, entityEdges, nodeEdges, execEdges>>

LinkState ==
    /\ stage = "state" /\ stage' = "tf"
    /\ callbackEdges' = AddTies(callbackEdges, MainPairs(InferredLinks \cup app.polled), "state")
    /\ UNCHANGED <<app, todo, entityEdges, nodeEdges, execEdges>>

(* Reads of the tf buffer replace what was there.                          *)
LinkTf ==
    /\ stage = "tf" /\ stage' = "nitros"
    /\ callbackEdges' = AddEdges(callbackEdges, MainPairs(app.tf), "state", "none")
    /\ UNCHANGED <<app, todo, entityEdges, nodeEdges, execEdges>>

(* Every input of a GXF graph feeds every output.                          *)
LinkNitros ==
    /\ stage = "nitros" /\ stage' = "lift"
    /\ LET Inside == UNION {g.ingress \X g.egress : g \in app.groups}
       IN /\ entityEdges' = AddEdges(entityEdges, Inside, "gxf_internal", "none")
          /\ callbackEdges' = AddTies(callbackEdges, MainPairs(Inside), "gxf_internal")
    /\ UNCHANGED <<app, todo, nodeEdges, execEdges>>

\* A slip: the nodes inherit the edges of their endpoints.
SlipAttached == {q \in DOMAIN entityEdges : q[1][1] # "ext" /\ q[2][1] # "ext"}

Attached == {q \in DOMAIN callbackEdges : q[1][1] # "ext" /\ q[2][1] # "ext"}

(* The edges of a coarser layer are the callback edges between different   *)
(* vertices of it; an external peer has no node.                           *)
LiftEdges ==
    /\ stage = "lift" /\ stage' = "done"
    /\ LET Above == {<<EntityOf(q[1]), EntityOf(q[2])>> : q \in DOMAIN callbackEdges}
       IN entityEdges' = AddEdges(entityEdges,
              {p \in Above : p[1] # p[2]} \ DOMAIN entityEdges, "lifted", "none")
    /\ nodeEdges' = {p \in {<<q[1][1], q[2][1]>> : q \in Attached} : p[1] # p[2]}
    /\ execEdges' = {p \in {<<ExecOf[q[1][1]], ExecOf[q[2][1]]>> : q \in Attached} : p[1] # p[2]}
    /\ UNCHANGED <<app, todo, callbackEdges>>

GraphNext ==
    \/ DeclareMessages \/ DeclareCall \/ DeclareBoundary \/ Propagate
    \/ TieJoins \/ LinkState \/ LinkTf \/ LinkNitros \/ LiftEdges

GraphSpec == GraphInit /\ [][GraphNext]_graphVars

-----------------------------------------------------------------------------
\* What was recorded, endpoint by endpoint.
Did(R, e) == {r[2] : r \in {q \in R : <<q[1][1], q[1][2]>> = e}}
Sends(e, g) ==
    Did(app.publishes, e) \cap ((IF Kind[g] = "sub" THEN {On[g]} ELSE {}) \cup Did(app.receives, g)) # {}
Wired(e, g) == Kind[g] \in {"serv", "cli"} /\ On[g] \in Did(app.calls, e)   \* taken for a call
Asks(e, g) == Kind[g] = "serv" /\ Wired(e, g)                               \* is one
Traced == Endpoints \ Bare
MainOf(e) == <<e[1], e[2], "main">>
Hop(e, g) == <<MainOf(e), MainOf(g)>>
Nature(p) == IF p \in DOMAIN callbackEdges THEN callbackEdges[p].nature ELSE "none"

(* The membership, sample-and-hold and GXF ties that are added later leave *)
(* every message hop in the graph, in the node itself too.  Pairs that     *)
(* also call each other, or one of which is a client of a service that the *)
(* other calls, or that read the tf buffer, are excepted: these edges      *)
(* replace the hop.                                                        *)
HopsAreKept ==
    stage = "done" =>
        \A e, g \in Traced :
            Sends(e, g) /\ ~Wired(e, g) /\ ~Wired(g, e) /\ <<e, g>> \notin app.tf => Nature(Hop(e, g)) = "msg"

(* A request goes from the calling callback to the server, and the answer  *)
(* comes back to what is left of the caller after the call, never to the   *)
(* half that asked: no cycle through the server.  What is left of a caller *)
(* is reached by nothing else than the answers of servers that it called.  *)
(* Excepted are a server that calls its caller, the two requests and       *)
(* answers of which share an edge, a caller in the node of the server,     *)
(* where a state link may take the place of the request, a caller and a    *)
(* server that read each other's tf buffer, which replaces it too, and the *)
(* answers that the code has clients of the service give                   *)
(* (OnlyServersAnswer).                                                    *)
CallsAreRouted ==
    stage = "done" =>
        /\ \A e, g \in Traced :
              Asks(e, g) /\ ~Wired(g, e) /\ e[1] # g[1] /\ {<<e, g>>, <<g, e>>} \cap app.tf = {} =>
                 /\ Nature(Hop(e, g)) = "dep"
                 /\ Nature(<<MainOf(g), <<e[1], e[2], IF app.split THEN "rest" ELSE "main">>>>) = "dep"
                 /\ app.split => Nature(Hop(g, e)) # "dep"
        /\ \A q \in DOMAIN callbackEdges :
              /\ q[1][3] = "main"
              /\ q[2][3] = "rest" /\ Kind[EntityOf(q[1])] # "cli" => Asks(EntityOf(q[2]), EntityOf(q[1]))

(* "Service request edge: cli main -> srv main; service response edge: srv *)
(* main -> cli continuation (only)" (model_improved_pg.py:3113).  A client *)
(* endpoint has the aspects of a server (559), so the callers of a service *)
(* have edges to all its clients, of other nodes too (FlowGraphComments).  *)
OnlyServersAnswer ==
    stage = "done" =>
        \A q \in DOMAIN callbackEdges : q[2][3] = "rest" => Asks(EntityOf(q[2]), EntityOf(q[1]))

(* The inputs that a node combines stay in one piece of the graph: the     *)
(* subscriptions that publish the same data topic and the inputs of a      *)
(* synchroniser are tied to one of them, on the hop between them when      *)
(* there is one.  Inputs that another of them polls are excepted: the      *)
(* polled link replaces the tie.  So are synchronised inputs one of which  *)
(* belongs to a join already, as two of three do that complete the set:    *)
(* then the code does not look for the synchroniser.                       *)
SubsOf(n) == {e \in Traced : e[1] = n /\ Kind[e] = "sub"}
Combine(n, x) == {e \in SubsOf(n) : x \in Did(app.publishes, e)}
InJoin(n, e) ==
    \E x \in DataTopics : \E c, d \in Combine(n, x) :
        c # d /\ (e \in Combine(n, x) \/ (On[e] \in DataTopics /\ TypeOf[On[c]] = TypeOf[On[e]]))
Tied(e, c) ==
    \/ e = c
    \/ /\ Hop(e, c) \in DOMAIN callbackEdges
       /\ "join" \in {callbackEdges[Hop(e, c)].nature} \cup callbackEdges[Hop(e, c)].ties
Meet(S) == \E c \in Endpoints : \A e \in S : Tied(e, c)

JoinsStayTogether ==
    stage = "done" =>
        \A n \in NodesOf :
            (app.polled \cup app.tf) \cap (SubsOf(n) \X SubsOf(n)) = {} =>
                /\ \A x \in DataTopics : Meet(Combine(n, x))
                /\ LET S == SubsOf(n) \cap Synchronised IN (\A e \in S : ~InJoin(n, e)) => Meet(S)

(* What a message, a request, an answer or a read of the tf buffer says of *)
(* callbacks that are known is shown between their nodes, and between      *)
(* their executors: nothing is lost on the way up, and nothing is claimed  *)
(* there for what happens inside a node.  An edge that shows none of these *)
(* is between the caller of a service and another client of it, which the  *)
(* code takes for a server (OnlyServersAnswer).                            *)
Pairs(S) == {p \in {<<r[1][1], r[2][1]>> : r \in S} : p[1] # p[2]}
ExecPairs(S) == {p \in {<<ExecOf[r[1][1]], ExecOf[r[2][1]]>> : r \in S} : p[1] # p[2]}

NodeEdgesAreInteractions ==
    LET Real == {p \in Traced \X Traced :
                    \/ Sends(p[1], p[2]) \/ Asks(p[1], p[2]) \/ Asks(p[2], p[1]) \/ p \in app.tf}
        Clients == {p \in Traced \X Traced :
                       \/ Kind[p[2]] = "cli" /\ Wired(p[1], p[2])
                       \/ Kind[p[1]] = "cli" /\ Wired(p[2], p[1])}
    IN stage = "done" =>
         /\ Pairs(Real) \subseteq nodeEdges /\ nodeEdges \subseteq Pairs(Real \cup Clients)
         /\ ExecPairs(Real) \subseteq execEdges /\ execEdges \subseteq ExecPairs(Real \cup Clients)

(* "Self-pairs are kept: a node that talks to itself is a self-loop        *)
(* carrying those interactions, not an absence of them"                    *)
(* (model_improved_pg.py:3344): the code counts and drops them             *)
(* (FlowGraphComments).                                                    *)
SelfPairsAreKept ==
    stage = "done" => \A e, g \in Traced : Sends(e, g) /\ e[1] = g[1] => <<e[1], e[1]>> \in nodeEdges
=============================================================================
