---------------------------- MODULE CallbackFlow ----------------------------
(***************************************************************************)
(* postprocess/model_improved_pg.py, what it concludes from the events at  *)
(* run time: which callback an event belongs to (_callback_windows), which *)
(* threads publish by themselves (detect_publisher_threads), who reads a   *)
(* polled subscription (detect_polled_subs), which publication was taken   *)
(* by which callback (measure_flows) and which messages went from one      *)
(* callback to another through a container (_join_state_evidence).         *)
(*                                                                         *)
(* Every callback of RosTrace has its vertex, and addresses are not        *)
(* reused; all topics are data topics.  A unit of time is one event.       *)
(* Evidence of different kinds for one pair of callbacks is kept side by   *)
(* side here (the code keeps the kind that it finds first); that of        *)
(* message_filters and of stamps is left out.                              *)
(***************************************************************************)
EXTENDS RosTrace, SequencesExt

CONSTANTS
    LookBack,       \* how many windows owner looks at: 8 in the code
    MinPublishes,   \* fewer publications do not make a publisher thread: 10
    DispatchSlack,  \* a callback begins this soon after its take: 5 ms
    RetainSlack,    \* a retain event comes this soon after its callback: 2 ms
    HopLimit        \* a publication and its sample's stamp differ by less: 50 ms

ASSUME CallbackFlowAssumption ==
    /\ {LookBack, MinPublishes} \subseteq Nat \ {0}
    /\ {DispatchSlack, RetainSlack, HopLimit} \subseteq Nat

Recorded(kind) == {trace[i] : i \in {j \in DOMAIN trace : trace[j].kind = kind}}

\* A slip: callback_end closes the window that was opened first.
SlipMatch(acc, e) ==
    IF e.kind = "start"
    THEN [stack |-> Append(acc.stack, [f |-> e.what, from |-> e.at]), wins |-> acc.wins]
    ELSE IF acc.stack = <<>> THEN acc
    ELSE LET w == Head(acc.stack) IN
         [stack |-> Tail(acc.stack),
          wins |-> acc.wins \cup {[f |-> w.f, from |-> w.from, to |-> e.at]}]

(* callback_end closes the window that was opened last on its thread,      *)
(* whichever callback the two events name.                                 *)
Match(acc, e) ==
    IF e.kind = "start"
    THEN [stack |-> Append(acc.stack, [f |-> e.what, from |-> e.at]), wins |-> acc.wins]
    ELSE IF acc.stack = <<>> THEN acc
    ELSE LET w == Last(acc.stack) IN
         [stack |-> Front(acc.stack),
          wins |-> acc.wins \cup {[f |-> w.f, from |-> w.from, to |-> e.at]}]

(* The callback_start and callback_end of thread t in s, in their order.   *)
Walk(s, t) ==
    LET walk[i \in 0 .. Len(s)] ==
            IF i = 0 THEN [stack |-> <<>>, wins |-> {}]
            ELSE IF s[i].thread = t /\ s[i].kind \in {"start", "end"} THEN Match(walk[i - 1], s[i])
            ELSE walk[i - 1]
    IN walk[Len(s)]

Windows(t) == Walk(trace, t).wins

(* The innermost window around `at', among the LookBack that began last.   *)
Owner(t, at) ==
    LET Begun == {w \in Windows(t) : w.from <= at}
        Seen == {w \in Begun : Cardinality({x \in Begun : x.from > w.from}) < LookBack}
        Around == {w \in Seen : at <= w.to}
    IN IF Around = {} THEN None
       ELSE (CHOOSE w \in Around : \A x \in Around : x.from <= w.from).f

OwnerOf(e) == Owner(e.thread, e.at)

\* A slip: the callback that has just begun, not the next one.
SlipDispatched(t, at) ==
    LET Earlier == {w \in Windows(t) : w.from <= at}
    IN {w.f : w \in {x \in Earlier : \A y \in Earlier : y.from <= x.from}}

(* The callback whose window begins next on the thread.                    *)
Dispatched(t, at) ==
    LET Later == {w \in Windows(t) : w.from >= at}
        Next1 == {w \in Later : \A x \in Later : w.from <= x.from}
    IN {w.f : w \in {x \in Next1 : x.from - at <= DispatchSlack}}

(***************************************************************************)
(* Threads that publish outside any window get a vertex for every node     *)
(* whose publishers they use; measure_flows knows only the last of them.   *)
(***************************************************************************)
Outside(t) == {e \in Recorded("publish") : e.thread = t /\ OwnerOf(e) = None}
CallbackF(f) == <<f>>
ThreadF(t, n) == <<t, n>>

ThreadNodes(t) ==
    IF Cardinality(Outside(t)) < MinPublishes THEN {}
    ELSE {PubNode[e.what] : e \in Outside(t)}

ThreadOwner(t) ==
    LET First(n) == CHOOSE e \in Outside(t) :
                       /\ PubNode[e.what] = n
                       /\ \A d \in Outside(t) : PubNode[d.what] = n => e.at <= d.at
    IN IF ThreadNodes(t) = {} THEN <<>>
       ELSE ThreadF(t, CHOOSE n \in ThreadNodes(t) :
                          \A m \in ThreadNodes(t) : First(m).at <= First(n).at)

(***************************************************************************)
(* Reads of a subscription from a callback of its node that is not its own.*)
(* A take is booked on every subscription of the topic in that node.       *)
(***************************************************************************)
SameTopicSubs(s) ==
    {q \in Subs \cup Polled : NodeOf[q] = NodeOf[s] /\ TopicOf[q] = TopicOf[s]}

ForeignTake(e) == OwnerOf(e) \notin {None} \cup SameTopicSubs(e.what)

\* A slip: the reader is taken to be the callback that comes next, as for a dispatch.
SlipPolledReads ==
    UNION {{<<q, f, e.at>> : q \in SameTopicSubs(e.what), f \in Dispatched(e.thread, e.at)} :
              e \in {d \in Recorded("take") : ForeignTake(d)}}

PolledReads ==
    UNION {{<<q, OwnerOf(e), e.at>> : q \in SameTopicSubs(e.what)} :
              e \in {d \in Recorded("take") :
                        ForeignTake(d) /\ NodeOf[OwnerOf(d)] = NodeOf[d.what]}}

(***************************************************************************)
(* Publications and takes, by topic and callback, and the pairs of a       *)
(* message edge: each take with the publication of that callback that is   *)
(* nearest to the stamp of the sample.                                     *)
(***************************************************************************)
PublishedBy(x, f) ==
    {e.at : e \in {d \in Recorded("publish") :
        /\ PubTopic[d.what] = x
        /\ f = (IF OwnerOf(d) # None THEN CallbackF(OwnerOf(d)) ELSE ThreadOwner(d.thread))}}

Consumers(e) ==
    IF ForeignTake(e) THEN SameTopicSubs(e.what) ELSE Dispatched(e.thread, e.at)

TakenBy(x, f) ==
    {<<e.at, e.sample>> : e \in {d \in Recorded("take") :
        TopicOf[d.what] = x /\ Windows(d.thread) # {} /\ f \in Consumers(d)}}

Distance(a, b) == IF a > b THEN a - b ELSE b - a

Nearest(S, at) ==
    CHOOSE p \in S : \A q \in S :
        \/ Distance(p, at) < Distance(q, at)
        \/ Distance(p, at) = Distance(q, at) /\ p <= q

Hops(u, v, x) ==
    IF PublishedBy(x, u) = {} THEN {}
    ELSE {h \in {<<Nearest(PublishedBy(x, u), k[2]), k[1], k[2]>> : k \in TakenBy(x, v)} :
             Distance(h[1], h[3]) <= HopLimit /\ h[2] >= h[1]}

\* A slip: the deposits stay in the container.
SlipAbsorb(acc, e) ==
    LET f == OwnerOf(e) IN
    IF f = None THEN acc
    ELSE IF e.kind = "push"
    THEN [waiting |-> [acc.waiting EXCEPT ![e.what] = @ \cup {<<f, e.at>>}], found |-> acc.found]
    ELSE [waiting |-> acc.waiting,
          found |-> acc.found \cup {<<d[1], f, d[2], e.at>> :
                                       d \in {x \in acc.waiting[e.what] : x[1] # f}}]

(***************************************************************************)
(* Deposits wait until some callback erases from the container; operations *)
(* outside any window are left out.                                        *)
(***************************************************************************)
Absorb(acc, e) ==
    LET f == OwnerOf(e) IN
    IF f = None THEN acc
    ELSE IF e.kind = "push"
    THEN [waiting |-> [acc.waiting EXCEPT ![e.what] = @ \cup {<<f, e.at>>}], found |-> acc.found]
    ELSE [waiting |-> [acc.waiting EXCEPT ![e.what] = {}],
          found |-> acc.found \cup {<<d[1], f, d[2], e.at>> :
                                       d \in {x \in acc.waiting[e.what] : x[1] # f}}]

ContainerEvidence ==
    LET book[i \in 0 .. Len(trace)] ==
            IF i = 0 THEN [waiting |-> [c \in Containers |-> {}], found |-> {}]
            ELSE IF trace[i].kind \in {"push", "erase"} THEN Absorb(book[i - 1], trace[i])
            ELSE book[i - 1]
    IN book[Len(trace)].found

(***************************************************************************)
(* Pointers.  A retain event belongs to the callback that has just ended   *)
(* on the thread.  When the pointer goes, the callbacks of the node that   *)
(* published meanwhile may have read it, and so may the one it goes in, if *)
(* that publishes later in the same window.                                *)
(***************************************************************************)
OwnerBefore(t, at) ==
    LET Ended == {w \in Windows(t) : w.to <= at /\ at <= w.to + RetainSlack}
        Begun == {w \in Windows(t) : w.from <= at}
        Seen == {w \in Ended : Cardinality({x \in Begun : x.from > w.from}) < LookBack}
    IN IF Seen = {} THEN None ELSE (CHOOSE w \in Seen : \A x \in Seen : x.from <= w.from).f

WindowEnd(t, at) ==
    LET Begun == {w \in Windows(t) : w.from <= at}
        Latest == {w \in Begun : \A x \in Begun : x.from <= w.from}
    IN {w.to : w \in {x \in Latest : at <= x.to}}

\* A slip: a publication after the pointer has gone counts too.
SlipFirstBetween(f, from, to) ==
    LET Pubs == {e.at : e \in {d \in Recorded("publish") : OwnerOf(d) = f /\ d.at >= from}}
    IN {p \in Pubs : \A q \in Pubs : p <= q}

FirstBetween(f, from, to) ==
    LET Pubs == {e.at : e \in {d \in Recorded("publish") : OwnerOf(d) = f /\ d.at >= from}}
    IN {p \in Pubs : p <= to /\ \A q \in Pubs : p <= q}

HeldAtPublish(h, at) ==
    UNION {{<<h.f, v, h.at, p>> : p \in FirstBetween(v, h.at, at)} :
              v \in {c \in Callbacks : c # h.f /\ NodeOf[c] = NodeOf[h.f]}}

ReleasedByPublisher(h, e) ==
    LET f == OwnerOf(e) IN
    IF f \in {None, h.f} THEN {}
    ELSE UNION {{<<h.f, f, h.at, p>> : p \in FirstBetween(f, e.at, to)} :
                   to \in WindowEnd(e.thread, e.at)}

Hold(acc, e) ==
    LET f == IF OwnerOf(e) # None \/ e.kind = "release" THEN OwnerOf(e)
             ELSE OwnerBefore(e.thread, e.at)
        Of == {h \in acc.held : h.key = <<e.what, e.sample>>}
    IN IF e.kind = "retain"
       THEN [acc EXCEPT !.held = IF f = None THEN @
                                 ELSE (@ \ Of) \cup {[key |-> <<e.what, e.sample>>, f |-> f, at |-> e.at]}]
       ELSE LET seen == UNION {HeldAtPublish(h, e.at) \cup ReleasedByPublisher(h, e) : h \in Of}
            IN [held |-> acc.held \ Of,
                found |-> acc.found \cup seen,
                drops |-> acc.drops \cup
                    (IF seen = {} /\ f # None THEN {<<h.f, f, h.at>> : h \in {x \in Of : x.f # f}} ELSE {})]

PointerEvidence ==
    LET book[i \in 0 .. Len(trace)] ==
            IF i = 0 THEN [held |-> {}, found |-> {}, drops |-> {}]
            ELSE IF trace[i].kind \in {"retain", "release"} THEN Hold(book[i - 1], trace[i])
            ELSE book[i - 1]
    IN book[Len(trace)]

-----------------------------------------------------------------------------
(* What can be said of an event: the callback it is in has ended, no event *)
(* of the outermost callback around it has been discarded, and fewer       *)
(* callbacks have begun inside its own than owner looks back.              *)
Intact(e) ==
    /\ e.top \notin damaged
    /\ \A i \in DOMAIN frames[e.thread] : frames[e.thread][i].since # e.since

InSight(e) ==
    e.by = None \/ Cardinality({w \in Windows(e.thread) : e.since < w.from /\ w.from <= e.at}) < LookBack

AtRest ==
    /\ lost = 0 /\ \A t \in Threads : frames[t] = <<>> /\ due[t] = None
    /\ \A i \in DOMAIN trace : InSight(trace[i])

(* No callback has run inside another.                                     *)
Flat == \A i \in DOMAIN trace :
    LET e == trace[i] IN
    /\ e.since = e.top
    /\ e.kind = "start" \/ (e.kind = "take" /\ e.what \in Subs) => e.by = None

(* One discarded callback_start or callback_end does not confuse the       *)
(* windows of the callbacks that come after it, on its thread or another:  *)
(* whatever happens in an intact callback is given to it, and whatever     *)
(* happens outside any is given to none.  (A second one may: the callback  *)
(* whose end was discarded is then closed by the end of another one.)      *)
OwnersSurviveLoss ==
    lost <= 1 =>
        \A k \in {"publish", "take", "push", "erase"} : \A e \in Recorded(k) :
            Intact(e) /\ InSight(e) => OwnerOf(e) = e.by

(* The hop latencies of an edge are those of its samples: when nothing was *)
(* discarded and one callback or thread publishes a topic, each take of    *)
(* the topic is counted once, for the callback that got the sample and     *)
(* with the publication that sent it, also when several threads take and   *)
(* publish in turns.                                                       *)
HopsAreReal ==
    LET Sender(e) == IF e.by # None THEN CallbackF(e.by) ELSE ThreadF(e.thread, PubNode[e.what])
        Senders(x) == {Sender(e) : e \in {d \in Recorded("publish") : PubTopic[d.what] = x}}
        InTime(e) == \E w \in Windows(e.thread) :
                        w.f = e.what /\ e.at <= w.from /\ w.from - e.at <= DispatchSlack
    IN AtRest /\ activity = "messages" /\ (\A e \in Recorded("take") : e.what \in Subs => InTime(e))
       => \A v \in Subs : \A u \in Senders(TopicOf[v]) :
             /\ Cardinality(Senders(TopicOf[v])) = 1
             /\ Len(u) = 2 => ThreadNodes(u[1]) = {u[2]}
             => Hops(u, v, TopicOf[v]) =
                   {<<e.sample, e.at, e.sample>> : e \in {d \in Recorded("take") : d.what = v}}

(* A link that says that a callback polls a subscription is true: that     *)
(* callback did read it, at that moment; and each read of an intact        *)
(* callback is found.  One discarded event cannot produce a reader that    *)
(* did not read (two can: a callback whose end was discarded is closed by  *)
(* the end of one whose start was).  Callbacks that run inside others are  *)
(* excepted: a sample that a nested executor takes for dispatch looks like *)
(* a read of the outer callback.                                           *)
PolledReadsAreReal ==
    LET Reads == {e \in Recorded("take") : e.what \in Polled}
    IN lost <= 1 /\ Flat =>
         /\ PolledReads \subseteq {<<e.what, e.by, e.at>> : e \in Reads}
         /\ {<<e.what, e.by, e.at>> : e \in {d \in Reads : Intact(d)}} \subseteq PolledReads

(* The evidence for a flow through a container names deposits that the     *)
(* erasing callback did remove, and all of those that another callback had *)
(* made, whichever threads the callbacks run on.                           *)
EvidenceIsReal ==
    AtRest => ContainerEvidence =
        UNION {{<<d[1], e.by, d[2], e.at>> : d \in {x \in e.took : x[1] # e.by}} :
                  e \in Recorded("erase")}

(* The evidence from pointers names callbacks that could have read the     *)
(* message: the deposit was made by that callback, and while the pointer   *)
(* was held a callback of its node published, or the callback that let it  *)
(* go did so after that.  A drop is not called a flow and a flow not a     *)
(* drop.  The event comes after the callback, and inside the outer one of  *)
(* a nested callback, so these are excepted here too.                      *)
PointersAreReal ==
    LET Retains == Recorded("retain")
        Pubs == Recorded("publish")
        Releases(r) == {x \in Recorded("release") : x.what = r.what /\ x.sample = r.sample /\ x.at > r.at}
        EndOf(r) == {x \in Releases(r) : \A y \in Releases(r) : x.at <= y.at}
        CouldRead(r, e) ==
            /\ e.at > r.at
            /\ \E x \in EndOf(r) : IF e.at < x.at THEN NodeOf[e.by] = NodeOf[r.what]
                                   ELSE e.by = x.by /\ e.since = x.since
    IN lost = 0 /\ Flat =>
         /\ \A p \in PointerEvidence.found : \E r \in Retains, e \in Pubs :
               p = <<r.what, e.by, r.at, e.at>> /\ e.by # r.what /\ CouldRead(r, e)
         /\ \A d \in PointerEvidence.drops : \E r \in Retains :
               /\ d[1] = r.what /\ d[3] = r.at
               /\ \A e \in Pubs : Intact(e) /\ e.by \notin {None, r.what} => ~CouldRead(r, e)
=============================================================================
