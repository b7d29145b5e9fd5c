------------------------------ MODULE RosTrace ------------------------------
(***************************************************************************)
(* What the ros2 trace of one traced process says, as the extraction in    *)
(* postprocess/model_improved_pg.py reads it.  None of it is code of this  *)
(* repository: the threads of the process run callbacks, also one inside   *)
(* another (a callback that spins an executor of its own), publish, take   *)
(* samples, read polled subscriptions and move messages through a          *)
(* container of their node; tracepoints write one event for each of these, *)
(* and LTTng may discard some of them.                                     *)
(*                                                                         *)
(* The fields by, since and top of an event and took of an erasure are     *)
(* history, for the properties: what the tracepoint does not say.          *)
(***************************************************************************)
EXTENDS Naturals, Sequences, FiniteSets

CONSTANTS
    Threads,
    Subs, Timers,   \* the callbacks that are dispatched
    Polled,         \* subscriptions that are only read with take()
    TopicOf,        \* of Subs and Polled
    NodeOf,         \* of the callbacks and the polled subscriptions
    Publishers, PubTopic, PubNode,
    Writes,         \* the publishers that each callback may use
    ThreadWrites,   \* those that a thread may use outside any callback
    Containers,     \* message queues in the memory of a node
    MaxDepth,       \* bound on the nesting of callbacks
    MaxEvents,      \* bound on the events, by activity
    MaxLost         \* bound on those of them that are discarded, by activity

Callbacks == Subs \cup Timers
Topics == {PubTopic[p] : p \in Publishers}
Activities == {"messages", "containers", "pointers"}
None == "none"
NoSample == <<None, 0>>

ASSUME RosTraceAssumption ==
    /\ Subs \cap Timers = {} /\ Callbacks \cap Polled = {} /\ None \notin Callbacks
    /\ TopicOf \in [Subs \cup Polled -> Topics]
    /\ DOMAIN NodeOf = Callbacks \cup Polled
    /\ DOMAIN PubTopic = Publishers /\ DOMAIN PubNode = Publishers
    /\ Writes \in [Callbacks -> SUBSET Publishers] /\ ThreadWrites \subseteq Publishers
    /\ MaxDepth \in Nat \ {0} /\ {MaxEvents, MaxLost} \subseteq [Activities -> Nat]

VARIABLES
    trace,      \* the recorded events
    frames,     \* of each thread: the callbacks it is in, the innermost last
    due,        \* of each thread: the subscription whose sample it has just taken
    latest,     \* of each topic: when its last sample was published, 0 if never
    taken,      \* of each subscription: the last sample taken, by that time
    contents,   \* of each container: <<callback, time>> of what was put into it
    lost,       \* how many events have been discarded
    damaged,    \* history: when the outermost callbacks began of which an event was discarded
    returned,   \* of each thread: the sample whose callback has just returned, by subscription and time
    kept,       \* the samples to which a node still holds a pointer
    activity    \* what the callbacks of this session do

vars == <<trace, frames, due, latest, taken, contents, lost, damaged, returned, kept, activity>>
memory == <<latest, taken, contents, kept>>

Now == Len(trace) + lost + 1

Init ==
    /\ trace = <<>> /\ lost = 0 /\ damaged = {}
    /\ frames = [t \in Threads |-> <<>>]
    /\ due = [t \in Threads |-> None]
    /\ latest = [x \in Topics |-> 0]
    /\ taken = [s \in Subs \cup Polled |-> 0]
    /\ contents = [c \in Containers |-> {}]
    /\ returned = [t \in Threads |-> NoSample] /\ kept = {}
    /\ activity \in Activities

Running(t) == IF frames[t] = <<>> THEN None ELSE frames[t][Len(frames[t])].f

Event(kind, t, what, sample, took) ==
    [kind |-> kind, thread |-> t, at |-> Now, what |-> what, sample |-> sample, took |-> took,
     by |-> Running(t),
     since |-> IF frames[t] = <<>> THEN 0 ELSE frames[t][Len(frames[t])].since,
     top |-> IF frames[t] = <<>> THEN 0 ELSE frames[t][1].since]

Record(kind, t, what, sample, took) ==
    /\ Now <= MaxEvents[activity]
    /\ trace' = Append(trace, Event(kind, t, what, sample, took))
    /\ UNCHANGED <<lost, damaged, activity>>

(* No room in the ring buffer.                                             *)
Discard(top) ==
    /\ Now <= MaxEvents[activity] /\ lost < MaxLost[activity]
    /\ lost' = lost + 1 /\ damaged' = damaged \cup {top}
    /\ UNCHANGED <<trace, activity>>

Passes(t) == returned' = [returned EXCEPT ![t] = NoSample]

(* A callback publishes, or a thread of the node does so by itself.        *)
Publish(t, p) ==
    /\ activity # "containers" /\ due[t] = None
    /\ p \in (IF Running(t) # None THEN Writes[Running(t)]
             ELSE IF activity = "messages" THEN ThreadWrites ELSE {})
    /\ Record("publish", t, p, 0, {}) /\ Passes(t)
    /\ latest' = [latest EXCEPT ![PubTopic[p]] = Now]
    /\ UNCHANGED <<frames, due, taken, contents, kept>>

(* The executor takes a sample whose callback it will run next.  Pointers  *)
(* are kept to samples of other processes, which come at any time.         *)
Take(t, s) ==
    LET sample == IF activity = "pointers" THEN Now ELSE latest[TopicOf[s]] IN
    /\ activity # "containers" /\ due[t] = None /\ Len(frames[t]) < MaxDepth
    /\ sample > taken[s]
    /\ Record("take", t, s, sample, {}) /\ Passes(t)
    /\ taken' = [taken EXCEPT ![s] = sample]
    /\ due' = [due EXCEPT ![t] = s]
    /\ UNCHANGED <<frames, latest, contents, kept>>

(* A callback begins.  Callbacks of one callback group exclude each other. *)
Start(t, f) ==
    /\ f \in Subs /\ activity # "containers" => due[t] = f
    /\ f \in Timers \/ activity = "containers" => due[t] = None
    /\ Len(frames[t]) < MaxDepth
    /\ \A u \in Threads : \A i \in DOMAIN frames[u] : frames[u][i].f # f
    /\ \/ Record("start", t, f, 0, {})
       \/ Discard(IF frames[t] = <<>> THEN Now ELSE frames[t][1].since)
    /\ frames' = [frames EXCEPT ![t] = Append(@, [f |-> f, since |-> Now])]
    /\ due' = [due EXCEPT ![t] = None] /\ Passes(t)
    /\ UNCHANGED memory

End(t) ==
    /\ frames[t] # <<>> /\ due[t] = None
    /\ \/ Record("end", t, Running(t), 0, {})
       \/ Discard(frames[t][1].since)
    /\ frames' = [frames EXCEPT ![t] = SubSeq(@, 1, Len(@) - 1)]
    /\ returned' = [returned EXCEPT ![t] =
                        IF Running(t) \in Subs /\ activity = "pointers"
                        THEN <<Running(t), taken[Running(t)]>> ELSE NoSample]
    /\ UNCHANGED memory /\ UNCHANGED due

(* A callback reads a polled subscription of its node.                     *)
Poll(t, q) ==
    /\ activity = "messages" /\ Running(t) # None /\ due[t] = None
    /\ NodeOf[q] = NodeOf[Running(t)]
    /\ latest[TopicOf[q]] > taken[q]
    /\ Record("take", t, q, latest[TopicOf[q]], {}) /\ Passes(t)
    /\ taken' = [taken EXCEPT ![q] = latest[TopicOf[q]]]
    /\ UNCHANGED <<frames, due, latest, contents, kept>>

Push(t, c) ==
    /\ activity = "containers" /\ Running(t) # None
    /\ Record("push", t, c, 0, {}) /\ Passes(t)
    /\ contents' = [contents EXCEPT ![c] = @ \cup {<<Running(t), Now>>}]
    /\ UNCHANGED <<frames, due, latest, taken, kept>>

Erase(t, c) ==
    /\ activity = "containers" /\ Running(t) # None
    /\ Record("erase", t, c, 0, contents[c]) /\ Passes(t)
    /\ contents' = [contents EXCEPT ![c] = {}]
    /\ UNCHANGED <<frames, due, latest, taken, kept>>

(* After the callback has returned the executor finds that the node still  *)
(* holds a pointer to the sample.                                          *)
Retain(t) ==
    /\ returned[t] # NoSample
    /\ Record("retain", t, returned[t][1], returned[t][2], {}) /\ Passes(t)
    /\ kept' = kept \cup {returned[t]}
    /\ UNCHANGED <<frames, due, latest, taken, contents>>

(* The last pointer goes, in a callback or wherever a thread drops it.     *)
Release(t, k) ==
    /\ k \in kept /\ due[t] = None
    /\ Record("release", t, k[1], k[2], {}) /\ Passes(t)
    /\ kept' = kept \ {k}
    /\ UNCHANGED <<frames, due, latest, taken, contents>>

Next == \E t \in Threads :
    \/ \E p \in Publishers : Publish(t, p)
    \/ \E s \in Subs : Take(t, s)
    \/ \E f \in Callbacks : Start(t, f)
    \/ End(t)
    \/ \E q \in Polled : Poll(t, q)
    \/ \E c \in Containers : Push(t, c) \/ Erase(t, c)
    \/ Retain(t)
    \/ \E k \in kept : Release(t, k)

Spec == Init /\ [][Next]_vars
=============================================================================
