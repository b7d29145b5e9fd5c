---------------------------- MODULE KernelTrace ----------------------------
(***************************************************************************)
(* What a kernel session of FISH records, as the parsers of postprocess/   *)
(* assume it: one stream of sched_switch, sched_waking (or gomp) and futex *)
(* events per CPU, in the order in which they happened there.  None of it  *)
(* is code of this repository: the kernel schedules the threads, and LTTng *)
(* drops the events for which a ring buffer has no room.                   *)
(***************************************************************************)
EXTENDS Naturals, FiniteSets, Sequences

CONSTANTS
    NCpus,      \* number of CPUs, and of streams
    Threads,    \* host thread ids
    Day,        \* length of a day; a session is shorter than half of it
    Start,      \* time of day at which the session started
    MaxNow,     \* bound on the time
    MaxEvents,  \* bound on the events
    MaxLost     \* bound on those of them that are discarded

Cpus == 1 .. NCpus
Idle == 0

ASSUME KernelTraceAssumption ==
    /\ NCpus \in Nat \ {0} /\ Threads \subseteq Nat \ {Idle}
    /\ Day \in Nat /\ Start \in 0 .. Day - 1 /\ MaxEvents \in Nat /\ MaxLost \in Nat
    /\ MaxNow \in Nat /\ 2 * MaxNow < Day

VARIABLES
    now,        \* time since midnight before the session
    cur,        \* the thread on each CPU, or Idle
    futex,      \* the futex call each thread is in: its kind, when it began
    streams,    \* the recorded events of each CPU
    lost,       \* how many events have been discarded
    waits       \* history: <<thread, begin, end>> of the finished futex waits

kernelVars == <<now, cur, futex, streams, lost, waits>>

Outside == [kind |-> "none", at |-> 0]

Recorded == UNION {{c} \X DOMAIN streams[c] : c \in Cpus}
Event(p) == streams[p[1]][p[2]]

(* Which thread is which does not matter: the lower CPU has the lower id. *)
Preferred(f) ==
    \A t \in Threads : \A c \in Cpus :
       f[c] = t => \A u \in Threads : u < t => \E d \in Cpus : d < c /\ f[d] = u

KernelInit ==
    /\ now \in {Start, Day} /\ now <= Start + MaxNow
    /\ cur \in {f \in [Cpus -> Threads \cup {Idle}] :
                  \A c, d \in Cpus : c # d /\ f[c] = f[d] => f[c] = Idle}
    /\ futex \in [Threads -> {Outside, [kind |-> "wait", at |-> Start]}]
    /\ \A c \in Cpus : cur[c] # Idle => futex[cur[c]] = Outside
    /\ Preferred(cur)
    /\ streams = [c \in Cpus |-> <<>>]
    /\ lost = 0
    /\ waits = {}

HasRoom == Cardinality(Recorded) + lost < MaxEvents

(* The events of one CPU have different times; those of two CPUs may have *)
(* the same.                                                              *)
Record(c, e) ==
    /\ HasRoom
    /\ \A i \in 1 .. Len(streams[c]) : streams[c][i].at < now
    /\ streams' = [streams EXCEPT ![c] = Append(@, e)]
    /\ UNCHANGED lost

Discard ==
    /\ HasRoom /\ lost < MaxLost
    /\ lost' = lost + 1
    /\ UNCHANGED streams

Emit(c, e) == Record(c, e) \/ Discard

(* A thread is not switched twice at the same time. *)
Settled(t) ==
    \A p \in Recorded : Event(p).kind = "switch" /\ t \in {Event(p).prev, Event(p).next} /\ t # Idle
                           => Event(p).at < now

Switch(c) ==
    \E next \in (Threads \cup {Idle}) \ {cur[c]} :
       /\ next = Idle \/ \A d \in Cpus : cur[d] # next
       /\ Settled(cur[c]) /\ Settled(next)
       /\ Emit(c, [kind |-> "switch", cpu |-> c, at |-> now, prev |-> cur[c], next |-> next])
       /\ cur' = [cur EXCEPT ![c] = next]
       /\ UNCHANGED <<now, futex, waits>>

(* sched_waking, and the start of an OpenMP region: whoever runs did it.  *)
(* Marks of idle CPUs, which name nobody, and discarded ones are left out. *)
Mark(c) ==
    /\ cur[c] # Idle
    /\ Record(c, [kind |-> "mark", cpu |-> c, at |-> now])
    /\ UNCHANGED <<now, cur, futex, waits>>

(* The running thread calls futex, to wait or for something else. *)
FutexEntry(c) ==
    \E kind \in {"wait", "wake"} :
       /\ cur[c] # Idle /\ futex[cur[c]] = Outside
       /\ Emit(c, [kind |-> "entry", cpu |-> c, at |-> now, wait |-> kind = "wait"])
       /\ futex' = [futex EXCEPT ![cur[c]] = [kind |-> kind, at |-> now]]
       /\ UNCHANGED <<now, cur, waits>>

FutexExit(c) ==
    /\ cur[c] # Idle /\ futex[cur[c]] # Outside
    /\ Emit(c, [kind |-> "exit", cpu |-> c, at |-> now])
    /\ futex' = [futex EXCEPT ![cur[c]] = Outside]
    /\ waits' = IF futex[cur[c]].kind = "wait"
                   THEN waits \cup {<<cur[c], futex[cur[c]].at, now>>} ELSE waits
    /\ UNCHANGED <<now, cur>>

(* A time without an event would tell the parsers nothing, nor would one   *)
(* after the last event.                                                   *)
Tick ==
    /\ HasRoom /\ now < Start + MaxNow
    /\ \E p \in Recorded : Event(p).at = now
    /\ now' = now + 1
    /\ UNCHANGED <<cur, futex, streams, lost, waits>>

KernelNext == Tick \/ \E c \in Cpus : Switch(c) \/ Mark(c) \/ FutexEntry(c) \/ FutexExit(c)

KernelSpec == KernelInit /\ [][KernelNext]_kernelVars
=============================================================================
