------------------------- MODULE CallbackFlowProofs -------------------------
(***************************************************************************)
(* What CallbackFlow concludes from a trace of any length: which callback  *)
(* an event belongs to, also after one event has been discarded, which     *)
(* messages went through a container, who reads a polled subscription,     *)
(* which publication each callback took and who could have read a message  *)
(* that a node retains.                                                    *)
(*                                                                         *)
(* The stack of _callback_windows is compared with the callbacks that each *)
(* thread is really in (TracksInv): it is the same, or has one callback    *)
(* too many at the bottom, whose end was discarded, or is wrong within one *)
(* outermost callback, the one that is damaged.  With two discarded events *)
(* this is false.  The recursive functions of CallbackFlow are unrolled    *)
(* by one event with NatIsInductive; after that the trace is a state       *)
(* variable that grows, and the invariants are inductive in the usual way. *)
(* For reads and hops the walk is compared with the events once more: in a *)
(* trace without nested callbacks the window around an event is that of    *)
(* its callback, whatever was discarded (FitsInv), and the callback that   *)
(* begins next after a take for dispatch is that of its sample (NextInv).  *)
(* For pointers the windows of one callback are told apart whichever thread*)
(* it runs on (ExclusiveInv), and a retain event lies between the callback *)
(* that has returned and the next one of its thread (RetainsInv).          *)
(*                                                                         *)
(* FlowGraph, what is built from that, has its theorems at the end: for    *)
(* every application that can be recorded, in whatever order its calls are *)
(* declared, the finished graph keeps its message hops, routes its calls,  *)
(* ties its joins and shows its interactions on the coarser layers.        *)
(***************************************************************************)
EXTENDS CallbackFlow, FlowGraph, FiniteSetTheorems, WellFoundedInduction, TLAPS

(* A set of numbers has a least one.                                       *)
LEMMA LeastExists ==
    ASSUME NEW T, T \subseteq Nat, T # {}
    PROVE  \E x \in T : \A y \in T : x <= y
<1> DEFINE R == OpToRel(<, Nat)
<1>1. \A a, b \in Nat : a < b => <<a, b>> \in R
  <2> SUFFICES ASSUME NEW a \in Nat, NEW b \in Nat, a < b PROVE <<a, b>> \in R
    OBVIOUS
  <2> QED
    BY Zenon DEF OpToRel
<1>2. IsWellFoundedOn(R, Nat)
  BY NatLessThanWellFounded, Zenon
<1> HIDE DEF R
<1>3. \E x \in T : \A y \in T : ~(<<y, x>> \in R)
  BY <1>2, WFMin, Zenon
<1>4. PICK x \in T : \A y \in T : ~(<<y, x>> \in R)
  BY <1>3
<1>5. ASSUME NEW y \in T
      PROVE  x <= y
  <2>1. x \in Nat /\ y \in Nat
    OBVIOUS
  <2>2. ~(y < x)
    BY <1>1, <1>4, <2>1
  <2> QED
    BY <2>1, <2>2
<1> QED
  BY <1>5

(* Induction over the positions of a trace, in terms of sets: a set with 0 *)
(* and every successor holds all of Nat, for a least number outside it would*)
(* have a predecessor in it.                                               *)
LEMMA NatIsInductive ==
    ASSUME NEW S, 0 \in S, \A n \in Nat : n \in S => n + 1 \in S
    PROVE  Nat \subseteq S
<1> DEFINE T == Nat \ S
<1>1. SUFFICES ASSUME T # {} PROVE FALSE
  OBVIOUS
<1>2. PICK x \in T : \A y \in T : x <= y
  <2>1. T \subseteq Nat
    OBVIOUS
  <2> HIDE DEF T
  <2> QED
    BY <1>1, <2>1, LeastExists
<1>3. x \in Nat /\ x # 0 /\ x - 1 \in Nat /\ ~(x <= x - 1) /\ (x - 1) + 1 = x
  BY <1>2
<1>4. x - 1 \notin T
  BY <1>2, <1>3
<1> QED
  BY <1>2, <1>3, <1>4

-----------------------------------------------------------------------------
(* The walk of _callback_windows over the events of a thread, as a property*)
(* of a function over the positions of a trace: Walk chooses one.          *)
NoWindows == [stack |-> <<>>, wins |-> {}]
Moved(acc, e, t) == IF e.thread = t /\ e.kind \in {"start", "end"} THEN Match(acc, e) ELSE acc
Walks(s, t, n, w) == w = [i \in 0 .. n |-> IF i = 0 THEN NoWindows ELSE Moved(w[i - 1], s[i], t)]

(* There is such a function for every length.                              *)
LEMMA WalksExist ==
    ASSUME NEW s, NEW t, NEW n \in Nat
    PROVE  \E w : Walks(s, t, n, w)
<1> DEFINE S == {m \in Nat : \E w : Walks(s, t, m, w)}
<1>1. 0 \in S
  <2>1. Walks(s, t, 0, [i \in 0 .. 0 |-> NoWindows])
    BY DEF Walks
  <2> QED
    BY <2>1
<1>2. ASSUME NEW m \in Nat, m \in S
      PROVE  m + 1 \in S
  <2>1. PICK w : Walks(s, t, m, w)
    BY <1>2
  <2> DEFINE v == [i \in 0 .. m + 1 |-> IF i = m + 1 THEN Moved(w[m], s[i], t) ELSE w[i]]
  <2>2. ASSUME NEW i \in 0 .. m + 1
        PROVE  v[i] = IF i = 0 THEN NoWindows ELSE Moved(v[i - 1], s[i], t)
    <3>1. CASE i = m + 1
      BY <3>1
    <3>2. CASE i # m + 1 /\ i # 0
      <4>1. i \in 0 .. m /\ i - 1 \in 0 .. m /\ i - 1 # m + 1
        BY <3>2
      <4>2. v[i] = w[i] /\ v[i - 1] = w[i - 1]
        BY <4>1, <3>2
      <4>3. w[i] = Moved(w[i - 1], s[i], t)
        BY <2>1, <4>1, <3>2 DEF Walks
      <4> QED
        BY <3>2, <4>2, <4>3
    <3>3. CASE i = 0
      <4>1. w[0] = NoWindows
        BY <2>1 DEF Walks
      <4> QED
        BY <3>3, <4>1
    <3> QED
      BY <3>1, <3>2, <3>3
  <2>3. Walks(s, t, m + 1, v)
    <3>1. v = [i \in 0 .. m + 1 |-> v[i]]
      OBVIOUS
    <3> HIDE DEF v
    <3> QED
      BY <2>2, <3>1 DEF Walks
  <2> QED
    BY <2>3
<1> HIDE DEF S
<1>3. Nat \subseteq S
  BY <1>1, <1>2, NatIsInductive
<1> QED
  BY <1>3 DEF S

(* Two walks over traces that agree on a prefix agree at its end.          *)
LEMMA WalksAgree ==
    ASSUME NEW s, NEW r, NEW t, NEW n \in Nat, NEW m \in Nat, n <= m, \A i \in 1 .. n : r[i] = s[i],
           NEW w, Walks(s, t, n, w), NEW v, Walks(r, t, m, v)
    PROVE  w[n] = v[n]
<1> DEFINE S == {i \in Nat : i <= n => w[i] = v[i]}
<1>1. 0 \in S
  BY DEF Walks
<1>2. ASSUME NEW i \in Nat, i \in S
      PROVE  i + 1 \in S
  <2> SUFFICES ASSUME i + 1 <= n PROVE w[i + 1] = v[i + 1]
    OBVIOUS
  <2>1. w[i] = v[i] /\ i + 1 \in 0 .. n /\ i + 1 \in 1 .. n /\ i + 1 \in 0 .. m /\ i + 1 # 0 /\ (i + 1) - 1 = i
    BY <1>2
  <2>2. w[i + 1] = Moved(w[i], s[i + 1], t) /\ v[i + 1] = Moved(v[i], r[i + 1], t)
    BY <2>1 DEF Walks
  <2> QED
    BY <2>1, <2>2
<1> HIDE DEF S
<1>3. Nat \subseteq S
  BY <1>1, <1>2, NatIsInductive
<1> QED
  BY <1>3 DEF S

(* Walk is the last value of any such function.                            *)
LEMMA WalkIs ==
    ASSUME NEW s, NEW t, Len(s) \in Nat, NEW w, Walks(s, t, Len(s), w)
    PROVE  Walk(s, t) = w[Len(s)]
<1> DEFINE x == CHOOSE x : Walks(s, t, Len(s), x)
<1>1. Walk(s, t) = x[Len(s)]
  BY DEF Walk, Walks, Moved, NoWindows
<1>2. Walks(s, t, Len(s), x)
  BY WalksExist
<1> HIDE DEF x
<1> QED
  BY <1>1, <1>2, WalksAgree

(* The walk over an empty trace.                                           *)
LEMMA WalkOfNothing ==
    ASSUME NEW t
    PROVE  Walk(<<>>, t) = NoWindows
<1>1. PICK w : Walks(<<>>, t, 0, w)
  BY WalksExist
<1> QED
  BY <1>1, WalkIs DEF Walks

(* The walk over a trace with one more event is one step from the walk     *)
(* over the trace: the recursion of _callback_windows, unrolled once.      *)
LEMMA WalkGoesOn ==
    ASSUME NEW X, NEW s \in Seq(X), NEW e \in X, NEW t
    PROVE  Walk(Append(s, e), t) = Moved(Walk(s, t), e, t)
<1> DEFINE n == Len(s)
           r == Append(s, e)
<1>1. n \in Nat /\ Len(r) = n + 1 /\ r[n + 1] = e /\ \A i \in 1 .. n : r[i] = s[i]
  OBVIOUS
<1> HIDE DEF n, r
<1>2. PICK w : Walks(s, t, n, w)
  BY <1>1, WalksExist
<1>3. PICK v : Walks(r, t, n + 1, v)
  <2>1. n + 1 \in Nat
    BY <1>1
  <2> QED
    BY <2>1, WalksExist
<1>4. Walk(s, t) = w[n] /\ Walk(r, t) = v[n + 1]
  BY <1>1, <1>2, <1>3, WalkIs DEF n
<1>5. w[n] = v[n]
  BY <1>1, <1>2, <1>3, WalksAgree
<1>6. v[n + 1] = Moved(v[n], r[n + 1], t)
  BY <1>1, <1>3 DEF Walks
<1> QED
  BY <1>1, <1>4, <1>5, <1>6 DEF r

-----------------------------------------------------------------------------
(* The invariants.                                                         *)
Frame == [f : Callbacks, since : Nat \ {0}]
Shown(e) == e.kind \notin {"start", "end"}
Inside(e, w) == w.from <= e.at /\ e.at <= w.to

(* A thread is in callbacks that began one after the other.                *)
FramesInv ==
    /\ frames \in [Threads -> Seq(Frame)] /\ lost \in Nat /\ \E X : trace \in Seq(X)
    /\ \A t \in Threads :
          /\ \A i \in DOMAIN frames[t] : frames[t][i].since < Now
          /\ \A i, j \in DOMAIN frames[t] : i < j => frames[t][i].since < frames[t][j].since

(* What happens after a callback has begun and before it ends happens in   *)
(* it, or in one that began later.                                         *)
FitsFrames(e, fs) ==
    \A k \in DOMAIN fs : e.at >= fs[k].since => e.since >= fs[k].since /\ e.top = fs[1].since

(* An event fits the callbacks that its thread is still in.                *)
EventsInv ==
    \A i \in DOMAIN trace :
        LET e == trace[i] IN
        /\ e.thread \in Threads /\ {e.at, e.since, e.top} \subseteq Nat
        /\ e.at < Now /\ e.since <= e.at /\ (e.by = None <=> e.since = 0)
        /\ Shown(e) => FitsFrames(e, frames[e.thread])

(* The callbacks that the walk over the events of a thread believes open,  *)
(* and the windows that it has closed.                                     *)
Stack(t) == Walk(trace, t).stack
OpenWindow == [f : Callbacks, from : Nat \ {0}]
Window == [f : Callbacks, from : Nat \ {0}, to : Nat]

(* Callbacks on a stack began one after the other; a window ends after it  *)
(* has begun, and no two begin together.                                   *)
StackOK(st, wins, n) ==
    /\ st \in Seq(OpenWindow) /\ wins \subseteq Window
    /\ \A i \in DOMAIN st : st[i].from < n
    /\ \A i, j \in DOMAIN st : i < j => st[i].from < st[j].from
    /\ \A w \in wins : w.from < w.to /\ w.to < n
    /\ \A w \in wins : \A i \in DOMAIN st : w.from # st[i].from
    /\ \A w, x \in wins : w.from = x.from => w = x

StackInv == \A t \in Threads : StackOK(Stack(t), Windows(t), Now)

(* The callbacks believed open are those that the thread is in; one whose  *)
(* end was discarded may lie below them.                                   *)
Follows(st, fs, stale) ==
    /\ Len(st) = Len(fs) + stale
    /\ \A i \in DOMAIN fs : st[i + stale].f = fs[i].f /\ st[i + stale].from = fs[i].since

(* Within an outermost callback of which an event was discarded there is   *)
(* one callback too many, or one too few.                                  *)
Confused(st, fs, D) ==
    /\ fs # <<>> /\ fs[1].since \in D
    /\ Len(st) + 1 = Len(fs) \/ Len(st) = Len(fs) + 1
    /\ \A i \in DOMAIN st : st[i].from >= fs[1].since

Tracks(st, fs) ==
    Follows(st, fs, 0) \/ (lost > 0 /\ (Follows(st, fs, 1) \/ Confused(st, fs, damaged)))
TracksInv == \A t \in Threads : Tracks(Stack(t), frames[t])

(* A window around an event of an intact callback is one that this         *)
(* callback runs in or its own, and its own is there when it has ended.    *)
Explains(e, wins, fs) ==
    /\ \A w \in wins : Inside(e, w) => w.from <= e.since
    /\ e.by # None =>
          \/ \E k \in DOMAIN fs : fs[k].since = e.since /\ fs[k].f = e.by
          \/ \E w \in wins : w.f = e.by /\ w.from = e.since /\ Inside(e, w)
WindowsInv ==
    \A i \in DOMAIN trace :
        LET e == trace[i] IN
        Shown(e) /\ e.top \notin damaged => Explains(e, Windows(e.thread), frames[e.thread])

(* The inductive invariant.  What is said of losses holds for one.         *)
OwnerInv == FramesInv /\ EventsInv /\ StackInv /\ (lost <= 1 => TracksInv /\ WindowsInv)

-----------------------------------------------------------------------------
(* The steps, as far as events and frames are concerned.                   *)
Since(t) == IF frames[t] = <<>> THEN 0 ELSE frames[t][Len(frames[t])].since
Top(t) == IF frames[t] = <<>> THEN 0 ELSE frames[t][1].since
NewEvent(e, t) ==
    e.thread = t /\ e.at = Now /\ e.by = Running(t) /\ e.since = Since(t) /\ e.top = Top(t)
Appends(e, t) == NewEvent(e, t) /\ trace' = Append(trace, e) /\ UNCHANGED <<lost, damaged>>
Loses(x) == lost' = lost + 1 /\ damaged' = damaged \cup {x} /\ UNCHANGED trace

Shows(t) == \E e : Shown(e) /\ Appends(e, t) /\ UNCHANGED frames
Enters(t, f) == frames' = [frames EXCEPT ![t] = Append(@, [f |-> f, since |-> Now])]
Leaves(t) == frames[t] # <<>> /\ frames' = [frames EXCEPT ![t] = SubSeq(@, 1, Len(@) - 1)]
StartSeen(t) == \E f \in Callbacks : Enters(t, f) /\ \E e : e.kind = "start" /\ e.what = f /\ Appends(e, t)
StartLost(t) == \E f \in Callbacks : Enters(t, f) /\ Loses(IF frames[t] = <<>> THEN Now ELSE frames[t][1].since)
EndSeen(t) == Leaves(t) /\ \E e : e.kind = "end" /\ Appends(e, t)
EndLost(t) == Leaves(t) /\ Loses(frames[t][1].since)

(* Every step of RosTrace is one of these as far as events and frames go.  *)
LEMMA WhatSteps ==
    ASSUME Next
    PROVE  \E t \in Threads : Shows(t) \/ StartSeen(t) \/ StartLost(t) \/ EndSeen(t) \/ EndLost(t)
<1>1. ASSUME NEW kind, NEW t, NEW what, NEW sample, NEW took
      PROVE  LET e == Event(kind, t, what, sample, took)
             IN e.kind = kind /\ e.what = what /\ NewEvent(e, t)
  BY DEF Event, NewEvent, Since, Top
<1>2. ASSUME NEW kind, NEW t, NEW what, NEW sample, NEW took, Record(kind, t, what, sample, took)
      PROVE  \E e : e.kind = kind /\ e.what = what /\ Appends(e, t)
  <2> DEFINE e == Event(kind, t, what, sample, took)
  <2>1. e.kind = kind /\ e.what = what /\ NewEvent(e, t)
    BY <1>1
  <2>2. trace' = Append(trace, e) /\ UNCHANGED <<lost, damaged>>
    BY <1>2 DEF Record
  <2> HIDE DEF e
  <2> QED
    BY <2>1, <2>2 DEF Appends
<1>3. ASSUME NEW kind, NEW t, NEW what, NEW sample, NEW took, Record(kind, t, what, sample, took),
             UNCHANGED frames, kind \notin {"start", "end"}
      PROVE  Shows(t)
  BY <1>2, <1>3 DEF Shows, Shown
<1>4. ASSUME NEW t \in Threads, NEW f \in Callbacks, Start(t, f)
      PROVE  StartSeen(t) \/ StartLost(t)
  <2>1. Enters(t, f)
    BY <1>4 DEF Start, Enters
  <2>2. CASE Record("start", t, f, 0, {})
    BY <1>2, <2>1, <2>2 DEF StartSeen
  <2>3. CASE Discard(IF frames[t] = <<>> THEN Now ELSE frames[t][1].since)
    BY <2>1, <2>3 DEF StartLost, Discard, Loses
  <2> QED
    BY <1>4, <2>2, <2>3 DEF Start
<1>5. ASSUME NEW t \in Threads, End(t)
      PROVE  EndSeen(t) \/ EndLost(t)
  <2>1. Leaves(t)
    BY <1>5 DEF End, Leaves
  <2>2. CASE Record("end", t, Running(t), 0, {})
    BY <1>2, <2>1, <2>2 DEF EndSeen
  <2>3. CASE Discard(frames[t][1].since)
    BY <2>1, <2>3 DEF EndLost, Discard, Loses
  <2> QED
    BY <1>5, <2>2, <2>3 DEF End
<1>6. PICK t \in Threads :
        \/ \E p \in Publishers : Publish(t, p)
        \/ \E s \in Subs : Take(t, s)
        \/ \E f \in Callbacks : Start(t, f)
        \/ End(t)
        \/ \E q \in Polled : Poll(t, q)
        \/ \E c \in Containers : Push(t, c) \/ Erase(t, c)
        \/ Retain(t)
        \/ \E k \in kept : Release(t, k)
  BY DEF Next
<1>7. CASE \E p \in Publishers : Publish(t, p)
  BY <1>3, <1>7 DEF Publish
<1>8. CASE \E s \in Subs : Take(t, s)
  <2>1. PICK s \in Subs : Take(t, s)
    BY <1>8
  <2>2. \E sample : Record("take", t, s, sample, {}) /\ UNCHANGED frames
    BY <2>1 DEF Take
  <2> QED
    BY <1>3, <2>2
<1>9. CASE \E q \in Polled : Poll(t, q)
  BY <1>3, <1>9 DEF Poll
<1>10. CASE \E c \in Containers : Push(t, c) \/ Erase(t, c)
  BY <1>3, <1>10 DEF Push, Erase
<1>11. CASE Retain(t)
  BY <1>3, <1>11 DEF Retain
<1>12. CASE \E k \in kept : Release(t, k)
  BY <1>3, <1>12 DEF Release
<1> QED
  BY <1>4, <1>5, <1>6, <1>7, <1>8, <1>9, <1>10, <1>11, <1>12

(* What a step does to the walk over the events of a thread.               *)
Passed(t) == Stack(t)' = Stack(t) /\ Windows(t)' = Windows(t)
Pushed(t, f) == Stack(t)' = Append(Stack(t), [f |-> f, from |-> Now]) /\ Windows(t)' = Windows(t)
Popped(t) ==
    LET w == Stack(t)[Len(Stack(t))]
    IN /\ Stack(t) # <<>>
       /\ Stack(t)' = SubSeq(Stack(t), 1, Len(Stack(t)) - 1)
       /\ Windows(t)' = Windows(t) \cup {[f |-> w.f, from |-> w.from, to |-> Now]}

(* An event moves the walk of its own thread only, and by its kind.        *)
LEMMA WhatIsSeen ==
    ASSUME NEW X, trace \in Seq(X), NEW e, NEW t \in Threads, trace' = Append(trace, e), e.thread = t,
           e.at = Now
    PROVE  /\ \A u \in Threads \ {t} : Passed(u)
           /\ Shown(e) => Passed(t)
           /\ e.kind = "start" => Pushed(t, e.what)
           /\ e.kind = "end" => IF Stack(t) = <<>> THEN Passed(t) ELSE Popped(t)
<1>1. trace \in Seq(X \cup {e}) /\ e \in X \cup {e}
  OBVIOUS
<1>2. \A u : Walk(trace', u) = Moved(Walk(trace, u), e, u)
  BY <1>1, WalkGoesOn, Zenon
<1>3. \A u : Walk(trace, u).wins = Windows(u) /\ Walk(trace', u).wins = Windows(u)'
             /\ Walk(trace, u).stack = Stack(u) /\ Walk(trace', u).stack = Stack(u)'
  BY DEF Windows, Stack
<1>4. \A u \in Threads \ {t} : Passed(u)
  BY <1>2, <1>3 DEF Passed, Moved
<1>5. ASSUME Shown(e)
      PROVE  Passed(t)
  BY <1>2, <1>3, <1>5 DEF Moved, Shown, Passed
<1>6. ASSUME e.kind = "start"
      PROVE  Pushed(t, e.what)
  BY <1>2, <1>3, <1>6 DEF Moved, Match, Pushed
<1>7. ASSUME e.kind = "end", Stack(t) = <<>>
      PROVE  Passed(t)
  BY <1>2, <1>3, <1>7 DEF Moved, Match, Passed
<1>8. ASSUME e.kind = "end", Stack(t) # <<>>
      PROVE  Popped(t)
  BY <1>2, <1>3, <1>8 DEF Moved, Match, Last, Front, Popped
<1> QED
  BY <1>4, <1>5, <1>6, <1>7, <1>8

(* Time is a positive number.                                              *)
LEMMA NowIsNat ==
    ASSUME FramesInv
    PROVE  Now \in Nat \ {0}
  BY DEF FramesInv, Now

(* A recorded event is the last of a trace that is otherwise the same.     *)
LEMMA TraceGrows ==
    ASSUME FramesInv, NEW e, NEW t, Appends(e, t)
    PROVE  /\ \E X : trace' \in Seq(X)
           /\ lost' \in Nat /\ Len(trace) \in Nat /\ Len(trace') = Len(trace) + 1
           /\ DOMAIN trace = 1 .. Len(trace) /\ DOMAIN trace' = 1 .. (Len(trace) + 1)
           /\ \A i \in DOMAIN trace : trace'[i] = trace[i]
           /\ trace'[Len(trace) + 1] = e
<1>1. PICK X : trace \in Seq(X)
  BY DEF FramesInv
<1>2. trace \in Seq(X \cup {e}) /\ e \in X \cup {e}
  BY <1>1
<1>3. trace' = Append(trace, e) /\ trace' \in Seq(X \cup {e})
  BY <1>2 DEF Appends
<1> QED
  BY <1>2, <1>3 DEF Appends, FramesInv

(* Every event takes a unit of time, recorded or not.                      *)
LEMMA NowGoesOn ==
    ASSUME FramesInv, NEW t, NEW e, NEW x, Appends(e, t) \/ Loses(x)
    PROVE  Now' = Now + 1
<1>1. CASE Appends(e, t)
  BY <1>1, TraceGrows DEF Appends, FramesInv, Now
<1>2. CASE Loses(x)
  <2>1. Len(trace) \in Nat
    BY DEF FramesInv
  <2> QED
    BY <1>2, <2>1 DEF Loses, FramesInv, Now
<1> QED
  BY <1>1, <1>2

(* What FramesInv says of one thread, in the terms that the proofs use.    *)
LEMMA FramesOf ==
    ASSUME FramesInv, NEW t \in Threads
    PROVE  /\ frames[t] \in Seq(Frame) /\ Len(frames[t]) \in Nat /\ DOMAIN frames[t] = 1 .. Len(frames[t])
           /\ frames[t] # <<>> <=> Len(frames[t]) > 0
           /\ \A i \in DOMAIN frames[t] :
                 /\ frames[t][i].since \in Nat \ {0} /\ frames[t][i].since < Now
                 /\ frames[t][i].f \in Callbacks
                 /\ frames[t][1].since <= frames[t][i].since
           /\ \A i, j \in DOMAIN frames[t] : i < j => frames[t][i].since < frames[t][j].since
<1>1. frames[t] \in Seq(Frame)
  BY DEF FramesInv
<1>2. \A i \in DOMAIN frames[t] : frames[t][i] \in Frame
  BY <1>1
<1>3. \A i \in DOMAIN frames[t] : frames[t][i].since \in Nat \ {0} /\ frames[t][i].f \in Callbacks
  BY <1>2 DEF Frame
<1>4. ASSUME NEW i \in DOMAIN frames[t]
      PROVE  frames[t][1].since <= frames[t][i].since
  <2>1. i \in 1 .. Len(frames[t]) /\ Len(frames[t]) \in Nat /\ 1 \in DOMAIN frames[t]
    BY <1>1
  <2>2. CASE i = 1
    BY <1>3, <2>1, <2>2
  <2>3. CASE 1 < i
    BY <1>3, <2>1, <2>3 DEF FramesInv
  <2> QED
    BY <2>1, <2>2, <2>3
<1> QED
  BY <1>1, <1>3, <1>4 DEF FramesInv

(* The frames after a callback has begun.                                  *)
LEMMA EntersFrames ==
    ASSUME FramesInv, NEW t \in Threads, NEW f \in Callbacks, Enters(t, f)
    PROVE  /\ frames' \in [Threads -> Seq(Frame)]
           /\ \A u \in Threads \ {t} : frames'[u] = frames[u]
           /\ Len(frames[t]) \in Nat /\ Len(frames'[t]) = Len(frames[t]) + 1
           /\ \A k \in DOMAIN frames[t] : frames'[t][k] = frames[t][k]
           /\ frames'[t][Len(frames[t]) + 1] = [f |-> f, since |-> Now]
           /\ frames'[t][Len(frames[t]) + 1].since = Now
           /\ frames[t] # <<>> => frames'[t][1] = frames[t][1]
           /\ frames[t] = <<>> => frames'[t][1].since = Now
           /\ DOMAIN frames[t] = 1 .. Len(frames[t]) /\ DOMAIN frames'[t] = 1 .. (Len(frames[t]) + 1)
<1> DEFINE x == [f |-> f, since |-> Now]
<1>1. x \in Frame /\ x.since = Now
  BY NowIsNat DEF Frame
<1> HIDE DEF x
<1>2. frames' = [frames EXCEPT ![t] = Append(frames[t], x)] /\ frames[t] \in Seq(Frame)
  BY DEF Enters, FramesInv, x
<1>3. frames'[t] = Append(frames[t], x) /\ frames' \in [Threads -> Seq(Frame)]
      /\ \A u \in Threads \ {t} : frames'[u] = frames[u]
  BY <1>1, <1>2 DEF FramesInv
<1>4. frames[t] # <<>> => Len(frames[t]) >= 1
  BY <1>2
<1>5. frames[t] = <<>> => Len(frames[t]) = 0
  BY <1>2
<1> QED
  BY <1>1, <1>2, <1>3, <1>4, <1>5 DEF x

(* The frames after a callback has ended.                                  *)
LEMMA LeavesFrames ==
    ASSUME FramesInv, NEW t \in Threads, Leaves(t)
    PROVE  /\ frames' \in [Threads -> Seq(Frame)]
           /\ \A u \in Threads \ {t} : frames'[u] = frames[u]
           /\ Len(frames[t]) \in Nat \ {0} /\ Len(frames'[t]) = Len(frames[t]) - 1
           /\ \A k \in DOMAIN frames'[t] : k \in DOMAIN frames[t] /\ frames'[t][k] = frames[t][k]
           /\ DOMAIN frames[t] = 1 .. Len(frames[t]) /\ DOMAIN frames'[t] = 1 .. (Len(frames[t]) - 1)
<1>1. frames' = [frames EXCEPT ![t] = SubSeq(frames[t], 1, Len(frames[t]) - 1)]
      /\ frames[t] \in Seq(Frame) /\ frames[t] # <<>>
  BY DEF Leaves, FramesInv
<1>2. Len(frames[t]) \in Nat \ {0}
  BY <1>1
<1>3. SubSeq(frames[t], 1, Len(frames[t]) - 1) \in Seq(Frame)
  BY <1>1, <1>2
<1>4. frames'[t] = SubSeq(frames[t], 1, Len(frames[t]) - 1) /\ frames' \in [Threads -> Seq(Frame)]
      /\ \A u \in Threads \ {t} : frames'[u] = frames[u]
  BY <1>1, <1>3 DEF FramesInv
<1>5. \A s \in Seq(Frame) : Len(s) \in Nat \ {0} =>
         /\ Len(SubSeq(s, 1, Len(s) - 1)) = Len(s) - 1
         /\ DOMAIN SubSeq(s, 1, Len(s) - 1) = 1 .. (Len(s) - 1)
         /\ \A k \in 1 .. (Len(s) - 1) : SubSeq(s, 1, Len(s) - 1)[k] = s[k]
  <2> SUFFICES ASSUME NEW s \in Seq(Frame), NEW n \in Nat, Len(s) = n + 1
               PROVE  /\ Len(SubSeq(s, 1, n)) = n
                      /\ DOMAIN SubSeq(s, 1, n) = 1 .. n
                      /\ \A k \in 1 .. n : SubSeq(s, 1, n)[k] = s[k]
    <3> TAKE s \in Seq(Frame)
    <3> HAVE Len(s) \in Nat \ {0}
    <3>1. Len(s) - 1 \in Nat /\ Len(s) = (Len(s) - 1) + 1
      OBVIOUS
    <3> QED
      BY <3>1
  <2>1. \A k \in 1 .. n : k \in DOMAIN s
    OBVIOUS
  <2>2. Len(SubSeq(s, 1, n)) = n
    OBVIOUS
  <2>3. SubSeq(s, 1, n) = [k \in 1 .. n |-> s[k]]
    OBVIOUS
  <2> QED
    BY <2>2, <2>3
<1>6. DOMAIN frames[t] = 1 .. Len(frames[t])
  BY <1>1
<1>7. /\ Len(frames'[t]) = Len(frames[t]) - 1 /\ DOMAIN frames'[t] = 1 .. (Len(frames[t]) - 1)
      /\ \A k \in 1 .. (Len(frames[t]) - 1) : frames'[t][k] = frames[t][k]
  BY <1>1, <1>2, <1>4, <1>5
<1> QED
  BY <1>2, <1>4, <1>6, <1>7

(* FramesInv is inductive, and time goes on with every step.               *)
LEMMA FramesKept ==
    ASSUME FramesInv, Next
    PROVE  FramesInv' /\ Now' = Now + 1
<1>1. PICK t \in Threads : Shows(t) \/ StartSeen(t) \/ StartLost(t) \/ EndSeen(t) \/ EndLost(t)
  BY WhatSteps
<1>2. (\E e : Appends(e, t)) \/ (\E x : Loses(x))
  BY <1>1 DEF Shows, StartSeen, StartLost, EndSeen, EndLost
<1>3. Now \in Nat /\ Now' = Now + 1
  BY <1>2, NowIsNat, NowGoesOn
<1>4. lost' \in Nat /\ \E X : trace' \in Seq(X)
  <2>1. ASSUME NEW x, Loses(x)
        PROVE  lost' \in Nat /\ \E X : trace' \in Seq(X)
    BY <2>1 DEF Loses, FramesInv
  <2> QED
    BY <1>2, <2>1, TraceGrows
<1> DEFINE Ordered(fs) == /\ \A i \in DOMAIN fs : fs[i].since < Now'
                          /\ \A i, j \in DOMAIN fs : i < j => fs[i].since < fs[j].since
<1>5. ASSUME NEW u \in Threads
      PROVE  Ordered(frames[u])
  BY <1>3, FramesOf
<1>6. ASSUME NEW u \in Threads, u # t \/ UNCHANGED frames, \A v \in Threads \ {t} : frames'[v] = frames[v]
      PROVE  Ordered(frames'[u])
  BY <1>5, <1>6
<1>7. ASSUME UNCHANGED frames
      PROVE  FramesInv'
  BY <1>4, <1>5, <1>7 DEF FramesInv
<1>8. ASSUME NEW f \in Callbacks, Enters(t, f)
      PROVE  FramesInv'
  <2>1. Ordered(frames'[t])
    <3> DEFINE n == Len(frames[t])
    <3>1. /\ n \in Nat /\ DOMAIN frames[t] = 1 .. n /\ DOMAIN frames'[t] = 1 .. (n + 1)
          /\ \A i \in 1 .. n : frames'[t][i] = frames[t][i]
          /\ frames'[t][n + 1].since = Now
      BY <1>8, EntersFrames
    <3>2. \A i \in 1 .. n : frames[t][i].since \in Nat /\ frames[t][i].since < Now
      BY <3>1, FramesOf
    <3> HIDE DEF n
    <3>3. ASSUME NEW i \in 1 .. n + 1
          PROVE  frames'[t][i].since < Now'
      <4>1. CASE i = n + 1
        BY <1>3, <3>1, <4>1
      <4>2. CASE i \in 1 .. n
        <5>1. frames'[t][i] = frames[t][i]
          BY <3>1, <4>2
        <5>2. frames[t][i].since \in Nat /\ frames[t][i].since < Now
          BY <3>2, <4>2
        <5>3. frames[t][i].since < Now'
          BY <1>3, <5>2
        <5> QED
          BY <5>1, <5>3
      <4> QED
        BY <3>1, <4>1, <4>2
    <3>4. \A i, j \in 1 .. n : i < j => frames'[t][i].since < frames'[t][j].since
      BY <1>5, <3>1
    <3>5. \A i \in 1 .. n : frames'[t][i].since < frames'[t][n + 1].since
      BY <3>1, <3>2
    <3> QED
      BY <3>1, <3>3, <3>4, <3>5
  <2>2. \A u \in Threads : Ordered(frames'[u])
    BY <1>6, <1>8, <2>1, EntersFrames
  <2>3. frames' \in [Threads -> Seq(Frame)]
    BY <1>8, EntersFrames
  <2> QED
    BY <1>4, <2>2, <2>3 DEF FramesInv
<1>9. ASSUME Leaves(t)
      PROVE  FramesInv'
  <2>1. Ordered(frames'[t])
    BY <1>5, <1>9, LeavesFrames
  <2>2. \A u \in Threads : Ordered(frames'[u])
    BY <1>6, <1>9, <2>1, LeavesFrames
  <2>3. frames' \in [Threads -> Seq(Frame)]
    BY <1>9, LeavesFrames
  <2> QED
    BY <1>4, <2>2, <2>3 DEF FramesInv
<1> QED
  BY <1>1, <1>3, <1>7, <1>8, <1>9 DEF Shows, StartSeen, StartLost, EndSeen, EndLost

(* What EventsInv says of one event.                                       *)
LEMMA EventOf ==
    ASSUME FramesInv, EventsInv, NEW i \in DOMAIN trace
    PROVE  /\ trace[i].thread \in Threads
           /\ trace[i].at \in Nat /\ trace[i].since \in Nat /\ trace[i].top \in Nat
           /\ trace[i].at < Now /\ trace[i].since <= trace[i].at
           /\ trace[i].by = None <=> trace[i].since = 0
           /\ Shown(trace[i]) => FitsFrames(trace[i], frames[trace[i].thread])
  BY DEF EventsInv

(* An event fits the frames in which it happens, and names one of them.    *)
LEMMA NewEventFits ==
    ASSUME FramesInv, NEW t \in Threads, NEW e, NewEvent(e, t)
    PROVE  /\ e.thread = t /\ e.at = Now
           /\ {e.at, e.since, e.top} \subseteq Nat
           /\ e.since <= e.at
           /\ e.by = None <=> e.since = 0
           /\ FitsFrames(e, frames[t])
           /\ e.by # None => \E k \in DOMAIN frames[t] : frames[t][k].since = e.since /\ frames[t][k].f = e.by
<1>1. e.thread = t /\ e.at = Now /\ e.by = Running(t) /\ e.since = Since(t) /\ e.top = Top(t) /\ Now \in Nat
  BY NowIsNat DEF NewEvent
<1>2. CASE frames[t] = <<>>
  <2>1. e.by = None /\ e.since = 0 /\ e.top = 0
    BY <1>1, <1>2 DEF Running, Since, Top
  <2>2. FitsFrames(e, frames[t])
    BY <1>2 DEF FitsFrames
  <2> QED
    BY <1>1, <2>1, <2>2
<1>3. CASE frames[t] # <<>>
  <2> DEFINE n == Len(frames[t])
  <2>1. n \in DOMAIN frames[t] /\ 1 \in DOMAIN frames[t]
    BY <1>3, FramesOf
  <2>2. e.by = frames[t][n].f /\ e.since = frames[t][n].since /\ e.top = frames[t][1].since
    BY <1>1, <1>3 DEF Running, Since, Top
  <2>3. /\ frames[t][n].since \in Nat \ {0} /\ frames[t][n].since < Now /\ frames[t][n].f \in Callbacks
        /\ frames[t][1].since \in Nat
    BY <2>1, FramesOf
  <2>4. e.by # None
    BY <2>2, <2>3, RosTraceAssumption
  <2>5. ASSUME NEW k \in DOMAIN frames[t]
        PROVE  frames[t][n].since >= frames[t][k].since
    <3>1. k = n \/ k < n
      BY <2>1, FramesOf
    <3>2. frames[t][k].since \in Nat
      BY FramesOf
    <3> QED
      BY <2>1, <2>3, <3>1, <3>2, FramesOf
  <2>6. FitsFrames(e, frames[t])
    BY <2>2, <2>5 DEF FitsFrames
  <2> QED
    BY <1>1, <2>1, <2>2, <2>3, <2>4, <2>6
<1> QED
  BY <1>2, <1>3

(* EventsInv is inductive, given FramesInv.                                *)
LEMMA EventsKept ==
    ASSUME FramesInv, EventsInv, Next
    PROVE  EventsInv'
<1>1. PICK t \in Threads : Shows(t) \/ StartSeen(t) \/ StartLost(t) \/ EndSeen(t) \/ EndLost(t)
  BY WhatSteps
<1>2. Now \in Nat /\ Now' = Now + 1
  BY NowIsNat, FramesKept
<1>3. ASSUME NEW i \in DOMAIN trace, Shown(trace[i])
      PROVE  FitsFrames(trace[i], frames'[trace[i].thread])
  <2> DEFINE e == trace[i]
             u == trace[i].thread
  <2>1. u \in Threads /\ e.at \in Nat /\ e.at < Now /\ FitsFrames(e, frames[u])
    BY <1>3, EventOf
  <2> HIDE DEF e, u
  <2>2. ASSUME frames'[u] = frames[u]
        PROVE  FitsFrames(e, frames'[u])
    BY <2>1, <2>2 DEF FitsFrames
  <2>3. ASSUME NEW f \in Callbacks, Enters(t, f), u = t
        PROVE  FitsFrames(e, frames'[u])
    <3> SUFFICES ASSUME NEW k \in DOMAIN frames'[t], e.at >= frames'[t][k].since
                 PROVE  e.since >= frames'[t][k].since /\ e.top = frames'[t][1].since
      BY <2>3 DEF FitsFrames
    <3>1. k \in 1 .. (Len(frames[t]) + 1) /\ frames'[t][Len(frames[t]) + 1].since = Now /\ Len(frames[t]) \in Nat
      BY <2>3, EntersFrames
    <3>2. k # Len(frames[t]) + 1
      BY <1>2, <2>1, <3>1
    <3>3. k \in DOMAIN frames[t] /\ frames[t] # <<>>
      BY <3>1, <3>2, FramesOf
    <3>4. frames'[t][k] = frames[t][k] /\ frames'[t][1] = frames[t][1]
      BY <2>3, <3>3, EntersFrames
    <3> QED
      BY <2>1, <2>3, <3>3, <3>4 DEF FitsFrames
  <2>4. ASSUME Leaves(t), u = t
        PROVE  FitsFrames(e, frames'[u])
    <3> SUFFICES ASSUME NEW k \in DOMAIN frames'[t], e.at >= frames'[t][k].since
                 PROVE  e.since >= frames'[t][k].since /\ e.top = frames'[t][1].since
      BY <2>4 DEF FitsFrames
    <3>1. 1 \in DOMAIN frames'[t]
      BY <2>4, LeavesFrames
    <3>2. k \in DOMAIN frames[t] /\ frames'[t][k] = frames[t][k] /\ frames'[t][1] = frames[t][1]
      BY <2>4, <3>1, LeavesFrames
    <3> QED
      BY <2>1, <2>4, <3>2 DEF FitsFrames
  <2>5. u # t => frames'[u] = frames[u]
    BY <1>1, <2>1, EntersFrames, LeavesFrames DEF Shows, StartSeen, StartLost, EndSeen, EndLost
  <2>6. FitsFrames(e, frames'[u])
    <3>1. Shows(t) => frames'[u] = frames[u]
      BY DEF Shows
    <3> QED
      BY <1>1, <2>2, <2>3, <2>4, <2>5, <3>1 DEF StartSeen, StartLost, EndSeen, EndLost
  <2> QED
    BY <2>6 DEF e, u
<1> DEFINE Fine(e) == /\ e.thread \in Threads /\ {e.at, e.since, e.top} \subseteq Nat
                      /\ e.at < Now' /\ e.since <= e.at /\ (e.by = None <=> e.since = 0)
                      /\ Shown(e) => FitsFrames(e, frames'[e.thread])
<1>4. ASSUME NEW i \in DOMAIN trace
      PROVE  Fine(trace[i])
  BY <1>2, <1>3, EventOf
<1>5. ASSUME UNCHANGED trace
      PROVE  EventsInv'
  BY <1>4, <1>5 DEF EventsInv, Shown, FitsFrames
<1>6. ASSUME NEW e, Appends(e, t), Shown(e) => UNCHANGED frames
      PROVE  EventsInv'
  <2>1. Fine(e)
    <3>1. NewEvent(e, t)
      BY <1>6 DEF Appends
    <3>2. Shown(e) => FitsFrames(e, frames'[t])
      BY <1>6, <3>1, NewEventFits
    <3> QED
      BY <1>2, <3>1, <3>2, NewEventFits
  <2>2. \A i \in DOMAIN trace' : Fine(trace'[i])
    <3> HIDE DEF Fine
    <3>1. /\ DOMAIN trace = 1 .. Len(trace) /\ DOMAIN trace' = 1 .. (Len(trace) + 1) /\ Len(trace) \in Nat
          /\ \A i \in DOMAIN trace : trace'[i] = trace[i]
          /\ trace'[Len(trace) + 1] = e
      BY <1>6, TraceGrows
    <3>2. \A i \in DOMAIN trace' : i \in DOMAIN trace \/ i = Len(trace) + 1
      BY <3>1
    <3> QED
      BY <1>4, <2>1, <3>1, <3>2
  <2> QED
    BY <2>2 DEF EventsInv, Shown, FitsFrames
<1> QED
  BY <1>1, <1>5, <1>6 DEF Shows, StartSeen, StartLost, EndSeen, EndLost, Loses, Shown

(* Time alone does not disturb the stack of a thread,                      *)
LEMMA StackWaits ==
    ASSUME NEW st, NEW wins, NEW n \in Nat, StackOK(st, wins, n)
    PROVE  StackOK(st, wins, n + 1)
<1>1. ASSUME NEW i \in DOMAIN st
      PROVE  st[i].from < n + 1
  <2>1. st[i] \in OpenWindow /\ st[i].from < n
    BY DEF StackOK
  <2> QED
    BY <2>1 DEF OpenWindow
<1>2. ASSUME NEW w \in wins
      PROVE  w.to < n + 1
  <2>1. w \in Window /\ w.to < n
    BY DEF StackOK
  <2> QED
    BY <2>1 DEF Window
<1> QED
  BY <1>1, <1>2 DEF StackOK

(* nor does a callback_start,                                              *)
LEMMA StackPushes ==
    ASSUME NEW st, NEW wins, NEW n \in Nat \ {0}, StackOK(st, wins, n), NEW f \in Callbacks
    PROVE  StackOK(Append(st, [f |-> f, from |-> n]), wins, n + 1)
<1> DEFINE x == [f |-> f, from |-> n]
           m == Len(st)
           r == Append(st, x)
<1>1. x \in OpenWindow /\ x.from = n
  BY DEF OpenWindow
<1> HIDE DEF x
<1>2. st \in Seq(OpenWindow) /\ m \in Nat /\ DOMAIN st = 1 .. m
  BY DEF StackOK
<1>3. r \in Seq(OpenWindow) /\ DOMAIN r = 1 .. (m + 1) /\ r[m + 1] = x /\ \A i \in 1 .. m : r[i] = st[i]
  BY <1>1, <1>2
<1> HIDE DEF m, r
<1>4. \A i \in 1 .. m : st[i].from \in Nat /\ st[i].from < n
  <2>1. \A i \in 1 .. m : st[i] \in OpenWindow /\ st[i].from < n
    BY <1>2 DEF StackOK
  <2> QED
    BY <2>1 DEF OpenWindow
<1>5. \A w \in wins : w.from \in Nat /\ w.to \in Nat /\ w.from < w.to /\ w.to < n
  BY DEF StackOK, Window
<1>6. \A w \in wins : w.from < n
  BY <1>5
<1>7. ASSUME NEW i \in 1 .. m + 1
      PROVE  r[i].from < n + 1
  <2>1. CASE i = m + 1
    BY <1>1, <1>3, <2>1
  <2>2. CASE i \in 1 .. m
    BY <1>3, <1>4, <2>2
  <2> QED
    BY <1>2, <2>1, <2>2
<1>8. \A i, j \in 1 .. m + 1 : i < j => r[i].from < r[j].from
  <2> SUFFICES ASSUME NEW i \in 1 .. m + 1, NEW j \in 1 .. m + 1, i < j
               PROVE  r[i].from < r[j].from
    OBVIOUS
  <2>1. i \in 1 .. m
    BY <1>2
  <2>2. CASE j = m + 1
    BY <1>1, <1>3, <1>4, <2>1, <2>2
  <2>3. CASE j \in 1 .. m
    BY <1>2, <1>3, <2>1, <2>3 DEF StackOK
  <2> QED
    BY <1>2, <2>2, <2>3
<1>9. \A w \in wins : \A i \in 1 .. m + 1 : w.from # r[i].from
  <2> SUFFICES ASSUME NEW w \in wins, NEW i \in 1 .. m + 1
               PROVE  w.from # r[i].from
    OBVIOUS
  <2>1. CASE i = m + 1
    BY <1>1, <1>3, <1>5, <1>6, <2>1
  <2>2. CASE i \in 1 .. m
    BY <1>2, <1>3, <2>2 DEF StackOK
  <2> QED
    BY <1>2, <2>1, <2>2
<1>10. StackOK(r, wins, n + 1)
  <2>1. \A w \in wins : w.from < w.to /\ w.to < n + 1
    BY <1>5
  <2>2. wins \subseteq Window /\ \A w, x2 \in wins : w.from = x2.from => w = x2
    BY DEF StackOK
  <2> QED
    BY <1>3, <1>7, <1>8, <1>9, <2>1, <2>2 DEF StackOK
<1> QED
  BY <1>10 DEF r, x

(* nor does a callback_end, which closes a window.                         *)
LEMMA StackPops ==
    ASSUME NEW st, NEW wins, NEW n \in Nat \ {0}, StackOK(st, wins, n), st # <<>>
    PROVE  LET w == st[Len(st)]
           IN /\ StackOK(SubSeq(st, 1, Len(st) - 1),
                         wins \cup {[f |-> w.f, from |-> w.from, to |-> n]}, n + 1)
              /\ Len(st) \in Nat \ {0} /\ Len(SubSeq(st, 1, Len(st) - 1)) = Len(st) - 1
              /\ \A k \in 1 .. (Len(st) - 1) : SubSeq(st, 1, Len(st) - 1)[k] = st[k]
              /\ DOMAIN st = 1 .. Len(st)
<1> DEFINE m == Len(st)
           r == SubSeq(st, 1, m - 1)
           w == st[m]
           v == [f |-> w.f, from |-> w.from, to |-> n]
           W == wins \cup {v}
<1>1. st \in Seq(OpenWindow) /\ m \in Nat \ {0} /\ DOMAIN st = 1 .. m
  BY DEF StackOK
<1>2. \A s \in Seq(OpenWindow) : Len(s) \in Nat \ {0} =>
         /\ SubSeq(s, 1, Len(s) - 1) \in Seq(OpenWindow)
         /\ Len(SubSeq(s, 1, Len(s) - 1)) = Len(s) - 1
         /\ DOMAIN SubSeq(s, 1, Len(s) - 1) = 1 .. (Len(s) - 1)
         /\ \A k \in 1 .. (Len(s) - 1) : SubSeq(s, 1, Len(s) - 1)[k] = s[k]
  <2> SUFFICES ASSUME NEW s \in Seq(OpenWindow), NEW k \in Nat, Len(s) = k + 1
               PROVE  /\ SubSeq(s, 1, k) \in Seq(OpenWindow)
                      /\ Len(SubSeq(s, 1, k)) = k
                      /\ DOMAIN SubSeq(s, 1, k) = 1 .. k
                      /\ \A i \in 1 .. k : SubSeq(s, 1, k)[i] = s[i]
    <3> TAKE s \in Seq(OpenWindow)
    <3> HAVE Len(s) \in Nat \ {0}
    <3>1. Len(s) - 1 \in Nat /\ Len(s) = (Len(s) - 1) + 1
      OBVIOUS
    <3> QED
      BY <3>1
  <2>1. \A i \in 1 .. k : i \in DOMAIN s
    OBVIOUS
  <2>2. Len(SubSeq(s, 1, k)) = k /\ SubSeq(s, 1, k) \in Seq(OpenWindow)
    OBVIOUS
  <2>3. SubSeq(s, 1, k) = [i \in 1 .. k |-> s[i]]
    OBVIOUS
  <2> QED
    BY <2>2, <2>3
<1>3. /\ r \in Seq(OpenWindow) /\ Len(r) = m - 1 /\ DOMAIN r = 1 .. (m - 1)
      /\ \A k \in 1 .. (m - 1) : r[k] = st[k]
  BY <1>1, <1>2
<1>4. w \in OpenWindow /\ m \in DOMAIN st
  BY <1>1
<1>5. w.f \in Callbacks /\ w.from \in Nat \ {0} /\ w.from < n
  BY <1>4 DEF OpenWindow, StackOK
<1> HIDE DEF r, w
<1>6. v \in Window /\ v.f = w.f /\ v.from = w.from /\ v.to = n
  BY <1>5 DEF Window
<1> HIDE DEF v
<1>7. \A k \in 1 .. (m - 1) : r[k] = st[k] /\ k \in DOMAIN st /\ st[k].from < w.from
  <2>1. \A k \in 1 .. (m - 1) : k \in DOMAIN st /\ k < m
    BY <1>1
  <2>2. \A i, j \in DOMAIN st : i < j => st[i].from < st[j].from
    BY DEF StackOK
  <2> QED
    BY <1>3, <1>4, <2>1, <2>2 DEF w
<1>8. \A k \in 1 .. (m - 1) : st[k] \in OpenWindow
  BY <1>1
<1>9. \A k \in 1 .. (m - 1) : r[k].from \in Nat /\ r[k].from < w.from
  BY <1>7, <1>8 DEF OpenWindow
<1>10. \A k \in 1 .. (m - 1) : r[k].from < n + 1
  BY <1>5, <1>9
<1>11. \A i, j \in 1 .. (m - 1) : i < j => r[i].from < r[j].from
  BY <1>7 DEF StackOK
<1>12. \A x \in wins : x \in Window /\ x.from < x.to /\ x.to < n /\ x.from # w.from
  BY <1>4 DEF StackOK, w
<1>13. \A x \in W : x.from < x.to /\ x.to < n + 1
  BY <1>5, <1>6, <1>12 DEF Window
<1>14. \A x \in W : \A k \in 1 .. (m - 1) : x.from # r[k].from
  BY <1>5, <1>6, <1>7, <1>9 DEF StackOK
<1>15. \A x, y \in W : x.from = y.from => x = y
  BY <1>6, <1>12 DEF StackOK
<1>16. StackOK(r, W, n + 1)
  BY <1>3, <1>6, <1>10, <1>11, <1>12, <1>13, <1>14, <1>15 DEF StackOK
<1> QED
  BY <1>1, <1>3, <1>16 DEF r, v, w

(* The walks after a step of thread t.                                     *)
LEMMA WalksFollow ==
    ASSUME FramesInv, NEW t \in Threads
    PROVE  /\ \A x : Loses(x) => \A u \in Threads : Passed(u)
           /\ \A e : Appends(e, t) => \A u \in Threads \ {t} : Passed(u)
           /\ \A e : Appends(e, t) /\ Shown(e) => Passed(t)
           /\ \A e : Appends(e, t) /\ e.kind = "start" => Pushed(t, e.what)
           /\ \A e : Appends(e, t) /\ e.kind = "end" =>
                 Popped(t) \/ (Stack(t) = <<>> /\ Passed(t))
<1>1. ASSUME NEW x, Loses(x), NEW u \in Threads
      PROVE  Passed(u)
  BY <1>1 DEF Loses, Passed, Stack, Windows
<1>2. PICK X : trace \in Seq(X)
  BY DEF FramesInv
<1>3. ASSUME NEW e, Appends(e, t)
      PROVE  e.thread = t /\ e.at = Now /\ trace' = Append(trace, e)
  BY <1>3 DEF Appends, NewEvent
<1>4. ASSUME NEW e, Appends(e, t), NEW u \in Threads \ {t}
      PROVE  Passed(u)
  BY <1>2, <1>3, <1>4, WhatIsSeen
<1>5. ASSUME NEW e, Appends(e, t), Shown(e)
      PROVE  Passed(t)
  BY <1>2, <1>3, <1>5, WhatIsSeen
<1>6. ASSUME NEW e, Appends(e, t), e.kind = "start"
      PROVE  Pushed(t, e.what)
  BY <1>2, <1>3, <1>6, WhatIsSeen
<1>7. ASSUME NEW e, Appends(e, t), e.kind = "end"
      PROVE  Popped(t) \/ (Stack(t) = <<>> /\ Passed(t))
  BY <1>2, <1>3, <1>7, WhatIsSeen
<1> QED
  BY <1>1, <1>4, <1>5, <1>6, <1>7

(* StackInv is inductive, given FramesInv.                                 *)
LEMMA StackKept ==
    ASSUME FramesInv, StackInv, Next
    PROVE  StackInv'
<1>1. PICK t \in Threads : Shows(t) \/ StartSeen(t) \/ StartLost(t) \/ EndSeen(t) \/ EndLost(t)
  BY WhatSteps
<1>2. Now \in Nat \ {0} /\ Now' = Now + 1
  BY NowIsNat, FramesKept
<1>3. ASSUME NEW u \in Threads, Passed(u)
      PROVE  StackOK(Stack(u), Windows(u), Now)'
  <2>1. StackOK(Stack(u), Windows(u), Now + 1)
    BY <1>2, StackWaits DEF StackInv
  <2> QED
    BY <1>2, <1>3, <2>1 DEF Passed, StackOK
<1>4. ASSUME NEW f \in Callbacks, Pushed(t, f)
      PROVE  StackOK(Stack(t), Windows(t), Now)'
  <2>1. StackOK(Append(Stack(t), [f |-> f, from |-> Now]), Windows(t), Now + 1)
    BY <1>2, StackPushes DEF StackInv
  <2> QED
    BY <1>2, <1>4, <2>1 DEF Pushed, StackOK
<1>5. ASSUME Popped(t)
      PROVE  StackOK(Stack(t), Windows(t), Now)'
  <2>1. StackOK(Stack(t), Windows(t), Now) /\ Stack(t) # <<>>
    BY <1>5 DEF StackInv, Popped
  <2> DEFINE w == Stack(t)[Len(Stack(t))]
  <2>2. StackOK(SubSeq(Stack(t), 1, Len(Stack(t)) - 1),
                Windows(t) \cup {[f |-> w.f, from |-> w.from, to |-> Now]}, Now + 1)
    BY <1>2, <2>1, StackPops
  <2> QED
    BY <1>2, <1>5, <2>2 DEF Popped, StackOK
<1>6. \A u \in Threads \ {t} : Passed(u)
  BY <1>1, WalksFollow DEF Shows, StartSeen, StartLost, EndSeen, EndLost
<1>7. Passed(t) \/ (\E f \in Callbacks : Pushed(t, f)) \/ Popped(t)
  BY <1>1, WalksFollow DEF Shows, StartSeen, StartLost, EndSeen, EndLost
<1>8. \A u \in Threads : StackOK(Stack(u), Windows(u), Now)'
  BY <1>3, <1>4, <1>5, <1>6, <1>7
<1> QED
  BY <1>8 DEF StackInv

(* What StackInv says of one thread, before and after a step.              *)
LEMMA StackFacts ==
    ASSUME FramesInv, StackInv, NEW t \in Threads
    PROVE  /\ Stack(t) \in Seq(OpenWindow) /\ Len(Stack(t)) \in Nat /\ DOMAIN Stack(t) = 1 .. Len(Stack(t))
           /\ Stack(t) = <<>> <=> Len(Stack(t)) = 0
           /\ \A i \in DOMAIN Stack(t) : Stack(t)[i].from \in Nat /\ Stack(t)[i].from < Now
           /\ \A f \in Callbacks : Pushed(t, f) =>
                 /\ Len(Stack(t)') = Len(Stack(t)) + 1 /\ DOMAIN Stack(t)' = 1 .. (Len(Stack(t)) + 1)
                 /\ \A i \in DOMAIN Stack(t) : Stack(t)'[i] = Stack(t)[i]
                 /\ Stack(t)'[Len(Stack(t)) + 1] = [f |-> f, from |-> Now]
           /\ Popped(t) =>
                 /\ Len(Stack(t)) > 0 /\ Len(Stack(t)') = Len(Stack(t)) - 1
                 /\ DOMAIN Stack(t)' = 1 .. (Len(Stack(t)) - 1)
                 /\ \A i \in 1 .. (Len(Stack(t)) - 1) : Stack(t)'[i] = Stack(t)[i]
<1> DEFINE st == Stack(t)
<1>1. StackOK(st, Windows(t), Now)
  BY DEF StackInv
<1>2. st \in Seq(OpenWindow) /\ \A i \in DOMAIN st : st[i].from < Now
  BY <1>1 DEF StackOK
<1>3. \A i \in DOMAIN st : st[i] \in OpenWindow
  BY <1>2
<1>4. \A i \in DOMAIN st : st[i].from \in Nat
  BY <1>3 DEF OpenWindow
<1>5. Len(st) \in Nat /\ DOMAIN st = 1 .. Len(st) /\ (st = <<>> <=> Len(st) = 0)
  BY <1>2
<1>6. ASSUME NEW f \in Callbacks, Pushed(t, f)
      PROVE  /\ Len(Stack(t)') = Len(Stack(t)) + 1 /\ DOMAIN Stack(t)' = 1 .. (Len(Stack(t)) + 1)
             /\ \A i \in DOMAIN Stack(t) : Stack(t)'[i] = Stack(t)[i]
             /\ Stack(t)'[Len(Stack(t)) + 1] = [f |-> f, from |-> Now]
  <2> DEFINE x == [f |-> f, from |-> Now]
  <2>1. Now \in Nat \ {0}
    BY NowIsNat
  <2>2. x \in OpenWindow
    BY <2>1 DEF OpenWindow
  <2>3. Stack(t)' = Append(Stack(t), x)
    BY <1>6 DEF Pushed
  <2> HIDE DEF x
  <2>4. /\ Len(Stack(t)') = Len(Stack(t)) + 1 /\ DOMAIN Stack(t)' = 1 .. (Len(Stack(t)) + 1)
        /\ \A i \in DOMAIN Stack(t) : Stack(t)'[i] = Stack(t)[i]
        /\ Stack(t)'[Len(Stack(t)) + 1] = x
    BY <1>2, <1>5, <2>2, <2>3
  <2> QED
    BY <2>4 DEF x
<1>7. ASSUME Popped(t)
      PROVE  /\ Len(Stack(t)) > 0 /\ Len(Stack(t)') = Len(Stack(t)) - 1
             /\ DOMAIN Stack(t)' = 1 .. (Len(Stack(t)) - 1)
             /\ \A i \in 1 .. (Len(Stack(t)) - 1) : Stack(t)'[i] = Stack(t)[i]
  <2>1. Stack(t)' = SubSeq(Stack(t), 1, Len(Stack(t)) - 1) /\ Stack(t) # <<>>
    BY <1>7 DEF Popped
  <2>2. Now \in Nat \ {0}
    BY NowIsNat
  <2>3. StackOK(Stack(t)', Windows(t) \cup {[f |-> st[Len(st)].f, from |-> st[Len(st)].from, to |-> Now]}, Now + 1)
    BY <1>1, <2>1, <2>2, StackPops
  <2>4. Stack(t)' \in Seq(OpenWindow)
    BY <2>3 DEF StackOK
  <2>5. /\ Len(Stack(t)') = Len(Stack(t)) - 1
        /\ \A i \in 1 .. (Len(Stack(t)) - 1) : Stack(t)'[i] = Stack(t)[i]
    BY <1>1, <2>1, <2>2, StackPops
  <2> QED
    BY <1>5, <2>1, <2>4, <2>5
<1> QED
  BY <1>2, <1>4, <1>5, <1>6, <1>7

(* As long as one event at most is discarded the stacks track the frames.  *)
LEMMA TracksKept ==
    ASSUME FramesInv, StackInv, TracksInv, Next, lost' <= 1
    PROVE  TracksInv'
<1>1. PICK t \in Threads : Shows(t) \/ StartSeen(t) \/ StartLost(t) \/ EndSeen(t) \/ EndLost(t)
  BY WhatSteps
<1>2. Now \in Nat \ {0} /\ Now' = Now + 1 /\ lost \in Nat
  BY NowIsNat, FramesKept DEF FramesInv
<1>3. lost' >= lost /\ damaged \subseteq damaged'
  BY <1>1, <1>2 DEF Shows, StartSeen, StartLost, EndSeen, EndLost, Appends, Loses
<1>4. ASSUME NEW u \in Threads, Passed(u), frames'[u] = frames[u]
      PROVE  Tracks(Stack(u), frames[u])'
  <2>1. Tracks(Stack(u), frames[u])
    BY DEF TracksInv
  <2>2. lost > 0 => lost' > 0
    BY <1>2, <1>3, FramesKept DEF FramesInv
  <2> QED
    BY <1>3, <1>4, <2>1, <2>2 DEF Passed, Tracks, Follows, Confused
<1>5. \A u \in Threads \ {t} : Passed(u) /\ frames'[u] = frames[u]
  BY <1>1, WalksFollow, EntersFrames, LeavesFrames DEF Shows, StartSeen, StartLost, EndSeen, EndLost
<1> DEFINE st == Stack(t)
           fs == frames[t]
           n == Len(frames[t])
           m == Len(Stack(t))
<1>6. Tracks(st, fs)
  BY DEF TracksInv
<1>7. /\ n \in Nat /\ DOMAIN fs = 1 .. n /\ (fs # <<>> <=> n > 0)
      /\ \A i \in DOMAIN fs : fs[i].since \in Nat /\ fs[i].since < Now /\ fs[1].since <= fs[i].since
  BY FramesOf
<1>8. /\ m \in Nat /\ DOMAIN st = 1 .. m /\ (st = <<>> <=> m = 0)
      /\ \A i \in DOMAIN st : st[i].from \in Nat /\ st[i].from < Now
  BY StackFacts
<1>9. ASSUME Shows(t)
      PROVE  Tracks(Stack(t), frames[t])'
  BY <1>4, <1>9, WalksFollow DEF Shows
<1>10. ASSUME NEW f \in Callbacks, Enters(t, f), Pushed(t, f), UNCHANGED <<lost, damaged>>
       PROVE  Tracks(Stack(t), frames[t])'
  <2> DEFINE x == [f |-> f, from |-> Now]
             y == [f |-> f, since |-> Now]
  <2>1. /\ Len(st') = m + 1 /\ DOMAIN st' = 1 .. (m + 1)
        /\ \A i \in DOMAIN st : st'[i] = st[i]
        /\ st'[m + 1] = x
    BY <1>10, StackFacts
  <2>2. /\ Len(fs') = n + 1 /\ DOMAIN fs' = 1 .. (n + 1)
        /\ \A k \in DOMAIN fs : fs'[k] = fs[k]
        /\ fs'[n + 1] = y
        /\ fs # <<>> => fs'[1] = fs[1]
    BY <1>10, EntersFrames
  <2>3. x.from = Now /\ x.f = f /\ y.since = Now /\ y.f = f
    OBVIOUS
  <2> HIDE DEF st, fs, n, m, x, y
  <2>4. ASSUME NEW k \in {0, 1}, Follows(st, fs, k)
        PROVE  Follows(st', fs', k)
    <3>1. m = n + k /\ \A i \in 1 .. n : st[i + k].f = fs[i].f /\ st[i + k].from = fs[i].since
      BY <1>7, <2>4 DEF Follows, m, n, st, fs
    <3>2. Len(st') = Len(fs') + k
      BY <1>7, <2>1, <2>2, <3>1
    <3>3. ASSUME NEW i \in 1 .. n + 1
          PROVE  st'[i + k].f = fs'[i].f /\ st'[i + k].from = fs'[i].since
      <4>1. CASE i = n + 1
        <5>1. i + k = m + 1
          BY <1>7, <3>1, <4>1
        <5> QED
          BY <2>1, <2>2, <2>3, <4>1, <5>1
      <4>2. CASE i \in 1 .. n
        <5>1. i + k \in DOMAIN st /\ i \in DOMAIN fs
          BY <1>7, <1>8, <3>1, <4>2
        <5> QED
          BY <2>1, <2>2, <3>1, <4>2, <5>1
      <4> QED
        BY <1>7, <4>1, <4>2
    <3> QED
      BY <2>2, <3>2, <3>3 DEF Follows
  <2>5. ASSUME Confused(st, fs, damaged)
        PROVE  Confused(st', fs', damaged')
    <3>1. /\ fs # <<>> /\ fs[1].since \in damaged
          /\ m + 1 = n \/ m = n + 1
          /\ \A i \in 1 .. m : st[i].from >= fs[1].since
      BY <1>8, <2>5 DEF Confused, m, n, st, fs
    <3>2. fs'[1] = fs[1] /\ 1 \in DOMAIN fs
      BY <1>7, <2>2, <3>1
    <3>3. fs' # <<>>
      BY <1>7, <2>2
    <3>4. Len(st') + 1 = Len(fs') \/ Len(st') = Len(fs') + 1
      BY <1>7, <1>8, <2>1, <2>2, <3>1
    <3>5. \A i \in 1 .. m + 1 : st'[i].from >= fs'[1].since
      <4> SUFFICES ASSUME NEW i \in 1 .. m + 1
                   PROVE  st'[i].from >= fs[1].since
        BY <3>2
      <4>1. CASE i = m + 1
        BY <1>2, <1>7, <2>1, <2>3, <3>2, <4>1
      <4>2. CASE i \in 1 .. m
        BY <1>8, <2>1, <3>1, <4>2
      <4> QED
        BY <1>8, <4>1, <4>2
    <3>6. fs'[1].since \in damaged'
      BY <1>10, <3>1, <3>2
    <3> QED
      BY <2>1, <3>3, <3>4, <3>5, <3>6 DEF Confused
  <2> QED
    BY <1>6, <1>10, <2>4, <2>5 DEF Tracks, st, fs
<1>11. ASSUME Popped(t), Leaves(t), UNCHANGED <<lost, damaged>>
       PROVE  Tracks(Stack(t), frames[t])'
  <2>1. /\ m > 0 /\ Len(st') = m - 1 /\ DOMAIN st' = 1 .. (m - 1)
        /\ \A i \in 1 .. (m - 1) : st'[i] = st[i]
    BY <1>11, StackFacts
  <2>2. /\ n > 0 /\ Len(fs') = n - 1 /\ DOMAIN fs' = 1 .. (n - 1)
        /\ \A i \in 1 .. (n - 1) : fs'[i] = fs[i]
        /\ n > 1 <=> fs' # <<>>
    <3>1. n > 0 /\ Len(fs') = n - 1 /\ DOMAIN fs' = 1 .. (n - 1) /\ fs' \in Seq(Frame)
          /\ \A i \in 1 .. (n - 1) : fs'[i] = fs[i]
      BY <1>7, <1>11, LeavesFrames
    <3> QED
      BY <1>7, <3>1
  <2> HIDE DEF st, fs, n, m
  <2>3. ASSUME NEW k \in {0, 1}, Follows(st, fs, k)
        PROVE  Follows(st', fs', k)
    <3>1. m = n + k /\ \A i \in 1 .. n : st[i + k].f = fs[i].f /\ st[i + k].from = fs[i].since
      BY <1>7, <2>3 DEF Follows, m, n, st, fs
    <3>2. Len(st') = Len(fs') + k
      BY <1>7, <2>1, <2>2, <3>1
    <3>3. ASSUME NEW i \in 1 .. (n - 1)
          PROVE  st'[i + k].f = fs'[i].f /\ st'[i + k].from = fs'[i].since
      <4>1. i + k \in 1 .. (m - 1) /\ i \in 1 .. n
        BY <1>7, <3>1
      <4> QED
        BY <2>1, <2>2, <3>1, <4>1
    <3> QED
      BY <2>2, <3>2, <3>3 DEF Follows
  <2>4. ASSUME Confused(st, fs, damaged), lost > 0
        PROVE  Confused(st', fs', damaged') \/ Follows(st', fs', 1)
    <3>1. /\ fs # <<>> /\ fs[1].since \in damaged
          /\ m + 1 = n \/ m = n + 1
          /\ \A i \in 1 .. m : st[i].from >= fs[1].since
      BY <1>8, <2>4 DEF Confused, m, n, st, fs
    <3>2. CASE n = 1
      <4>1. Len(st') = Len(fs') + 1 /\ DOMAIN fs' = {}
        BY <1>8, <2>1, <2>2, <3>1, <3>2
      <4> QED
        BY <4>1 DEF Follows
    <3>3. CASE n > 1
      <4>1. fs' # <<>> /\ fs'[1] = fs[1]
        BY <1>7, <2>2, <3>3
      <4>2. Len(st') + 1 = Len(fs') \/ Len(st') = Len(fs') + 1
        BY <1>7, <1>8, <2>1, <2>2, <3>1
      <4>3. \A i \in 1 .. (m - 1) : st'[i].from >= fs'[1].since
        BY <1>8, <2>1, <3>1, <4>1
      <4> QED
        BY <1>11, <2>1, <3>1, <4>1, <4>2, <4>3 DEF Confused
    <3> QED
      BY <1>7, <2>2, <3>2, <3>3
  <2> QED
    BY <1>6, <1>11, <2>3, <2>4 DEF Tracks, st, fs
<1>12. ASSUME Stack(t) = <<>>, Passed(t), Leaves(t), UNCHANGED <<lost, damaged>>
       PROVE  Tracks(Stack(t), frames[t])'
  <2>1. m = 0 /\ n > 0 /\ Len(fs') = n - 1 /\ DOMAIN fs' = 1 .. (n - 1) /\ st' = st
    BY <1>7, <1>8, <1>12, LeavesFrames DEF Passed
  <2>2. n = 1
    BY <1>6, <1>7, <1>8, <2>1 DEF Tracks, Follows, Confused
  <2>3. Follows(st', fs', 0)
    BY <1>8, <2>1, <2>2 DEF Follows
  <2> QED
    BY <2>3 DEF Tracks
<1>13. ASSUME NEW f \in Callbacks, Enters(t, f), Loses(IF frames[t] = <<>> THEN Now ELSE frames[t][1].since)
       PROVE  Tracks(Stack(t), frames[t])'
  <2>1. lost = 0 /\ lost' > 0 /\ (IF frames[t] = <<>> THEN Now ELSE frames[t][1].since) \in damaged'
    BY <1>2, <1>13 DEF Loses
  <2>2. st' = st
    BY <1>13, WalksFollow DEF Passed
  <2>3. /\ Len(fs') = n + 1 /\ DOMAIN fs' = 1 .. (n + 1)
        /\ fs # <<>> => fs'[1] = fs[1]
        /\ fs = <<>> => fs'[1].since = Now
    BY <1>13, EntersFrames
  <2>4. m = n /\ \A i \in 1 .. n : st[i].f = fs[i].f /\ st[i].from = fs[i].since
    BY <1>6, <1>7, <2>1 DEF Tracks, Follows
  <2>5. fs' # <<>> /\ fs'[1].since \in damaged'
    BY <1>7, <2>1, <2>3
  <2>6. Len(st') + 1 = Len(fs')
    BY <1>7, <2>2, <2>3, <2>4
  <2>7. \A i \in DOMAIN st' : st'[i].from >= fs'[1].since
    <3> SUFFICES ASSUME NEW i \in 1 .. n
                 PROVE  st[i].from >= fs'[1].since
      BY <1>8, <2>2, <2>4
    <3>1. st[i].from = fs[i].since
      BY <2>4
    <3>2. fs # <<>> /\ i \in DOMAIN fs
      BY <1>7
    <3> QED
      BY <1>7, <2>3, <3>1, <3>2
  <2>8. Confused(st', fs', damaged')
    BY <2>5, <2>6, <2>7 DEF Confused
  <2> QED
    BY <2>1, <2>8 DEF Tracks
<1>14. ASSUME EndLost(t)
       PROVE  Tracks(Stack(t), frames[t])'
  <2>1. lost = 0 /\ lost' > 0 /\ frames[t][1].since \in damaged'
    BY <1>2, <1>14 DEF EndLost, Loses
  <2>2. st' = st
    BY <1>14, WalksFollow DEF EndLost, Passed
  <2>3. /\ n > 0 /\ Len(fs') = n - 1 /\ DOMAIN fs' = 1 .. (n - 1)
        /\ \A i \in 1 .. (n - 1) : fs'[i] = fs[i]
    BY <1>7, <1>14, LeavesFrames DEF EndLost
  <2>4. m = n /\ \A i \in 1 .. n : st[i].f = fs[i].f /\ st[i].from = fs[i].since
    BY <1>6, <1>7, <2>1 DEF Tracks, Follows
  <2>5. CASE n = 1
    <3>1. Follows(st', fs', 1)
      BY <1>8, <2>2, <2>3, <2>4, <2>5 DEF Follows
    <3> QED
      BY <2>1, <3>1 DEF Tracks
  <2>6. CASE n > 1
    <3>1. fs'[1] = fs[1] /\ fs' # <<>>
      BY <1>7, <2>3, <2>6
    <3>2. Len(st') = Len(fs') + 1
      BY <1>7, <2>2, <2>3, <2>4
    <3>3. \A i \in DOMAIN st' : st'[i].from >= fs'[1].since
      <4> SUFFICES ASSUME NEW i \in 1 .. n
                   PROVE  st[i].from >= fs[1].since
        BY <1>8, <2>2, <2>4, <3>1
      <4>1. st[i].from = fs[i].since
        BY <2>4
      <4> QED
        BY <1>7, <4>1
    <3>4. Confused(st', fs', damaged')
      BY <2>1, <3>1, <3>2, <3>3 DEF Confused
    <3> QED
      BY <2>1, <3>4 DEF Tracks
  <2>7. n = 1 \/ n > 1
    <3>1. n \in Nat /\ n > 0
      BY <1>7, <2>3
    <3> HIDE DEF n
    <3> QED
      BY <3>1
  <2> QED
    BY <2>5, <2>6, <2>7
<1>15. Tracks(Stack(t), frames[t])'
  <2>1. ASSUME StartSeen(t)
        PROVE  Tracks(Stack(t), frames[t])'
    BY <1>10, <2>1, WalksFollow DEF StartSeen, Appends
  <2>2. ASSUME EndSeen(t)
        PROVE  Tracks(Stack(t), frames[t])'
    BY <1>11, <1>12, <2>2, WalksFollow DEF EndSeen, Appends
  <2>3. ASSUME StartLost(t)
        PROVE  Tracks(Stack(t), frames[t])'
    BY <1>13, <2>3 DEF StartLost
  <2> QED
    BY <1>1, <1>9, <1>14, <2>1, <2>2, <2>3
<1>16. \A u \in Threads : Tracks(Stack(u), frames[u])'
  BY <1>4, <1>5, <1>15
<1> QED
  BY <1>16 DEF TracksInv

(* The events of intact callbacks stay explained.                          *)
LEMMA WindowsKept ==
    ASSUME FramesInv, EventsInv, StackInv, TracksInv, WindowsInv, Next
    PROVE  WindowsInv'
<1>1. PICK t \in Threads : Shows(t) \/ StartSeen(t) \/ StartLost(t) \/ EndSeen(t) \/ EndLost(t)
  BY WhatSteps
<1>2. Now \in Nat \ {0} /\ damaged \subseteq damaged'
  BY <1>1, NowIsNat DEF Shows, StartSeen, StartLost, EndSeen, EndLost, Appends, Loses
<1> DEFINE fs == frames[t]
           n == Len(frames[t])
           st == Stack(t)
<1>3. /\ n \in Nat /\ DOMAIN fs = 1 .. n
      /\ \A k \in DOMAIN fs : fs[k].since \in Nat /\ fs[1].since \in Nat /\ fs[1].since <= fs[k].since
  BY FramesOf
<1>4. /\ Len(st) \in Nat /\ DOMAIN st = 1 .. Len(st) /\ (st = <<>> <=> Len(st) = 0)
      /\ \A k \in DOMAIN st : st[k].from \in Nat
  BY StackFacts
<1>5. ASSUME NEW i \in DOMAIN trace, NEW e, e = trace[i], NEW u, u = e.thread,
             Shown(e), e.top \notin damaged'
      PROVE  Explains(e, Windows(u)', frames'[u])
  <2>1. /\ u \in Threads /\ e.at \in Nat /\ e.since \in Nat /\ e.at < Now /\ e.since <= e.at
        /\ FitsFrames(e, frames[u])
    BY <1>5, EventOf
  <2>2. Explains(e, Windows(u), frames[u])
    BY <1>2, <1>5 DEF WindowsInv
  <2>3. e.top \notin damaged' /\ e.top \notin damaged
    BY <1>2, <1>5
  <2>4. ASSUME Passed(u), frames'[u] = frames[u]
        PROVE  Explains(e, Windows(u)', frames'[u])
    BY <2>2, <2>4 DEF Passed, Explains
  <2>5. CASE u # t
    <3>1. Passed(u)
      BY <1>1, <2>1, <2>5, WalksFollow DEF Shows, StartSeen, StartLost, EndSeen, EndLost
    <3>2. frames'[u] = frames[u]
      BY <1>1, <2>1, <2>5, EntersFrames, LeavesFrames
         DEF Shows, StartSeen, StartLost, EndSeen, EndLost
    <3> QED
      BY <2>4, <3>1, <3>2
  <2>6. CASE u = t
    <3>1. Explains(e, Windows(t), fs) /\ FitsFrames(e, fs)
      BY <2>1, <2>2, <2>6
    <3>2. ASSUME NEW k \in DOMAIN fs, fs[k].since <= e.at
          PROVE  e.since >= fs[k].since /\ e.top = fs[1].since
      BY <1>3, <2>1, <3>1, <3>2 DEF FitsFrames
    <3>3. ASSUME NEW f \in Callbacks, Enters(t, f), Windows(t)' = Windows(t)
          PROVE  Explains(e, Windows(t)', frames'[t])
      <4>1. \A k \in DOMAIN fs : k \in DOMAIN frames'[t] /\ frames'[t][k] = fs[k]
        <5>1. DOMAIN frames'[t] = 1 .. (n + 1) /\ \A k \in DOMAIN fs : frames'[t][k] = fs[k]
          BY <3>3, EntersFrames
        <5>2. \A k \in 1 .. n : k \in 1 .. (n + 1)
          BY <1>3
        <5> QED
          BY <1>3, <5>1, <5>2
      <4> QED
        BY <3>1, <3>3, <4>1 DEF Explains
    <3>4. ASSUME Leaves(t), Windows(t)' = Windows(t), fs[1].since \in damaged'
          PROVE  Explains(e, Windows(t)', frames'[t])
      <4>1. \A k \in DOMAIN fs : fs[k].since # e.since
        BY <1>3, <2>1, <2>3, <3>2, <3>4
      <4> QED
        BY <3>1, <3>4, <4>1 DEF Explains
    <3>5. ASSUME Leaves(t), Popped(t), UNCHANGED damaged
          PROVE  Explains(e, Windows(t)', frames'[t])
      <4> DEFINE m == Len(Stack(t))
                 w == [f |-> Stack(t)[m].f, from |-> Stack(t)[m].from, to |-> Now]
      <4>1. Windows(t)' = Windows(t) \cup {w} /\ st # <<>>
        BY <3>5 DEF Popped
      <4>2. w.f = st[m].f /\ w.from = st[m].from /\ w.to = Now /\ m \in DOMAIN st
        BY <1>4, <4>1
      <4>3. /\ n > 0 /\ DOMAIN frames'[t] = 1 .. (n - 1)
            /\ \A k \in DOMAIN frames'[t] : frames'[t][k] = fs[k]
        BY <3>5, LeavesFrames
      <4> HIDE DEF w
      <4>4. ASSUME NEW k \in {0, 1}, Follows(st, fs, k)
            PROVE  Explains(e, Windows(t)', frames'[t])
        <5>1. m = n + k /\ n \in DOMAIN fs /\ w.f = fs[n].f /\ w.from = fs[n].since
          BY <1>3, <4>2, <4>3, <4>4 DEF Follows
        <5>2. Inside(e, w) => w.from <= e.since
          BY <1>3, <2>1, <3>2, <5>1 DEF Inside
        <5>3. fs[n].since = e.since => Inside(e, w)
          BY <1>2, <1>3, <2>1, <4>2, <5>1 DEF Inside
        <5>4. \A j \in DOMAIN fs : j = n \/ j \in DOMAIN frames'[t]
          BY <1>3, <4>3
        <5> QED
          BY <3>1, <4>1, <4>3, <5>1, <5>2, <5>3, <5>4 DEF Explains
      <4>5. ASSUME Confused(st, fs, damaged)
            PROVE  Explains(e, Windows(t)', frames'[t])
        <5>1. fs[1].since \in damaged /\ w.from >= fs[1].since /\ 1 \in DOMAIN fs
          BY <1>3, <4>2, <4>3, <4>5 DEF Confused
        <5>2. ~(e.at >= fs[1].since)
          BY <1>3, <2>1, <2>3, <3>2, <5>1
        <5>3. ~Inside(e, w)
          BY <1>3, <1>4, <2>1, <4>2, <5>1, <5>2 DEF Inside
        <5>4. \A k \in DOMAIN fs : fs[k].since # e.since
          BY <1>3, <2>1, <5>2
        <5> QED
          BY <3>1, <4>1, <5>3, <5>4 DEF Explains
      <4> QED
        BY <4>4, <4>5 DEF TracksInv, Tracks
    <3>6. ASSUME Leaves(t), Passed(t), Stack(t) = <<>>, UNCHANGED damaged
          PROVE  Explains(e, Windows(t)', frames'[t])
      <4>1. n > 0
        BY <3>6, LeavesFrames
      <4>2. fs[1].since \in damaged
        BY <1>3, <1>4, <3>6, <4>1 DEF TracksInv, Tracks, Follows, Confused
      <4> QED
        BY <3>4, <3>6, <4>2 DEF Passed
    <3>7. ASSUME StartSeen(t) \/ StartLost(t)
          PROVE  Explains(e, Windows(t)', frames'[t])
      BY <3>3, <3>7, WalksFollow DEF StartSeen, StartLost, Pushed, Passed
    <3>8. ASSUME EndLost(t)
          PROVE  Explains(e, Windows(t)', frames'[t])
      BY <3>4, <3>8, WalksFollow DEF EndLost, Passed, Loses
    <3>9. ASSUME EndSeen(t)
          PROVE  Explains(e, Windows(t)', frames'[t])
      BY <3>5, <3>6, <3>9, WalksFollow DEF EndSeen, Appends
    <3>10. ASSUME Shows(t)
           PROVE  Explains(e, Windows(t)', frames'[t])
      <4>1. Passed(t) /\ frames'[t] = frames[t]
        BY <3>10, WalksFollow DEF Shows
      <4> QED
        BY <2>4, <2>6, <4>1
    <3> QED
      BY <1>1, <2>6, <3>7, <3>8, <3>9, <3>10
  <2> QED
    BY <2>5, <2>6
<1>6. ASSUME NEW e, Appends(e, t), Shown(e), UNCHANGED frames
      PROVE  Explains(e, Windows(e.thread)', frames'[e.thread])
  <2>1. e.thread = t /\ e.at = Now
        /\ (e.by # None => \E k \in DOMAIN fs : fs[k].since = e.since /\ fs[k].f = e.by)
    BY <1>6, NewEventFits DEF Appends
  <2>2. Windows(t)' = Windows(t)
    BY <1>6, WalksFollow DEF Passed
  <2>3. \A w \in Windows(t) : w.to \in Nat /\ w.to < Now
    BY DEF StackInv, StackOK, Window
  <2>4. \A w \in Windows(t) : ~Inside(e, w)
    BY <1>2, <2>1, <2>3 DEF Inside
  <2> QED
    BY <1>6, <2>1, <2>2, <2>4 DEF Explains
<1> DEFINE Fine(e, u) == Shown(e) /\ e.top \notin damaged' => Explains(e, Windows(u)', frames'[u])
<1>7. \A i \in DOMAIN trace : \A e, u : e = trace[i] /\ u = e.thread => Fine(e, u)
  BY <1>5
<1>8. ASSUME NEW i \in DOMAIN trace', NEW e, e = trace'[i], NEW u, u = e.thread
      PROVE  Fine(e, u)
  <2>1. CASE UNCHANGED trace
    BY <1>7, <1>8, <2>1
  <2>2. ASSUME NEW d, Appends(d, t), Shown(d) => UNCHANGED frames
        PROVE  Fine(e, u)
    <3>1. \A v : v = d.thread => Fine(d, v)
      BY <1>6, <2>2
    <3> HIDE DEF Fine
    <3>2. /\ DOMAIN trace = 1 .. Len(trace) /\ DOMAIN trace' = 1 .. (Len(trace) + 1) /\ Len(trace) \in Nat
          /\ \A j \in DOMAIN trace : trace'[j] = trace[j]
          /\ trace'[Len(trace) + 1] = d
      BY <2>2, TraceGrows
    <3>3. i \in DOMAIN trace \/ i = Len(trace) + 1
      BY <3>2
    <3>4. CASE i \in DOMAIN trace
      BY <1>7, <1>8, <3>2, <3>4
    <3>5. CASE i = Len(trace) + 1
      BY <1>8, <3>1, <3>2, <3>5
    <3> QED
      BY <3>3, <3>4, <3>5
  <2> HIDE DEF Fine
  <2> QED
    BY <1>1, <2>1, <2>2 DEF Shows, StartSeen, StartLost, EndSeen, EndLost, Loses, Shown
<1> QED
  BY <1>8 DEF WindowsInv, Explains, Shown

(* OwnerInv is inductive.                                                  *)
LEMMA OwnerInvKept ==
    ASSUME OwnerInv, [Next]_vars
    PROVE  OwnerInv'
<1>1. CASE Next
  <2>1. FramesInv' /\ EventsInv' /\ StackInv'
    BY <1>1, FramesKept, EventsKept, StackKept DEF OwnerInv
  <2>2. lost \in Nat /\ lost' \in Nat /\ lost' >= lost
    <3>1. lost \in Nat
      BY DEF OwnerInv, FramesInv
    <3>2. lost' = lost \/ lost' = lost + 1
      BY <1>1, WhatSteps DEF Shows, StartSeen, StartLost, EndSeen, EndLost, Appends, Loses
    <3> QED
      BY <3>1, <3>2
  <2>3. ASSUME lost' <= 1
        PROVE  TracksInv' /\ WindowsInv'
    <3>1. TracksInv /\ WindowsInv
      BY <2>2, <2>3 DEF OwnerInv
    <3> QED
      BY <1>1, <2>3, <3>1, TracksKept, WindowsKept DEF OwnerInv
  <2> QED
    BY <2>1, <2>3 DEF OwnerInv
<1>2. CASE UNCHANGED vars
  <2>1. UNCHANGED <<trace, frames, lost, damaged>>
    BY <1>2 DEF vars
  <2> QED
    BY <2>1 DEF OwnerInv, FramesInv, EventsInv, FitsFrames, StackInv, StackOK, TracksInv, Tracks, Follows,
                Confused, WindowsInv, Explains, Stack, Windows, Now
<1> QED
  BY <1>1, <1>2

(* OwnerInv holds at the start.                                            *)
LEMMA OwnerInvInit ==
    ASSUME Init
    PROVE  OwnerInv
<1>1. trace = <<>> /\ lost = 0 /\ \A t \in Threads : frames[t] = <<>>
  BY DEF Init
<1>2. \A t \in Threads : Stack(t) = <<>> /\ Windows(t) = {}
  BY <1>1, WalkOfNothing DEF Stack, Windows, NoWindows
<1>3. FramesInv
  <2>1. frames \in [Threads -> Seq(Frame)]
    BY DEF Init
  <2>2. trace \in Seq({})
    BY <1>1
  <2> QED
    BY <1>1, <2>1, <2>2 DEF FramesInv
<1>4. EventsInv /\ WindowsInv
  BY <1>1 DEF EventsInv, WindowsInv
<1>5. StackInv
  <2>1. StackOK(<<>>, {}, Now)
    BY DEF StackOK
  <2> QED
    BY <1>2, <2>1 DEF StackInv, StackOK
<1>6. TracksInv
  BY <1>1, <1>2 DEF TracksInv, Tracks, Follows
<1> QED
  BY <1>3, <1>4, <1>5, <1>6 DEF OwnerInv

(* The argument for owner: of the windows around an event that are in sight*)
(* the one that began last is the window of the callback the event is in.  *)
LEMMA OwnersAreRight ==
    ASSUME OwnerInv, lost <= 1, NEW i \in DOMAIN trace, Shown(trace[i]),
           Intact(trace[i]), InSight(trace[i])
    PROVE  OwnerOf(trace[i]) = trace[i].by
<1> DEFINE e == trace[i]
           W == Windows(e.thread)
           Before == {w \in W : w.from <= e.at}
           Seen == {w \in Before : Cardinality({x \in Before : x.from > w.from}) < LookBack}
           Around == {w \in Seen : e.at <= w.to}
<1>1. /\ e.thread \in Threads /\ e.at \in Nat /\ e.since \in Nat /\ e.since <= e.at
      /\ e.by = None <=> e.since = 0
  BY EventOf DEF OwnerInv
<1>2. /\ \A w \in W : Inside(e, w) => w.from <= e.since
      /\ e.by # None => \E w \in W : w.f = e.by /\ w.from = e.since /\ Inside(e, w)
  BY DEF OwnerInv, WindowsInv, Explains, Intact
<1>3. /\ \A w \in W : w.from \in Nat \ {0}
      /\ \A w, x \in W : w.from = x.from => w = x
  BY <1>1 DEF OwnerInv, StackInv, StackOK, Window
<1>4. OwnerOf(e) = IF Around = {} THEN None
                   ELSE (CHOOSE w \in Around : \A x \in Around : x.from <= w.from).f
  BY DEF OwnerOf, Owner
<1>5. InSight(e) <=> e.by = None \/ Cardinality({w \in W : e.since < w.from /\ w.from <= e.at}) < LookBack
  BY DEF InSight
<1> HIDE DEF e, W
<1>6. CASE e.by = None
  <2>1. Around = {}
    BY <1>1, <1>2, <1>3, <1>6 DEF Inside
  <2> QED
    BY <1>4, <1>6, <2>1 DEF e
<1>7. CASE e.by # None
  <2>1. PICK w \in W : w.f = e.by /\ w.from = e.since /\ Inside(e, w)
    BY <1>2, <1>7
  <2>2. {x \in Before : x.from > w.from} = {x \in W : e.since < x.from /\ x.from <= e.at}
    BY <1>1, <1>3, <2>1
  <2>3. w \in Before /\ e.at <= w.to
    BY <2>1 DEF Inside
  <2>4. w \in Seen
    BY <1>5, <1>7, <2>2, <2>3 DEF e
  <2>5. w \in Around /\ \A x \in Around : x \in W /\ x.from <= w.from
    BY <1>2, <2>1, <2>3, <2>4 DEF Inside
  <2> HIDE DEF Around
  <2> DEFINE c == CHOOSE x \in Around : \A y \in Around : y.from <= x.from
  <2>6. c \in Around /\ \A y \in Around : y.from <= c.from
    BY <2>5
  <2> HIDE DEF c
  <2>7. c.from = w.from
    <3>1. c.from <= w.from /\ w.from <= c.from /\ c.from \in Nat /\ w.from \in Nat
      BY <1>3, <2>5, <2>6
    <3> QED
      BY <3>1
  <2>8. c = w
    BY <1>3, <2>5, <2>6, <2>7
  <2> QED
    BY <1>4, <2>1, <2>5, <2>8 DEF c, e
<1> QED
  BY <1>6, <1>7

(* OwnersSurviveLoss: for any number of threads, callbacks nested to any   *)
(* depth, any executors and traces of any length, one discarded            *)
(* callback_start or callback_end does not make owner give an event of an  *)
(* intact callback to anyone else, on whichever thread it was.             *)
THEOREM OwnersFound == Spec => []OwnersSurviveLoss
<1>1. Init => OwnerInv
  BY OwnerInvInit
<1>2. OwnerInv /\ [Next]_vars => OwnerInv'
  BY OwnerInvKept
<1>3. OwnerInv => OwnersSurviveLoss
  <2> SUFFICES ASSUME OwnerInv, lost <= 1, NEW k \in {"publish", "take", "push", "erase"},
                      NEW e \in Recorded(k), Intact(e), InSight(e)
               PROVE  OwnerOf(e) = e.by
    BY DEF OwnersSurviveLoss
  <2>1. PICK i \in DOMAIN trace : e = trace[i] /\ trace[i].kind = k
    BY DEF Recorded
  <2> QED
    BY <2>1, OwnersAreRight DEF Shown
<1> QED
  BY <1>1, <1>2, <1>3, PTL DEF Spec

-----------------------------------------------------------------------------
(* The evidence from containers and from pointers: the books over the      *)
(* positions of the trace, again as a property of a function.              *)
EmptyBook == [waiting |-> [c \in Containers |-> {}], found |-> {}]
Operation(e) == e.kind \in {"push", "erase"}
Entered(acc, e) == IF Operation(e) THEN Absorb(acc, e) ELSE acc
NoHolds == [held |-> {}, found |-> {}, drops |-> {}]
Noted(acc, e) == IF e.kind \in {"retain", "release"} THEN Hold(acc, e) ELSE acc

Blank(l) == IF l = "containers" THEN EmptyBook ELSE NoHolds
Booked(l, acc, e) == IF l = "containers" THEN Entered(acc, e) ELSE Noted(acc, e)
Books(l, n, b) == b = [i \in 0 .. n |-> IF i = 0 THEN Blank(l) ELSE Booked(l, b[i - 1], trace[i])]

(* There is such a function for every length.                              *)
LEMMA BooksExist ==
    ASSUME NEW l, NEW n \in Nat
    PROVE  \E b : Books(l, n, b)
<1> DEFINE S == {m \in Nat : \E b : Books(l, m, b)}
<1>1. 0 \in S
  <2>1. Books(l, 0, [i \in 0 .. 0 |-> Blank(l)])
    BY DEF Books
  <2> QED
    BY <2>1
<1>2. ASSUME NEW m \in Nat, m \in S
      PROVE  m + 1 \in S
  <2>1. PICK b : Books(l, m, b)
    BY <1>2
  <2> DEFINE v == [i \in 0 .. m + 1 |-> IF i = m + 1 THEN Booked(l, b[m], trace[i]) ELSE b[i]]
  <2>2. ASSUME NEW i \in 0 .. m + 1
        PROVE  v[i] = IF i = 0 THEN Blank(l) ELSE Booked(l, v[i - 1], trace[i])
    <3>1. CASE i = m + 1
      BY <3>1
    <3>2. CASE i # m + 1 /\ i # 0
      <4>1. i \in 0 .. m /\ i - 1 \in 0 .. m /\ i - 1 # m + 1
        BY <3>2
      <4>2. v[i] = b[i] /\ v[i - 1] = b[i - 1]
        BY <4>1, <3>2
      <4>3. b[i] = Booked(l, b[i - 1], trace[i])
        BY <2>1, <4>1, <3>2 DEF Books
      <4> QED
        BY <3>2, <4>2, <4>3
    <3>3. CASE i = 0
      <4>1. b[0] = Blank(l)
        BY <2>1 DEF Books
      <4> QED
        BY <3>3, <4>1
    <3> QED
      BY <3>1, <3>2, <3>3
  <2>3. Books(l, m + 1, v)
    <3>1. v = [i \in 0 .. m + 1 |-> v[i]]
      OBVIOUS
    <3> HIDE DEF v
    <3> QED
      BY <2>2, <3>1 DEF Books
  <2> QED
    BY <2>3
<1> HIDE DEF S
<1>3. Nat \subseteq S
  BY <1>1, <1>2, NatIsInductive
<1> QED
  BY <1>3 DEF S

(* ContainerEvidence and PointerEvidence are the last value of one.        *)
LEMMA EvidenceIsBooked ==
    ASSUME Len(trace) \in Nat
    PROVE  /\ \E b : Books("containers", Len(trace), b) /\ ContainerEvidence = b[Len(trace)].found
           /\ \E b : Books("pointers", Len(trace), b) /\ PointerEvidence = b[Len(trace)]
<1> DEFINE b == CHOOSE b : Books("containers", Len(trace), b)
           p == CHOOSE p : Books("pointers", Len(trace), p)
<1>1. Books("containers", Len(trace), b) /\ Books("pointers", Len(trace), p)
  BY BooksExist
<1>2. ContainerEvidence = b[Len(trace)].found
  BY DEF ContainerEvidence, Books, Blank, Booked, Entered, EmptyBook, Operation
<1>3. PointerEvidence = p[Len(trace)]
  BY DEF PointerEvidence, Books, Blank, Booked, Noted, NoHolds
<1> QED
  BY <1>1, <1>2, <1>3

(* What lies in container c after the first i events of s, and what the    *)
(* erasures among them found there.                                        *)
Puts(s, i, c) == {j \in 1 .. i : s[j].kind = "push" /\ s[j].what = c}
Erased(s, j, i, c) == \E k \in (j + 1) .. i : s[k].kind = "erase" /\ s[k].what = c
DepositedIn(s, i, c) == {<<s[j].by, s[j].at>> : j \in {k \in Puts(s, i, c) : ~Erased(s, k, i, c)}}
Erasures(s, i) == {j \in 1 .. i : s[j].kind = "erase"}
FoundBy(e) == {<<d[1], e.by, d[2], e.at>> : d \in {x \in e.took : x[1] # e.by}}

(* What one more event does to the deposits.                               *)
LEMMA DepositsGrow ==
    ASSUME NEW s, NEW i \in Nat, NEW c
    PROVE  DepositedIn(s, i + 1, c) =
              IF s[i + 1].kind = "push" /\ s[i + 1].what = c
              THEN DepositedIn(s, i, c) \cup {<<s[i + 1].by, s[i + 1].at>>}
              ELSE IF s[i + 1].kind = "erase" /\ s[i + 1].what = c THEN {}
              ELSE DepositedIn(s, i, c)
<1> DEFINE Left(n) == {k \in Puts(s, n, c) : ~Erased(s, k, n, c)}
           P(k) == s[k].kind = "push" /\ s[k].what = c
           E(k) == s[k].kind = "erase" /\ s[k].what = c
<1>1. ASSUME NEW n \in Nat
      PROVE  /\ DepositedIn(s, n, c) = {<<s[j].by, s[j].at>> : j \in Left(n)}
             /\ \A j : j \in Left(n) <=> j \in 1 .. n /\ P(j) /\ \A k \in (j + 1) .. n : ~E(k)
  BY DEF DepositedIn, Puts, Erased
<1> HIDE DEF Left
<1>2. CASE P(i + 1)
  <2>1. Left(i + 1) = Left(i) \cup {i + 1}
    <3>1. ~E(i + 1)
      BY <1>2
    <3>2. ASSUME NEW j \in 1 .. i
          PROVE  j \in Left(i + 1) <=> j \in Left(i)
      <4>1. j \in 1 .. i + 1 /\ (j + 1) .. (i + 1) = ((j + 1) .. i) \cup {i + 1}
        OBVIOUS
      <4> QED
        BY <1>1, <3>1, <4>1
    <3>3. i + 1 \in Left(i + 1)
      <4>1. i + 1 \in 1 .. (i + 1) /\ ((i + 1) + 1) .. (i + 1) = {}
        OBVIOUS
      <4> QED
        BY <1>1, <1>2, <4>1
    <3>4. \A j \in Left(i) : j \in 1 .. i
      BY <1>1
    <3>5. \A j \in Left(i + 1) : j \in 1 .. i \/ j = i + 1
      BY <1>1
    <3> QED
      BY <3>2, <3>3, <3>4, <3>5
  <2> QED
    BY <1>1, <1>2, <2>1
<1>3. CASE E(i + 1)
  <2>1. Left(i + 1) = {}
    <3>1. ~P(i + 1)
      BY <1>3
    <3>2. ASSUME NEW j \in 1 .. i
          PROVE  i + 1 \in (j + 1) .. (i + 1)
      OBVIOUS
    <3>3. \A j \in Left(i + 1) : j \in 1 .. i \/ j = i + 1
      BY <1>1
    <3> QED
      BY <1>1, <1>3, <3>1, <3>2, <3>3
  <2> QED
    BY <1>1, <1>3, <2>1
<1>4. CASE ~P(i + 1) /\ ~E(i + 1)
  <2>1. Left(i + 1) = Left(i)
    <3>1. ASSUME NEW j \in 1 .. i
          PROVE  j \in Left(i + 1) <=> j \in Left(i)
      <4>1. j \in 1 .. i + 1 /\ (j + 1) .. (i + 1) = ((j + 1) .. i) \cup {i + 1}
        OBVIOUS
      <4> QED
        BY <1>1, <1>4, <4>1
    <3>2. \A j \in Left(i) : j \in 1 .. i
      BY <1>1
    <3>3. \A j \in Left(i + 1) : j \in 1 .. i
      BY <1>1, <1>4
    <3> QED
      BY <3>1, <3>2, <3>3
  <2>2. i + 1 \in Nat
    OBVIOUS
  <2>3. DepositedIn(s, i + 1, c) = DepositedIn(s, i, c)
    BY <1>1, <2>1, <2>2
  <2> QED
    BY <1>4, <2>3
<1> QED
  BY <1>2, <1>3, <1>4

(* The deposits after i events depend on these events only.                *)
LEMMA DepositsStay ==
    ASSUME NEW s, NEW r, NEW i \in Nat, NEW c, \A j \in 1 .. i : r[j] = s[j]
    PROVE  DepositedIn(r, i, c) = DepositedIn(s, i, c)
<1>1. Puts(r, i, c) = Puts(s, i, c)
  BY DEF Puts
<1>2. ASSUME NEW j \in Puts(s, i, c)
      PROVE  Erased(r, j, i, c) <=> Erased(s, j, i, c)
  <2>1. \A k \in (j + 1) .. i : k \in 1 .. i
    BY DEF Puts
  <2> QED
    BY <2>1 DEF Erased
<1>3. \A j \in Puts(s, i, c) : r[j] = s[j]
  BY DEF Puts
<1> QED
  BY <1>1, <1>2, <1>3 DEF DepositedIn

(* The containers hold what the recorded operations put there, and each    *)
(* erasure took what was there before.                                     *)
ContentsInv ==
    /\ DOMAIN contents = Containers
    /\ \A c \in Containers : contents[c] = DepositedIn(trace, Len(trace), c)
    /\ \A i \in DOMAIN trace : Operation(trace[i]) =>
          /\ trace[i].what \in Containers /\ trace[i].by # None
          /\ trace[i].kind = "erase" => trace[i].took = DepositedIn(trace, i - 1, trace[i].what)
    /\ lost = 0 => damaged = {}

(* Every step of RosTrace is one of these as far as containers go.         *)
LEMMA WhatMoves ==
    ASSUME Next
    PROVE  \E t \in Threads :
              \/ \E c \in Containers : \E e :
                    /\ e.kind = "push" /\ e.what = c /\ e.by # None /\ Appends(e, t)
                    /\ contents' = [contents EXCEPT ![c] = @ \cup {<<e.by, e.at>>}]
              \/ \E c \in Containers : \E e :
                    /\ e.kind = "erase" /\ e.what = c /\ e.by # None /\ e.took = contents[c] /\ Appends(e, t)
                    /\ contents' = [contents EXCEPT ![c] = {}]
              \/ \E e : ~Operation(e) /\ Appends(e, t) /\ UNCHANGED contents
              \/ \E x : Loses(x) /\ UNCHANGED contents
<1>1. ASSUME NEW kind, NEW t, NEW what, NEW sample, NEW took, Record(kind, t, what, sample, took)
      PROVE  \E e : e.kind = kind /\ e.what = what /\ e.took = took /\ Appends(e, t)
  <2> DEFINE e == Event(kind, t, what, sample, took)
  <2>1. e.kind = kind /\ e.what = what /\ e.took = took /\ NewEvent(e, t)
    BY DEF Event, NewEvent, Since, Top
  <2>2. trace' = Append(trace, e) /\ UNCHANGED <<lost, damaged>>
    BY <1>1 DEF Record
  <2> HIDE DEF e
  <2> QED
    BY <2>1, <2>2 DEF Appends
<1>2. ASSUME NEW kind, NEW t, NEW what, NEW sample, NEW took, Record(kind, t, what, sample, took),
             kind \notin {"push", "erase"}
      PROVE  \E e : ~Operation(e) /\ Appends(e, t)
  BY <1>1, <1>2 DEF Operation
<1>3. ASSUME NEW x, Discard(x)
      PROVE  Loses(x)
  BY <1>3 DEF Discard, Loses
<1>4. PICK t \in Threads :
        \/ \E p \in Publishers : Publish(t, p)
        \/ \E s \in Subs : Take(t, s)
        \/ \E f \in Callbacks : Start(t, f)
        \/ End(t)
        \/ \E q \in Polled : Poll(t, q)
        \/ \E c \in Containers : Push(t, c) \/ Erase(t, c)
        \/ Retain(t)
        \/ \E k \in kept : Release(t, k)
  BY DEF Next
<1> DEFINE Still == \/ \E e : ~Operation(e) /\ Appends(e, t) /\ UNCHANGED contents
                    \/ \E x : Loses(x) /\ UNCHANGED contents
<1>5. CASE \E p \in Publishers : Publish(t, p)
  <2>1. Still
    BY <1>2, <1>5 DEF Publish
  <2> QED
    BY <2>1
<1>6. CASE \E s \in Subs : Take(t, s)
  <2>1. \E s \in Subs : \E sample : Record("take", t, s, sample, {}) /\ UNCHANGED contents
    BY <1>6 DEF Take
  <2>2. Still
    BY <1>2, <2>1
  <2> QED
    BY <2>2
<1>7. CASE \E f \in Callbacks : Start(t, f)
  <2>1. Still
    BY <1>2, <1>3, <1>7 DEF Start, memory
  <2> QED
    BY <2>1
<1>8. CASE End(t)
  <2>1. Still
    BY <1>2, <1>3, <1>8 DEF End, memory
  <2> QED
    BY <2>1
<1>9. CASE \E q \in Polled : Poll(t, q)
  <2>1. Still
    BY <1>2, <1>9 DEF Poll
  <2> QED
    BY <2>1
<1>10. ASSUME NEW c \in Containers, Push(t, c)
       PROVE  \E e : /\ e.kind = "push" /\ e.what = c /\ e.by # None /\ Appends(e, t)
                     /\ contents' = [contents EXCEPT ![c] = @ \cup {<<e.by, e.at>>}]
  <2>1. PICK e : e.kind = "push" /\ e.what = c /\ Appends(e, t)
    BY <1>1, <1>10 DEF Push
  <2>2. e.by = Running(t) /\ e.at = Now
    BY <2>1 DEF Appends, NewEvent
  <2> QED
    BY <1>10, <2>1, <2>2 DEF Push
<1>11. ASSUME NEW c \in Containers, Erase(t, c)
       PROVE  \E e : /\ e.kind = "erase" /\ e.what = c /\ e.by # None /\ e.took = contents[c] /\ Appends(e, t)
                     /\ contents' = [contents EXCEPT ![c] = {}]
  <2>1. PICK e : e.kind = "erase" /\ e.what = c /\ e.took = contents[c] /\ Appends(e, t)
    BY <1>1, <1>11 DEF Erase
  <2>2. e.by = Running(t)
    BY <2>1 DEF Appends, NewEvent
  <2> QED
    BY <1>11, <2>1, <2>2 DEF Erase
<1>12. CASE Retain(t)
  <2>1. Still
    BY <1>2, <1>12 DEF Retain
  <2> QED
    BY <2>1
<1>13. CASE \E k \in kept : Release(t, k)
  <2>1. Still
    BY <1>2, <1>13 DEF Release
  <2> QED
    BY <2>1
<1> QED
  BY <1>4, <1>5, <1>6, <1>7, <1>8, <1>9, <1>10, <1>11, <1>12, <1>13

(* ContentsInv is inductive, given FramesInv.                              *)
LEMMA ContentsKept ==
    ASSUME FramesInv, ContentsInv, Next
    PROVE  ContentsInv'
<1>1. PICK t \in Threads :
              \/ \E c \in Containers : \E e :
                    /\ e.kind = "push" /\ e.what = c /\ e.by # None /\ Appends(e, t)
                    /\ contents' = [contents EXCEPT ![c] = @ \cup {<<e.by, e.at>>}]
              \/ \E c \in Containers : \E e :
                    /\ e.kind = "erase" /\ e.what = c /\ e.by # None /\ e.took = contents[c] /\ Appends(e, t)
                    /\ contents' = [contents EXCEPT ![c] = {}]
              \/ \E e : ~Operation(e) /\ Appends(e, t) /\ UNCHANGED contents
              \/ \E x : Loses(x) /\ UNCHANGED contents
  BY WhatMoves
<1>2. CASE \E x : Loses(x) /\ UNCHANGED contents
  BY <1>2 DEF ContentsInv, Loses, FramesInv
<1>3. ASSUME NEW e, Appends(e, t), Operation(e) => e.what \in Containers /\ e.by # None,
             e.kind = "erase" => e.took = contents[e.what],
             DOMAIN contents' = Containers,
             \A c \in Containers :
                contents'[c] = IF e.kind = "push" /\ e.what = c THEN contents[c] \cup {<<e.by, e.at>>}
                               ELSE IF e.kind = "erase" /\ e.what = c THEN {} ELSE contents[c]
      PROVE  ContentsInv'
  <2> DEFINE n == Len(trace)
  <2>1. /\ n \in Nat /\ Len(trace') = n + 1
        /\ DOMAIN trace = 1 .. n /\ DOMAIN trace' = 1 .. (n + 1)
        /\ \A i \in 1 .. n : trace'[i] = trace[i]
        /\ trace'[n + 1] = e
    BY <1>3, TraceGrows
  <2> HIDE DEF n
  <2>2. ASSUME NEW i \in 0 .. n, NEW c
        PROVE  DepositedIn(trace', i, c) = DepositedIn(trace, i, c)
    <3>1. i \in Nat /\ \A j \in 1 .. i : j \in 1 .. n
      BY <2>1
    <3> QED
      BY <2>1, <3>1, DepositsStay
  <2>3. ASSUME NEW c \in Containers
        PROVE  contents'[c] = DepositedIn(trace', Len(trace'), c)
    <3>1. contents[c] = DepositedIn(trace', n, c)
      <4>1. n \in 0 .. n
        BY <2>1
      <4> QED
        BY <2>2, <4>1 DEF ContentsInv, n
    <3>2. DepositedIn(trace', n + 1, c) =
             IF e.kind = "push" /\ e.what = c THEN DepositedIn(trace', n, c) \cup {<<e.by, e.at>>}
             ELSE IF e.kind = "erase" /\ e.what = c THEN {} ELSE DepositedIn(trace', n, c)
      BY <2>1, DepositsGrow
    <3> QED
      BY <1>3, <2>1, <3>1, <3>2
  <2>4. ASSUME NEW i \in 1 .. n + 1, Operation(trace'[i])
        PROVE  /\ trace'[i].what \in Containers /\ trace'[i].by # None
               /\ trace'[i].kind = "erase" => trace'[i].took = DepositedIn(trace', i - 1, trace'[i].what)
    <3>1. CASE i = n + 1
      <4>1. trace'[i] = e /\ i - 1 = n /\ n \in 0 .. n
        BY <2>1, <3>1
      <4>2. e.what \in Containers /\ contents[e.what] = DepositedIn(trace, n, e.what)
        BY <1>3, <2>4, <4>1 DEF ContentsInv, n
      <4> QED
        BY <1>3, <2>2, <2>4, <4>1, <4>2
    <3>2. CASE i \in 1 .. n
      <4>1. trace'[i] = trace[i] /\ i - 1 \in 0 .. n /\ i \in DOMAIN trace
        BY <2>1, <3>2
      <4> QED
        BY <2>2, <2>4, <4>1 DEF ContentsInv
    <3> QED
      BY <2>1, <3>1, <3>2
  <2>5. lost' = 0 => damaged' = {}
    BY <1>3 DEF Appends, ContentsInv
  <2> QED
    BY <1>3, <2>1, <2>3, <2>4, <2>5 DEF ContentsInv, Operation
<1>4. ASSUME NEW c \in Containers, NEW e, e.kind = "push", e.what = c, e.by # None, Appends(e, t),
             contents' = [contents EXCEPT ![c] = @ \cup {<<e.by, e.at>>}]
      PROVE  ContentsInv'
  BY <1>3, <1>4 DEF ContentsInv
<1>5. ASSUME NEW c \in Containers, NEW e, e.kind = "erase", e.what = c, e.by # None, e.took = contents[c],
             Appends(e, t), contents' = [contents EXCEPT ![c] = {}]
      PROVE  ContentsInv'
  BY <1>3, <1>5 DEF ContentsInv
<1>6. ASSUME NEW e, ~Operation(e), Appends(e, t), UNCHANGED contents
      PROVE  ContentsInv'
  BY <1>3, <1>6 DEF ContentsInv, Operation
<1> QED
  BY <1>1, <1>2, <1>4, <1>5, <1>6

(* When owner is right about every operation on a container, the book that *)
(* _join_state_evidence keeps holds what lies in the containers, and its   *)
(* findings are what the erasures took.                                    *)
LEMMA EvidenceFollows ==
    ASSUME Len(trace) \in Nat, DOMAIN trace = 1 .. Len(trace), ContentsInv,
           \A i \in DOMAIN trace : Operation(trace[i]) => OwnerOf(trace[i]) = trace[i].by
    PROVE  ContainerEvidence = UNION {FoundBy(trace[j]) : j \in Erasures(trace, Len(trace))}
<1> DEFINE n == Len(trace)
           Found(i) == UNION {FoundBy(trace[j]) : j \in Erasures(trace, i)}
<1>1. PICK b : Books("containers", n, b) /\ ContainerEvidence = b[n].found
  BY EvidenceIsBooked
<1> DEFINE Right(i) == /\ DOMAIN b[i].waiting = Containers
                       /\ \A c \in Containers : b[i].waiting[c] = DepositedIn(trace, i, c)
                       /\ b[i].found = Found(i)
           S == {i \in Nat : i <= n => Right(i)}
<1>2. 0 \in S
  <2>1. b[0] = EmptyBook
    BY <1>1 DEF Books, Blank, Booked
  <2>2. \A c : DepositedIn(trace, 0, c) = {}
    BY DEF DepositedIn, Puts
  <2>3. Found(0) = {}
    BY DEF Erasures
  <2>4. b[0].waiting = [c \in Containers |-> {}] /\ b[0].found = {}
    BY <2>1 DEF EmptyBook
  <2>5. Right(0)
    BY <2>2, <2>3, <2>4
  <2> QED
    BY <2>5
<1>3. ASSUME NEW i \in Nat, i \in S
      PROVE  i + 1 \in S
  <2> SUFFICES ASSUME i + 1 <= n
               PROVE  Right(i + 1)
    OBVIOUS
  <2> DEFINE e == trace[i + 1]
  <2>1. Right(i) /\ i + 1 \in 0 .. n /\ i + 1 # 0 /\ (i + 1) - 1 = i /\ i + 1 \in DOMAIN trace
    BY <1>3
  <2>2. b[i + 1] = Entered(b[i], e)
    BY <1>1, <2>1 DEF Books, Blank, Booked
  <2> HIDE DEF S, Right, Found
  <2>3. /\ DOMAIN b[i].waiting = Containers /\ b[i].found = Found(i)
        /\ \A c \in Containers : b[i].waiting[c] = DepositedIn(trace, i, c)
    BY <2>1 DEF Right
  <2>4. Operation(e) => e.what \in Containers /\ e.by # None /\ OwnerOf(e) = e.by
    BY <2>1 DEF ContentsInv
  <2>5. e.kind = "erase" => e.took = DepositedIn(trace, i, e.what)
    BY <2>1 DEF ContentsInv, Operation
  <2>6. Erasures(trace, i + 1) = IF e.kind = "erase" THEN Erasures(trace, i) \cup {i + 1} ELSE Erasures(trace, i)
    <3>1. 1 .. (i + 1) = (1 .. i) \cup {i + 1} /\ i + 1 \notin 1 .. i
      OBVIOUS
    <3> QED
      BY <3>1 DEF Erasures
  <2>7. Found(i + 1) = IF e.kind = "erase" THEN Found(i) \cup FoundBy(e) ELSE Found(i)
    BY <2>6 DEF Found
  <2>8. \A c : DepositedIn(trace, i + 1, c) =
                 IF e.kind = "push" /\ e.what = c THEN DepositedIn(trace, i, c) \cup {<<e.by, e.at>>}
                 ELSE IF e.kind = "erase" /\ e.what = c THEN {} ELSE DepositedIn(trace, i, c)
    BY DepositsGrow
  <2> HIDE DEF e
  <2>9. CASE ~Operation(e)
    <3>1. b[i + 1] = b[i] /\ e.kind # "push" /\ e.kind # "erase"
      BY <2>2, <2>9 DEF Entered, Operation
    <3> QED
      BY <2>3, <2>7, <2>8, <3>1 DEF Right
  <2>10. CASE e.kind = "push"
    <3>1. b[i + 1] = [waiting |-> [b[i].waiting EXCEPT ![e.what] = @ \cup {<<e.by, e.at>>}], found |-> b[i].found]
      BY <2>2, <2>4, <2>10 DEF Entered, Operation, Absorb
    <3>2. b[i + 1].found = b[i].found /\ e.kind # "erase"
          /\ b[i + 1].waiting = [b[i].waiting EXCEPT ![e.what] = @ \cup {<<e.by, e.at>>}]
      BY <2>10, <3>1
    <3> QED
      BY <2>3, <2>4, <2>7, <2>8, <2>10, <3>2 DEF Right, Operation
  <2>11. CASE e.kind = "erase"
    <3>1. b[i + 1] = [waiting |-> [b[i].waiting EXCEPT ![e.what] = {}],
                      found |-> b[i].found \cup {<<d[1], e.by, d[2], e.at>> :
                                                   d \in {x \in b[i].waiting[e.what] : x[1] # e.by}}]
      BY <2>2, <2>4, <2>11 DEF Entered, Operation, Absorb
    <3>2. b[i].waiting[e.what] = e.took
      BY <2>3, <2>4, <2>5, <2>11 DEF Operation
    <3>3. b[i + 1].found = b[i].found \cup FoundBy(e) /\ e.kind # "push"
          /\ b[i + 1].waiting = [b[i].waiting EXCEPT ![e.what] = {}]
      BY <2>11, <3>1, <3>2 DEF FoundBy
    <3> QED
      BY <2>3, <2>4, <2>7, <2>8, <2>11, <3>3 DEF Right, Operation
  <2> QED
    BY <2>9, <2>10, <2>11 DEF Operation
<1> HIDE DEF S
<1>4. Nat \subseteq S
  BY <1>2, <1>3, NatIsInductive
<1>5. Right(n)
  BY <1>4 DEF S
<1> QED
  BY <1>1, <1>5

(* EvidenceIsReal: in a whole trace of any length the evidence of          *)
(* _join_state_evidence is exactly what the erasing callbacks took out of  *)
(* the containers, whatever threads and containers there are.              *)
THEOREM EvidenceFound == Spec => []EvidenceIsReal
<1>1. Init => OwnerInv /\ ContentsInv
  <2> SUFFICES ASSUME Init PROVE OwnerInv /\ ContentsInv
    OBVIOUS
  <2>1. OwnerInv
    BY OwnerInvInit
  <2>2. trace = <<>> /\ lost = 0 /\ damaged = {} /\ contents = [c \in Containers |-> {}]
    BY DEF Init
  <2>3. \A c : DepositedIn(<<>>, 0, c) = {}
    BY DEF DepositedIn, Puts
  <2> QED
    BY <2>1, <2>2, <2>3 DEF ContentsInv
<1>2. OwnerInv /\ ContentsInv /\ [Next]_vars => (OwnerInv /\ ContentsInv)'
  <2> SUFFICES ASSUME OwnerInv, ContentsInv, [Next]_vars PROVE OwnerInv' /\ ContentsInv'
    OBVIOUS
  <2>1. OwnerInv'
    BY OwnerInvKept
  <2>2. CASE Next
    BY <2>1, <2>2, ContentsKept DEF OwnerInv
  <2>3. CASE UNCHANGED vars
    BY <2>1, <2>3 DEF vars, ContentsInv
  <2> QED
    BY <2>1, <2>2, <2>3
<1>3. OwnerInv /\ ContentsInv => EvidenceIsReal
  <2> SUFFICES ASSUME OwnerInv, ContentsInv, AtRest
               PROVE  ContainerEvidence =
                         UNION {{<<d[1], e.by, d[2], e.at>> : d \in {x \in e.took : x[1] # e.by}} :
                                   e \in Recorded("erase")}
    BY DEF EvidenceIsReal
  <2>1. Len(trace) \in Nat /\ DOMAIN trace = 1 .. Len(trace)
    BY DEF OwnerInv, FramesInv
  <2>2. ASSUME NEW i \in DOMAIN trace, Operation(trace[i])
        PROVE  OwnerOf(trace[i]) = trace[i].by
    <3>1. trace[i].thread \in Threads /\ Shown(trace[i])
      BY <2>2, EventOf DEF OwnerInv, Operation, Shown
    <3>2. Intact(trace[i]) /\ InSight(trace[i]) /\ lost <= 1
      BY <3>1 DEF AtRest, Intact, ContentsInv
    <3> QED
      BY <3>1, <3>2, OwnersAreRight
  <2>3. ContainerEvidence = UNION {FoundBy(trace[j]) : j \in Erasures(trace, Len(trace))}
    BY <2>1, <2>2, EvidenceFollows
  <2>4. Recorded("erase") = {trace[j] : j \in Erasures(trace, Len(trace))}
    BY <2>1 DEF Recorded, Erasures
  <2> QED
    BY <2>3, <2>4 DEF FoundBy
<1> QED
  BY <1>1, <1>2, <1>3, PTL DEF Spec

-----------------------------------------------------------------------------
(* Takes, publications and dispatches.                                     *)

(* The callbacks that the walk has seen begin, open or closed, with when.  *)
Entries(t) ==
    {<<w.f, w.from>> : w \in Windows(t)} \cup {<<Stack(t)[k].f, Stack(t)[k].from>> : k \in DOMAIN Stack(t)}

(* A take of a polled subscription is made by a callback of its node.      *)
TakesInv ==
    \A i \in DOMAIN trace : LET e == trace[i] IN
        e.kind = "take" =>
            /\ e.what \in Subs \cup Polled /\ activity # "containers"
            /\ e.what \in Polled => e.by \in Callbacks /\ NodeOf[e.by] = NodeOf[e.what]

(* The steps of RosTrace once more, as far as samples and dispatches go.   *)
Took(e, t, s) ==
    /\ e.kind = "take" /\ e.what = s /\ Appends(e, t) /\ e.sample > taken[s]
    /\ taken' = [taken EXCEPT ![s] = e.sample]
    /\ activity # "containers" /\ due[t] = None /\ UNCHANGED <<frames, latest>>
Dispatches(t) ==
    \E s \in Subs : \E e :
        /\ Took(e, t, s) /\ due' = [due EXCEPT ![t] = s]
        /\ e.sample = IF activity = "pointers" THEN Now ELSE latest[TopicOf[s]]
Polls(t) ==
    \E q \in Polled : \E e :
        /\ Took(e, t, q) /\ e.sample = latest[TopicOf[q]] /\ UNCHANGED due
        /\ activity = "messages" /\ e.by # None /\ NodeOf[e.by] = NodeOf[q]
SendsOn(t) ==
    \E p \in Publishers : \E e :
        /\ e.kind = "publish" /\ e.what = p /\ Appends(e, t)
        /\ latest' = [latest EXCEPT ![PubTopic[p]] = Now] /\ UNCHANGED <<frames, due, taken>>
Continues(t) ==
    \E e : e.kind \notin {"take", "publish", "start", "end"} /\ Appends(e, t)
           /\ UNCHANGED <<frames, due, latest, taken>>
Begins(t) ==
    \E f \in Callbacks :
        /\ Enters(t, f) /\ due' = [due EXCEPT ![t] = None] /\ UNCHANGED <<latest, taken>>
        /\ f \in Subs /\ activity # "containers" => due[t] = f
        /\ f \in Timers \/ activity = "containers" => due[t] = None
        /\ (\E e : e.kind = "start" /\ e.what = f /\ Appends(e, t)) \/ (\E x : Loses(x))
Finishes(t) ==
    /\ Leaves(t) /\ UNCHANGED <<due, latest, taken>>
    /\ (\E e : e.kind = "end" /\ Appends(e, t)) \/ (\E x : Loses(x))

(* Every step of RosTrace is one of these in that respect.                 *)
LEMMA WhatFlows ==
    ASSUME Next
    PROVE  /\ activity' = activity
           /\ \E t \in Threads :
                 Dispatches(t) \/ Polls(t) \/ SendsOn(t) \/ Continues(t) \/ Begins(t) \/ Finishes(t)
<1>1. ASSUME NEW kind, NEW t, NEW what, NEW sample, NEW took, Record(kind, t, what, sample, took)
      PROVE  activity' = activity
             /\ \E e : e.kind = kind /\ e.what = what /\ e.sample = sample /\ Appends(e, t)
  <2> DEFINE e == Event(kind, t, what, sample, took)
  <2>1. e.kind = kind /\ e.what = what /\ e.sample = sample /\ NewEvent(e, t)
    BY DEF Event, NewEvent, Since, Top
  <2>2. trace' = Append(trace, e) /\ UNCHANGED <<lost, damaged, activity>>
    BY <1>1 DEF Record
  <2> HIDE DEF e
  <2> QED
    BY <2>1, <2>2 DEF Appends
<1>2. ASSUME NEW kind, NEW t, NEW what, NEW sample, NEW took, Record(kind, t, what, sample, took),
             kind \notin {"take", "publish", "start", "end"}, UNCHANGED <<frames, due, latest, taken>>
      PROVE  activity' = activity /\ Continues(t)
  BY <1>1, <1>2 DEF Continues
<1>3. ASSUME NEW x, Discard(x)
      PROVE  activity' = activity /\ Loses(x)
  BY <1>3 DEF Discard, Loses
<1>4. PICK t \in Threads :
        \/ \E p \in Publishers : Publish(t, p)
        \/ \E s \in Subs : Take(t, s)
        \/ \E f \in Callbacks : Start(t, f)
        \/ End(t)
        \/ \E q \in Polled : Poll(t, q)
        \/ \E c \in Containers : Push(t, c) \/ Erase(t, c)
        \/ Retain(t)
        \/ \E k \in kept : Release(t, k)
  BY DEF Next
<1>5. ASSUME NEW p \in Publishers, Publish(t, p)
      PROVE  activity' = activity /\ SendsOn(t)
  <2>1. Record("publish", t, p, 0, {})
    BY <1>5 DEF Publish
  <2>2. activity' = activity
    BY <1>1, <2>1
  <2>3. PICK e : e.kind = "publish" /\ e.what = p /\ Appends(e, t)
    BY <1>1, <2>1
  <2> QED
    BY <1>5, <2>2, <2>3 DEF Publish, SendsOn
<1>6. ASSUME NEW s \in Subs, Take(t, s)
      PROVE  activity' = activity /\ Dispatches(t)
  <2> DEFINE n == IF activity = "pointers" THEN Now ELSE latest[TopicOf[s]]
  <2>1. Record("take", t, s, n, {}) /\ n > taken[s] /\ taken' = [taken EXCEPT ![s] = n]
    BY <1>6 DEF Take
  <2>2. activity' = activity
    BY <1>1, <2>1
  <2>3. PICK e : e.kind = "take" /\ e.what = s /\ e.sample = n /\ Appends(e, t)
    BY <1>1, <2>1
  <2>4. activity # "containers" /\ due[t] = None /\ due' = [due EXCEPT ![t] = s]
        /\ UNCHANGED <<frames, latest>>
    BY <1>6 DEF Take
  <2>5. Took(e, t, s)
    BY <2>1, <2>3, <2>4 DEF Took
  <2> QED
    BY <2>2, <2>3, <2>4, <2>5 DEF Dispatches
<1>7. ASSUME NEW f \in Callbacks, Start(t, f)
      PROVE  activity' = activity /\ Begins(t)
  <2>1. /\ Enters(t, f) /\ due' = [due EXCEPT ![t] = None] /\ UNCHANGED <<latest, taken>>
        /\ f \in Subs /\ activity # "containers" => due[t] = f
        /\ f \in Timers \/ activity = "containers" => due[t] = None
    BY <1>7 DEF Start, Enters, memory
  <2>2. /\ activity' = activity
        /\ (\E e : e.kind = "start" /\ e.what = f /\ Appends(e, t)) \/ (\E x : Loses(x))
    <3>1. CASE Record("start", t, f, 0, {})
      BY <1>1, <3>1
    <3>2. CASE Discard(IF frames[t] = <<>> THEN Now ELSE frames[t][1].since)
      BY <1>3, <3>2
    <3> QED
      BY <1>7, <3>1, <3>2 DEF Start
  <2> QED
    BY <2>1, <2>2 DEF Begins
<1>8. ASSUME End(t)
      PROVE  activity' = activity /\ Finishes(t)
  <2>1. Leaves(t) /\ UNCHANGED <<due, latest, taken>>
    BY <1>8 DEF End, Leaves, memory
  <2>2. activity' = activity /\ ((\E e : e.kind = "end" /\ Appends(e, t)) \/ (\E x : Loses(x)))
    <3>1. CASE Record("end", t, Running(t), 0, {})
      BY <1>1, <3>1
    <3>2. CASE Discard(frames[t][1].since)
      BY <1>3, <3>2
    <3> QED
      BY <1>8, <3>1, <3>2 DEF End
  <2> QED
    BY <2>1, <2>2 DEF Finishes
<1>9. ASSUME NEW q \in Polled, Poll(t, q)
      PROVE  activity' = activity /\ Polls(t)
  <2>1. Record("take", t, q, latest[TopicOf[q]], {})
    BY <1>9 DEF Poll
  <2>2. activity' = activity
    BY <1>1, <2>1
  <2>3. PICK e : e.kind = "take" /\ e.what = q /\ e.sample = latest[TopicOf[q]] /\ Appends(e, t)
    BY <1>1, <2>1
  <2>4. e.by = Running(t)
    BY <2>3 DEF Appends, NewEvent
  <2>5. Took(e, t, q)
    BY <1>9, <2>3 DEF Poll, Took
  <2> QED
    BY <1>9, <2>2, <2>3, <2>4, <2>5 DEF Poll, Polls
<1>10. ASSUME NEW c \in Containers, Push(t, c) \/ Erase(t, c)
       PROVE  activity' = activity /\ Continues(t)
  BY <1>2, <1>10 DEF Push, Erase
<1>11. ASSUME Retain(t)
       PROVE  activity' = activity /\ Continues(t)
  BY <1>2, <1>11 DEF Retain
<1>12. ASSUME NEW k \in kept, Release(t, k)
       PROVE  activity' = activity /\ Continues(t)
  BY <1>2, <1>12 DEF Release
<1> QED
  BY <1>4, <1>5, <1>6, <1>7, <1>8, <1>9, <1>10, <1>11, <1>12

(* TakesInv is inductive.                                                  *)
LEMMA TakesKept ==
    ASSUME FramesInv, TakesInv, Next
    PROVE  TakesInv'
<1> DEFINE Fine(e) == e.kind = "take" =>
                        /\ e.what \in Subs \cup Polled /\ activity # "containers"
                        /\ e.what \in Polled => e.by \in Callbacks /\ NodeOf[e.by] = NodeOf[e.what]
<1>1. activity' = activity /\ \A i \in DOMAIN trace : Fine(trace[i])
  BY WhatFlows DEF TakesInv
<1>2. PICK t \in Threads :
         Dispatches(t) \/ Polls(t) \/ SendsOn(t) \/ Continues(t) \/ Begins(t) \/ Finishes(t)
  BY WhatFlows
<1>3. CASE UNCHANGED trace
  BY <1>1, <1>3 DEF TakesInv
<1>4. ASSUME NEW e, Appends(e, t), Fine(e)
      PROVE  TakesInv'
  <2> HIDE DEF Fine
  <2>1. \A i \in DOMAIN trace' : Fine(trace'[i])
    BY <1>1, <1>4, TraceGrows
  <2> QED
    BY <1>1, <2>1 DEF TakesInv, Fine
<1>5. CASE Dispatches(t)
  <2>1. PICK s \in Subs : \E e : Took(e, t, s)
    BY <1>5 DEF Dispatches
  <2>2. PICK e : Took(e, t, s)
    BY <2>1
  <2>3. s \notin Polled
    BY RosTraceAssumption DEF Callbacks
  <2>4. Fine(e)
    BY <2>2, <2>3 DEF Took
  <2> QED
    BY <1>4, <2>2, <2>4 DEF Took
<1>6. CASE Polls(t)
  <2>1. PICK q \in Polled : \E e : Took(e, t, q) /\ e.by # None /\ NodeOf[e.by] = NodeOf[q]
    BY <1>6 DEF Polls
  <2>2. PICK e : Took(e, t, q) /\ e.by # None /\ NodeOf[e.by] = NodeOf[q]
    BY <2>1
  <2>3. e.by \in Callbacks
    <3>1. NewEvent(e, t)
      BY <2>2 DEF Took, Appends
    <3> QED
      BY <2>2, <3>1, NewEventFits, FramesOf
  <2>4. Fine(e)
    BY <2>2, <2>3 DEF Took
  <2> QED
    BY <1>4, <2>2, <2>4 DEF Took
<1>7. CASE SendsOn(t) \/ Continues(t) \/ Begins(t) \/ Finishes(t)
  <2>1. UNCHANGED trace \/ \E e : e.kind # "take" /\ Appends(e, t)
    BY <1>7 DEF SendsOn, Continues, Begins, Finishes, Loses
  <2> QED
    BY <1>3, <1>4, <2>1
<1> QED
  BY <1>2, <1>5, <1>6, <1>7

(* What a step does to the entries of a thread: a callback_start that is   *)
(* recorded adds one, and nothing takes one away.                          *)
LEMMA EntriesGrow ==
    ASSUME FramesInv, StackInv, NEW t \in Threads
    PROVE  /\ Passed(t) => Entries(t)' = Entries(t)
           /\ \A f \in Callbacks : Pushed(t, f) => Entries(t)' = Entries(t) \cup {<<f, Now>>}
           /\ Popped(t) => Entries(t)' = Entries(t)
           /\ \A z \in Entries(t) : z[2] \in Nat \ {0} /\ z[2] < Now
<1> DEFINE st == Stack(t)
           m == Len(Stack(t))
<1>1. /\ m \in Nat /\ DOMAIN st = 1 .. m
      /\ \A i \in DOMAIN st : st[i].from \in Nat /\ st[i].from < Now
  BY StackFacts
<1>2. \A w \in Windows(t) : w.from \in Nat \ {0} /\ w.from < Now
  BY NowIsNat DEF StackInv, StackOK, Window
<1>3. \A i \in DOMAIN st : st[i].from # 0
  <2>1. st \in Seq(OpenWindow)
    BY DEF StackInv, StackOK
  <2>2. \A i \in DOMAIN st : st[i] \in OpenWindow
    BY <2>1
  <2> QED
    BY <2>2 DEF OpenWindow
<1>4. \A z \in Entries(t) : z[2] \in Nat \ {0} /\ z[2] < Now
  BY <1>1, <1>2, <1>3 DEF Entries
<1>5. ASSUME Passed(t)
      PROVE  Entries(t)' = Entries(t)
  BY <1>5 DEF Passed, Entries
<1>6. ASSUME NEW f \in Callbacks, Pushed(t, f)
      PROVE  Entries(t)' = Entries(t) \cup {<<f, Now>>}
  <2> DEFINE x == [f |-> f, from |-> Now]
  <2>1. /\ DOMAIN st' = 1 .. (m + 1)
        /\ \A i \in DOMAIN st : st'[i] = st[i]
        /\ st'[m + 1] = x /\ Windows(t)' = Windows(t)
    BY <1>6, StackFacts DEF Pushed
  <2>2. x.f = f /\ x.from = Now
    OBVIOUS
  <2> HIDE DEF st, m, x
  <2>3. {<<st'[k].f, st'[k].from>> : k \in DOMAIN st'}
           = {<<st[k].f, st[k].from>> : k \in DOMAIN st} \cup {<<f, Now>>}
    <3>1. DOMAIN st' = DOMAIN st \cup {m + 1}
      BY <1>1, <2>1
    <3> QED
      BY <2>1, <2>2, <3>1
  <2> QED
    BY <2>1, <2>3 DEF Entries, st
<1>7. ASSUME Popped(t)
      PROVE  Entries(t)' = Entries(t)
  <2> DEFINE w == [f |-> st[m].f, from |-> st[m].from, to |-> Now]
  <2>1. /\ m > 0 /\ DOMAIN st' = 1 .. (m - 1)
        /\ \A i \in 1 .. (m - 1) : st'[i] = st[i]
        /\ Windows(t)' = Windows(t) \cup {w}
    BY <1>7, StackFacts DEF Popped
  <2>2. w.f = st[m].f /\ w.from = st[m].from
    OBVIOUS
  <2> HIDE DEF st, m, w
  <2>3. DOMAIN st = DOMAIN st' \cup {m}
    BY <1>1, <2>1
  <2>4. \A i \in DOMAIN st' : st'[i] = st[i]
    BY <2>1
  <2>5. {<<x.f, x.from>> : x \in Windows(t)'} = {<<x.f, x.from>> : x \in Windows(t)} \cup {<<st[m].f, st[m].from>>}
    BY <2>1, <2>2
  <2>6. {<<st[k].f, st[k].from>> : k \in DOMAIN st}
           = {<<st'[k].f, st'[k].from>> : k \in DOMAIN st'} \cup {<<st[m].f, st[m].from>>}
    BY <2>3, <2>4
  <2> QED
    BY <2>5, <2>6 DEF Entries, st
<1> QED
  BY <1>4, <1>5, <1>6, <1>7

(* What an event and a frame of its thread say of the same callback.       *)
NamesInv ==
    \A i \in DOMAIN trace : LET e == trace[i] IN
        Shown(e) => \A k \in DOMAIN frames[e.thread] :
            frames[e.thread][k].since = e.since => frames[e.thread][k].f = e.by

(* No two callbacks began together, and those that are damaged have begun. *)
ApartInv ==
    /\ \A t, u \in Threads : t # u =>
          \A i \in DOMAIN frames[t], j \in DOMAIN frames[u] : frames[t][i].since # frames[u][j].since
    /\ \A x \in damaged : x \in Nat /\ x < Now
    /\ lost = 0 => damaged = {}

(* A callback that a thread is in after a step began with it or before.    *)
LEMMA FramesChange ==
    ASSUME FramesInv, Next
    PROVE  \E t \in Threads :
              /\ \A u \in Threads \ {t} : frames'[u] = frames[u]
              /\ \A k \in DOMAIN frames'[t] :
                    frames'[t][k].since = Now \/ (k \in DOMAIN frames[t] /\ frames'[t][k] = frames[t][k])
<1>1. PICK t \in Threads : Shows(t) \/ StartSeen(t) \/ StartLost(t) \/ EndSeen(t) \/ EndLost(t)
  BY WhatSteps
<1>2. CASE Shows(t)
  BY <1>2 DEF Shows
<1>3. ASSUME NEW f \in Callbacks, Enters(t, f)
      PROVE  /\ \A u \in Threads \ {t} : frames'[u] = frames[u]
             /\ \A k \in DOMAIN frames'[t] :
                   frames'[t][k].since = Now \/ (k \in DOMAIN frames[t] /\ frames'[t][k] = frames[t][k])
  <2> DEFINE n == Len(frames[t])
  <2>1. /\ n \in Nat /\ DOMAIN frames'[t] = 1 .. (n + 1) /\ DOMAIN frames[t] = 1 .. n
        /\ \A u \in Threads \ {t} : frames'[u] = frames[u]
        /\ \A k \in DOMAIN frames[t] : frames'[t][k] = frames[t][k]
        /\ frames'[t][n + 1].since = Now
    BY <1>3, EntersFrames, FramesOf
  <2>2. \A k \in DOMAIN frames'[t] : k = n + 1 \/ k \in DOMAIN frames[t]
    BY <2>1
  <2> QED
    BY <2>1, <2>2
<1>4. CASE Leaves(t)
  BY <1>4, LeavesFrames
<1> QED
  BY <1>1, <1>2, <1>3, <1>4 DEF StartSeen, StartLost, EndSeen, EndLost

(* NamesInv is inductive, given FramesInv and EventsInv.                   *)
LEMMA NamesKept ==
    ASSUME FramesInv, EventsInv, NamesInv, Next
    PROVE  NamesInv'
<1> DEFINE Fine(e, u) == Shown(e) => \A k \in DOMAIN frames'[u] : frames'[u][k].since = e.since => frames'[u][k].f = e.by
<1>1. ASSUME NEW i \in DOMAIN trace, NEW e, e = trace[i]
      PROVE  Fine(e, e.thread)
  <2>1. e.thread \in Threads /\ e.since \in Nat /\ e.at \in Nat /\ e.since <= e.at /\ e.at < Now
    BY <1>1, EventOf
  <2>2. Now \in Nat
    BY NowIsNat
  <2>3. \A k \in DOMAIN frames'[e.thread] :
           frames'[e.thread][k].since = Now
           \/ (k \in DOMAIN frames[e.thread] /\ frames'[e.thread][k] = frames[e.thread][k])
    BY <2>1, FramesChange
  <2>4. Now # e.since
    BY <2>1, <2>2
  <2> QED
    BY <1>1, <2>3, <2>4 DEF NamesInv
<1>2. ASSUME NEW t \in Threads, NEW e, Appends(e, t), Shown(e), UNCHANGED frames
      PROVE  Fine(e, e.thread)
  <2>1. e.thread = t /\ e.by = Running(t) /\ e.since = Since(t)
    BY <1>2 DEF Appends, NewEvent
  <2> SUFFICES ASSUME NEW k \in DOMAIN frames[t], frames[t][k].since = e.since
               PROVE  frames[t][k].f = e.by
    BY <1>2, <2>1
  <2> DEFINE n == Len(frames[t])
  <2>2. /\ n \in Nat /\ DOMAIN frames[t] = 1 .. n
        /\ \A i \in DOMAIN frames[t] : frames[t][i].since \in Nat
        /\ \A i, j \in DOMAIN frames[t] : i < j => frames[t][i].since < frames[t][j].since
    BY FramesOf
  <2>3. frames[t] # <<>> /\ n \in DOMAIN frames[t]
    BY <2>2, FramesOf
  <2>4. e.by = frames[t][n].f /\ e.since = frames[t][n].since
    BY <2>1, <2>3 DEF Running, Since
  <2>5. k = n
    BY <2>2, <2>3, <2>4
  <2> QED
    BY <2>4, <2>5
<1>3. ASSUME NEW i \in DOMAIN trace', NEW e, e = trace'[i]
      PROVE  Fine(e, e.thread)
  <2>1. PICK t \in Threads : Shows(t) \/ StartSeen(t) \/ StartLost(t) \/ EndSeen(t) \/ EndLost(t)
    BY WhatSteps
  <2>2. CASE UNCHANGED trace
    BY <1>1, <1>3, <2>2
  <2>3. ASSUME NEW d, Appends(d, t), Shown(d) => UNCHANGED frames
        PROVE  Fine(e, e.thread)
    <3>1. Fine(d, d.thread)
      BY <1>2, <2>3
    <3> HIDE DEF Fine
    <3>2. (i \in DOMAIN trace /\ trace'[i] = trace[i]) \/ e = d
      BY <1>3, <2>3, TraceGrows
    <3> QED
      BY <1>1, <1>3, <3>1, <3>2
  <2> HIDE DEF Fine
  <2> QED
    BY <2>1, <2>2, <2>3 DEF Shows, StartSeen, StartLost, EndSeen, EndLost, Loses, Shown
<1> QED
  BY <1>3 DEF NamesInv, Shown

(* ApartInv is inductive, given FramesInv.                                 *)
LEMMA ApartKept ==
    ASSUME FramesInv, ApartInv, Next
    PROVE  ApartInv'
<1>1. Now \in Nat /\ Now' = Now + 1 /\ lost \in Nat
  BY NowIsNat, FramesKept DEF FramesInv
<1>2. ASSUME NEW t \in Threads, NEW u \in Threads, t # u,
             NEW i \in DOMAIN frames'[t], NEW j \in DOMAIN frames'[u]
      PROVE  frames'[t][i].since # frames'[u][j].since
  <2>1. ASSUME NEW v \in Threads, NEW k \in DOMAIN frames[v]
        PROVE  frames[v][k].since < Now /\ frames[v][k].since \in Nat
    BY <2>1, FramesOf
  <2>2. ASSUME NEW v \in Threads, \A y \in Threads \ {v} : frames'[y] = frames[y],
               \A k \in DOMAIN frames'[v] :
                  frames'[v][k].since = Now \/ (k \in DOMAIN frames[v] /\ frames'[v][k] = frames[v][k]),
               NEW y \in Threads \ {v}, NEW k \in DOMAIN frames'[v], NEW l \in DOMAIN frames'[y]
        PROVE  frames'[v][k].since # frames'[y][l].since
    <3>1. frames'[y] = frames[y] /\ l \in DOMAIN frames[y]
      BY <2>2
    <3>2. frames[y][l].since < Now /\ frames[y][l].since \in Nat
      BY <2>1, <3>1
    <3>3. CASE frames'[v][k].since = Now
      BY <1>1, <3>1, <3>2, <3>3
    <3>4. CASE k \in DOMAIN frames[v] /\ frames'[v][k] = frames[v][k]
      BY <3>1, <3>4 DEF ApartInv
    <3> QED
      BY <2>2, <3>3, <3>4
  <2>3. PICK v \in Threads :
           /\ \A y \in Threads \ {v} : frames'[y] = frames[y]
           /\ \A k \in DOMAIN frames'[v] :
                 frames'[v][k].since = Now \/ (k \in DOMAIN frames[v] /\ frames'[v][k] = frames[v][k])
    BY FramesChange
  <2>4. CASE v = t
    <3>1. u \in Threads \ {v}
      BY <1>2, <2>4
    <3> QED
      BY <2>2, <2>3, <2>4, <3>1
  <2>5. CASE v = u
    <3>1. t \in Threads \ {v}
      BY <1>2, <2>5
    <3>2. frames'[v][j].since # frames'[t][i].since
      BY <2>2, <2>3, <2>5, <3>1
    <3> QED
      BY <2>5, <3>2
  <2>6. CASE v # t /\ v # u
    BY <1>2, <2>3, <2>6 DEF ApartInv
  <2> QED
    BY <2>4, <2>5, <2>6
<1>3. /\ \A x \in damaged' : x \in Nat /\ x < Now'
      /\ lost' = 0 => damaged' = {}
  <2>1. PICK t \in Threads : Shows(t) \/ StartSeen(t) \/ StartLost(t) \/ EndSeen(t) \/ EndLost(t)
    BY WhatSteps
  <2>2. CASE UNCHANGED <<lost, damaged>>
    BY <1>1, <2>2 DEF ApartInv
  <2>3. ASSUME NEW x \in Nat, x <= Now, Loses(x)
        PROVE  /\ \A y \in damaged' : y \in Nat /\ y < Now'
               /\ lost' = 0 => damaged' = {}
    BY <1>1, <2>3 DEF ApartInv, Loses
  <2>4. CASE StartLost(t)
    <3> DEFINE x == IF frames[t] = <<>> THEN Now ELSE frames[t][1].since
    <3>1. x \in Nat /\ x <= Now
      <4>1. frames[t] # <<>> => 1 \in DOMAIN frames[t]
        BY FramesOf
      <4>2. frames[t] # <<>> => frames[t][1].since < Now /\ frames[t][1].since \in Nat
        BY <4>1, FramesOf
      <4> QED
        BY <1>1, <4>2
    <3>2. Loses(x)
      BY <2>4 DEF StartLost
    <3> HIDE DEF x
    <3> QED
      BY <2>3, <3>1, <3>2
  <2>5. CASE EndLost(t)
    <3>1. 1 \in DOMAIN frames[t]
      BY <2>5, FramesOf DEF EndLost, Leaves
    <3>2. frames[t][1].since < Now /\ frames[t][1].since \in Nat
      BY <3>1, FramesOf
    <3> QED
      BY <1>1, <2>3, <2>5, <3>2 DEF EndLost
  <2> QED
    BY <2>1, <2>2, <2>4, <2>5 DEF Shows, StartSeen, EndSeen, Appends
<1> QED
  BY <1>2, <1>3 DEF ApartInv

(* As long as callbacks do not run inside others, a thread is in one at    *)
(* most, or in two the first of which is damaged, for the callback_start   *)
(* of the second was discarded.                                            *)
Shallow(fs, st, wins) ==
    /\ Len(fs) <= 2 /\ (Len(fs) = 2 => fs[1].since \in damaged)
    /\ Len(fs) = 1 /\ fs[1].since \in damaged => st = <<>>
    /\ fs # <<>> => \A w \in wins : w.to < fs[1].since
ShallowInv == lost <= 1 /\ Flat => \A t \in Threads : Shallow(frames[t], Stack(t), Windows(t))

(* A window around an event is that of its callback, and nothing began in  *)
(* that callback before the event.                                         *)
Fits(e, wins, entries) ==
    /\ \A w \in wins : Inside(e, w) => w.from = e.since /\ w.f = e.by
    /\ e.by # None => \A z \in entries : ~(e.since < z[2] /\ z[2] <= e.at)
FitsInv == lost <= 1 /\ Flat =>
    \A i \in DOMAIN trace : LET e == trace[i] IN
        Shown(e) => Fits(e, Windows(e.thread), Entries(e.thread))

FlatEvent(e) ==
    /\ e.since = e.top
    /\ e.kind = "start" \/ (e.kind = "take" /\ e.what \in Subs) => e.by = None

(* A trace in which no callback ran inside another grew from such a trace, *)
(* by an event of a thread that is in one callback at most.                *)
LEMMA FlatGoesBack ==
    ASSUME FramesInv, Next, Flat'
    PROVE  /\ Flat
           /\ \A t \in Threads : \A e : Appends(e, t) => FlatEvent(e) /\ Len(frames[t]) <= 1
<1>1. \A i \in DOMAIN trace' : FlatEvent(trace'[i])
  BY DEF Flat, FlatEvent
<1>2. Flat
  <2>1. \A i \in DOMAIN trace : FlatEvent(trace[i])
    <3>1. CASE UNCHANGED trace
      BY <1>1, <3>1
    <3>2. ASSUME NEW t, NEW e, Appends(e, t)
          PROVE  \A i \in DOMAIN trace : FlatEvent(trace[i])
      <4>1. \A i \in DOMAIN trace : i \in DOMAIN trace' /\ trace'[i] = trace[i]
        BY <3>2, TraceGrows
      <4> QED
        BY <1>1, <4>1
    <3> QED
      BY <3>1, <3>2, WhatSteps DEF Shows, StartSeen, StartLost, EndSeen, EndLost, Loses
  <2> QED
    BY <2>1 DEF Flat, FlatEvent
<1>3. ASSUME NEW t \in Threads, NEW e, Appends(e, t)
      PROVE  FlatEvent(e) /\ Len(frames[t]) <= 1
  <2>1. FlatEvent(e)
    BY <1>1, <1>3, TraceGrows
  <2>2. e.since = Since(t) /\ e.top = Top(t)
    BY <1>3 DEF Appends, NewEvent
  <2> DEFINE n == Len(frames[t])
  <2>3. /\ n \in Nat /\ DOMAIN frames[t] = 1 .. n /\ (frames[t] # <<>> <=> n > 0)
        /\ \A i \in DOMAIN frames[t] : frames[t][i].since \in Nat
        /\ \A i, j \in DOMAIN frames[t] : i < j => frames[t][i].since < frames[t][j].since
    BY FramesOf
  <2>4. ASSUME n > 1
        PROVE  FALSE
    <3>1. frames[t][n].since = frames[t][1].since
      <4>1. frames[t] # <<>>
        <5> HIDE DEF n
        <5> QED
          BY <2>3, <2>4
      <4> QED
        BY <2>1, <2>2, <4>1 DEF FlatEvent, Since, Top
    <3>2. 1 \in DOMAIN frames[t] /\ n \in DOMAIN frames[t] /\ 1 < n
      BY <2>3, <2>4
    <3>3. frames[t][1].since < frames[t][n].since /\ frames[t][1].since \in Nat
      BY <2>3, <3>2
    <3> QED
      BY <3>1, <3>3
  <2> QED
    BY <2>1, <2>3, <2>4
<1> QED
  BY <1>2, <1>3

(* ShallowInv is inductive, given what it says with the invariants so far. *)
LEMMA ShallowKept ==
    ASSUME OwnerInv, ApartInv, ShallowInv, Next
    PROVE  ShallowInv'
<1> SUFFICES ASSUME lost' <= 1, Flat', NEW u \in Threads
             PROVE  Shallow(frames[u], Stack(u), Windows(u))'
  BY DEF ShallowInv
<1>1. PICK t \in Threads : Shows(t) \/ StartSeen(t) \/ StartLost(t) \/ EndSeen(t) \/ EndLost(t)
  BY WhatSteps
<1>2. Now \in Nat /\ lost \in Nat /\ FramesInv /\ StackInv
  BY NowIsNat DEF OwnerInv, FramesInv
<1>3. lost <= 1 /\ (UNCHANGED damaged \/ lost = 0)
  BY <1>1, <1>2 DEF Shows, StartSeen, StartLost, EndSeen, EndLost, Appends, Loses
<1>4. Flat /\ \A e : Appends(e, t) => FlatEvent(e) /\ Len(frames[t]) <= 1
  BY <1>2, FlatGoesBack
<1>5. /\ \A v \in Threads : Shallow(frames[v], Stack(v), Windows(v)) /\ Tracks(Stack(v), frames[v])
      /\ lost = 0 => damaged = {}
  BY <1>3, <1>4 DEF ShallowInv, OwnerInv, TracksInv, ApartInv
<1> DEFINE fs == frames[t]
           n == Len(frames[t])
<1>6. /\ n \in Nat /\ DOMAIN fs = 1 .. n /\ (fs # <<>> <=> n > 0)
      /\ \A i \in DOMAIN fs : fs[i].since \in Nat /\ fs[i].since < Now
      /\ \A w \in Windows(t) : w.to \in Nat /\ w.to < Now
  <2>1. \A w \in Windows(t) : w.to \in Nat /\ w.to < Now
    BY <1>2 DEF StackInv, StackOK, Window
  <2> QED
    BY <1>2, <2>1, FramesOf
<1>7. lost = 0 => n <= 1
  <2>1. n <= 2 /\ (lost = 0 => n # 2)
    BY <1>5 DEF Shallow
  <2> HIDE DEF n
  <2> QED
    BY <1>6, <2>1
<1>8. ASSUME Leaves(t), n <= 1
      PROVE  Shallow(frames[t], Stack(t), Windows(t))'
  <2>1. frames'[t] \in Seq(Frame) /\ Len(frames'[t]) = 0
    BY <1>2, <1>6, <1>8, LeavesFrames
  <2>2. frames'[t] = <<>>
    BY <2>1
  <2> QED
    BY <2>1, <2>2 DEF Shallow
<1>9. CASE Shows(t)
  <2>1. UNCHANGED <<frames, damaged>> /\ \A v \in Threads : Passed(v)
    BY <1>2, <1>9, WalksFollow DEF Shows, Appends
  <2> QED
    BY <1>5, <2>1 DEF Shallow, Passed
<1>10. CASE u # t
  <2>1. Passed(u) /\ frames'[u] = frames[u]
    <3>1. Passed(u)
      BY <1>1, <1>2, <1>10, WalksFollow DEF Shows, StartSeen, StartLost, EndSeen, EndLost
    <3>2. UNCHANGED frames \/ Leaves(t) \/ \E f \in Callbacks : Enters(t, f)
      BY <1>1 DEF Shows, StartSeen, StartLost, EndSeen, EndLost
    <3>3. frames'[u] = frames[u]
      BY <1>2, <1>10, <3>2, EntersFrames, LeavesFrames
    <3> QED
      BY <3>1, <3>3
  <2>2. ASSUME 1 \in DOMAIN frames[u], frames[u][1].since \in damaged'
        PROVE  frames[u][1].since \in damaged
    <3>1. frames[u][1].since \in Nat /\ frames[u][1].since < Now
      BY <1>2, <2>2, FramesOf
    <3>2. fs # <<>> => 1 \in DOMAIN fs
      BY <1>6
    <3>3. fs # <<>> => frames[u][1].since # fs[1].since
      BY <1>10, <2>2, <3>2 DEF ApartInv
    <3>4. CASE UNCHANGED damaged
      BY <2>2, <3>4
    <3>5. CASE StartLost(t)
      BY <1>2, <2>2, <3>1, <3>3, <3>5 DEF StartLost, Loses
    <3>6. CASE EndLost(t)
      BY <2>2, <3>3, <3>6 DEF EndLost, Leaves, Loses
    <3> QED
      BY <1>1, <3>4, <3>5, <3>6 DEF Shows, StartSeen, EndSeen, Appends
  <2>3. damaged \subseteq damaged'
    BY <1>1 DEF Shows, StartSeen, StartLost, EndSeen, EndLost, Appends, Loses
  <2>4. Len(frames[u]) = 1 => 1 \in DOMAIN frames[u]
    BY <1>2, FramesOf
  <2> QED
    BY <1>5, <2>1, <2>2, <2>3, <2>4 DEF Shallow, Passed
<1>11. CASE u = t /\ StartSeen(t)
  <2>1. PICK f \in Callbacks : Enters(t, f) /\ \E e : e.kind = "start" /\ Appends(e, t)
    BY <1>11 DEF StartSeen
  <2>2. PICK e : e.kind = "start" /\ Appends(e, t)
    BY <2>1
  <2>3. e.by = None
    BY <1>4, <2>2 DEF FlatEvent
  <2>4. fs = <<>>
    <3>1. NewEvent(e, t) /\ e.by = Running(t)
      BY <2>2 DEF Appends, NewEvent
    <3>2. fs # <<>> => n \in DOMAIN fs
      BY <1>6
    <3>3. fs # <<>> => fs[n].f \in Callbacks
      BY <1>2, <3>2, FramesOf
    <3> QED
      BY <2>3, <3>1, <3>3, RosTraceAssumption DEF Running
  <2>5. Len(frames'[t]) = 1 /\ frames'[t][1].since = Now
    <3>1. Len(frames'[t]) = n + 1 /\ frames'[t][1].since = Now
      BY <1>2, <2>1, <2>4, EntersFrames
    <3>2. n = 0
      BY <2>4
    <3> QED
      BY <3>1, <3>2
  <2>6. Windows(t)' = Windows(t) /\ damaged' = damaged
    BY <1>2, <2>2, WalksFollow DEF Pushed, Appends
  <2>7. Now \notin damaged
    BY <1>2 DEF ApartInv
  <2> QED
    BY <1>6, <1>11, <2>5, <2>6, <2>7 DEF Shallow
<1>12. CASE u = t /\ StartLost(t)
  <2>1. PICK f \in Callbacks : Enters(t, f) /\ Loses(IF fs = <<>> THEN Now ELSE fs[1].since)
    BY <1>12 DEF StartLost
  <2>2. lost = 0 /\ (IF fs = <<>> THEN Now ELSE fs[1].since) \in damaged'
    BY <1>2, <2>1 DEF Loses
  <2>3. n <= 1
    BY <1>6, <1>7, <2>2
  <2>4. /\ Len(frames'[t]) = n + 1
        /\ fs # <<>> => frames'[t][1] = fs[1]
        /\ fs = <<>> => frames'[t][1].since = Now
    BY <1>2, <2>1, EntersFrames
  <2>5. Passed(t)
    BY <1>2, <2>1, WalksFollow
  <2>6. CASE fs = <<>>
    <3>1. Len(Stack(t)) = 0
      BY <1>5, <1>6, <2>2, <2>6 DEF Tracks, Follows
    <3>2. Stack(t) = <<>>
      BY <1>2, <3>1, StackFacts
    <3> QED
      BY <1>6, <1>12, <2>2, <2>4, <2>5, <2>6, <3>2 DEF Shallow, Passed
  <2>7. CASE fs # <<>>
    <3>1. n = 1 /\ Len(frames'[t]) = 2 /\ frames'[t][1].since \in damaged'
      <4>1. n > 0 /\ n \in Nat /\ n <= 1 /\ Len(frames'[t]) = n + 1
        BY <1>6, <2>3, <2>4, <2>7
      <4> HIDE DEF n
      <4>2. n = 1
        BY <4>1
      <4> QED
        BY <2>2, <2>4, <2>7, <4>1, <4>2
    <3>2. \A w \in Windows(t) : w.to < frames'[t][1].since
      BY <1>5, <2>4, <2>7 DEF Shallow
    <3> QED
      BY <1>12, <2>5, <3>1, <3>2 DEF Shallow, Passed
  <2> QED
    BY <2>6, <2>7
<1>13. CASE u = t /\ EndSeen(t)
  BY <1>4, <1>8, <1>13 DEF EndSeen
<1>14. CASE u = t /\ EndLost(t)
  <2>1. lost = 0
    BY <1>2, <1>14 DEF EndLost, Loses
  <2>2. n <= 1
    BY <1>6, <1>7, <2>1
  <2> QED
    BY <1>8, <1>14, <2>2 DEF EndLost
<1> QED
  BY <1>1, <1>9, <1>10, <1>11, <1>12, <1>13, <1>14

(* FitsInv is inductive in the same way: what the walk pops when a callback*)
(* ends is that callback.                                                  *)
LEMMA FitsKept ==
    ASSUME OwnerInv, NamesInv, ShallowInv, FitsInv, Next
    PROVE  FitsInv'
<1> SUFFICES ASSUME lost' <= 1, Flat', NEW i \in DOMAIN trace', NEW d, d = trace'[i], NEW u, u = d.thread,
                    Shown(d)
             PROVE  Fits(d, Windows(u)', Entries(u)')
  BY DEF FitsInv, Fits, Inside, Shown
<1>1. PICK t \in Threads : Shows(t) \/ StartSeen(t) \/ StartLost(t) \/ EndSeen(t) \/ EndLost(t)
  BY WhatSteps
<1>2. Now \in Nat /\ lost \in Nat /\ FramesInv /\ EventsInv /\ StackInv
  BY NowIsNat DEF OwnerInv, FramesInv
<1>3. lost <= 1
  BY <1>1, <1>2 DEF Shows, StartSeen, StartLost, EndSeen, EndLost, Appends, Loses
<1>4. Flat /\ \A e : Appends(e, t) => Len(frames[t]) <= 1
  BY <1>2, FlatGoesBack
<1>5. /\ \A j \in DOMAIN trace : \A e, v :
            e = trace[j] /\ v = e.thread /\ Shown(e) => Fits(e, Windows(v), Entries(v))
      /\ Shallow(frames[t], Stack(t), Windows(t)) /\ Tracks(Stack(t), frames[t])
  BY <1>3, <1>4 DEF ShallowInv, FitsInv, OwnerInv, TracksInv
<1> DEFINE fs == frames[t]
           n == Len(frames[t])
           st == Stack(t)
           m == Len(Stack(t))
<1>6. /\ n \in Nat /\ DOMAIN fs = 1 .. n /\ (fs # <<>> <=> n > 0)
      /\ \A k \in DOMAIN fs : fs[k].since \in Nat /\ fs[k].since < Now
      /\ \A w \in Windows(t) : w.from \in Nat /\ w.to \in Nat /\ w.from < w.to /\ w.to < Now
  <2>1. \A w \in Windows(t) : w.from \in Nat /\ w.to \in Nat /\ w.from < w.to /\ w.to < Now
    BY <1>2 DEF StackInv, StackOK, Window
  <2> QED
    BY <1>2, <2>1, FramesOf
<1>7. /\ m \in Nat /\ DOMAIN st = 1 .. m /\ (st = <<>> <=> m = 0)
      /\ \A k \in DOMAIN st : st[k].from \in Nat
      /\ \A k, l \in DOMAIN st : k < l => st[k].from < st[l].from
  <2>1. \A k, l \in DOMAIN st : k < l => st[k].from < st[l].from
    BY <1>2 DEF StackInv, StackOK
  <2> QED
    BY <1>2, <2>1, StackFacts
<1>8. ASSUME n = 1, st # <<>>
      PROVE  st[m].f = fs[1].f /\ st[m].from = fs[1].since /\ m \in DOMAIN st
  <2>1. ~Confused(st, fs, damaged)
    BY <1>5, <1>8 DEF Confused, Shallow
  <2>2. \E k \in {0, 1} : Follows(st, fs, k)
    BY <1>5, <2>1 DEF Tracks
  <2>3. PICK k \in {0, 1} : m = 1 + k /\ st[1 + k].f = fs[1].f /\ st[1 + k].from = fs[1].since
    BY <1>6, <1>8, <2>2 DEF Follows
  <2>4. m \in DOMAIN st
    BY <1>7, <2>3
  <2> QED
    BY <2>3, <2>4
<1>9. ASSUME NEW j \in DOMAIN trace, NEW e, e = trace[j], NEW v, v = e.thread, Shown(e)
      PROVE  Fits(e, Windows(v)', Entries(v)')
  <2>1. /\ v \in Threads /\ e.at \in Nat /\ e.since \in Nat /\ e.at < Now /\ FitsFrames(e, frames[v])
        /\ Fits(e, Windows(v), Entries(v))
    BY <1>2, <1>5, <1>9, EventOf
  <2>2. ASSUME Windows(v)' = Windows(v), NEW f, Entries(v)' \subseteq Entries(v) \cup {<<f, Now>>}
        PROVE  Fits(e, Windows(v)', Entries(v)')
    BY <2>1, <2>2, <1>2 DEF Fits, Inside
  <2>3. ASSUME Passed(v)
        PROVE  Fits(e, Windows(v)', Entries(v)')
    BY <2>1, <2>2, <2>3, <1>2, EntriesGrow DEF Passed
  <2>4. CASE v # t
    <3>1. Passed(v)
      BY <1>1, <1>2, <2>1, <2>4, WalksFollow DEF Shows, StartSeen, StartLost, EndSeen, EndLost
    <3> QED
      BY <2>3, <3>1
  <2>5. CASE v = t /\ (Shows(t) \/ StartLost(t) \/ EndLost(t))
    <3>1. Passed(t)
      BY <1>2, <2>5, WalksFollow DEF Shows, StartLost, EndLost
    <3> QED
      BY <2>3, <2>5, <3>1
  <2>6. CASE v = t /\ StartSeen(t)
    <3>1. PICK f \in Callbacks : Pushed(t, f)
      BY <1>2, <2>6, WalksFollow DEF StartSeen
    <3>2. Entries(t)' = Entries(t) \cup {<<f, Now>>} /\ Windows(t)' = Windows(t)
      BY <1>2, <3>1, EntriesGrow DEF Pushed
    <3> QED
      BY <2>2, <2>6, <3>2
  <2>7. CASE v = t /\ EndSeen(t)
    <3>1. Popped(t) \/ Passed(t)
      BY <1>2, <2>7, WalksFollow DEF EndSeen
    <3>2. n = 1
      <4>1. n <= 1 /\ fs # <<>>
        BY <1>4, <2>7 DEF EndSeen, Leaves
      <4> HIDE DEF n, fs
      <4> QED
        BY <1>6, <4>1
    <3>3. CASE Popped(t)
      <4> DEFINE w == [f |-> st[m].f, from |-> st[m].from, to |-> Now]
      <4>1. Windows(t)' = Windows(t) \cup {w} /\ st # <<>>
        BY <3>3 DEF Popped
      <4>2. w.f = fs[1].f /\ w.from = fs[1].since /\ w.to = Now
        BY <1>8, <3>2, <4>1
      <4>3. Entries(t)' = Entries(t)
        BY <1>2, <3>3, EntriesGrow
      <4> HIDE DEF w
      <4>4. 1 \in DOMAIN fs
        BY <1>6, <3>2
      <4>5. ASSUME Inside(e, w)
            PROVE  w.from = e.since /\ w.f = e.by
        <5>1. e.since >= fs[1].since /\ e.top = fs[1].since
          BY <2>1, <2>7, <4>2, <4>4, <4>5, <1>6 DEF Inside, FitsFrames
        <5>2. e.since = e.top
          BY <1>4, <1>9 DEF Flat
        <5>3. fs[1].since = e.since
          BY <5>1, <5>2
        <5>4. fs[1].f = e.by
          <6>1. \A k \in DOMAIN frames[trace[j].thread] :
                   frames[trace[j].thread][k].since = trace[j].since => frames[trace[j].thread][k].f = trace[j].by
            BY <1>9 DEF NamesInv
          <6> QED
            BY <1>9, <2>7, <4>4, <5>3, <6>1
        <5> QED
          BY <4>2, <5>3, <5>4
      <4> QED
        BY <2>1, <2>7, <4>1, <4>3, <4>5 DEF Fits, Inside
    <3> QED
      BY <2>3, <2>7, <3>1, <3>3
  <2> QED
    BY <1>1, <2>4, <2>5, <2>6, <2>7
<1>10. ASSUME NEW e, Appends(e, t), Shown(e)
       PROVE  Fits(e, Windows(t)', Entries(t)')
  <2>1. e.thread = t /\ e.at = Now /\ e.since = Since(t) /\ e.by = Running(t)
    BY <1>10 DEF Appends, NewEvent
  <2>2. Passed(t)
    BY <1>2, <1>10, WalksFollow
  <2>3. Windows(t)' = Windows(t) /\ Entries(t)' = Entries(t)
    BY <1>2, <2>2, EntriesGrow DEF Passed
  <2>4. \A w \in Windows(t) : ~Inside(e, w)
    BY <1>2, <1>6, <2>1 DEF Inside
  <2>5. ASSUME e.by # None, NEW z \in Entries(t), e.since < z[2]
        PROVE  FALSE
    <3>1. fs # <<>>
      BY <2>1, <2>5 DEF Running
    <3>2. n = 1
      <4>1. n <= 1
        BY <1>4, <1>10
      <4> HIDE DEF n, fs
      <4> QED
        BY <1>6, <3>1, <4>1
    <3>3. e.since = fs[1].since /\ fs[1].since \in Nat
      <4>1. 1 \in DOMAIN fs
        BY <1>6, <3>2
      <4> QED
        BY <1>6, <2>1, <3>1, <3>2, <4>1 DEF Since
    <3>4. CASE \E w \in Windows(t) : z = <<w.f, w.from>>
      <4>1. PICK w \in Windows(t) : z = <<w.f, w.from>>
        BY <3>4
      <4>2. w.to < fs[1].since /\ w.from < w.to /\ w.from \in Nat /\ w.to \in Nat
        BY <1>5, <1>6, <3>1, <4>1 DEF Shallow
      <4>3. z[2] = w.from
        BY <4>1
      <4> QED
        BY <2>5, <3>3, <4>2, <4>3
    <3>5. CASE \E k \in DOMAIN st : z = <<st[k].f, st[k].from>>
      <4>1. PICK k \in DOMAIN st : z = <<st[k].f, st[k].from>>
        BY <3>5
      <4>2. z[2] = st[k].from /\ k \in 1 .. m /\ st # <<>>
        BY <1>7, <4>1
      <4>3. st[m].from = fs[1].since /\ m \in DOMAIN st
        BY <1>8, <3>2, <4>2
      <4>4. k = m \/ st[k].from < st[m].from
        BY <1>7, <4>2, <4>3
      <4> QED
        BY <1>7, <2>5, <3>3, <4>2, <4>3, <4>4
    <3> QED
      BY <3>4, <3>5 DEF Entries
  <2> QED
    BY <2>1, <2>3, <2>4, <2>5 DEF Fits, Inside
<1>11. ASSUME UNCHANGED trace
       PROVE  Fits(d, Windows(u)', Entries(u)')
  BY <1>9, <1>11
<1>12. ASSUME NEW e, Appends(e, t)
       PROVE  Fits(d, Windows(u)', Entries(u)')
  <2>0. e.thread = t
    BY <1>12 DEF Appends, NewEvent
  <2>1. (i \in DOMAIN trace /\ trace'[i] = trace[i]) \/ d = e
    BY <1>2, <1>12, TraceGrows
  <2> QED
    BY <1>9, <1>10, <1>12, <2>0, <2>1
<1> QED
  BY <1>1, <1>11, <1>12 DEF Shows, StartSeen, StartLost, EndSeen, EndLost, Loses

(* The inductive invariant for reads.                                      *)
ReadsInv == OwnerInv /\ TakesInv /\ NamesInv /\ ApartInv /\ ShallowInv /\ FitsInv

(* ReadsInv is inductive.                                                  *)
LEMMA ReadsInvKept ==
    ASSUME ReadsInv, [Next]_vars
    PROVE  ReadsInv'
<1>1. CASE Next
  <2>1. OwnerInv'
    BY OwnerInvKept DEF ReadsInv
  <2>2. TakesInv' /\ NamesInv' /\ ApartInv'
    BY <1>1, TakesKept, NamesKept, ApartKept DEF ReadsInv, OwnerInv
  <2>3. ShallowInv' /\ FitsInv'
    BY <1>1, ShallowKept, FitsKept DEF ReadsInv
  <2> QED
    BY <2>1, <2>2, <2>3 DEF ReadsInv
<1>2. CASE UNCHANGED vars
  <2>1. OwnerInv'
    BY OwnerInvKept DEF ReadsInv
  <2>2. UNCHANGED <<trace, frames, lost, damaged, activity>>
    BY <1>2 DEF vars
  <2>3. TakesInv' /\ NamesInv' /\ ApartInv' /\ ShallowInv' /\ FitsInv'
    BY <2>2 DEF ReadsInv, TakesInv, NamesInv, ApartInv, ShallowInv, Shallow, FitsInv, Fits, Flat, Entries,
                Stack, Windows, Now
  <2> QED
    BY <2>1, <2>3 DEF ReadsInv
<1> QED
  BY <1>1, <1>2

(* ReadsInv holds at the start.                                            *)
LEMMA ReadsInvInit ==
    ASSUME Init
    PROVE  ReadsInv
<1>1. trace = <<>> /\ lost = 0 /\ damaged = {} /\ \A t \in Threads : frames[t] = <<>>
  BY DEF Init
<1>2. TakesInv /\ NamesInv /\ ApartInv /\ FitsInv
  BY <1>1 DEF TakesInv, NamesInv, ApartInv, FitsInv
<1>3. ShallowInv
  BY <1>1 DEF ShallowInv, Shallow
<1> QED
  BY <1>2, <1>3, OwnerInvInit DEF ReadsInv

(* In flat traces owner names the callback an event is in or none, and in  *)
(* an intact callback it names it.                                         *)
LEMMA FlatOwners ==
    ASSUME ReadsInv, lost <= 1, Flat, NEW i \in DOMAIN trace, NEW e, e = trace[i], Shown(e)
    PROVE  /\ OwnerOf(e) # None => OwnerOf(e) = e.by /\ e.by # None
           /\ Intact(e) => OwnerOf(e) = e.by
<1> DEFINE W == Windows(e.thread)
           Before == {w \in W : w.from <= e.at}
           Seen == {w \in Before : Cardinality({x \in Before : x.from > w.from}) < LookBack}
           Around == {w \in Seen : e.at <= w.to}
<1>1. /\ e.thread \in Threads /\ e.at \in Nat /\ e.since \in Nat
      /\ e.by = None <=> e.since = 0
  BY EventOf DEF ReadsInv, OwnerInv
<1>2. Fits(e, W, Entries(e.thread))
  BY DEF ReadsInv, FitsInv
<1>3. OwnerOf(e) = IF Around = {} THEN None
                   ELSE (CHOOSE w \in Around : \A x \in Around : x.from <= w.from).f
  BY DEF OwnerOf, Owner
<1>4. \A w \in W : w.from \in Nat \ {0} /\ (\A x \in W : w.from = x.from => w = x)
  BY <1>1 DEF ReadsInv, OwnerInv, StackInv, StackOK, Window
<1> HIDE DEF W
<1>5. \A w \in Around : w \in W /\ w.from = e.since /\ w.f = e.by
  BY <1>2 DEF Fits, Inside
<1>6. ASSUME Around # {}
      PROVE  OwnerOf(e) = e.by /\ e.by # None
  <2> HIDE DEF Around
  <2>1. PICK w \in Around : TRUE
    BY <1>6
  <2>2. \A x \in Around : x = w
    BY <1>4, <1>5
  <2>3. w.from \in Nat \ {0}
    BY <1>4, <1>5
  <2>4. Around = {w} /\ \A x \in Around : x.from <= w.from
    BY <2>2, <2>3
  <2>5. (CHOOSE y \in Around : \A x \in Around : x.from <= y.from) = w
    BY <2>4
  <2> QED
    BY <1>1, <1>3, <1>5, <1>6, <2>3, <2>5
<1>7. ASSUME OwnerOf(e) # None
      PROVE  OwnerOf(e) = e.by /\ e.by # None
  BY <1>3, <1>6, <1>7
<1>8. ASSUME Intact(e)
      PROVE  OwnerOf(e) = e.by
  <2> DEFINE Later == {w \in Windows(e.thread) : e.since < w.from /\ w.from <= e.at}
  <2>1. e.by # None => Later = {}
    <3>1. \A w \in Windows(e.thread) : <<w.f, w.from>> \in Entries(e.thread) /\ <<w.f, w.from>>[2] = w.from
      BY DEF Entries
    <3> QED
      BY <1>2, <3>1 DEF Fits
  <2>2. LookBack \in Nat \ {0}
    BY CallbackFlowAssumption
  <2>3. Cardinality({}) = 0
    BY FS_EmptySet
  <2>4. e.by # None => Cardinality(Later) < LookBack
    BY <2>1, <2>2, <2>3
  <2>5. InSight(e)
    BY <2>4 DEF InSight
  <2> QED
    BY <1>8, <2>5, OwnersAreRight DEF ReadsInv
<1> QED
  BY <1>7, <1>8

(* PolledReadsAreReal, when a node subscribes to a topic once (a take is   *)
(* booked on all its subscriptions of the topic, which is why this is      *)
(* assumed): for any number of threads, callbacks and polled subscriptions *)
(* and traces of any length, one discarded event included, every link of a *)
(* polled subscription is a read that happened, and no read of an intact   *)
(* callback is missed, whichever bound owner's search has.                 *)
THEOREM ReadsFound ==
    ASSUME \A s \in Subs \cup Polled : SameTopicSubs(s) = {s}
    PROVE  Spec => []PolledReadsAreReal
<1>1. Init => ReadsInv
  BY ReadsInvInit
<1>2. ReadsInv /\ [Next]_vars => ReadsInv'
  BY ReadsInvKept
<1>3. ReadsInv => PolledReadsAreReal
  <2> DEFINE Reads == {e \in Recorded("take") : e.what \in Polled}
  <2> SUFFICES ASSUME ReadsInv, lost <= 1, Flat
               PROVE  /\ PolledReads \subseteq {<<e.what, e.by, e.at>> : e \in Reads}
                      /\ {<<e.what, e.by, e.at>> : e \in {d \in Reads : Intact(d)}} \subseteq PolledReads
    BY DEF PolledReadsAreReal
  <2>1. ASSUME NEW e \in Recorded("take")
        PROVE  /\ e.what \in Subs \cup Polled /\ SameTopicSubs(e.what) = {e.what}
               /\ e.what \in Subs => e.by = None
               /\ e.what \in Polled => e.by \in Callbacks /\ NodeOf[e.by] = NodeOf[e.what]
               /\ OwnerOf(e) # None => OwnerOf(e) = e.by /\ e.by # None
               /\ Intact(e) => OwnerOf(e) = e.by
    <3>1. PICK i \in DOMAIN trace : e = trace[i] /\ e.kind = "take"
      BY DEF Recorded
    <3>2. /\ e.what \in Subs \cup Polled
          /\ e.what \in Polled => e.by \in Callbacks /\ NodeOf[e.by] = NodeOf[e.what]
      BY <3>1 DEF ReadsInv, TakesInv
    <3>3. e.what \in Subs => e.by = None
      BY <3>1 DEF Flat
    <3>4. Shown(e)
      BY <3>1 DEF Shown
    <3>5. /\ OwnerOf(e) # None => OwnerOf(e) = e.by /\ e.by # None
          /\ Intact(e) => OwnerOf(e) = e.by
      BY <3>1, <3>4, FlatOwners
    <3> QED
      BY <3>2, <3>3, <3>5
  <2>2. ASSUME NEW r \in PolledReads
        PROVE  r \in {<<e.what, e.by, e.at>> : e \in Reads}
    <3>1. PICK e \in Recorded("take") :
             ForeignTake(e) /\ r \in {<<q, OwnerOf(e), e.at>> : q \in SameTopicSubs(e.what)}
      BY DEF PolledReads
    <3>2. OwnerOf(e) # None
      BY <3>1 DEF ForeignTake
    <3> QED
      BY <2>1, <3>1, <3>2
  <2>3. ASSUME NEW e \in Reads, Intact(e)
        PROVE  <<e.what, e.by, e.at>> \in PolledReads
    <3>1. OwnerOf(e) = e.by /\ e.by \in Callbacks /\ NodeOf[e.by] = NodeOf[e.what] /\ SameTopicSubs(e.what) = {e.what}
      BY <2>1, <2>3
    <3>2. ForeignTake(e)
      BY <2>3, <3>1, RosTraceAssumption DEF ForeignTake
    <3> QED
      BY <2>3, <3>1, <3>2 DEF PolledReads
  <2> QED
    BY <2>2, <2>3
<1> QED
  BY <1>1, <1>2, <1>3, PTL DEF Spec

-----------------------------------------------------------------------------
(* Hops.  A sample that was taken had been published before.               *)
SentAt(s, x, n) == \E j \in DOMAIN s : s[j].kind = "publish" /\ PubTopic[s[j].what] = x /\ s[j].at = n
SamplesInv ==
    /\ taken \in [Subs \cup Polled -> Nat] /\ latest \in [Topics -> Nat]
    /\ \A x \in Topics : latest[x] # 0 => SentAt(trace, x, latest[x])
    /\ \A i \in DOMAIN trace : LET e == trace[i] IN
          e.kind = "take" /\ activity = "messages" => e.sample < e.at /\ SentAt(trace, TopicOf[e.what], e.sample)

(* After a take for dispatch its callback begins before any other does.    *)
Awaits(e, d, entries) ==
    \/ d = e.what /\ \A z \in entries : z[2] < e.at
    \/ \E z \in entries : /\ z[1] = e.what /\ z[2] >= e.at
                          /\ \A y \in entries : y[2] >= e.at => y[2] >= z[2]
NextInv == lost = 0 =>
    /\ due \in [Threads -> Subs \cup {None}]
    /\ \A i \in DOMAIN trace : LET e == trace[i] IN
          e.kind = "take" /\ e.what \in Subs => Awaits(e, due[e.thread], Entries(e.thread))

(* SamplesInv is inductive.                                                *)
LEMMA SamplesKept ==
    ASSUME FramesInv, EventsInv, SamplesInv, Next
    PROVE  SamplesInv'
<1> DEFINE Fine(e) == e.kind = "take" /\ activity = "messages" => e.sample < e.at /\ SentAt(trace', TopicOf[e.what], e.sample)
           Rest == taken' \in [Subs \cup Polled -> Nat] /\ latest' \in [Topics -> Nat]
                   /\ \A x \in Topics : latest'[x] # 0 => SentAt(trace', x, latest'[x])
<1>1. activity' = activity /\ Now \in Nat \ {0}
  BY WhatFlows, NowIsNat
<1>2. PICK t \in Threads :
         Dispatches(t) \/ Polls(t) \/ SendsOn(t) \/ Continues(t) \/ Begins(t) \/ Finishes(t)
  BY WhatFlows
<1>3. ASSUME NEW x, NEW n, SentAt(trace, x, n)
      PROVE  SentAt(trace', x, n)
  <2>1. \A j \in DOMAIN trace : j \in DOMAIN trace' /\ trace'[j] = trace[j]
    <3>1. ASSUME NEW e, Appends(e, t)
          PROVE  \A j \in DOMAIN trace : j \in DOMAIN trace' /\ trace'[j] = trace[j]
      BY <3>1, TraceGrows
    <3>2. UNCHANGED trace \/ \E e : Appends(e, t)
      BY <1>2 DEF Dispatches, Polls, Took, SendsOn, Continues, Begins, Finishes, Loses
    <3> QED
      BY <3>1, <3>2
  <2>2. PICK j \in DOMAIN trace : trace[j].kind = "publish" /\ PubTopic[trace[j].what] = x /\ trace[j].at = n
    BY <1>3 DEF SentAt
  <2> QED
    BY <2>1, <2>2 DEF SentAt
<1>4. ASSUME NEW i \in DOMAIN trace
      PROVE  Fine(trace[i])
  BY <1>3 DEF SamplesInv
<1>5. ASSUME UNCHANGED <<latest, taken>>
      PROVE  Rest
  BY <1>3, <1>5 DEF SamplesInv
<1>6. ASSUME Rest, UNCHANGED trace
      PROVE  SamplesInv'
  BY <1>1, <1>4, <1>6 DEF SamplesInv
<1>7. ASSUME NEW e, Appends(e, t), Rest, Fine(e)
      PROVE  SamplesInv'
  <2>1. \A i \in DOMAIN trace' : (i \in DOMAIN trace /\ trace'[i] = trace[i]) \/ trace'[i] = e
    BY <1>7, TraceGrows
  <2> HIDE DEF Fine
  <2>2. \A i \in DOMAIN trace' : Fine(trace'[i])
    BY <1>4, <1>7, <2>1
  <2> QED
    BY <1>1, <1>7, <2>2 DEF SamplesInv, Fine
<1>8. ASSUME NEW s \in Subs \cup Polled, NEW e, Took(e, t, s),
             e.sample = latest[TopicOf[s]] \/ (e.sample = Now /\ activity # "messages")
      PROVE  SamplesInv'
  <2>1. TopicOf[s] \in Topics /\ taken[s] \in Nat /\ latest[TopicOf[s]] \in Nat
    BY RosTraceAssumption DEF SamplesInv
  <2>2. e.sample \in Nat /\ e.sample # 0
    BY <1>1, <1>8, <2>1 DEF Took
  <2>3. Rest
    <3>1. taken' = [taken EXCEPT ![s] = e.sample] /\ latest' = latest
      BY <1>8 DEF Took
    <3>2. taken' \in [Subs \cup Polled -> Nat]
      BY <2>2, <3>1 DEF SamplesInv
    <3> QED
      BY <1>3, <3>1, <3>2 DEF SamplesInv
  <2>4. ASSUME activity = "messages"
        PROVE  e.sample < e.at /\ SentAt(trace', TopicOf[e.what], e.sample)
    <3>1. e.sample = latest[TopicOf[s]] /\ e.what = s /\ e.at = Now
      BY <1>8, <2>4 DEF Took, Appends, NewEvent
    <3>2. SentAt(trace, TopicOf[s], e.sample)
      BY <2>1, <2>2, <3>1 DEF SamplesInv
    <3>3. e.sample < Now
      BY <3>2, EventOf DEF SentAt
    <3> QED
      BY <1>3, <3>1, <3>2, <3>3
  <2>5. Fine(e)
    BY <2>4
  <2>6. Appends(e, t)
    BY <1>8 DEF Took
  <2> QED
    BY <1>7, <2>3, <2>5, <2>6
<1>9. CASE Dispatches(t)
  <2>1. PICK s \in Subs : \E e : Took(e, t, s) /\ e.sample = IF activity = "pointers" THEN Now ELSE latest[TopicOf[s]]
    BY <1>9 DEF Dispatches
  <2>2. PICK e : Took(e, t, s) /\ e.sample = IF activity = "pointers" THEN Now ELSE latest[TopicOf[s]]
    BY <2>1
  <2> QED
    BY <1>8, <2>2
<1>10. CASE Polls(t)
  BY <1>8, <1>10 DEF Polls
<1>11. CASE SendsOn(t)
  <2>1. PICK p \in Publishers : \E e :
           /\ e.kind = "publish" /\ e.what = p /\ Appends(e, t)
           /\ latest' = [latest EXCEPT ![PubTopic[p]] = Now] /\ UNCHANGED taken
    BY <1>11 DEF SendsOn
  <2>2. PICK e :
           /\ e.kind = "publish" /\ e.what = p /\ Appends(e, t)
           /\ latest' = [latest EXCEPT ![PubTopic[p]] = Now] /\ UNCHANGED taken
    BY <2>1
  <2>3. SentAt(trace', PubTopic[p], Now)
    <3>1. e.at = Now /\ \E j \in DOMAIN trace' : trace'[j] = e
      <4>1. Len(trace) + 1 \in DOMAIN trace' /\ trace'[Len(trace) + 1] = e
        BY <2>2, TraceGrows
      <4> QED
        BY <2>2, <4>1 DEF Appends, NewEvent
    <3> QED
      BY <2>2, <3>1 DEF SentAt
  <2>4. PubTopic[p] \in Topics
    BY DEF Topics
  <2>5. Rest
    <3>1. latest' \in [Topics -> Nat] /\ \A x \in Topics : latest'[x] = IF x = PubTopic[p] THEN Now ELSE latest[x]
      BY <1>1, <2>2, <2>4 DEF SamplesInv
    <3> QED
      BY <1>3, <2>2, <2>3, <3>1 DEF SamplesInv
  <2> QED
    BY <1>7, <2>2, <2>5
<1>12. CASE Continues(t) \/ Begins(t) \/ Finishes(t)
  <2>1. UNCHANGED trace \/ \E e : e.kind # "take" /\ Appends(e, t)
    BY <1>12 DEF Continues, Begins, Finishes, Loses
  <2>2. Rest
    BY <1>5, <1>12 DEF Continues, Begins, Finishes
  <2> QED
    BY <1>6, <1>7, <2>1, <2>2
<1> QED
  BY <1>2, <1>9, <1>10, <1>11, <1>12

(* NextInv is inductive: a callback is not begun on a thread that has taken*)
(* a sample for another.                                                   *)
LEMMA NextKept ==
    ASSUME OwnerInv, TakesInv, NextInv, Next
    PROVE  NextInv'
<1> SUFFICES ASSUME lost' = 0
             PROVE  /\ due' \in [Threads -> Subs \cup {None}]
                    /\ \A i \in DOMAIN trace' : \A e, v :
                          e = trace'[i] /\ v = e.thread /\ e.kind = "take" /\ e.what \in Subs
                             => Awaits(e, due'[v], Entries(v)')
  BY DEF NextInv, Awaits
<1>1. PICK t \in Threads :
         Dispatches(t) \/ Polls(t) \/ SendsOn(t) \/ Continues(t) \/ Begins(t) \/ Finishes(t)
  BY WhatFlows
<1>2. /\ Now \in Nat /\ lost \in Nat /\ FramesInv /\ EventsInv /\ StackInv
      /\ None \notin Callbacks /\ Subs \cap Polled = {} /\ Subs \subseteq Callbacks
  BY NowIsNat, RosTraceAssumption DEF OwnerInv, FramesInv, Callbacks
<1>3. \A x : ~Loses(x)
  BY <1>2 DEF Loses
<1>4. lost = 0
  BY <1>1, <1>3 DEF Dispatches, Polls, Took, SendsOn, Continues, Begins, Finishes, Appends
<1>5. /\ due \in [Threads -> Subs \cup {None}]
      /\ \A i \in DOMAIN trace : \A e, v :
            e = trace[i] /\ v = e.thread /\ e.kind = "take" /\ e.what \in Subs => Awaits(e, due[v], Entries(v))
  BY <1>4 DEF NextInv
<1> DEFINE Fine(e, v) == e.kind = "take" /\ e.what \in Subs => Awaits(e, due'[v], Entries(v)')
<1>6. ASSUME NEW e, Appends(e, t), due' \in [Threads -> Subs \cup {None}], Fine(e, t),
             \A i \in DOMAIN trace : \A d, v : d = trace[i] /\ v = d.thread => Fine(d, v)
      PROVE  /\ due' \in [Threads -> Subs \cup {None}]
             /\ \A i \in DOMAIN trace' : \A d, v :
                   d = trace'[i] /\ v = d.thread /\ d.kind = "take" /\ d.what \in Subs
                      => Awaits(d, due'[v], Entries(v)')
  <2>1. \A i \in DOMAIN trace' : (i \in DOMAIN trace /\ trace'[i] = trace[i]) \/ trace'[i] = e
    BY <1>2, <1>6, TraceGrows
  <2>2. e.thread = t
    BY <1>6 DEF Appends, NewEvent
  <2> HIDE DEF Fine
  <2>3. \A i \in DOMAIN trace' : \A d, v : d = trace'[i] /\ v = d.thread => Fine(d, v)
    BY <1>6, <2>1, <2>2
  <2> QED
    BY <1>6, <2>3 DEF Fine
<1>7. ASSUME \A u \in Threads : Passed(u) \/ Popped(u),
             NEW i \in DOMAIN trace, NEW e, e = trace[i], NEW v, v = e.thread,
             due'[v] = due[v] \/ due[v] = None
      PROVE  Fine(e, v)
  <2> SUFFICES ASSUME e.kind = "take", e.what \in Subs
               PROVE  Awaits(e, due'[v], Entries(v)')
    OBVIOUS
  <2>1. v \in Threads
    BY <1>2, <1>7, EventOf
  <2>2. Entries(v)' = Entries(v)
    BY <1>2, <1>7, <2>1, EntriesGrow
  <2>3. Awaits(e, due[v], Entries(v))
    BY <1>5, <1>7
  <2> QED
    BY <1>2, <1>7, <2>2, <2>3 DEF Awaits
<1>8. CASE Dispatches(t)
  <2>1. PICK s \in Subs : \E e : Took(e, t, s) /\ due' = [due EXCEPT ![t] = s]
    BY <1>8 DEF Dispatches
  <2>2. PICK e : Took(e, t, s) /\ due' = [due EXCEPT ![t] = s]
    BY <2>1
  <2>3. Appends(e, t) /\ e.kind = "take" /\ e.what = s /\ due[t] = None
    BY <2>2 DEF Took
  <2>4. \A u \in Threads : Passed(u)
    <3>1. Shown(e)
      BY <2>3 DEF Shown
    <3> QED
      BY <1>2, <2>3, <3>1, WalksFollow
  <2>5. due' \in [Threads -> Subs \cup {None}] /\ due'[t] = s /\ \A v \in Threads : due'[v] = due[v] \/ due[v] = None
    BY <1>5, <2>2, <2>3
  <2>6. Fine(e, t)
    <3>1. Entries(t)' = Entries(t) /\ e.at = Now /\ \A z \in Entries(t) : z[2] < Now
      BY <1>2, <2>3, <2>4, EntriesGrow DEF Appends, NewEvent
    <3> QED
      BY <2>3, <2>5, <3>1 DEF Awaits
  <2>7. ASSUME NEW i \in DOMAIN trace, NEW d, NEW v, d = trace[i], v = d.thread
        PROVE  Fine(d, v)
    <3>1. v \in Threads
      BY <1>2, <2>7, EventOf
    <3> HIDE DEF Fine
    <3> QED
      BY <1>7, <2>4, <2>5, <2>7, <3>1
  <2> HIDE DEF Fine
  <2> QED
    BY <1>6, <2>3, <2>5, <2>6, <2>7
<1>9. CASE Polls(t) \/ SendsOn(t) \/ Continues(t)
  <2>1. UNCHANGED due /\ \E e : Shown(e) /\ Appends(e, t) /\ ~(e.kind = "take" /\ e.what \in Subs)
    BY <1>2, <1>9 DEF Polls, Took, SendsOn, Continues, Shown
  <2>2. \A u \in Threads : Passed(u)
    BY <1>2, <2>1, WalksFollow
  <2>3. PICK e : Appends(e, t) /\ ~(e.kind = "take" /\ e.what \in Subs)
    BY <2>1
  <2>4. Fine(e, t)
    BY <2>3
  <2> HIDE DEF Fine
  <2> QED
    BY <1>5, <1>6, <1>7, <2>1, <2>2, <2>3, <2>4
<1>10. CASE Finishes(t)
  <2>1. PICK e : e.kind = "end" /\ Appends(e, t)
    BY <1>3, <1>10 DEF Finishes
  <2>2. \A u \in Threads : Passed(u) \/ Popped(u)
    BY <1>2, <2>1, WalksFollow
  <2>3. UNCHANGED due
    BY <1>10 DEF Finishes
  <2>4. Fine(e, t)
    BY <2>1
  <2> HIDE DEF Fine
  <2> QED
    BY <1>5, <1>6, <1>7, <2>1, <2>2, <2>3, <2>4
<1>11. CASE Begins(t)
  <2>1. PICK f \in Callbacks :
           /\ due' = [due EXCEPT ![t] = None]
           /\ f \in Subs /\ activity # "containers" => due[t] = f
           /\ f \in Timers \/ activity = "containers" => due[t] = None
           /\ \E e : e.kind = "start" /\ e.what = f /\ Appends(e, t)
    BY <1>3, <1>11 DEF Begins
  <2>2. PICK e : e.kind = "start" /\ e.what = f /\ Appends(e, t)
    BY <2>1
  <2>3. Pushed(t, f) /\ \A u \in Threads \ {t} : Passed(u)
    BY <1>2, <2>2, WalksFollow
  <2>4. Entries(t)' = Entries(t) \cup {<<f, Now>>} /\ \A u \in Threads \ {t} : Entries(u)' = Entries(u)
    BY <1>2, <2>3, EntriesGrow
  <2>5. due' \in [Threads -> Subs \cup {None}] /\ \A u \in Threads \ {t} : due'[u] = due[u]
    BY <1>5, <2>1
  <2>6. ASSUME NEW i \in DOMAIN trace, NEW d, NEW v, d = trace[i], v = d.thread, d.kind = "take", d.what \in Subs
        PROVE  Awaits(d, due'[v], Entries(v)')
    <3>1. v \in Threads /\ d.at \in Nat /\ d.at < Now
      BY <1>2, <2>6, EventOf
    <3>2. Awaits(d, due[v], Entries(v))
      BY <1>5, <2>6
    <3>3. CASE v # t
      BY <2>4, <2>5, <3>1, <3>2, <3>3
    <3>4. CASE v = t /\ due[t] = d.what /\ \A z \in Entries(t) : z[2] < d.at
      <4>1. activity # "containers"
        BY <2>6 DEF TakesInv
      <4>2. f = d.what
        BY <1>2, <2>1, <2>6, <3>4, <4>1 DEF Callbacks
      <4> DEFINE z == <<f, Now>>
      <4>3. z \in Entries(t)' /\ z[1] = d.what /\ z[2] = Now
        BY <2>4, <4>2
      <4>4. \A y \in Entries(t)' : y[2] = Now \/ y[2] < d.at
        BY <2>4, <3>4
      <4>5. \A y \in Entries(t) : y[2] \in Nat
        BY <1>2, EntriesGrow
      <4> HIDE DEF z
      <4>6. \A y \in Entries(t)' : y[2] >= d.at => y[2] >= z[2]
        BY <1>2, <2>4, <3>1, <3>4, <4>3, <4>5
      <4> QED
        BY <1>2, <3>1, <3>4, <4>3, <4>6 DEF Awaits
    <3>5. CASE v = t /\ \E z \in Entries(t) : /\ z[1] = d.what /\ z[2] >= d.at
                                              /\ \A y \in Entries(t) : y[2] >= d.at => y[2] >= z[2]
      <4>1. PICK z \in Entries(t) : /\ z[1] = d.what /\ z[2] >= d.at
                                    /\ \A y \in Entries(t) : y[2] >= d.at => y[2] >= z[2]
        BY <3>5
      <4>2. z[2] \in Nat /\ z[2] < Now
        BY <1>2, EntriesGrow
      <4>3. \A y \in Entries(t)' : y[2] >= d.at => y[2] >= z[2]
        <5>1. <<f, Now>>[2] = Now
          OBVIOUS
        <5> QED
          BY <1>2, <2>4, <4>1, <4>2, <5>1
      <4> QED
        BY <2>4, <3>5, <4>1, <4>3 DEF Awaits
    <3> QED
      BY <3>2, <3>3, <3>4, <3>5 DEF Awaits
  <2>7. \A i \in DOMAIN trace : \A d, v : d = trace[i] /\ v = d.thread => Fine(d, v)
    BY <2>6
  <2>8. Fine(e, t)
    BY <2>2
  <2> HIDE DEF Fine
  <2> QED
    BY <1>6, <2>2, <2>5, <2>7, <2>8
<1> QED
  BY <1>1, <1>8, <1>9, <1>10, <1>11

(* The inductive invariant for hops.                                       *)
HopsInv == OwnerInv /\ TakesInv /\ ApartInv /\ SamplesInv /\ NextInv

(* HopsInv is inductive.                                                   *)
LEMMA HopsInvKept ==
    ASSUME HopsInv, [Next]_vars
    PROVE  HopsInv'
<1>1. CASE Next
  <2>1. OwnerInv'
    BY OwnerInvKept DEF HopsInv
  <2>2. TakesInv' /\ ApartInv' /\ SamplesInv' /\ NextInv'
    BY <1>1, TakesKept, ApartKept, SamplesKept, NextKept DEF HopsInv, OwnerInv
  <2> QED
    BY <2>1, <2>2 DEF HopsInv
<1>2. CASE UNCHANGED vars
  <2>1. OwnerInv'
    BY OwnerInvKept DEF HopsInv
  <2>2. UNCHANGED <<trace, frames, lost, damaged, activity, due, taken, latest>>
    BY <1>2 DEF vars
  <2>3. TakesInv' /\ ApartInv'
    BY <2>2 DEF HopsInv, TakesInv, ApartInv, Now
  <2>4. SamplesInv'
    BY <2>2 DEF HopsInv, SamplesInv
  <2>5. NextInv'
    BY <2>2 DEF HopsInv, NextInv, Awaits, Entries, Stack, Windows
  <2> QED
    BY <2>1, <2>3, <2>4, <2>5 DEF HopsInv
<1> QED
  BY <1>1, <1>2

(* HopsInv holds at the start.                                             *)
LEMMA HopsInvInit ==
    ASSUME Init
    PROVE  HopsInv
<1>1. trace = <<>> /\ lost = 0 /\ damaged = {} /\ \A t \in Threads : frames[t] = <<>>
  BY DEF Init
<1>2. TakesInv /\ ApartInv
  BY <1>1 DEF TakesInv, ApartInv
<1>3. SamplesInv
  BY <1>1 DEF Init, SamplesInv
<1>4. NextInv
  BY <1>1 DEF Init, NextInv
<1> QED
  BY <1>2, <1>3, <1>4, OwnerInvInit DEF HopsInv

(* At rest owner is right about every event, and nothing is open.          *)
LEMMA AtRestOwners ==
    ASSUME HopsInv, AtRest
    PROVE  /\ \A i \in DOMAIN trace : Shown(trace[i]) => OwnerOf(trace[i]) = trace[i].by
           /\ \A t \in Threads : Entries(t) = {<<w.f, w.from>> : w \in Windows(t)} /\ due[t] = None
<1>1. lost = 0 /\ damaged = {} /\ \A t \in Threads : frames[t] = <<>> /\ due[t] = None
  BY DEF AtRest, HopsInv, ApartInv
<1>2. ASSUME NEW i \in DOMAIN trace, Shown(trace[i])
      PROVE  OwnerOf(trace[i]) = trace[i].by
  <2>1. trace[i].thread \in Threads
    BY EventOf DEF HopsInv, OwnerInv
  <2>2. Intact(trace[i]) /\ InSight(trace[i])
    BY <1>1, <2>1 DEF Intact, AtRest
  <2> QED
    BY <1>1, <1>2, <2>2, OwnersAreRight DEF HopsInv
<1>3. ASSUME NEW t \in Threads
      PROVE  Entries(t) = {<<w.f, w.from>> : w \in Windows(t)}
  <2>1. Follows(Stack(t), <<>>, 0)
    BY <1>1 DEF HopsInv, OwnerInv, TracksInv, Tracks
  <2>2. DOMAIN Stack(t) = {}
    <3>1. Len(Stack(t)) = 0 /\ DOMAIN Stack(t) = 1 .. Len(Stack(t))
      BY <2>1, StackFacts DEF Follows, HopsInv, OwnerInv
    <3> QED
      BY <3>1
  <2> QED
    BY <2>2 DEF Entries
<1> QED
  BY <1>1, <1>2, <1>3

(* A take for dispatch is booked on the callback that got the sample.      *)
LEMMA DispatchFound ==
    ASSUME HopsInv, AtRest, NEW i \in DOMAIN trace, NEW e, e = trace[i], e.kind = "take", e.what \in Subs,
           \E w \in Windows(e.thread) : w.f = e.what /\ e.at <= w.from /\ w.from - e.at <= DispatchSlack
    PROVE  Dispatched(e.thread, e.at) = {e.what}
<1> DEFINE W == Windows(e.thread)
           Later == {w \in W : w.from >= e.at}
           Next1 == {w \in Later : \A x \in Later : w.from <= x.from}
<1>1. e.thread \in Threads /\ e.at \in Nat
  BY EventOf DEF HopsInv, OwnerInv
<1>2. /\ \A w \in W : w.from \in Nat
      /\ \A w, x \in W : w.from = x.from => w = x
  BY <1>1 DEF HopsInv, OwnerInv, StackInv, StackOK, Window
<1>3. Entries(e.thread) = {<<w.f, w.from>> : w \in W} /\ due[e.thread] = None
  BY <1>1, AtRestOwners
<1>4. \E z \in Entries(e.thread) : /\ z[1] = e.what /\ z[2] >= e.at
                                   /\ \A y \in Entries(e.thread) : y[2] >= e.at => y[2] >= z[2]
  <2>1. Awaits(e, due[e.thread], Entries(e.thread))
    BY DEF HopsInv, NextInv, AtRest
  <2>2. e.what # None
    BY RosTraceAssumption DEF Callbacks
  <2> QED
    BY <1>3, <2>1, <2>2 DEF Awaits
<1> HIDE DEF W
<1>5. PICK w \in W : w.f = e.what /\ w.from >= e.at /\ \A x \in W : x.from >= e.at => x.from >= w.from
  <2>1. PICK z \in Entries(e.thread) : /\ z[1] = e.what /\ z[2] >= e.at
                                        /\ \A y \in Entries(e.thread) : y[2] >= e.at => y[2] >= z[2]
    BY <1>4
  <2>2. PICK w \in W : z = <<w.f, w.from>>
    BY <1>3
  <2>3. ASSUME NEW x \in W, x.from >= e.at
        PROVE  x.from >= w.from
    <3> DEFINE y == <<x.f, x.from>>
    <3>1. y \in Entries(e.thread) /\ y[2] = x.from
      BY <1>3
    <3> HIDE DEF y
    <3> QED
      BY <2>1, <2>2, <2>3, <3>1
  <2> QED
    BY <2>1, <2>2, <2>3
<1>6. w \in Later /\ \A x \in Later : w.from <= x.from
  BY <1>2, <1>5
<1>7. Next1 = {w}
  <2>1. \A x \in Next1 : x.from = w.from /\ x \in W
    BY <1>2, <1>6
  <2>2. \A x \in Next1 : x = w
    BY <1>2, <2>1
  <2> QED
    BY <1>6, <2>2
<1>8. w.from - e.at <= DispatchSlack
  <2>1. PICK x \in W : x.f = e.what /\ e.at <= x.from /\ x.from - e.at <= DispatchSlack
    BY DEF W
  <2>2. w.from <= x.from /\ w.from \in Nat /\ x.from \in Nat /\ DispatchSlack \in Nat
    BY <1>1, <1>2, <1>5, <2>1, CallbackFlowAssumption
  <2> QED
    BY <1>1, <2>1, <2>2
<1>9. Dispatched(e.thread, e.at) = {x.f : x \in {y \in Next1 : y.from - e.at <= DispatchSlack}}
  BY DEF Dispatched, W
<1> QED
  BY <1>5, <1>7, <1>8, <1>9

(* The publication nearest to the time of a publication is that one.       *)
LEMMA NearestIsThere ==
    ASSUME NEW P, P \subseteq Nat, NEW n \in P
    PROVE  Nearest(P, n) = n /\ Distance(n, n) = 0
<1> DEFINE Best(p) == \A q \in P : \/ Distance(p, n) < Distance(q, n)
                                   \/ Distance(p, n) = Distance(q, n) /\ p <= q
<1>1. \A q \in P : Distance(q, n) \in Nat /\ (Distance(q, n) = 0 <=> q = n)
  BY DEF Distance
<1>2. Best(n)
  BY <1>1
<1>3. \A p \in P : Best(p) => p = n
  BY <1>1
<1>4. Nearest(P, n) = CHOOSE p \in P : Best(p)
  BY DEF Nearest
<1> HIDE DEF Best
<1> QED
  BY <1>1, <1>2, <1>3, <1>4

(* Who publishes: a callback, or a thread for the node of its publisher.   *)
SenderOf(e) == IF e.by # None THEN CallbackF(e.by) ELSE ThreadF(e.thread, PubNode[e.what])
SentOn(x) == {e \in Recorded("publish") : PubTopic[e.what] = x}
BeginsInTime(e) ==
    \E w \in Windows(e.thread) : w.f = e.what /\ e.at <= w.from /\ w.from - e.at <= DispatchSlack

(* A thread that publishes for one node only is known as that node's.      *)
LEMMA ThreadOwnerIs ==
    ASSUME FramesInv, EventsInv, NEW t, NEW n, ThreadNodes(t) = {n}
    PROVE  ThreadOwner(t) = ThreadF(t, n)
<1> DEFINE O == Outside(t)
           Least(e) == PubNode[e.what] = n /\ \A d \in O : PubNode[d.what] = n => e.at <= d.at
           T == {e.at : e \in {d \in O : PubNode[d.what] = n}}
           First(k) == CHOOSE e \in Outside(t) :
                          /\ PubNode[e.what] = k
                          /\ \A d \in Outside(t) : PubNode[d.what] = k => e.at <= d.at
<1>1. \A e \in O : e.at \in Nat
  <2>1. \A e \in O : \E i \in DOMAIN trace : e = trace[i]
    BY DEF Outside, Recorded
  <2> QED
    BY <2>1, EventOf
<1>2. \E e \in O : PubNode[e.what] = n
  BY DEF ThreadNodes
<1>3. \E x \in T : \A y \in T : x <= y
  <2>1. T \subseteq Nat /\ T # {}
    BY <1>1, <1>2
  <2> HIDE DEF T
  <2> QED
    BY <2>1, LeastExists
<1>4. \E e \in O : Least(e)
  BY <1>3
<1>5. First(n) \in O
  BY <1>4
<1>6. First(n).at <= First(n).at
  <2>1. First(n).at \in Nat
    BY <1>1, <1>5
  <2> HIDE DEF First
  <2> QED
    BY <2>1
<1>7. ThreadOwner(t) = ThreadF(t, CHOOSE k \in {n} : \A m \in {n} : First(m).at <= First(k).at)
  BY DEF ThreadOwner
<1> HIDE DEF First
<1>8. (CHOOSE k \in {n} : \A m \in {n} : First(m).at <= First(k).at) = n
  BY <1>6
<1> QED
  BY <1>7, <1>8

(* When there is one sender on a topic its publications are those of the   *)
(* topic.                                                                  *)
LEMMA SenderFound ==
    ASSUME HopsInv, AtRest, NEW x, NEW u, \A e \in SentOn(x) : SenderOf(e) = u,
           Len(u) = 2 => ThreadNodes(u[1]) = {u[2]}
    PROVE  PublishedBy(x, u) = {e.at : e \in SentOn(x)}
<1> DEFINE Owning(e) == IF OwnerOf(e) # None THEN CallbackF(OwnerOf(e)) ELSE ThreadOwner(e.thread)
<1>1. ASSUME NEW e \in SentOn(x)
      PROVE  u = Owning(e)
  <2>1. PICK i \in DOMAIN trace : e = trace[i] /\ trace[i].kind = "publish"
    BY DEF SentOn, Recorded
  <2>2. OwnerOf(e) = e.by
    BY <2>1, AtRestOwners DEF Shown
  <2>3. CASE e.by # None
    BY <1>1, <2>2, <2>3 DEF SenderOf
  <2>4. CASE e.by = None
    <3>1. u = <<e.thread, PubNode[e.what]>>
      BY <1>1, <2>4 DEF SenderOf, ThreadF
    <3>2. Len(u) = 2 /\ u[1] = e.thread /\ u[2] = PubNode[e.what]
      BY <3>1
    <3>3. ThreadOwner(e.thread) = ThreadF(e.thread, PubNode[e.what])
      BY <3>2, ThreadOwnerIs DEF HopsInv, OwnerInv
    <3> QED
      BY <2>2, <2>4, <3>1, <3>3 DEF ThreadF
  <2> QED
    BY <2>3, <2>4
<1>2. PublishedBy(x, u) = {e.at : e \in {d \in Recorded("publish") : PubTopic[d.what] = x /\ u = Owning(d)}}
  BY DEF PublishedBy
<1> HIDE DEF Owning
<1> QED
  BY <1>1, <1>2 DEF SentOn

(* A take is counted for the callback of its subscription and no other.    *)
LEMMA TakesFound ==
    ASSUME HopsInv, AtRest, \A s \in Subs \cup Polled : SameTopicSubs(s) = {s},
           \A e \in Recorded("take") : e.what \in Subs => BeginsInTime(e),
           NEW v \in Subs
    PROVE  TakenBy(TopicOf[v], v) = {<<e.at, e.sample>> : e \in {d \in Recorded("take") : d.what = v}}
<1>1. ASSUME NEW e \in Recorded("take")
      PROVE  TopicOf[e.what] = TopicOf[v] /\ Windows(e.thread) # {} /\ v \in Consumers(e) <=> e.what = v
  <2>1. PICK i \in DOMAIN trace : e = trace[i] /\ trace[i].kind = "take"
    BY DEF Recorded
  <2>2. /\ e.what \in Subs \cup Polled /\ SameTopicSubs(e.what) = {e.what}
        /\ e.what \in Polled => e.by \in Callbacks
    BY <2>1 DEF HopsInv, TakesInv
  <2>3. OwnerOf(e) = e.by
    BY <2>1, AtRestOwners DEF Shown
  <2>4. CASE e.what \in Polled
    <3>1. ForeignTake(e)
      BY <2>2, <2>3, <2>4, RosTraceAssumption DEF ForeignTake
    <3>2. Consumers(e) = {e.what}
      BY <2>2, <3>1 DEF Consumers
    <3> QED
      BY <2>4, <3>2, RosTraceAssumption DEF Callbacks
  <2>5. CASE e.what \in Subs
    <3>1. BeginsInTime(e)
      BY <2>5
    <3>2. Dispatched(e.thread, e.at) = {e.what}
      BY <2>1, <2>5, <3>1, DispatchFound DEF BeginsInTime
    <3>3. Consumers(e) = {e.what}
      BY <2>2, <3>2 DEF Consumers
    <3> QED
      BY <3>1, <3>3 DEF BeginsInTime
  <2> QED
    BY <2>2, <2>4, <2>5
<1> QED
  BY <1>1 DEF TakenBy

(* Finitely many have published.                                           *)
LEMMA SendersAreFinite ==
    ASSUME FramesInv, NEW x
    PROVE  IsFiniteSet({SenderOf(e) : e \in SentOn(x)})
<1> DEFINE S == {SenderOf(e) : e \in SentOn(x)}
           n == Len(trace)
<1>1. n \in Nat /\ DOMAIN trace = 1 .. n
  BY DEF FramesInv
<1>2. CASE S = {}
  BY <1>2, FS_EmptySet
<1>3. ASSUME NEW u \in S
      PROVE  IsFiniteSet(S)
  <2> DEFINE f == [i \in 1 .. n |-> IF trace[i] \in SentOn(x) THEN SenderOf(trace[i]) ELSE u]
  <2>1. f \in [1 .. n -> S]
    OBVIOUS
  <2>2. ASSUME NEW s \in S
        PROVE  \E i \in 1 .. n : f[i] = s
    <3>1. PICK e \in SentOn(x) : s = SenderOf(e)
      OBVIOUS
    <3>2. PICK i \in 1 .. n : e = trace[i]
      BY <1>1 DEF SentOn, Recorded
    <3> QED
      BY <3>1, <3>2
  <2> HIDE DEF f, S
  <2>3. f \in Surjection(1 .. n, S)
    BY <2>1, <2>2 DEF Surjection
  <2>4. ExistsSurjection(1 .. n, S)
    BY <2>3 DEF ExistsSurjection
  <2> QED
    BY <1>1, <2>4, FS_NatSurjection
<1> QED
  BY <1>2, <1>3

(* HopsAreReal, again when a node subscribes to a topic once: at rest and  *)
(* with nothing discarded, for any number of threads, callbacks, nested    *)
(* executors and publishers, the hops of an edge are the samples that were *)
(* taken, each with its own publication.                                   *)
THEOREM HopsFound ==
    ASSUME \A s \in Subs \cup Polled : SameTopicSubs(s) = {s}
    PROVE  Spec => []HopsAreReal
<1>1. Init => HopsInv
  BY HopsInvInit
<1>2. HopsInv /\ [Next]_vars => HopsInv'
  BY HopsInvKept
<1>3. ASSUME HopsInv, AtRest, activity = "messages",
             \A e \in Recorded("take") : e.what \in Subs => BeginsInTime(e),
             NEW v \in Subs, NEW u \in {SenderOf(e) : e \in SentOn(TopicOf[v])},
             Cardinality({SenderOf(e) : e \in SentOn(TopicOf[v])}) = 1,
             Len(u) = 2 => ThreadNodes(u[1]) = {u[2]}
      PROVE  Hops(u, v, TopicOf[v]) = {<<e.sample, e.at, e.sample>> : e \in {d \in Recorded("take") : d.what = v}}
  <2> DEFINE x == TopicOf[v]
             P == {e.at : e \in SentOn(x)}
             K == {<<e.at, e.sample>> : e \in {d \in Recorded("take") : d.what = v}}
  <2>1. \A e \in SentOn(x) : SenderOf(e) = u
    <3> DEFINE S == {SenderOf(e) : e \in SentOn(x)}
    <3>1. IsFiniteSet(S) /\ Cardinality(S) = 1 /\ u \in S
      BY <1>3, SendersAreFinite DEF HopsInv, OwnerInv
    <3>2. \A e \in SentOn(x) : SenderOf(e) \in S
      OBVIOUS
    <3> HIDE DEF S
    <3>3. \E s : S = {s}
      BY <3>1, FS_Singleton
    <3> QED
      BY <3>1, <3>2, <3>3
  <2>2. PublishedBy(x, u) = P
    BY <1>3, <2>1, SenderFound
  <2>3. TakenBy(x, v) = K
    BY <1>3, TakesFound
  <2>4. P # {} /\ P \subseteq Nat
    <3>1. \A e \in SentOn(x) : \E i \in DOMAIN trace : e = trace[i]
      BY DEF SentOn, Recorded
    <3>2. \A e \in SentOn(x) : e.at \in Nat
      BY <1>3, <3>1, EventOf DEF HopsInv, OwnerInv
    <3> QED
      BY <1>3, <3>2
  <2>5. ASSUME NEW e \in Recorded("take"), e.what = v
        PROVE  /\ e.sample \in P /\ e.sample <= e.at
               /\ Nearest(P, e.sample) = e.sample /\ Distance(e.sample, e.sample) <= HopLimit
    <3>1. PICK i \in DOMAIN trace : e = trace[i] /\ trace[i].kind = "take"
      BY DEF Recorded
    <3>2. e.sample < e.at /\ SentAt(trace, x, e.sample) /\ e.at \in Nat
      BY <1>3, <2>5, <3>1, EventOf DEF HopsInv, OwnerInv, SamplesInv
    <3>3. PICK j \in DOMAIN trace : trace[j].kind = "publish" /\ PubTopic[trace[j].what] = x /\ trace[j].at = e.sample
      BY <3>2 DEF SentAt
    <3>4. trace[j] \in SentOn(x)
      BY <3>3 DEF SentOn, Recorded
    <3>5. e.sample \in P /\ e.sample \in Nat
      BY <2>4, <3>3, <3>4
    <3> HIDE DEF P
    <3>6. Nearest(P, e.sample) = e.sample /\ Distance(e.sample, e.sample) = 0
      BY <2>4, <3>5, NearestIsThere
    <3>7. HopLimit \in Nat
      BY CallbackFlowAssumption
    <3> QED
      BY <3>2, <3>5, <3>6, <3>7
  <2> HIDE DEF P
  <2>6. Hops(u, v, x) = {h \in {<<Nearest(P, k[2]), k[1], k[2]>> : k \in K} :
                            Distance(h[1], h[3]) <= HopLimit /\ h[2] >= h[1]}
    BY <2>2, <2>3, <2>4 DEF Hops
  <2> DEFINE R == {<<e.sample, e.at, e.sample>> : e \in {d \in Recorded("take") : d.what = v}}
  <2>7. {<<Nearest(P, k[2]), k[1], k[2]>> : k \in K} = R
    <3> DEFINE T == {d \in Recorded("take") : d.what = v}
               H(k) == <<Nearest(P, k[2]), k[1], k[2]>>
    <3>1. \A e \in T : H(<<e.at, e.sample>>) = <<e.sample, e.at, e.sample>>
      BY <2>5
    <3> HIDE DEF T, H
    <3>2. {H(k) : k \in {<<e.at, e.sample>> : e \in T}} = {<<e.sample, e.at, e.sample>> : e \in T}
      BY <3>1
    <3> QED
      BY <3>2 DEF T, H
  <2>8. \A h \in R : Distance(h[1], h[3]) <= HopLimit /\ h[2] >= h[1]
    BY <2>5
  <2> QED
    BY <2>6, <2>7, <2>8
<1>4. HopsInv => HopsAreReal
  BY <1>3 DEF HopsAreReal, SenderOf, SentOn, BeginsInTime
<1> QED
  BY <1>1, <1>2, <1>4, PTL DEF Spec

-----------------------------------------------------------------------------
(* Pointers.  Events are recorded one after the other.                     *)
OrderInv == \A i, j \in DOMAIN trace : i < j => trace[i].at < trace[j].at

(* Two runs of one callback do not overlap, on whichever threads.          *)
Disjoint(w, x) == w.to < x.from \/ x.to < w.from
ExclusiveInv == lost = 0 =>
    /\ \A t, u \in Threads : \A i \in DOMAIN frames[t], j \in DOMAIN frames[u] :
          frames[t][i].f = frames[u][j].f => t = u /\ i = j
    /\ \A t, u \in Threads : \A w \in Windows(t), j \in DOMAIN frames[u] :
          w.f = frames[u][j].f => w.to < frames[u][j].since
    /\ \A t, u \in Threads : \A w \in Windows(t), x \in Windows(u) :
          w.f = x.f => (t = u /\ w = x) \/ Disjoint(w, x)

(* The callback that has just returned is the last one of its thread, and  *)
(* the one that a retain event names is the last one before the event.     *)
ReturnedInv ==
    /\ DOMAIN returned = Threads
    /\ lost = 0 /\ Flat =>
          \A t \in Threads : returned[t] # NoSample =>
             /\ frames[t] = <<>>
             /\ \E w \in Windows(t) : w.f = returned[t][1] /\ \A x \in Windows(t) \ {w} : x.to < w.from
Precedes(w, e, wins) ==
    /\ w \in wins /\ w.f = e.what /\ w.to < e.at
    /\ \A x \in wins \ {w} : x.to < w.from \/ e.at < x.from
RetainsInv == lost = 0 /\ Flat =>
    \A i \in DOMAIN trace : LET e == trace[i] IN
        e.kind = "retain" => e.by = None /\ \E w \in Windows(e.thread) : Precedes(w, e, Windows(e.thread))

(* The steps of RosTrace a last time, as far as returns go.                *)
Retains(t) ==
    /\ returned[t] # NoSample /\ Passes(t) /\ UNCHANGED frames
    /\ \E e : e.kind = "retain" /\ e.what = returned[t][1] /\ Appends(e, t)
MovesOn(t) == Passes(t) /\ UNCHANGED frames /\ \E e : Shown(e) /\ e.kind # "retain" /\ Appends(e, t)
Opens(t) ==
    /\ Passes(t)
    /\ \E f \in Callbacks :
          /\ \A u \in Threads : \A i \in DOMAIN frames[u] : frames[u][i].f # f
          /\ Enters(t, f)
          /\ (\E e : e.kind = "start" /\ e.what = f /\ Appends(e, t)) \/ (\E x : Loses(x))
Returns(t) ==
    /\ Leaves(t)
    /\ (\E e : e.kind = "end" /\ Appends(e, t)) \/ (\E x : Loses(x))
    /\ \E s : (s = NoSample \/ s[1] = Running(t)) /\ returned' = [returned EXCEPT ![t] = s]

(* Every step of RosTrace is one of these in that respect.                 *)
LEMMA WhatReturns ==
    ASSUME Next
    PROVE  \E t \in Threads : Retains(t) \/ MovesOn(t) \/ Opens(t) \/ Returns(t)
<1>1. ASSUME NEW kind, NEW t, NEW what, NEW sample, NEW took, Record(kind, t, what, sample, took)
      PROVE  \E e : e.kind = kind /\ e.what = what /\ Appends(e, t)
  <2> DEFINE e == Event(kind, t, what, sample, took)
  <2>1. e.kind = kind /\ e.what = what /\ NewEvent(e, t)
    BY DEF Event, NewEvent, Since, Top
  <2>2. trace' = Append(trace, e) /\ UNCHANGED <<lost, damaged>>
    BY <1>1 DEF Record
  <2> HIDE DEF e
  <2> QED
    BY <2>1, <2>2 DEF Appends
<1>2. ASSUME NEW kind, NEW t, NEW what, NEW sample, NEW took, Record(kind, t, what, sample, took),
             kind \notin {"start", "end", "retain"}, UNCHANGED frames, Passes(t)
      PROVE  MovesOn(t)
  BY <1>1, <1>2 DEF MovesOn, Shown, Passes
<1>3. ASSUME NEW x, Discard(x)
      PROVE  Loses(x)
  BY <1>3 DEF Discard, Loses
<1>4. PICK t \in Threads :
        \/ \E p \in Publishers : Publish(t, p)
        \/ \E s \in Subs : Take(t, s)
        \/ \E f \in Callbacks : Start(t, f)
        \/ End(t)
        \/ \E q \in Polled : Poll(t, q)
        \/ \E c \in Containers : Push(t, c) \/ Erase(t, c)
        \/ Retain(t)
        \/ \E k \in kept : Release(t, k)
  BY DEF Next
<1>5. CASE \E p \in Publishers : Publish(t, p)
  BY <1>2, <1>5 DEF Publish
<1>6. CASE \E s \in Subs : Take(t, s)
  <2>1. PICK s \in Subs : Take(t, s)
    BY <1>6
  <2>2. UNCHANGED frames /\ \E n : Record("take", t, s, n, {}) /\ Passes(t)
    BY <2>1 DEF Take
  <2> QED
    BY <1>2, <2>2
<1>7. CASE \E f \in Callbacks : Start(t, f)
  <2>1. PICK f \in Callbacks : Start(t, f)
    BY <1>7
  <2>2. /\ Enters(t, f) /\ Passes(t)
        /\ \A u \in Threads : \A i \in DOMAIN frames[u] : frames[u][i].f # f
    BY <2>1 DEF Start, Enters, Passes
  <2>3. (\E e : e.kind = "start" /\ e.what = f /\ Appends(e, t)) \/ (\E x : Loses(x))
    <3>1. CASE Record("start", t, f, 0, {})
      BY <1>1, <3>1
    <3>2. CASE Discard(IF frames[t] = <<>> THEN Now ELSE frames[t][1].since)
      BY <1>3, <3>2
    <3> QED
      BY <2>1, <3>1, <3>2 DEF Start
  <2> QED
    BY <2>2, <2>3 DEF Opens
<1>8. CASE End(t)
  <2>1. Leaves(t)
    BY <1>8 DEF End, Leaves
  <2>2. (\E e : e.kind = "end" /\ Appends(e, t)) \/ (\E x : Loses(x))
    <3>1. CASE Record("end", t, Running(t), 0, {})
      BY <1>1, <3>1
    <3>2. CASE Discard(frames[t][1].since)
      BY <1>3, <3>2
    <3> QED
      BY <1>8, <3>1, <3>2 DEF End
  <2>3. \E s : (s = NoSample \/ s[1] = Running(t)) /\ returned' = [returned EXCEPT ![t] = s]
    <3> DEFINE s == IF Running(t) \in Subs /\ activity = "pointers"
                    THEN <<Running(t), taken[Running(t)]>> ELSE NoSample
    <3>1. returned' = [returned EXCEPT ![t] = s]
      BY <1>8 DEF End
    <3>2. s = NoSample \/ s[1] = Running(t)
      OBVIOUS
    <3> HIDE DEF s
    <3> QED
      BY <3>1, <3>2
  <2> QED
    BY <2>1, <2>2, <2>3 DEF Returns
<1>9. CASE \E q \in Polled : Poll(t, q)
  BY <1>2, <1>9 DEF Poll
<1>10. CASE \E c \in Containers : Push(t, c) \/ Erase(t, c)
  BY <1>2, <1>10 DEF Push, Erase
<1>11. CASE Retain(t)
  <2>1. Record("retain", t, returned[t][1], returned[t][2], {}) /\ Passes(t) /\ UNCHANGED frames
        /\ returned[t] # NoSample
    BY <1>11 DEF Retain
  <2>2. \E e : e.kind = "retain" /\ e.what = returned[t][1] /\ Appends(e, t)
    BY <1>1, <2>1
  <2> QED
    BY <2>1, <2>2 DEF Retains, Passes
<1>12. CASE \E k \in kept : Release(t, k)
  BY <1>2, <1>12 DEF Release
<1> QED
  BY <1>4, <1>5, <1>6, <1>7, <1>8, <1>9, <1>10, <1>11, <1>12

(* OrderInv is inductive.                                                  *)
LEMMA OrderKept ==
    ASSUME FramesInv, EventsInv, OrderInv, Next
    PROVE  OrderInv'
<1>1. PICK t \in Threads : Retains(t) \/ MovesOn(t) \/ Opens(t) \/ Returns(t)
  BY WhatReturns
<1>2. CASE UNCHANGED trace
  BY <1>2 DEF OrderInv
<1>3. ASSUME NEW e, Appends(e, t)
      PROVE  OrderInv'
  <2> DEFINE n == Len(trace)
  <2>1. /\ n \in Nat /\ DOMAIN trace = 1 .. n /\ DOMAIN trace' = 1 .. (n + 1)
        /\ \A i \in 1 .. n : trace'[i] = trace[i]
        /\ trace'[n + 1].at = Now
    BY <1>3, TraceGrows DEF Appends, NewEvent
  <2>2. \A i \in 1 .. n : trace[i].at < Now
    BY <2>1, EventOf
  <2> HIDE DEF n
  <2>3. ASSUME NEW i \in 1 .. (n + 1), NEW j \in 1 .. (n + 1), i < j
        PROVE  trace'[i].at < trace'[j].at
    <3>1. i \in 1 .. n /\ (j \in 1 .. n \/ j = n + 1)
      BY <2>1, <2>3
    <3> QED
      BY <2>1, <2>2, <2>3, <3>1 DEF OrderInv
  <2> QED
    BY <2>1, <2>3 DEF OrderInv
<1> QED
  BY <1>1, <1>2, <1>3 DEF Retains, MovesOn, Opens, Returns, Loses

(* What a step of thread t is when nothing has been discarded after it.    *)
LEMMA WholeStep ==
    ASSUME OwnerInv, Next, lost' = 0
    PROVE  /\ lost = 0 /\ Now \in Nat /\ Now' = Now + 1
           /\ \A u \in Threads : Follows(Stack(u), frames[u], 0)
           /\ \E t \in Threads :
                 /\ Retains(t) \/ MovesOn(t) \/ Opens(t) \/ Returns(t)
                 /\ \E e : Appends(e, t)
                 /\ \A u \in Threads \ {t} : Passed(u) /\ frames'[u] = frames[u]
                 /\ Retains(t) \/ MovesOn(t) => Passed(t)
                 /\ Opens(t) => Windows(t)' = Windows(t)
                 /\ Returns(t) => Popped(t)
<1>1. PICK t \in Threads : Retains(t) \/ MovesOn(t) \/ Opens(t) \/ Returns(t)
  BY WhatReturns
<1>2. FramesInv /\ lost \in Nat /\ Now \in Nat /\ Now' = Now + 1
  BY NowIsNat, FramesKept DEF OwnerInv, FramesInv
<1>3. \A x : ~Loses(x)
  BY <1>2 DEF Loses
<1>4. lost = 0 /\ \E e : Appends(e, t)
  BY <1>1, <1>3 DEF Retains, MovesOn, Opens, Returns, Appends
<1>5. \A u \in Threads : Follows(Stack(u), frames[u], 0)
  BY <1>4 DEF OwnerInv, TracksInv, Tracks
<1>6. \A u \in Threads \ {t} : Passed(u) /\ frames'[u] = frames[u]
  <2>1. \A u \in Threads \ {t} : Passed(u)
    BY <1>2, <1>4, WalksFollow
  <2>2. \A u \in Threads \ {t} : frames'[u] = frames[u]
    BY <1>1, <1>2, EntersFrames, LeavesFrames DEF Retains, MovesOn, Opens, Returns
  <2> QED
    BY <2>1, <2>2
<1>7. Retains(t) \/ MovesOn(t) => Passed(t)
  BY <1>2, WalksFollow DEF Retains, MovesOn, Shown
<1>8. Opens(t) => Windows(t)' = Windows(t)
  BY <1>2, <1>3, WalksFollow DEF Opens, Pushed
<1>9. ASSUME Returns(t)
      PROVE  Popped(t)
  <2>1. PICK e : e.kind = "end" /\ Appends(e, t)
    BY <1>3, <1>9 DEF Returns
  <2>2. Len(Stack(t)) = Len(frames[t]) + 0 /\ Len(frames[t]) \in Nat \ {0}
    BY <1>2, <1>5, <1>9, LeavesFrames DEF Returns, Follows
  <2>3. Stack(t) # <<>>
    BY <1>2, <2>2, StackFacts DEF OwnerInv
  <2> QED
    BY <1>2, <2>1, <2>3, WalksFollow
<1> QED
  BY <1>1, <1>2, <1>4, <1>5, <1>6, <1>7, <1>8, <1>9

(* What a return adds to the windows of its thread.                        *)
LEMMA WhatReturnCloses ==
    ASSUME OwnerInv, NEW t \in Threads, Returns(t), Popped(t), Follows(Stack(t), frames[t], 0)
    PROVE  LET n == Len(frames[t]) IN
           /\ n \in DOMAIN frames[t] /\ n \notin DOMAIN frames'[t]
           /\ \A k \in DOMAIN frames'[t] : k \in DOMAIN frames[t] /\ frames'[t][k] = frames[t][k]
           /\ Len(frames'[t]) = n - 1 /\ n \in Nat
           /\ Running(t) = frames[t][n].f
           /\ \E w : /\ Windows(t)' = Windows(t) \cup {w}
                    /\ w.f = frames[t][n].f /\ w.from = frames[t][n].since /\ w.to = Now
<1> DEFINE n == Len(frames[t])
           st == Stack(t)
<1>1. FramesInv
  BY DEF OwnerInv
<1>2. /\ n \in Nat \ {0} /\ DOMAIN frames[t] = 1 .. n /\ DOMAIN frames'[t] = 1 .. (n - 1)
      /\ \A k \in DOMAIN frames'[t] : k \in DOMAIN frames[t] /\ frames'[t][k] = frames[t][k]
      /\ Len(frames'[t]) = n - 1 /\ frames[t] # <<>>
  BY <1>1, LeavesFrames DEF Returns, Leaves
<1>3. /\ Len(st) = n + 0 /\ st[n + 0].f = frames[t][n].f /\ st[n + 0].from = frames[t][n].since
  BY <1>2 DEF Follows
<1>4. Len(st) = n /\ st[n].f = frames[t][n].f /\ st[n].from = frames[t][n].since
  BY <1>2, <1>3
<1>5. Windows(t)' = Windows(t) \cup {[f |-> st[n].f, from |-> st[n].from, to |-> Now]}
  BY <1>4 DEF Popped
<1>6. Running(t) = frames[t][n].f
  BY <1>2 DEF Running
<1>7. \E w : /\ Windows(t)' = Windows(t) \cup {w}
            /\ w.f = frames[t][n].f /\ w.from = frames[t][n].since /\ w.to = Now
  <2> DEFINE w == [f |-> st[n].f, from |-> st[n].from, to |-> Now]
  <2>1. w.f = st[n].f /\ w.from = st[n].from /\ w.to = Now
    OBVIOUS
  <2> HIDE DEF w
  <2> QED
    BY <1>4, <1>5, <2>1 DEF w
<1>8. n \in Nat /\ n \in DOMAIN frames[t] /\ n \notin DOMAIN frames'[t]
  BY <1>2
<1> QED
  BY <1>2, <1>6, <1>7, <1>8

(* ExclusiveInv is inductive: a callback begins only when it runs nowhere. *)
LEMMA ExclusiveKept ==
    ASSUME OwnerInv, ExclusiveInv, Next
    PROVE  ExclusiveInv'
<1> SUFFICES ASSUME lost' = 0
             PROVE  /\ \A u, v \in Threads : \A i \in DOMAIN frames'[u], j \in DOMAIN frames'[v] :
                           frames'[u][i].f = frames'[v][j].f => u = v /\ i = j
                    /\ \A u, v \in Threads : \A w \in Windows(u)', j \in DOMAIN frames'[v] :
                           w.f = frames'[v][j].f => w.to < frames'[v][j].since
                    /\ \A u, v \in Threads : \A w \in Windows(u)', x \in Windows(v)' :
                           w.f = x.f => (u = v /\ w = x) \/ Disjoint(w, x)
  BY DEF ExclusiveInv, Disjoint
<1>1. lost = 0 /\ Now \in Nat /\ \A u \in Threads : Follows(Stack(u), frames[u], 0)
  BY WholeStep
<1>2. PICK t \in Threads :
         /\ Retains(t) \/ MovesOn(t) \/ Opens(t) \/ Returns(t)
         /\ \A u \in Threads \ {t} : Passed(u) /\ frames'[u] = frames[u]
         /\ Retains(t) \/ MovesOn(t) => Passed(t)
         /\ Opens(t) => Windows(t)' = Windows(t)
         /\ Returns(t) => Popped(t)
  BY WholeStep
<1>3. /\ \A u, v \in Threads : \A i \in DOMAIN frames[u], j \in DOMAIN frames[v] :
            frames[u][i].f = frames[v][j].f => u = v /\ i = j
      /\ \A u, v \in Threads : \A w \in Windows(u), j \in DOMAIN frames[v] :
            w.f = frames[v][j].f => w.to < frames[v][j].since
      /\ \A u, v \in Threads : \A w \in Windows(u), x \in Windows(v) :
            w.f = x.f => (u = v /\ w = x) \/ Disjoint(w, x)
  BY <1>1 DEF ExclusiveInv
<1>4. FramesInv /\ \A u \in Threads : \A i \in DOMAIN frames[u] : frames[u][i].since \in Nat /\ frames[u][i].since < Now
  BY FramesOf DEF OwnerInv
<1>5. \A u \in Threads : \A w \in Windows(u) : w.from \in Nat /\ w.to \in Nat /\ w.to < Now
  BY DEF OwnerInv, StackInv, StackOK, Window
<1>6. CASE Retains(t) \/ MovesOn(t)
  <2>1. frames' = frames /\ \A u \in Threads : Windows(u)' = Windows(u)
    BY <1>2, <1>6 DEF Retains, MovesOn, Passed
  <2> QED
    BY <1>3, <2>1
<1>7. CASE Opens(t)
  <2>1. PICK f \in Callbacks : Enters(t, f) /\ \A u \in Threads : \A i \in DOMAIN frames[u] : frames[u][i].f # f
    BY <1>7 DEF Opens
  <2> DEFINE n == Len(frames[t])
             New(u, i) == u = t /\ i = n + 1 /\ frames'[u][i].f = f /\ frames'[u][i].since = Now
             Old(u, i) == i \in DOMAIN frames[u] /\ frames'[u][i] = frames[u][i]
  <2>2. \A u \in Threads : \A i \in DOMAIN frames'[u] : New(u, i) \/ Old(u, i)
    <3>1. /\ n \in Nat /\ DOMAIN frames[t] = 1 .. n /\ DOMAIN frames'[t] = 1 .. (n + 1)
          /\ \A i \in 1 .. n : frames'[t][i] = frames[t][i]
          /\ frames'[t][n + 1].since = Now /\ frames'[t][n + 1].f = f
      <4>1. frames'[t][n + 1] = [f |-> f, since |-> Now]
        BY <1>4, <2>1, EntersFrames
      <4>2. n \in Nat /\ DOMAIN frames[t] = 1 .. n
        BY <1>4, FramesOf
      <4>3. DOMAIN frames'[t] = 1 .. (n + 1) /\ \A i \in 1 .. n : frames'[t][i] = frames[t][i]
        BY <1>4, <2>1, EntersFrames
      <4> QED
        BY <4>1, <4>2, <4>3
    <3> HIDE DEF n
    <3>2. \A i \in DOMAIN frames'[t] : New(t, i) \/ Old(t, i)
      BY <3>1
    <3>3. \A u \in Threads \ {t} : \A i \in DOMAIN frames'[u] : Old(u, i)
      BY <1>2
    <3> QED
      BY <3>2, <3>3
  <2>3. \A u \in Threads : \A i : Old(u, i) => frames'[u][i].f # f
    BY <2>1
  <2>4. \A u \in Threads : Windows(u)' = Windows(u)
    BY <1>2, <1>7 DEF Passed
  <2>5. \A u, v \in Threads : \A i \in DOMAIN frames'[u], j \in DOMAIN frames'[v] :
           frames'[u][i].f = frames'[v][j].f => u = v /\ i = j
    <3> SUFFICES ASSUME NEW u \in Threads, NEW v \in Threads,
                        NEW i \in DOMAIN frames'[u], NEW j \in DOMAIN frames'[v],
                        frames'[u][i].f = frames'[v][j].f
                 PROVE  u = v /\ i = j
      OBVIOUS
    <3>1. CASE New(u, i) /\ New(v, j)
      BY <3>1
    <3>2. CASE Old(u, i) /\ Old(v, j)
      BY <1>3, <3>2
    <3> QED
      BY <2>2, <2>3, <3>1, <3>2
  <2>6. \A u, v \in Threads : \A w \in Windows(u)', j \in DOMAIN frames'[v] :
           w.f = frames'[v][j].f => w.to < frames'[v][j].since
    <3> SUFFICES ASSUME NEW u \in Threads, NEW v \in Threads,
                        NEW w \in Windows(u), NEW j \in DOMAIN frames'[v], w.f = frames'[v][j].f
                 PROVE  w.to < frames'[v][j].since
      BY <2>4
    <3>1. CASE New(v, j)
      BY <1>5, <3>1
    <3>2. CASE Old(v, j)
      BY <1>3, <3>2
    <3> QED
      BY <2>2, <3>1, <3>2
  <2> QED
    BY <1>3, <2>4, <2>5, <2>6
<1>8. CASE Returns(t)
  <2> DEFINE n == Len(frames[t])
  <2>1. /\ n \in DOMAIN frames[t] /\ n \notin DOMAIN frames'[t]
        /\ \A k \in DOMAIN frames'[t] : k \in DOMAIN frames[t] /\ frames'[t][k] = frames[t][k]
    BY <1>1, <1>2, <1>8, WhatReturnCloses
  <2>2. PICK z : /\ Windows(t)' = Windows(t) \cup {z}
                 /\ z.f = frames[t][n].f /\ z.from = frames[t][n].since /\ z.to = Now
    BY <1>1, <1>2, <1>8, WhatReturnCloses
  <2> HIDE DEF n
  <2>3. \A u \in Threads : \A i \in DOMAIN frames'[u] :
           i \in DOMAIN frames[u] /\ frames'[u][i] = frames[u][i] /\ ~(u = t /\ i = n)
    BY <1>2, <2>1
  <2>4. \A u \in Threads : \A w \in Windows(u)' : w \in Windows(u) \/ (u = t /\ w = z)
    BY <1>2, <2>2 DEF Passed
  <2>5. \A u \in Threads : \A i \in DOMAIN frames'[u] : frames'[u][i].f # z.f
    BY <1>3, <2>1, <2>2, <2>3
  <2>6. \A u \in Threads : \A w \in Windows(u) : w.f = z.f => w.to < z.from
    BY <1>3, <2>1, <2>2
  <2>7. ASSUME NEW u \in Threads, NEW v \in Threads, NEW w \in Windows(u)', NEW x \in Windows(v)', w.f = x.f
        PROVE  (u = v /\ w = x) \/ Disjoint(w, x)
    BY <1>3, <2>4, <2>6, <2>7 DEF Disjoint
  <2> QED
    BY <1>3, <2>3, <2>4, <2>5, <2>7
<1> QED
  BY <1>2, <1>6, <1>7, <1>8

(* Without nested callbacks the callback that returns is the only one that *)
(* its thread is in, and its window comes after the others.                *)
LEMMA FlatReturn ==
    ASSUME ReadsInv, lost = 0, Flat, NEW t \in Threads, Returns(t), Popped(t),
           Follows(Stack(t), frames[t], 0)
    PROVE  /\ frames'[t] = <<>> /\ 1 \in DOMAIN frames[t]
           /\ \E z : /\ Windows(t)' = Windows(t) \cup {z}
                    /\ z.f = Running(t) /\ z.from = frames[t][1].since /\ z.to = Now
                    /\ \A x \in Windows(t) : x.to < z.from
<1> DEFINE n == Len(frames[t])
<1>1. OwnerInv /\ FramesInv /\ damaged = {}
  BY DEF ReadsInv, OwnerInv, ApartInv
<1>2. /\ n \in DOMAIN frames[t] /\ Len(frames'[t]) = n - 1 /\ n \in Nat /\ Running(t) = frames[t][n].f
      /\ \E z : /\ Windows(t)' = Windows(t) \cup {z}
               /\ z.f = frames[t][n].f /\ z.from = frames[t][n].since /\ z.to = Now
  BY <1>1, WhatReturnCloses
<1>3. n \in Nat \ {0} /\ frames[t] # <<>> /\ frames' \in [Threads -> Seq(Frame)] /\ DOMAIN frames[t] = 1 .. n
  BY <1>1, LeavesFrames DEF Returns, Leaves
<1>4. /\ n <= 2 /\ n # 2
      /\ \A w \in Windows(t) : w.to < frames[t][1].since
  BY <1>1, <1>3 DEF ReadsInv, ShallowInv, Shallow
<1>5. n = 1
  <2> HIDE DEF n
  <2> QED
    BY <1>3, <1>4
<1>6. frames'[t] = <<>>
  <2>1. Len(frames'[t]) = 0 /\ frames'[t] \in Seq(Frame)
    BY <1>2, <1>3, <1>5
  <2> QED
    BY <2>1
<1> QED
  BY <1>2, <1>4, <1>5, <1>6

(* ReturnedInv is inductive.                                               *)
LEMMA ReturnedKept ==
    ASSUME ReadsInv, ReturnedInv, Next
    PROVE  ReturnedInv'
<1>1. DOMAIN returned' = Threads
  BY WhatReturns DEF ReturnedInv, Retains, MovesOn, Opens, Returns, Passes
<1>2. ASSUME lost' = 0, Flat', NEW u \in Threads, returned'[u] # NoSample
      PROVE  /\ frames'[u] = <<>>
             /\ \E w \in Windows(u)' : w.f = returned'[u][1] /\ \A x \in Windows(u)' \ {w} : x.to < w.from
  <2>1. FramesInv /\ OwnerInv /\ StackInv
    BY DEF ReadsInv, OwnerInv
  <2>2. lost = 0 /\ Flat /\ \A v \in Threads : Follows(Stack(v), frames[v], 0)
    BY <1>2, <2>1, WholeStep, FlatGoesBack
  <2>3. PICK t \in Threads :
           /\ Retains(t) \/ MovesOn(t) \/ Opens(t) \/ Returns(t)
           /\ \A v \in Threads \ {t} : Passed(v) /\ frames'[v] = frames[v]
           /\ Returns(t) => Popped(t)
    BY <1>2, <2>1, WholeStep
  <2>4. CASE u # t
    <3>1. Passed(u) /\ frames'[u] = frames[u]
      BY <2>3, <2>4
    <3>2. returned'[u] = returned[u]
      BY <2>3, <2>4 DEF ReturnedInv, Retains, MovesOn, Opens, Returns, Passes
    <3> QED
      BY <1>2, <2>2, <3>1, <3>2 DEF ReturnedInv, Passed
  <2>5. CASE u = t
    <3>1. Returns(t)
      BY <1>2, <2>3, <2>5 DEF ReturnedInv, Retains, MovesOn, Opens, Passes
    <3>2. returned'[t][1] = Running(t)
      BY <1>2, <2>5, <3>1 DEF ReturnedInv, Returns
    <3>3. /\ frames'[t] = <<>>
          /\ \E z : /\ Windows(t)' = Windows(t) \cup {z}
                   /\ z.f = Running(t) /\ z.from = frames[t][1].since /\ z.to = Now
                   /\ \A x \in Windows(t) : x.to < z.from
      BY <2>2, <2>3, <3>1, FlatReturn
    <3> QED
      BY <2>5, <3>2, <3>3
  <2> QED
    BY <2>4, <2>5
<1> QED
  BY <1>1, <1>2 DEF ReturnedInv

(* RetainsInv is inductive: a retain event comes between the callback that *)
(* has returned and the next one of its thread.                            *)
LEMMA RetainsKept ==
    ASSUME ReadsInv, ReturnedInv, RetainsInv, Next
    PROVE  RetainsInv'
<1> SUFFICES ASSUME lost' = 0, Flat', NEW i \in DOMAIN trace', NEW d, d = trace'[i], d.kind = "retain",
                    NEW u, u = d.thread
             PROVE  d.by = None /\ \E w \in Windows(u)' : Precedes(w, d, Windows(u)')
  BY DEF RetainsInv, Precedes
<1>1. FramesInv /\ OwnerInv /\ EventsInv /\ StackInv /\ Now \in Nat
  BY NowIsNat DEF ReadsInv, OwnerInv
<1>2. lost = 0 /\ Flat /\ \A v \in Threads : Follows(Stack(v), frames[v], 0)
  BY <1>1, WholeStep, FlatGoesBack
<1>3. PICK t \in Threads :
         /\ Retains(t) \/ MovesOn(t) \/ Opens(t) \/ Returns(t)
         /\ \E e : Appends(e, t)
         /\ \A v \in Threads \ {t} : Passed(v) /\ frames'[v] = frames[v]
         /\ Retains(t) \/ MovesOn(t) => Passed(t)
         /\ Opens(t) => Windows(t)' = Windows(t)
         /\ Returns(t) => Popped(t)
  BY <1>1, WholeStep
<1>4. ASSUME NEW j \in DOMAIN trace, d = trace[j]
      PROVE  d.by = None /\ \E w \in Windows(u)' : Precedes(w, d, Windows(u)')
  <2>1. d.by = None /\ \E w \in Windows(u) : Precedes(w, d, Windows(u))
    BY <1>2, <1>4 DEF RetainsInv
  <2>2. u \in Threads
    BY <1>1, <1>4, EventOf
  <2>3. CASE Windows(u)' = Windows(u)
    BY <2>1, <2>3
  <2>4. CASE u = t /\ Returns(t)
    <3>1. 1 \in DOMAIN frames[t] /\ \E z : Windows(t)' = Windows(t) \cup {z} /\ z.from = frames[t][1].since
      BY <1>2, <1>3, <2>4, FlatReturn
    <3>2. PICK z : Windows(t)' = Windows(t) \cup {z} /\ z.from = frames[t][1].since
      BY <3>1
    <3>3. frames[t][1].since \in Nat \ {0}
      BY <1>1, <3>1, FramesOf
    <3>4. d.at < z.from
      <4>1. /\ d.at \in Nat /\ d.since \in Nat /\ (d.by = None <=> d.since = 0) /\ FitsFrames(d, frames[t])
        BY <1>1, <1>4, <2>4, EventOf DEF Shown
      <4>2. d.at >= frames[t][1].since => d.since >= frames[t][1].since
        BY <3>1, <4>1 DEF FitsFrames
      <4> QED
        BY <2>1, <3>2, <3>3, <4>1, <4>2
    <3> QED
      BY <2>1, <2>4, <3>2, <3>4 DEF Precedes
  <2> QED
    BY <1>3, <2>2, <2>3, <2>4 DEF Passed
<1>5. ASSUME NEW e, Appends(e, t), d = e
      PROVE  d.by = None /\ \E w \in Windows(u)' : Precedes(w, d, Windows(u)')
  <2>1. Retains(t) /\ d.what = returned[t][1]
    <3>1. \A x : Appends(x, t) => x = d
      <4>1. \A x : Appends(x, t) => x = trace'[Len(trace) + 1]
        BY <1>1, TraceGrows
      <4> QED
        BY <1>5, <4>1
    <3>2. ~MovesOn(t)
      BY <3>1 DEF MovesOn
    <3>3. \A x : ~Loses(x)
      BY <1>2 DEF Loses
    <3>4. ~Opens(t) /\ ~Returns(t)
      BY <3>1, <3>3 DEF Opens, Returns
    <3> QED
      BY <1>3, <3>1, <3>2, <3>4 DEF Retains
  <2>2. returned[t] # NoSample /\ frames[t] = <<>>
    BY <1>2, <2>1 DEF Retains, ReturnedInv
  <2>3. PICK w \in Windows(t) : w.f = returned[t][1] /\ \A x \in Windows(t) \ {w} : x.to < w.from
    BY <1>2, <2>2 DEF ReturnedInv
  <2>4. u = t /\ d.at = Now /\ d.by = None
    BY <1>5, <2>2 DEF Appends, NewEvent, Running
  <2>5. w.to < Now
    BY <1>1 DEF StackInv, StackOK
  <2>6. Windows(t)' = Windows(t)
    BY <1>3, <2>1 DEF Passed
  <2> QED
    BY <2>1, <2>3, <2>4, <2>5, <2>6 DEF Precedes
<1> QED
  BY <1>1, <1>3, <1>4, <1>5, TraceGrows

(* The inductive invariant for pointers.                                   *)
PointersInv == ReadsInv /\ OrderInv /\ ExclusiveInv /\ ReturnedInv /\ RetainsInv

(* PointersInv is inductive.                                               *)
LEMMA PointersInvKept ==
    ASSUME PointersInv, [Next]_vars
    PROVE  PointersInv'
<1>1. ReadsInv'
  BY ReadsInvKept DEF PointersInv
<1>2. CASE Next
  <2>1. OrderInv' /\ ExclusiveInv'
    BY <1>2, OrderKept, ExclusiveKept DEF PointersInv, ReadsInv, OwnerInv
  <2>2. ReturnedInv' /\ RetainsInv'
    BY <1>2, ReturnedKept, RetainsKept DEF PointersInv
  <2> QED
    BY <1>1, <2>1, <2>2 DEF PointersInv
<1>3. CASE UNCHANGED vars
  <2>1. UNCHANGED <<trace, frames, lost, returned>>
    BY <1>3 DEF vars
  <2>2. OrderInv' /\ ExclusiveInv' /\ ReturnedInv' /\ RetainsInv'
    BY <2>1 DEF PointersInv, OrderInv, ExclusiveInv, Disjoint, ReturnedInv, RetainsInv, Precedes, Flat, Windows
  <2> QED
    BY <1>1, <2>2 DEF PointersInv
<1> QED
  BY <1>2, <1>3

(* PointersInv holds at the start.                                         *)
LEMMA PointersInvInit ==
    ASSUME Init
    PROVE  PointersInv
<1>1. /\ trace = <<>> /\ lost = 0 /\ \A t \in Threads : frames[t] = <<>>
      /\ returned = [t \in Threads |-> NoSample]
  BY DEF Init
<1>2. OrderInv /\ ReturnedInv /\ RetainsInv
  BY <1>1 DEF OrderInv, ReturnedInv, RetainsInv
<1>3. ExclusiveInv
  <2>1. \A t \in Threads : Windows(t) = {}
    BY <1>1, WalkOfNothing DEF Windows, NoWindows
  <2> QED
    BY <1>1, <2>1 DEF ExclusiveInv
<1> QED
  BY <1>2, <1>3, ReadsInvInit DEF PointersInv

(* owner_before names the callback that a retain event names, or none.     *)
LEMMA PrecedingIs ==
    ASSUME PointersInv, lost = 0, Flat, NEW i \in DOMAIN trace, NEW e, e = trace[i], e.kind = "retain"
    PROVE  OwnerOf(e) = None /\ OwnerBefore(e.thread, e.at) \in {None, e.what}
<1> DEFINE W == Windows(e.thread)
           Ended == {w \in W : w.to <= e.at /\ e.at <= w.to + RetainSlack}
           Begun == {w \in W : w.from <= e.at}
           Seen == {w \in Ended : Cardinality({x \in Begun : x.from > w.from}) < LookBack}
<1>1. e.by = None /\ \E w \in W : Precedes(w, e, W)
  BY DEF PointersInv, RetainsInv
<1>2. OwnerOf(e) = None
  BY <1>1, FlatOwners DEF PointersInv, Shown
<1>3. PICK w \in W : Precedes(w, e, W)
  BY <1>1
<1>4. /\ e.at \in Nat /\ e.thread \in Threads
      /\ \A x \in W : x.from \in Nat /\ x.to \in Nat /\ x.from < x.to
  <2>1. e.at \in Nat /\ e.thread \in Threads
    BY EventOf DEF PointersInv, ReadsInv, OwnerInv
  <2> QED
    BY <2>1 DEF PointersInv, ReadsInv, OwnerInv, StackInv, StackOK, Window
<1>5. RetainSlack \in Nat /\ LookBack \in Nat \ {0}
  BY CallbackFlowAssumption
<1>6. OwnerBefore(e.thread, e.at) =
         IF Seen = {} THEN None ELSE (CHOOSE x \in Seen : \A y \in Seen : y.from <= x.from).f
  BY DEF OwnerBefore
<1> HIDE DEF W
<1>7. w.f = e.what /\ w.to < e.at /\ \A x \in W : x = w \/ x.to < w.from \/ e.at < x.from
  BY <1>3 DEF Precedes
<1>8. \A x \in Ended : x = w \/ x.to < w.from
  BY <1>4, <1>7
<1>9. ASSUME Seen # {}
      PROVE  w \in Seen
  <2>1. PICK z \in Ended : TRUE
    BY <1>9
  <2>2. w \in Ended
    BY <1>3, <1>4, <1>5, <1>7, <1>8, <2>1
  <2>3. {x \in Begun : x.from > w.from} = {}
    BY <1>4, <1>7
  <2>4. Cardinality({x \in Begun : x.from > w.from}) < LookBack
    BY <1>5, <2>3, FS_EmptySet
  <2> QED
    BY <2>2, <2>4
<1>10. \A x \in Seen : x = w \/ x.from < w.from
  BY <1>4, <1>8
<1>11. \A x \in Seen : x.from \in Nat
  BY <1>4
<1> HIDE DEF Seen
<1>12. ASSUME Seen # {}
       PROVE  (CHOOSE x \in Seen : \A y \in Seen : y.from <= x.from) = w
  <2> DEFINE c == CHOOSE x \in Seen : \A y \in Seen : y.from <= x.from
  <2>1. w \in Seen /\ \A y \in Seen : y.from <= w.from
    BY <1>9, <1>10, <1>11, <1>12
  <2>2. c \in Seen /\ \A y \in Seen : y.from <= c.from
    BY <2>1
  <2> HIDE DEF c
  <2> QED
    BY <1>10, <1>11, <2>1, <2>2 DEF c
<1> QED
  BY <1>2, <1>6, <1>7, <1>12

(* The window of an event that owner gives to a callback.                  *)
LEMMA OwnWindow ==
    ASSUME ReadsInv, lost = 0, Flat, NEW i \in DOMAIN trace, NEW e, e = trace[i], Shown(e), OwnerOf(e) # None
    PROVE  /\ OwnerOf(e) = e.by
           /\ \E w \in Windows(e.thread) :
                 /\ Inside(e, w) /\ w.from = e.since /\ w.f = e.by /\ w.f \in Callbacks
                 /\ w.from \in Nat /\ w.to \in Nat
                 /\ WindowEnd(e.thread, e.at) = {w.to}
<1> DEFINE W == Windows(e.thread)
           Begun == {w \in W : w.from <= e.at}
           Seen == {w \in Begun : Cardinality({x \in Begun : x.from > w.from}) < LookBack}
           Around == {w \in Seen : e.at <= w.to}
           Latest == {w \in Begun : \A x \in Begun : x.from <= w.from}
<1>1. OwnerOf(e) = e.by /\ e.by # None
  BY FlatOwners
<1>2. Around # {}
  <2>1. OwnerOf(e) = IF Around = {} THEN None
                     ELSE (CHOOSE w \in Around : \A x \in Around : x.from <= w.from).f
    BY DEF OwnerOf, Owner
  <2> HIDE DEF Around
  <2> QED
    BY <2>1
<1>3. PICK w \in W : Inside(e, w)
  BY <1>2 DEF Inside
<1>4. Fits(e, W, Entries(e.thread))
  BY DEF ReadsInv, FitsInv
<1>5. w.from = e.since /\ w.f = e.by
  BY <1>3, <1>4 DEF Fits
<1>6. /\ e.thread \in Threads /\ e.at \in Nat /\ e.since \in Nat
      /\ \A x \in W : x.f \in Callbacks /\ x.from \in Nat /\ x.to \in Nat
      /\ \A x, y \in W : x.from = y.from => x = y
  <2>1. e.thread \in Threads /\ e.at \in Nat /\ e.since \in Nat
    BY EventOf DEF ReadsInv, OwnerInv
  <2> QED
    BY <2>1 DEF ReadsInv, OwnerInv, StackInv, StackOK, Window
<1>7. \A x \in W : x.from <= e.at => x.from <= e.since
  <2>1. \A x \in W : <<x.f, x.from>> \in Entries(e.thread) /\ <<x.f, x.from>>[2] = x.from
    BY DEF Entries
  <2>2. \A x \in W : ~(e.since < x.from /\ x.from <= e.at)
    BY <1>1, <1>4, <2>1 DEF Fits
  <2> QED
    BY <1>6, <2>2
<1>8. WindowEnd(e.thread, e.at) = {x.to : x \in {y \in Latest : e.at <= y.to}}
  BY DEF WindowEnd
<1> HIDE DEF W
<1>9. Latest = {w}
  <2>1. w \in Begun
    BY <1>3 DEF Inside
  <2>2. \A x \in Begun : x.from <= w.from
    BY <1>5, <1>7
  <2>3. \A x \in Latest : x = w
    BY <1>6, <2>1, <2>2
  <2> QED
    BY <2>1, <2>2, <2>3
<1>10. WindowEnd(e.thread, e.at) = {w.to}
  <2>1. {y \in Latest : e.at <= y.to} = {w}
    BY <1>3, <1>9 DEF Inside
  <2> QED
    BY <1>8, <2>1
<1> QED
  BY <1>1, <1>3, <1>5, <1>6, <1>10 DEF W

(* What the property says of a hold, for an event that retains a message.  *)
Key(e) == <<e.what, e.sample>>
ReleasesOf(r) == {x \in Recorded("release") : x.what = r.what /\ x.sample = r.sample /\ x.at > r.at}
HoldEnds(r) == {x \in ReleasesOf(r) : \A y \in ReleasesOf(r) : x.at <= y.at}
MayRead(r, e) ==
    /\ e.at > r.at
    /\ \E x \in HoldEnds(r) : IF e.at < x.at THEN NodeOf[e.by] = NodeOf[r.what]
                              ELSE e.by = x.by /\ e.since = x.since
RealRead(p) ==
    \E r \in Recorded("retain"), e \in Recorded("publish") :
        p = <<r.what, e.by, r.at, e.at>> /\ e.by # r.what /\ MayRead(r, e)
RealDrop(d) ==
    \E r \in Recorded("retain") :
        /\ d[1] = r.what /\ d[3] = r.at
        /\ \A e \in Recorded("publish") : Intact(e) /\ e.by \notin {None, r.what} => ~MayRead(r, e)

(* A hold that the first i events leave: nothing has released it yet.      *)
IsHeld(h, i) ==
    \E j \in 1 .. i :
        /\ trace[j].kind = "retain" /\ h.key = Key(trace[j]) /\ h.f = trace[j].what /\ h.at = trace[j].at
        /\ \A k \in (j + 1) .. i : ~(trace[k].kind = "release" /\ Key(trace[k]) = h.key)

(* Events at one time are one event.                                       *)
LEMMA OneAtATime ==
    ASSUME PointersInv, NEW i \in DOMAIN trace, NEW j \in DOMAIN trace
    PROVE  /\ trace[i].at \in Nat /\ i \in Nat /\ j \in Nat
           /\ trace[i].at = trace[j].at => i = j
           /\ trace[i].at < trace[j].at <=> i < j
<1>1. trace[i].at \in Nat /\ trace[j].at \in Nat
  BY EventOf DEF PointersInv, ReadsInv, OwnerInv
<1>2. i \in Nat /\ j \in Nat
  BY DEF PointersInv, ReadsInv, OwnerInv, FramesInv
<1>3. (i < j => trace[i].at < trace[j].at) /\ (j < i => trace[j].at < trace[i].at)
  BY DEF PointersInv, OrderInv
<1> QED
  BY <1>1, <1>2, <1>3

(* A release ends the hold that it finds.                                  *)
LEMMA ReleaseEnds ==
    ASSUME PointersInv, NEW i \in Nat, i + 1 \in DOMAIN trace, NEW x, x = trace[i + 1], x.kind = "release",
           NEW h, IsHeld(h, i), h.key = Key(x)
    PROVE  \E r \in Recorded("retain") :
              h.f = r.what /\ h.at = r.at /\ HoldEnds(r) = {x}
<1>1. PICK j \in 1 .. i :
         /\ trace[j].kind = "retain" /\ h.key = Key(trace[j]) /\ h.f = trace[j].what /\ h.at = trace[j].at
         /\ \A k \in (j + 1) .. i : ~(trace[k].kind = "release" /\ Key(trace[k]) = h.key)
  BY DEF IsHeld
<1> DEFINE r == trace[j]
<1>2. DOMAIN trace = 1 .. Len(trace) /\ Len(trace) \in Nat
  BY DEF PointersInv, ReadsInv, OwnerInv, FramesInv
<1>3. j \in DOMAIN trace /\ j < i + 1
  BY <1>2
<1>4. r.at \in Nat /\ x.at \in Nat /\ r.at < x.at
  BY <1>3, OneAtATime
<1>5. r \in Recorded("retain") /\ x \in Recorded("release")
  BY <1>1, <1>3 DEF Recorded
<1>6. x \in ReleasesOf(r)
  BY <1>1, <1>4, <1>5 DEF ReleasesOf, Key
<1>7. ASSUME NEW y \in ReleasesOf(r)
      PROVE  x.at <= y.at /\ (x.at = y.at => x = y) /\ y.at \in Nat
  <2>1. PICK k \in DOMAIN trace : y = trace[k] /\ trace[k].kind = "release"
    BY <1>7 DEF ReleasesOf, Recorded
  <2>2. Key(y) = h.key /\ y.at > r.at
    BY <1>1, <1>7 DEF ReleasesOf, Key
  <2>3. j < k /\ k \in Nat /\ y.at \in Nat
    BY <1>3, <1>4, <2>1, <2>2, OneAtATime
  <2>4. k \notin (j + 1) .. i
    BY <1>1, <2>1, <2>2
  <2>5. k = i + 1 \/ i + 1 < k
    BY <2>3, <2>4
  <2> QED
    BY <1>4, <2>1, <2>3, <2>5, OneAtATime
<1>8. HoldEnds(r) = {x}
  <2>1. x \in HoldEnds(r)
    BY <1>6, <1>7 DEF HoldEnds
  <2>2. ASSUME NEW y \in HoldEnds(r)
        PROVE  y = x
    <3>1. y \in ReleasesOf(r) /\ y.at <= x.at
      BY <1>6, <2>2 DEF HoldEnds
    <3> QED
      BY <1>4, <1>7, <3>1
  <2> QED
    BY <2>1, <2>2
<1> QED
  BY <1>1, <1>4, <1>5, <1>8

(* A publication that owner gives to a callback is one of that callback,   *)
(* and two events of one callback in one window are of the same run.       *)
LEMMA PublicationsOf ==
    ASSUME PointersInv, lost = 0, Flat, NEW d \in Recorded("publish")
    PROVE  /\ OwnerOf(d) # None => OwnerOf(d) = d.by /\ d.by \in Callbacks
           /\ d.by # None /\ Intact(d) => OwnerOf(d) = d.by /\ d.by \in Callbacks
           /\ d.at \in Nat
           /\ \A r \in Recorded("retain") \cup Recorded("release") : d.at # r.at
<1>1. PICK i \in DOMAIN trace : d = trace[i] /\ d.kind = "publish"
  BY DEF Recorded
<1>2. Shown(d) /\ d.at \in Nat
  BY <1>1, OneAtATime DEF Shown
<1>3. OwnerOf(d) # None => OwnerOf(d) = d.by /\ d.by \in Callbacks
  BY <1>1, <1>2, OwnWindow DEF PointersInv
<1>4. Intact(d) => OwnerOf(d) = d.by
  BY <1>1, <1>2, FlatOwners DEF PointersInv
<1>5. ASSUME NEW r \in Recorded("retain") \cup Recorded("release")
      PROVE  d.at # r.at
  <2>1. PICK j \in DOMAIN trace : r = trace[j] /\ r.kind \in {"retain", "release"}
    BY DEF Recorded
  <2>2. d # r
    BY <1>1, <2>1
  <2> QED
    BY <1>1, <2>1, <2>2, OneAtATime
<1> QED
  BY <1>2, <1>3, <1>4, <1>5

(* Whom a release names did read or could have read.                       *)
LEMMA ReadersAreReal ==
    ASSUME PointersInv, lost = 0, Flat, NEW x \in Recorded("release"),
           NEW r \in Recorded("retain"), NEW h, h.f = r.what, h.at = r.at,
           HoldEnds(r) = {x}, NEW p \in HeldAtPublish(h, x.at) \cup ReleasedByPublisher(h, x)
    PROVE  RealRead(p)
<1>1. PICK i \in DOMAIN trace : x = trace[i] /\ x.kind = "release"
  BY DEF Recorded
<1>2. x.at \in Nat /\ r.at \in Nat /\ x.at > r.at
  <2>1. \E j \in DOMAIN trace : r = trace[j]
    BY DEF Recorded
  <2>2. x.at > r.at
    BY DEF HoldEnds, ReleasesOf
  <2> QED
    BY <1>1, <2>1, <2>2, OneAtATime
<1>3. CASE p \in HeldAtPublish(h, x.at)
  <2>1. PICK v \in {c \in Callbacks : c # h.f /\ NodeOf[c] = NodeOf[h.f]} :
           \E n \in FirstBetween(v, h.at, x.at) : p = <<h.f, v, h.at, n>>
    BY <1>3 DEF HeldAtPublish
  <2>2. PICK n \in FirstBetween(v, h.at, x.at) : p = <<h.f, v, h.at, n>>
    BY <2>1
  <2>3. PICK d \in Recorded("publish") : OwnerOf(d) = v /\ d.at >= h.at /\ d.at = n /\ n <= x.at
    BY <2>2 DEF FirstBetween
  <2>4. d.by = v /\ d.at \in Nat /\ d.at # r.at /\ d.at # x.at
    BY <2>1, <2>3, PublicationsOf, RosTraceAssumption
  <2>5. MayRead(r, d)
    BY <1>2, <2>1, <2>3, <2>4 DEF MayRead
  <2> QED
    BY <2>1, <2>2, <2>3, <2>4, <2>5 DEF RealRead
<1>4. CASE p \in ReleasedByPublisher(h, x)
  <2> DEFINE f == OwnerOf(x)
  <2>1. f # None /\ f # h.f
        /\ \E to \in WindowEnd(x.thread, x.at) : \E n \in FirstBetween(f, x.at, to) : p = <<h.f, f, h.at, n>>
    BY <1>4 DEF ReleasedByPublisher
  <2>2. Shown(x)
    BY <1>1 DEF Shown
  <2>3. /\ f = x.by
        /\ \E w \in Windows(x.thread) :
              /\ Inside(x, w) /\ w.from = x.since /\ w.f = x.by /\ w.f \in Callbacks
              /\ w.from \in Nat /\ w.to \in Nat
              /\ WindowEnd(x.thread, x.at) = {w.to}
    BY <1>1, <2>1, <2>2, OwnWindow DEF PointersInv
  <2> HIDE DEF f
  <2>4. PICK w \in Windows(x.thread) :
              /\ Inside(x, w) /\ w.from = x.since /\ w.f = x.by /\ w.f \in Callbacks
              /\ w.from \in Nat /\ w.to \in Nat
              /\ WindowEnd(x.thread, x.at) = {w.to}
    BY <2>3
  <2>5. PICK n \in FirstBetween(f, x.at, w.to) : p = <<h.f, f, h.at, n>>
    BY <2>1, <2>4
  <2>6. PICK d \in Recorded("publish") : OwnerOf(d) = f /\ d.at >= x.at /\ d.at = n /\ n <= w.to
    BY <2>5 DEF FirstBetween
  <2>7. d.by = f /\ d.at \in Nat
    BY <2>1, <2>6, PublicationsOf
  <2>8. PICK j \in DOMAIN trace : d = trace[j] /\ d.kind = "publish"
    BY DEF Recorded
  <2>9. PICK z \in Windows(d.thread) :
           Inside(d, z) /\ z.from = d.since /\ z.f = d.by /\ z.from \in Nat /\ z.to \in Nat
    <3>1. Shown(d)
      BY <2>8 DEF Shown
    <3> QED
      BY <2>1, <2>6, <2>8, <3>1, OwnWindow DEF PointersInv
  <2>10. d.since = x.since
    <3>1. x.thread \in Threads /\ d.thread \in Threads
      BY <1>1, <2>8, EventOf DEF PointersInv, ReadsInv, OwnerInv
    <3>2. (x.thread = d.thread /\ w = z) \/ Disjoint(w, z)
      BY <2>3, <2>4, <2>7, <2>9, <3>1 DEF PointersInv, ExclusiveInv
    <3>3. ~Disjoint(w, z)
      BY <1>2, <2>4, <2>6, <2>7, <2>9 DEF Disjoint, Inside
    <3> QED
      BY <2>4, <2>9, <3>2, <3>3
  <2>11. MayRead(r, d)
    BY <1>2, <2>3, <2>6, <2>7, <2>10 DEF MayRead
  <2> QED
    BY <2>1, <2>5, <2>6, <2>7, <2>11 DEF RealRead
<1> QED
  BY <1>3, <1>4

(* The first of a callback's publications is found, if there is one.       *)
LEMMA FirstIsFound ==
    ASSUME PointersInv, lost = 0, Flat, NEW d \in Recorded("publish"), NEW f, OwnerOf(d) = f,
           NEW from \in Nat, NEW to \in Nat, from <= d.at, d.at <= to
    PROVE  FirstBetween(f, from, to) # {}
<1> DEFINE P == {e.at : e \in {y \in Recorded("publish") : OwnerOf(y) = f /\ y.at >= from}}
<1>1. P \subseteq Nat /\ d.at \in P
  BY PublicationsOf
<1>2. FirstBetween(f, from, to) = {n \in P : n <= to /\ \A q \in P : n <= q}
  BY DEF FirstBetween
<1> HIDE DEF P
<1>3. PICK n \in P : \A q \in P : n <= q
  BY <1>1, LeastExists
<1>4. n \in Nat /\ d.at \in Nat /\ n <= d.at
  BY <1>1, <1>3
<1>5. n <= to
  BY <1>4
<1> QED
  BY <1>2, <1>3, <1>5

(* When a release finds no reader nobody could have read.                  *)
LEMMA DropsAreReal ==
    ASSUME PointersInv, lost = 0, Flat, NEW x \in Recorded("release"),
           NEW r \in Recorded("retain"), NEW h, h.f = r.what, h.at = r.at,
           HoldEnds(r) = {x}, HeldAtPublish(h, x.at) \cup ReleasedByPublisher(h, x) = {},
           OwnerOf(x) # None
    PROVE  RealDrop(<<h.f, OwnerOf(x), h.at>>)
<1> SUFFICES ASSUME NEW e \in Recorded("publish"), Intact(e), e.by \notin {None, r.what}, MayRead(r, e)
             PROVE  FALSE
  BY DEF RealDrop
<1>1. PICK i \in DOMAIN trace : x = trace[i] /\ x.kind = "release"
  BY DEF Recorded
<1>2. x.at \in Nat /\ r.at \in Nat /\ x.at > r.at
  <2>1. \E j \in DOMAIN trace : r = trace[j]
    BY DEF Recorded
  <2>2. x.at > r.at
    BY DEF HoldEnds, ReleasesOf
  <2> QED
    BY <1>1, <2>1, <2>2, OneAtATime
<1>3. OwnerOf(e) = e.by /\ e.by \in Callbacks /\ e.at \in Nat /\ e.at # x.at /\ e.at > r.at
  BY PublicationsOf DEF MayRead
<1>4. IF e.at < x.at THEN NodeOf[e.by] = NodeOf[r.what] ELSE e.by = x.by /\ e.since = x.since
  BY DEF MayRead
<1>5. CASE e.at < x.at
  <2>1. FirstBetween(e.by, h.at, x.at) # {}
    BY <1>2, <1>3, <1>5, FirstIsFound
  <2>2. e.by \in {c \in Callbacks : c # h.f /\ NodeOf[c] = NodeOf[h.f]}
    BY <1>3, <1>4, <1>5
  <2>3. HeldAtPublish(h, x.at) # {}
    <3>1. PICK n \in FirstBetween(e.by, h.at, x.at) : TRUE
      BY <2>1
    <3>2. <<h.f, e.by, h.at, n>> \in HeldAtPublish(h, x.at)
      BY <2>2, <3>1 DEF HeldAtPublish
    <3> QED
      BY <3>2
  <2> QED
    BY <2>3
<1>6. CASE ~(e.at < x.at)
  <2>1. /\ OwnerOf(x) = x.by
        /\ \E w \in Windows(x.thread) :
              /\ Inside(x, w) /\ w.from = x.since /\ w.f = x.by
              /\ w.from \in Nat /\ w.to \in Nat
              /\ WindowEnd(x.thread, x.at) = {w.to}
    BY <1>1, OwnWindow DEF PointersInv, Shown
  <2>2. PICK w \in Windows(x.thread) :
              /\ Inside(x, w) /\ w.from = x.since /\ w.f = x.by
              /\ w.from \in Nat /\ w.to \in Nat
              /\ WindowEnd(x.thread, x.at) = {w.to}
    BY <2>1
  <2>3. PICK j \in DOMAIN trace : e = trace[j] /\ e.kind = "publish"
    BY DEF Recorded
  <2>4. PICK z \in Windows(e.thread) :
           Inside(e, z) /\ z.from = e.since /\ z.f = e.by /\ z.from \in Nat /\ z.to \in Nat
    <3>1. Shown(e) /\ OwnerOf(e) # None
      BY <1>3, <2>3 DEF Shown
    <3> QED
      BY <2>3, <3>1, OwnWindow DEF PointersInv
  <2>5. e.at <= w.to
    <3>1. x.thread \in Threads /\ e.thread \in Threads
      BY <1>1, <2>3, EventOf DEF PointersInv, ReadsInv, OwnerInv
    <3>2. (x.thread = e.thread /\ w = z) \/ Disjoint(w, z)
      BY <1>4, <1>6, <2>2, <2>4, <3>1 DEF PointersInv, ExclusiveInv
    <3>3. ~Disjoint(w, z)
      BY <1>2, <1>3, <1>4, <1>6, <2>2, <2>4 DEF Disjoint, Inside
    <3> QED
      BY <2>4, <3>2, <3>3 DEF Inside
  <2>6. FirstBetween(x.by, x.at, w.to) # {}
    BY <1>2, <1>3, <1>4, <1>6, <2>2, <2>5, FirstIsFound
  <2>7. OwnerOf(x) \notin {None, h.f}
    BY <1>4, <1>6, <2>1
  <2>8. ReleasedByPublisher(h, x) # {}
    <3>1. PICK n \in FirstBetween(x.by, x.at, w.to) : TRUE
      BY <2>6
    <3>2. <<h.f, x.by, h.at, n>> \in ReleasedByPublisher(h, x)
      BY <2>1, <2>2, <2>7, <3>1 DEF ReleasedByPublisher
    <3> QED
      BY <3>2
  <2> QED
    BY <2>8
<1> QED
  BY <1>5, <1>6

(* What the book of _join_state_evidence says of pointers is right after   *)
(* every event.                                                            *)
LEMMA PointersFollow ==
    ASSUME PointersInv, lost = 0, Flat
    PROVE  /\ \A p \in PointerEvidence.found : RealRead(p)
           /\ \A d \in PointerEvidence.drops : RealDrop(d)
<1> DEFINE n == Len(trace)
<1>1. n \in Nat /\ DOMAIN trace = 1 .. n
  BY DEF PointersInv, ReadsInv, OwnerInv, FramesInv
<1>2. PICK b : Books("pointers", n, b) /\ PointerEvidence = b[n]
  BY <1>1, EvidenceIsBooked
<1> DEFINE Right(i) == /\ \A h \in b[i].held : IsHeld(h, i)
                       /\ \A p \in b[i].found : RealRead(p)
                       /\ \A d \in b[i].drops : RealDrop(d)
           S == {i \in Nat : i <= n => Right(i)}
<1>3. 0 \in S
  <2>1. b[0] = NoHolds
    BY <1>1, <1>2 DEF Books, Blank
  <2>2. b[0].held = {} /\ b[0].found = {} /\ b[0].drops = {}
    BY <2>1 DEF NoHolds
  <2> QED
    BY <2>2
<1>4. ASSUME NEW i \in Nat, i \in S
      PROVE  i + 1 \in S
  <2> SUFFICES ASSUME i + 1 <= n
               PROVE  Right(i + 1)
    OBVIOUS
  <2> DEFINE e == trace[i + 1]
  <2>1. Right(i) /\ i + 1 \in 0 .. n /\ i + 1 # 0 /\ (i + 1) - 1 = i /\ i + 1 \in DOMAIN trace
    BY <1>1, <1>4
  <2>2. b[i + 1] = Noted(b[i], e)
    BY <1>2, <2>1 DEF Books, Booked
  <2>3. e.kind = "retain" => OwnerOf(e) = None /\ OwnerBefore(e.thread, e.at) \in {None, e.what}
    BY <2>1, PrecedingIs
  <2> HIDE DEF S, e, n
  <2>4. ASSUME NEW h, IsHeld(h, i), ~(e.kind = "release" /\ Key(e) = h.key)
        PROVE  IsHeld(h, i + 1)
    <3>1. PICK j \in 1 .. i :
             /\ trace[j].kind = "retain" /\ h.key = Key(trace[j]) /\ h.f = trace[j].what /\ h.at = trace[j].at
             /\ \A k \in (j + 1) .. i : ~(trace[k].kind = "release" /\ Key(trace[k]) = h.key)
      BY <2>4 DEF IsHeld
    <3>2. j \in 1 .. (i + 1) /\ \A k \in (j + 1) .. (i + 1) : k \in (j + 1) .. i \/ k = i + 1
      OBVIOUS
    <3>3. \A k \in (j + 1) .. (i + 1) : ~(trace[k].kind = "release" /\ Key(trace[k]) = h.key)
      BY <2>4, <3>1, <3>2 DEF e
    <3> QED
      BY <3>1, <3>2, <3>3 DEF IsHeld
  <2> DEFINE OfMessage == {h \in b[i].held : h.key = <<e.what, e.sample>>}
  <2>5. CASE e.kind \notin {"retain", "release"}
    <3>1. b[i + 1] = b[i]
      BY <2>2, <2>5 DEF Noted
    <3>2. \A h \in b[i].held : IsHeld(h, i + 1)
      BY <2>1, <2>4, <2>5
    <3> QED
      BY <2>1, <3>1, <3>2
  <2>6. CASE e.kind = "retain"
    <3> DEFINE f == OwnerBefore(e.thread, e.at)
               g == [key |-> <<e.what, e.sample>>, f |-> f, at |-> e.at]
    <3>1. b[i + 1] = [b[i] EXCEPT !.held = IF f = None THEN @ ELSE (@ \ OfMessage) \cup {g}]
      BY <2>2, <2>3, <2>6 DEF Noted, Hold
    <3>2. f # None => f = e.what
      BY <2>3, <2>6
    <3>3. g.key = <<e.what, e.sample>> /\ g.f = f /\ g.at = e.at
      OBVIOUS
    <3> HIDE DEF f, g, OfMessage
    <3>4. f # None => IsHeld(g, i + 1)
      <4>1. i + 1 \in 1 .. (i + 1) /\ ((i + 1) + 1) .. (i + 1) = {}
        OBVIOUS
      <4> QED
        BY <2>6, <3>2, <3>3, <4>1 DEF IsHeld, Key, e
    <3>5. /\ b[i + 1].found = b[i].found /\ b[i + 1].drops = b[i].drops
          /\ \A h \in b[i + 1].held : h \in b[i].held \/ (h = g /\ f # None)
      BY <3>1
    <3>6. \A h \in b[i + 1].held : IsHeld(h, i + 1)
      BY <2>1, <2>4, <2>6, <3>4, <3>5
    <3> QED
      BY <2>1, <3>5, <3>6
  <2>7. CASE e.kind = "release"
    <3> DEFINE f == OwnerOf(e)
               seen == UNION {HeldAtPublish(h, e.at) \cup ReleasedByPublisher(h, e) : h \in OfMessage}
               left == IF seen = {} /\ f # None THEN {<<h.f, f, h.at>> : h \in {x \in OfMessage : x.f # f}} ELSE {}
    <3>1. b[i + 1] = [held |-> b[i].held \ OfMessage, found |-> b[i].found \cup seen, drops |-> b[i].drops \cup left]
      BY <2>2, <2>7 DEF Noted, Hold
    <3>2. b[i + 1].held = b[i].held \ OfMessage /\ b[i + 1].found = b[i].found \cup seen
          /\ b[i + 1].drops = b[i].drops \cup left
      BY <3>1
    <3>3. e \in Recorded("release")
      BY <2>1, <2>7 DEF Recorded, e
    <3>4. ASSUME NEW h \in OfMessage
          PROVE  \E r \in Recorded("retain") :
                    h.f = r.what /\ h.at = r.at /\ HoldEnds(r) = {e}
      <4>1. IsHeld(h, i) /\ h.key = Key(e)
        BY <2>1, <3>4 DEF Key
      <4>2. e = trace[i + 1]
        BY DEF e
      <4>3. i + 1 \in DOMAIN trace
        BY <2>1
      <4> HIDE DEF OfMessage, seen, left, f
      <4> QED
        BY <2>7, <4>1, <4>2, <4>3, ReleaseEnds
    <3>5. ASSUME NEW p \in seen
          PROVE  RealRead(p)
      <4>1. PICK h \in OfMessage : p \in HeldAtPublish(h, e.at) \cup ReleasedByPublisher(h, e)
        BY <3>5
      <4> QED
        BY <3>3, <3>4, <4>1, ReadersAreReal
    <3>6. ASSUME NEW d \in left
          PROVE  RealDrop(d)
      <4>1. PICK h \in OfMessage : seen = {} /\ f # None /\ d = <<h.f, f, h.at>>
        BY <3>6
      <4>2. HeldAtPublish(h, e.at) \cup ReleasedByPublisher(h, e) = {}
        BY <4>1
      <4>3. PICK r \in Recorded("retain") :
               h.f = r.what /\ h.at = r.at /\ HoldEnds(r) = {e}
        BY <3>4
      <4> QED
        BY <3>3, <4>1, <4>2, <4>3, DropsAreReal
    <3>7. \A h \in b[i].held \ OfMessage : IsHeld(h, i + 1)
      BY <2>1, <2>4 DEF Key
    <3> HIDE DEF seen, left, OfMessage
    <3> QED
      BY <2>1, <3>2, <3>5, <3>6, <3>7
  <2> QED
    BY <2>5, <2>6, <2>7
<1> HIDE DEF S
<1>5. Nat \subseteq S
  BY <1>3, <1>4, NatIsInductive
<1>6. Right(n)
  BY <1>1, <1>5 DEF S
<1> QED
  BY <1>2, <1>6

(* PointersAreReal: for any number of threads, nodes, callbacks and        *)
(* retained messages and traces of any length, as long as nothing is       *)
(* discarded and no callback runs inside another: who is named as a reader *)
(* of a retained message could have read it, and when none is named nobody *)
(* could, whatever the order in which callbacks publish and pointers go.   *)
THEOREM PointersFound == Spec => []PointersAreReal
<1>1. Init => PointersInv
  BY PointersInvInit
<1>2. PointersInv /\ [Next]_vars => PointersInv'
  BY PointersInvKept
<1>3. PointersInv => PointersAreReal
  <2> SUFFICES ASSUME PointersInv
               PROVE  PointersAreReal
    OBVIOUS
  <2>1. lost = 0 /\ Flat => /\ \A p \in PointerEvidence.found : RealRead(p)
                           /\ \A d \in PointerEvidence.drops : RealDrop(d)
    BY PointersFollow
  <2> QED
    BY <2>1 DEF PointersAreReal, RealRead, RealDrop, MayRead, HoldEnds, ReleasesOf
<1> QED
  BY <1>1, <1>2, <1>3, PTL DEF Spec

-----------------------------------------------------------------------------
(***************************************************************************)
(* Endpoints and callbacks: an endpoint is found again from its main       *)
(* callback, and what was recorded of a traced endpoint counts for it and  *)
(* for no other.                                                           *)
(***************************************************************************)
LEMMA HopsDiffer ==
    ASSUME NEW e \in Endpoints, NEW g \in Endpoints, NEW e1 \in Endpoints, NEW g1 \in Endpoints,
           Hop(e, g) = Hop(e1, g1)
    PROVE  e = e1 /\ g = g1
<1>1. e = <<e[1], e[2]>> /\ g = <<g[1], g[2]>> /\ e1 = <<e1[1], e1[2]>> /\ g1 = <<g1[1], g1[2]>>
  BY FlowGraphAssumption
<1>2. <<e[1], e[2], "main">> = <<e1[1], e1[2], "main">> /\ <<g[1], g[2], "main">> = <<g1[1], g1[2], "main">>
  BY DEF Hop, MainOf
<1> QED
  BY <1>1, <1>2

LEMMA CopiesDiffer ==
    ASSUME NEW e, NEW j, NEW k, j # k
    PROVE  Copy(e, j) # Copy(e, k)
  BY DEF Copy

\* The callback of a record is known to the analysis as one of its endpoint's.
LEMMA Attribution ==
    ASSUME app \in Applications, NEW e \in Traced,
           NEW r \in app.publishes \cup app.calls \cup app.receives
    PROVE  r[1] \in Known(e) <=> <<r[1][1], r[1][2]>> = e
<1>1. PICK e0 \in Endpoints : r[1] \in Copies(e0) /\ (r[1] \in app.fired \/ Copies(e0) = {r[1]})
  BY FlowGraphAssumption DEF Recordable
<1>2. PICK k \in {1, 2} : r[1] = Copy(e0, k)
  BY <1>1 DEF Copies
<1>3. e \in Endpoints /\ e \notin Bare /\ e = <<e[1], e[2]>> /\ e0 = <<e0[1], e0[2]>>
  BY FlowGraphAssumption DEF Traced
<1>4. <<r[1][1], r[1][2]>> = e0
  BY <1>2, <1>3 DEF Copy
<1>5. Known(e) = {Primary(e)} \cup Alternates(e) \cup (IF e \in Intra THEN {Copy(e, 0)} ELSE {})
  BY <1>3 DEF Known
<1>6. ASSUME e0 = e PROVE r[1] \in Known(e)
  <2>1. CASE r[1] \in app.fired
    BY <2>1, <1>1, <1>5, <1>6 DEF Alternates, Firing
  <2>2. CASE r[1] \notin app.fired
    <3>1. Copies(e) = {r[1]}
      BY <2>2, <1>1, <1>6
    <3>2. e \notin Twice \cup Intra
      BY <3>1, CopiesDiffer DEF Copies
    <3>3. Copies(e) = {Copy(e, 1)} /\ Firing(e) = {}
      BY <3>1, <3>2, <2>2 DEF Copies, Firing
    <3>4. Primary(e) = Copy(e, 1)
      BY <3>2, <3>3 DEF Primary
    <3> QED
      BY <3>1, <3>3, <3>4, <1>5
  <2> QED
    BY <2>1, <2>2
<1>7. ASSUME r[1] \in Known(e) PROVE e0 = e
  <2>1. PICK j : r[1] = Copy(e, j)
    <3>1. Primary(e) \in {Copy(e, 1), Copy(e, 2)}
      BY DEF Primary
    <3>2. Alternates(e) \subseteq {Copy(e, 1), Copy(e, 2)}
      BY DEF Alternates, Firing, Copies
    <3> QED
      BY <3>1, <3>2, <1>5, <1>7
  <2> QED
    BY <2>1, <1>3, <1>4 DEF Copy
<1> QED
  BY <1>4, <1>6, <1>7

LEMMA RecordedIsKnown ==
    ASSUME app \in Applications, NEW e \in Traced
    PROVE  /\ PubTopics(e) = Did(app.publishes, e)
           /\ Calls(e) = Did(app.calls, e)
           /\ SubTopics(e) = (IF Kind[e] = "sub" THEN {On[e]} ELSE {}) \cup Did(app.receives, e)
<1>1. \A R \in {app.publishes, app.calls, app.receives} :
        {q \in R : q[1] \in Known(e)} = {q \in R : <<q[1][1], q[1][2]>> = e}
  BY Attribution
<1>2. {q \in app.publishes : q[1] \in Known(e)} = {q \in app.publishes : <<q[1][1], q[1][2]>> = e}
  BY <1>1
<1>3. {q \in app.calls : q[1] \in Known(e)} = {q \in app.calls : <<q[1][1], q[1][2]>> = e}
  BY <1>1
<1>4. {q \in app.receives : q[1] \in Known(e)} = {q \in app.receives : <<q[1][1], q[1][2]>> = e}
  BY <1>1
<1>5. PubTopics(e) = Did(app.publishes, e)
  BY <1>2 DEF PubTopics, Did
<1>6. Calls(e) = Did(app.calls, e)
  BY <1>3 DEF Calls, Did
<1>7. SubTopics(e) = (IF Kind[e] = "sub" THEN {On[e]} ELSE {}) \cup Did(app.receives, e)
  BY <1>4 DEF SubTopics, Did
<1> QED
  BY <1>5, <1>6, <1>7

LEMMA BareIsSilent ==
    ASSUME NEW e \in Bare
    PROVE  PubTopics(e) = {} /\ Calls(e) = {}
  BY DEF PubTopics, Calls, Known

\* The pairs of endpoints whose edges are declared first.
Sent == {p \in Endpoints \X Endpoints : PubTopics(p[1]) \cap SubTopics(p[2]) # {}}
Called == {p \in Endpoints \X Endpoints : Kind[p[2]] \in {"serv", "cli"} /\ On[p[2]] \in Calls(p[1])}
Back(p) == <<p[2], p[1]>>

LEMMA PairsAreReal ==
    ASSUME app \in Applications, NEW e \in Traced, NEW g \in Traced
    PROVE  /\ <<e, g>> \in Sent <=> Sends(e, g)
           /\ <<e, g>> \in Called <=> Wired(e, g)
<1>1. e \in Endpoints /\ g \in Endpoints
  BY DEF Traced
<1> QED
  BY <1>1, RecordedIsKnown DEF Sent, Called, Sends, Wired

-----------------------------------------------------------------------------
(* The edges of a layer, and what adding edges or ties does to them.       *)
Natures == {"msg", "dep", "join", "state", "gxf_internal", "lifted"}
Directions == {"none", "request", "response"}
Edge == [nature : Natures, direction : Directions, ties : SUBSET Natures]
Layer(G) == G \in [DOMAIN G -> Edge]

EdgesAdded(G, H, P, nature, direction) ==
    /\ H \in [DOMAIN G \cup P -> Edge]
    /\ \A q \in P : H[q].nature = nature /\ H[q].direction = direction
    /\ \A q \in DOMAIN G \ P : H[q] = G[q]

TiesAdded(G, H, P, nature) ==
    /\ H \in [DOMAIN G \cup P -> Edge]
    /\ \A q \in DOMAIN G : G[q].nature = "msg" => H[q].nature = "msg"
    /\ \A q \in P : nature \in {H[q].nature} \cup H[q].ties
    /\ \A q \in DOMAIN G \ P : H[q] = G[q]

LEMMA AddedEdges ==
    ASSUME NEW G, NEW P, NEW nature, NEW direction,
           Layer(G), nature \in Natures, direction \in Directions
    PROVE  EdgesAdded(G, AddEdges(G, P, nature, direction), P, nature, direction)
<1> DEFINE D == DOMAIN G
           H == AddEdges(G, P, nature, direction)
<1>1. \A q \in D : G[q] \in Edge /\ G[q].ties \in SUBSET Natures
  BY DEF Edge, Layer
<1>2. H = [p \in D \cup P |->
        IF p \in P THEN [nature |-> nature, direction |-> direction, ties |-> IF p \in D THEN G[p].ties ELSE {}]
        ELSE G[p]]
  BY DEF AddEdges
<1> HIDE DEF D, H
<1>3. \A q \in P : H[q] = [nature |-> nature, direction |-> direction, ties |-> IF q \in D THEN G[q].ties ELSE {}]
  BY <1>2
<1>4. \A q \in D \ P : H[q] = G[q]
  BY <1>2
<1>5. \A q \in D \cup P : H[q] \in Edge
  <2>1. \A q \in P : H[q] \in Edge
    <3> TAKE q \in P
    <3> DEFINE old == IF q \in D THEN G[q].ties ELSE {}
    <3>1. old \in SUBSET Natures
      BY <1>1
    <3>2. H[q] = [nature |-> nature, direction |-> direction, ties |-> old]
      BY <1>3
    <3> QED
      BY <3>1, <3>2 DEF Edge
  <2>2. \A q \in D \ P : H[q] \in Edge
    BY <1>1, <1>4
  <2> QED
    BY <2>1, <2>2
<1>6. H \in [D \cup P -> Edge]
  BY <1>2, <1>5
<1> QED
  BY <1>3, <1>4, <1>6 DEF EdgesAdded, D, H

\* A tie is an edge of its own or is noted on the message hop of the pair.
LEMMA AddedTies ==
    ASSUME NEW G, NEW P, NEW nature, Layer(G), nature \in Natures
    PROVE  TiesAdded(G, AddTies(G, P, nature), P, nature)
<1> DEFINE D == DOMAIN G
           H == AddTies(G, P, nature)
           Stays == {p \in P : KeepHop(G, p)}
           Q == P \ Stays
           G1 == [p \in D |-> IF p \in Stays THEN [G[p] EXCEPT !.ties = @ \cup {nature}] ELSE G[p]]
<1>1. H = AddEdges(G1, Q, nature, "none") /\ DOMAIN G1 = D
  BY DEF AddTies
<1>2. Stays \subseteq D /\ Stays \subseteq P /\ \A q \in P \cap D : q \in Stays <=> G[q].nature = "msg"
  BY DEF KeepHop
<1>3. \A q \in D \ Stays : G1[q] = G[q]
  OBVIOUS
<1>4. \A q \in Stays : G1[q] \in Edge /\ G1[q].nature = G[q].nature /\ nature \in G1[q].ties
  <2> TAKE q \in Stays
  <2>1. G[q] \in Edge /\ q \in D
    BY <1>2 DEF Layer
  <2>2. G1[q] = [G[q] EXCEPT !.ties = @ \cup {nature}]
    BY <2>1
  <2> QED
    BY <2>1, <2>2 DEF Edge
<1>5. Layer(G1)
  BY <1>3, <1>4 DEF Layer
<1>6. D \cup Q = D \cup P /\ Q \cup Stays = P /\ Q \cap Stays = {}
  BY <1>2
<1> HIDE DEF Stays, Q, G1, H, D
<1>7. EdgesAdded(G1, H, Q, nature, "none")
  <2>1. "none" \in Directions
    BY DEF Directions
  <2> QED
    BY <1>1, <1>5, <2>1, AddedEdges
<1>8. /\ H \in [D \cup P -> Edge]
      /\ \A q \in Q : H[q].nature = nature
      /\ \A q \in D \ Q : H[q] = G1[q]
  BY <1>1, <1>6, <1>7 DEF EdgesAdded
<1>9. \A q \in D : G[q].nature = "msg" => H[q].nature = "msg"
  <2>1. \A q \in D : G[q].nature = "msg" => q \notin Q
    BY <1>2, <1>6
  <2> QED
    BY <2>1, <1>3, <1>4, <1>8
<1>10. \A q \in P : nature \in {H[q].nature} \cup H[q].ties
  BY <1>2, <1>4, <1>6, <1>8
<1>11. \A q \in D \ P : H[q] = G[q]
  BY <1>2, <1>3, <1>6, <1>8
<1> QED
  BY <1>8, <1>9, <1>10, <1>11 DEF TiesAdded, D, H

-----------------------------------------------------------------------------
(* The edges between endpoints, until they are handed down to the          *)
(* callbacks: what is sent and what has been called so far, with their     *)
(* natures, and nothing else between endpoints.                            *)
Stages == {"messages", "calls", "propagate", "joins", "state", "tf", "nitros", "lift", "done"}
Done == Called \ todo
Answers == {Back(p) : p \in Done}
Paired(p) == p = <<EntityOf(p[1]), EntityOf(p[2])>>
FromOutside(p) == p[1][1] = "ext" \/ p[2][1] = "ext"

DomainInv ==
    /\ Sent \cup Done \cup Answers \subseteq DOMAIN entityEdges
    /\ \A p \in DOMAIN entityEdges : Paired(p) /\ (p \in Sent \cup Done \cup Answers \/ FromOutside(p))

NatureInv ==
    /\ \A p \in Sent : p \notin Called /\ Back(p) \notin Called => entityEdges[p].nature = "msg"
    /\ \A p \in Done : entityEdges[p].nature = "dep" /\ entityEdges[Back(p)].nature = "dep"
    /\ \A p \in Done : Back(p) \notin Called =>
          entityEdges[p].direction = "request" /\ entityEdges[Back(p)].direction = "response"
    /\ \A p \in DOMAIN entityEdges : entityEdges[p].direction = "response" => Back(p) \in Called

EntityInv ==
    /\ app \in Applications /\ stage \in Stages
    /\ stage = "messages" => entityEdges = NoEdges
    /\ stage = "propagate" => todo = {}
    /\ stage \in {"calls", "propagate"} => Layer(entityEdges) /\ todo \subseteq Called /\ DomainInv /\ NatureInv

LEMMA EndpointPairs ==
    ASSUME NEW p \in Endpoints \X Endpoints
    PROVE  Paired(p) /\ ~FromOutside(p)
<1>1. p[1] \in Endpoints /\ p[2] \in Endpoints /\ p = <<p[1], p[2]>>
  OBVIOUS
<1> QED
  BY <1>1, FlowGraphAssumption DEF Paired, EntityOf, FromOutside

LEMMA SameApplication ==
    ASSUME UNCHANGED app
    PROVE  /\ Sent' = Sent /\ Called' = Called
           /\ \A e, g : (Sends(e, g)' <=> Sends(e, g)) /\ (Wired(e, g)' <=> Wired(e, g))
<1>1. \A e : PubTopics(e)' = PubTopics(e) /\ Calls(e)' = Calls(e) /\ SubTopics(e)' = SubTopics(e)
  BY DEF PubTopics, Calls, SubTopics, Known, Primary, Alternates, Firing
<1>2. Sent' = Sent /\ Called' = Called
  BY <1>1 DEF Sent, Called
<1>3. \A e, g : (Sends(e, g)' <=> Sends(e, g)) /\ (Wired(e, g)' <=> Wired(e, g))
  BY DEF Sends, Wired, Did
<1> QED
  BY <1>2, <1>3

LEMMA EntityInit == GraphInit => EntityInv
  BY DEF GraphInit, EntityInv, Stages

LEMMA NoEdgesYet == Layer(NoEdges) /\ DOMAIN NoEdges = {}
  BY DEF Layer, NoEdges

LEMMA DeclareMessagesKeeps ==
    ASSUME EntityInv, DeclareMessages
    PROVE  EntityInv'
<1>1. entityEdges' = AddEdges(NoEdges, Sent, "msg", "none")
  BY DEF DeclareMessages, EntityInv, Sent
<1>2. "msg" \in Natures /\ "none" \in Directions
  BY DEF Natures, Directions
<1>3. EdgesAdded(NoEdges, entityEdges', Sent, "msg", "none")
  BY <1>1, <1>2, NoEdgesYet, AddedEdges
<1>4. /\ entityEdges' \in [Sent -> Edge]
      /\ \A p \in Sent : entityEdges'[p].nature = "msg" /\ entityEdges'[p].direction = "none"
  BY <1>3, NoEdgesYet DEF EdgesAdded
<1>5. Sent' = Sent /\ Called' = Called /\ app \in Applications /\ UNCHANGED app
  BY SameApplication DEF DeclareMessages, EntityInv
<1>6. todo' = Called /\ stage' = "calls"
  BY DEF DeclareMessages, Called
<1>7. Done' = {} /\ Answers' = {}
  BY <1>5, <1>6 DEF Done, Answers
<1>8. DomainInv'
  <2>1. Sent \subseteq Endpoints \X Endpoints
    BY DEF Sent
  <2>2. \A p \in Sent : Paired(p)
    BY <2>1, EndpointPairs
  <2>3. DOMAIN entityEdges' = Sent
    BY <1>4
  <2> QED
    BY <1>5, <1>7, <2>2, <2>3 DEF DomainInv, Paired
<1>9. NatureInv'
  BY <1>4, <1>5, <1>7 DEF NatureInv
<1> QED
  BY <1>4, <1>5, <1>6, <1>8, <1>9 DEF EntityInv, Layer, Stages

LEMMA DeclareCallKeeps ==
    ASSUME EntityInv, DeclareCall
    PROVE  EntityInv'
<1>1. /\ stage = "calls" /\ stage' = stage /\ UNCHANGED app /\ app \in Applications
      /\ Layer(entityEdges) /\ todo \subseteq Called /\ DomainInv /\ NatureInv
  BY DEF DeclareCall, EntityInv
<1>2. PICK p \in todo :
        /\ entityEdges' = AddEdges(AddEdges(entityEdges, {p}, "dep", "request"), {Back(p)}, "dep", "response")
        /\ todo' = todo \ {p}
  BY DEF DeclareCall, Back
<1> DEFINE G == AddEdges(entityEdges, {p}, "dep", "request")
<1>3. Sent' = Sent /\ Called' = Called
  BY <1>1, SameApplication
<1>4. p \in Called /\ p = <<p[1], p[2]>> /\ p \in Endpoints \X Endpoints /\ Back(p) \in Endpoints \X Endpoints
  BY <1>1, <1>2 DEF Called, Back
<1>5. "dep" \in Natures /\ {"request", "response"} \subseteq Directions
  BY DEF Natures, Directions
<1>6. EdgesAdded(entityEdges, G, {p}, "dep", "request")
  BY <1>1, <1>5, AddedEdges
<1>7. EdgesAdded(G, entityEdges', {Back(p)}, "dep", "response")
  <2>1. entityEdges' = AddEdges(G, {Back(p)}, "dep", "response")
    BY <1>2
  <2> HIDE DEF G
  <2>2. Layer(G)
    BY <1>6 DEF EdgesAdded, Layer
  <2> QED
    BY <2>1, <2>2, <1>5, AddedEdges
<1> HIDE DEF G
<1>8. DOMAIN G = DOMAIN entityEdges \cup {p}
  BY <1>6 DEF EdgesAdded
<1>9. entityEdges' \in [DOMAIN entityEdges \cup {p, Back(p)} -> Edge]
  BY <1>7, <1>8 DEF EdgesAdded
<1>10. /\ entityEdges'[Back(p)].nature = "dep" /\ entityEdges'[Back(p)].direction = "response"
       /\ entityEdges'[p].nature = "dep"
       /\ p # Back(p) => entityEdges'[p].direction = "request"
  BY <1>6, <1>7, <1>8 DEF EdgesAdded
<1>11. \A q \in DOMAIN entityEdges : q \notin {p, Back(p)} => entityEdges'[q] = entityEdges[q]
  BY <1>6, <1>7, <1>8 DEF EdgesAdded
<1>12. Done' = Done \cup {p} /\ Answers' = Answers \cup {Back(p)}
  BY <1>2, <1>3, <1>4 DEF Done, Answers
<1>13. Called \subseteq Endpoints \X Endpoints /\ Sent \subseteq Endpoints \X Endpoints /\ Done \subseteq Called
  BY DEF Called, Sent, Done
<1>14. \A q \in Endpoints \X Endpoints : Back(Back(q)) = q
  BY DEF Back
<1>15. DomainInv'
  <2>1. Paired(p) /\ Paired(Back(p))
    BY <1>4, EndpointPairs
  <2>2. DOMAIN entityEdges' = DOMAIN entityEdges \cup {p, Back(p)}
    BY <1>9
  <2>3. \A q : Paired(q)' <=> Paired(q)
    BY DEF Paired
  <2>4. \A q : FromOutside(q)' <=> FromOutside(q)
    BY DEF FromOutside
  <2> QED
    BY <1>1, <1>3, <1>12, <2>1, <2>2, <2>3, <2>4 DEF DomainInv
<1>16. NatureInv'
  <2>1. \A q \in Sent : q \in DOMAIN entityEdges
    BY <1>1 DEF DomainInv
  <2>2. \A q \in Done : q \in DOMAIN entityEdges /\ Back(q) \in DOMAIN entityEdges
    BY <1>1 DEF DomainInv, Answers
  <2>3. \A q \in Sent : q \notin Called /\ Back(q) \notin Called => entityEdges'[q].nature = "msg"
    <3> SUFFICES ASSUME NEW q \in Sent, q \notin Called, Back(q) \notin Called
                 PROVE  entityEdges'[q].nature = "msg"
      OBVIOUS
    <3>1. q \notin {p, Back(p)}
      BY <1>4, <1>14
    <3> QED
      BY <3>1, <2>1, <1>1, <1>11 DEF NatureInv
  <2>4. \A q \in Done' : entityEdges'[q].nature = "dep" /\ entityEdges'[Back(q)].nature = "dep"
    <3> SUFFICES ASSUME NEW q \in Done
                 PROVE  entityEdges'[q].nature = "dep" /\ entityEdges'[Back(q)].nature = "dep"
      BY <1>10, <1>12
    <3>1. entityEdges[q].nature = "dep" /\ entityEdges[Back(q)].nature = "dep"
      BY <1>1 DEF NatureInv
    <3> QED
      BY <3>1, <2>2, <1>10, <1>11
  <2>5. \A q \in Done' : Back(q) \notin Called =>
          entityEdges'[q].direction = "request" /\ entityEdges'[Back(q)].direction = "response"
    <3> SUFFICES ASSUME NEW q \in Done, q # p, Back(q) \notin Called
                 PROVE  entityEdges'[q].direction = "request" /\ entityEdges'[Back(q)].direction = "response"
      BY <1>4, <1>10, <1>12
    <3>1. q \in Called /\ q \in Endpoints \X Endpoints
      BY <1>13
    <3>2. q # Back(p) /\ Back(q) # p
      BY <3>1, <1>4, <1>14
    <3>3. Back(q) # Back(p)
      BY <3>1, <1>4, <1>14
    <3> QED
      BY <3>2, <3>3, <2>2, <1>1, <1>11 DEF NatureInv
  <2>6. \A q \in DOMAIN entityEdges' : entityEdges'[q].direction = "response" => Back(q) \in Called
    <3> SUFFICES ASSUME NEW q \in DOMAIN entityEdges', entityEdges'[q].direction = "response"
                 PROVE  Back(q) \in Called
      OBVIOUS
    <3>1. CASE q = Back(p)
      BY <3>1, <1>4, <1>14
    <3>2. CASE q = p /\ q # Back(p)
      BY <3>2, <1>10
    <3>3. CASE q \notin {p, Back(p)}
      <4>1. q \in DOMAIN entityEdges
        BY <3>3, <1>9
      <4> QED
        BY <3>3, <4>1, <1>1, <1>11 DEF NatureInv
    <3> QED
      BY <3>1, <3>2, <3>3
  <2> QED
    BY <2>3, <2>4, <2>5, <2>6, <1>3 DEF NatureInv, Back
<1>17. Layer(entityEdges)' /\ todo' \subseteq Called
  BY <1>1, <1>2, <1>9 DEF Layer
<1> QED
  BY <1>1, <1>3, <1>15, <1>16, <1>17 DEF EntityInv

LEMMA DeclareBoundaryKeeps ==
    ASSUME EntityInv, DeclareBoundary
    PROVE  EntityInv'
<1>1. /\ stage = "calls" /\ todo = {} /\ stage' = "propagate" /\ UNCHANGED <<app, todo>> /\ app \in Applications
      /\ Layer(entityEdges) /\ DomainInv /\ NatureInv
  BY DEF DeclareBoundary, EntityInv
<1> DEFINE Readers == {r \in (Subscribed \ Published) \X Endpoints : r[1] \in SubTopics(r[2])}
           Writers == {w \in (Published \ Subscribed) \X Endpoints : w[1] \in PubTopics(w[2])}
           P == {<<Ext(r[1]), r[2]>> : r \in Readers} \cup {<<w[2], Ext(w[1])>> : w \in Writers}
<1>2. entityEdges' = AddEdges(entityEdges, P, "msg", "none")
  BY DEF DeclareBoundary
<1>3. \A p \in P : Paired(p) /\ FromOutside(p)
  <2>1. ASSUME NEW x, NEW e \in Endpoints
        PROVE  /\ Paired(<<Ext(x), e>>) /\ FromOutside(<<Ext(x), e>>)
               /\ Paired(<<e, Ext(x)>>) /\ FromOutside(<<e, Ext(x)>>)
    BY FlowGraphAssumption DEF Paired, FromOutside, Ext, EntityOf
  <2> QED
    BY <2>1
<1>4. "msg" \in Natures /\ "none" \in Directions
  BY DEF Natures, Directions
<1> HIDE DEF P
<1>5. EdgesAdded(entityEdges, entityEdges', P, "msg", "none")
  BY <1>1, <1>2, <1>4, AddedEdges
<1>6. Sent' = Sent /\ Called' = Called
  BY <1>1, SameApplication
<1>7. Done' = Done /\ Answers' = Answers
  BY <1>1, <1>6 DEF Done, Answers
<1>8. DomainInv'
  <2>1. DOMAIN entityEdges' = DOMAIN entityEdges \cup P
    BY <1>5 DEF EdgesAdded
  <2>2. \A q : (Paired(q)' <=> Paired(q)) /\ (FromOutside(q)' <=> FromOutside(q))
    BY DEF Paired, FromOutside
  <2> QED
    BY <1>1, <1>3, <1>6, <1>7, <2>1, <2>2 DEF DomainInv
<1>9. NatureInv'
  <2>1. \A q \in Endpoints \X Endpoints : q \notin P
    BY <1>3, EndpointPairs
  <2>2. Sent \cup Done \cup Answers \subseteq Endpoints \X Endpoints
    BY DEF Sent, Done, Answers, Called, Back
  <2>3. \A q \in Sent \cup Done \cup Answers : entityEdges'[q] = entityEdges[q]
    BY <1>1, <1>5, <2>1, <2>2 DEF EdgesAdded, DomainInv
  <2>4. \A q \in Done : Back(q) \in Answers
    BY DEF Answers
  <2>5. \A q \in P : entityEdges'[q].direction = "none"
    BY <1>5 DEF EdgesAdded
  <2>6. \A q \in DOMAIN entityEdges' : entityEdges'[q].direction = "response" => Back(q) \in Called
    BY <1>1, <1>5, <2>5 DEF EdgesAdded, NatureInv
  <2> QED
    BY <1>1, <1>6, <1>7, <2>3, <2>4, <2>6 DEF NatureInv, Back
<1>10. Layer(entityEdges)' /\ todo' \subseteq Called
  BY <1>1, <1>5 DEF EdgesAdded, Layer
<1> QED
  BY <1>1, <1>6, <1>8, <1>9, <1>10 DEF EntityInv, Stages

-----------------------------------------------------------------------------
(* The edges between callbacks, from the moment they are handed down.      *)
CallbackStages == {"joins", "state", "tf", "nitros", "lift", "done"}
TfLinked == stage \in {"nitros", "lift", "done"}

VertexInv ==
    \A q \in DOMAIN callbackEdges :
        q[1][3] = "main" /\ (q[2][3] = "rest" => Wired(EntityOf(q[2]), EntityOf(q[1])))

HopInv ==
    \A e, g \in Traced :
        Sends(e, g) /\ ~Wired(e, g) /\ ~Wired(g, e) /\ <<e, g>> \notin app.tf => Nature(Hop(e, g)) = "msg"

Reply(g, e) == <<MainOf(g), <<e[1], e[2], IF app.split THEN "rest" ELSE "main">>>>

CallInv ==
    \A e, g \in Traced :
        Kind[g] = "serv" /\ Wired(e, g) /\ ~Wired(g, e) /\ e[1] # g[1] /\ {<<e, g>>, <<g, e>>} \cap app.tf = {} =>
            /\ Nature(Hop(e, g)) = "dep" /\ Nature(Reply(g, e)) = "dep"
            /\ app.split => Nature(Hop(g, e)) \notin {"dep", "msg"}

\* An edge between callbacks of known endpoints shows an interaction unless
\* it stays in the node, and every interaction so far has one.
SpanInv ==
    /\ \A q \in DOMAIN callbackEdges :
          FromOutside(q) \/ LET e == EntityOf(q[1]) g == EntityOf(q[2])
                        IN /\ e \in Traced /\ g \in Traced
                           /\ e[1] = g[1] \/ Sends(e, g) \/ Wired(e, g) \/ Wired(g, e) \/ <<e, g>> \in app.tf
    /\ \A e, g \in Traced :
          Sends(e, g) \/ Wired(e, g) \/ Wired(g, e) \/ (TfLinked /\ <<e, g>> \in app.tf) =>
             \E q \in DOMAIN callbackEdges : EntityOf(q[1]) = e /\ EntityOf(q[2]) = g

FlowInv == Layer(callbackEdges) /\ VertexInv /\ HopInv /\ CallInv /\ SpanInv

LEMMA MainPairsAre ==
    ASSUME NEW P \in SUBSET (Endpoints \X Endpoints), NEW q
    PROVE  q \in MainPairs(P) <=> \E e, g \in Traced : <<e, g>> \in P /\ q = Hop(e, g)
<1>1. ASSUME q \in MainPairs(P)
      PROVE  \E e, g \in Traced : <<e, g>> \in P /\ q = Hop(e, g)
  <2>1. PICK p \in P : q \in Main(p[1]) \X Main(p[2])
    BY <1>1 DEF MainPairs
  <2>2. p[1] \in Endpoints /\ p[2] \in Endpoints /\ p = <<p[1], p[2]>>
    OBVIOUS
  <2>3. p[1] \notin Bare /\ p[2] \notin Bare
    BY <2>1 DEF Main
  <2>4. q = Hop(p[1], p[2])
    BY <2>1, <2>3 DEF Main, Hop, MainOf
  <2> QED
    BY <2>2, <2>3, <2>4 DEF Traced
<1>2. ASSUME NEW e \in Traced, NEW g \in Traced, <<e, g>> \in P, q = Hop(e, g)
      PROVE  q \in MainPairs(P)
  <2>1. q \in Main(<<e, g>>[1]) \X Main(<<e, g>>[2])
    BY <1>2 DEF Main, Hop, MainOf, Traced
  <2> QED
    BY <1>2, <2>1 DEF MainPairs
<1> QED
  BY <1>1, <1>2

LEMMA HopInPairs ==
    ASSUME NEW P \in SUBSET (Endpoints \X Endpoints), NEW e \in Traced, NEW g \in Traced
    PROVE  Hop(e, g) \in MainPairs(P) <=> <<e, g>> \in P
<1>1. ASSUME Hop(e, g) \in MainPairs(P) PROVE <<e, g>> \in P
  <2>1. PICK e1, g1 \in Traced : <<e1, g1>> \in P /\ Hop(e, g) = Hop(e1, g1)
    BY <1>1, MainPairsAre
  <2>2. e = e1 /\ g = g1
    BY <2>1, HopsDiffer DEF Traced
  <2> QED
    BY <2>1, <2>2
<1>2. <<e, g>> \in P => Hop(e, g) \in MainPairs(P)
  BY MainPairsAre
<1> QED
  BY <1>1, <1>2

LEMMA HopEnds ==
    ASSUME NEW e \in Traced, NEW g \in Traced
    PROVE  /\ EntityOf(Hop(e, g)[1]) = e /\ EntityOf(Hop(e, g)[2]) = g
           /\ Hop(e, g)[1][3] = "main" /\ Hop(e, g)[2][3] = "main"
           /\ Hop(e, g)[1][1] = e[1] /\ Hop(e, g)[2][1] = g[1]
<1>1. e = <<e[1], e[2]>> /\ g = <<g[1], g[2]>>
  BY FlowGraphAssumption DEF Traced
<1> QED
  BY <1>1 DEF Hop, MainOf, EntityOf

LEMMA PropagateStarts ==
    ASSUME EntityInv, Propagate
    PROVE  FlowInv'
<1>1. /\ stage = "propagate" /\ stage' = "joins" /\ todo = {} /\ UNCHANGED app /\ app \in Applications
      /\ Layer(entityEdges) /\ DomainInv /\ NatureInv
  BY DEF Propagate, EntityInv
<1> DEFINE D == DOMAIN entityEdges
           Ends(p) == Main(p[1]) \X Targets(p)
           From == UNION {Ends(p) : p \in D}
<1>2. callbackEdges' = [q \in From |-> entityEdges[<<EntityOf(q[1]), EntityOf(q[2])>>]]
  BY DEF Propagate
<1>3. Done = Called /\ Sent \cup Called \subseteq D /\ \A p \in Called : Back(p) \in D
  BY <1>1 DEF Done, Answers, DomainInv
<1>4. ASSUME NEW p \in D, NEW q \in Ends(p)
      PROVE  /\ EntityOf(q[1]) = p[1] /\ EntityOf(q[2]) = p[2] /\ p = <<p[1], p[2]>>
             /\ q[1][3] = "main" /\ q[1][1] = p[1][1] /\ q[2][1] = p[2][1]
             /\ p[1] \notin Bare /\ p[2] \notin Bare
             /\ q[2][3] = "rest" => entityEdges[p].direction = "response"
  <2>1. p = <<p[1], p[2]>> /\ p[1] = <<p[1][1], p[1][2]>> /\ p[2] = <<p[2][1], p[2][2]>>
    BY <1>1 DEF DomainInv, Paired, EntityOf
  <2>2. p[1] \notin Bare /\ q[1] = <<p[1][1], p[1][2], "main">>
    BY DEF Main
  <2>3. \/ q[2] = <<p[2][1], p[2][2], "main">> /\ p[2] \notin Bare
        \/ q[2] = <<p[2][1], p[2][2], "rest">> /\ p[2] \notin Bare /\ entityEdges[p].direction = "response"
    BY DEF Main, Targets, Continuation
  <2> QED
    BY <2>1, <2>2, <2>3 DEF EntityOf
<1>5. ASSUME NEW p \in D, NEW q \in Ends(p)
      PROVE  q \in DOMAIN callbackEdges' /\ callbackEdges'[q] = entityEdges[p]
  <2>1. q \in From
    OBVIOUS
  <2> QED
    BY <1>2, <1>4, <2>1
<1>6. \A q \in DOMAIN callbackEdges' : \E p \in D : q \in Ends(p)
  BY <1>2
<1> HIDE DEF Ends, From
<1>7. \A e, g : (Sends(e, g)' <=> Sends(e, g)) /\ (Wired(e, g)' <=> Wired(e, g))
  BY <1>1, SameApplication
<1>8. \A p \in D : ~FromOutside(p) => p \in Sent \cup Called \/ Back(p) \in Called
  <2>1. \A p \in Endpoints \X Endpoints : Back(Back(p)) = p
    BY DEF Back
  <2> QED
    BY <1>1, <1>3, <2>1 DEF DomainInv, Answers, Called
<1>9. ASSUME NEW e \in Traced, NEW g \in Traced
      PROVE  /\ <<e, g>> \in Sent <=> Sends(e, g)
             /\ <<e, g>> \in Called <=> Wired(e, g)
             /\ Back(<<e, g>>) \in Called <=> Wired(g, e)
             /\ Back(<<e, g>>) = <<g, e>>
             /\ e \notin Bare /\ g \notin Bare
  BY <1>1, PairsAreReal DEF Back, Traced
\* an edge that is no answer leads to the main callback
<1>10. ASSUME NEW e \in Traced, NEW g \in Traced, <<e, g>> \in D, entityEdges[<<e, g>>].direction # "response"
       PROVE  Nature(Hop(e, g))' = entityEdges[<<e, g>>].nature
  <2>1. Targets(<<e, g>>) = Main(g)
    BY <1>10 DEF Targets
  <2>2. Hop(e, g) \in Ends(<<e, g>>)
    BY <2>1, <1>9 DEF Ends, Hop, MainOf, Main
  <2> QED
    BY <1>5, <1>10, <2>2 DEF Nature
<1>11. Layer(callbackEdges)'
  BY <1>1, <1>2, <1>5, <1>6 DEF Layer
<1>12. VertexInv'
  <2> SUFFICES ASSUME NEW q \in DOMAIN callbackEdges'
               PROVE  q[1][3] = "main" /\ (q[2][3] = "rest" => Wired(EntityOf(q[2]), EntityOf(q[1])))
    BY <1>7 DEF VertexInv, EntityOf
  <2>1. PICK p \in D : q \in Ends(p)
    BY <1>6
  <2>2. q[1][3] = "main" /\ EntityOf(q[1]) = p[1] /\ EntityOf(q[2]) = p[2] /\ p[1] \notin Bare /\ p[2] \notin Bare
    BY <2>1, <1>4
  <2>3. ASSUME q[2][3] = "rest" PROVE Wired(p[2], p[1])
    <3>1. Back(p) \in Called
      BY <2>1, <2>3, <1>1, <1>4 DEF NatureInv
    <3>2. p[1] \in Traced /\ p[2] \in Traced /\ <<p[2], p[1]>> \in Called
      BY <3>1, <2>2 DEF Back, Called, Traced
    <3> QED
      BY <3>2, <1>9
  <2> QED
    BY <2>2, <2>3
<1>13. HopInv'
  <2> SUFFICES ASSUME NEW e \in Traced, NEW g \in Traced, Sends(e, g), ~Wired(e, g), ~Wired(g, e)
               PROVE  Nature(Hop(e, g))' = "msg"
    BY <1>7 DEF HopInv, Nature, Hop, MainOf
  <2>1. <<e, g>> \in Sent /\ <<e, g>> \notin Called /\ Back(<<e, g>>) \notin Called
    BY <1>9
  <2>2. <<e, g>> \in D /\ entityEdges[<<e, g>>].nature = "msg" /\ entityEdges[<<e, g>>].direction # "response"
    BY <2>1, <1>1, <1>3 DEF NatureInv
  <2> QED
    BY <2>2, <1>10
<1>14. CallInv'
  <2> SUFFICES ASSUME NEW e \in Traced, NEW g \in Traced, Wired(e, g), ~Wired(g, e), e[1] # g[1]
               PROVE  /\ Nature(Hop(e, g))' = "dep" /\ Nature(Reply(g, e))' = "dep"
                      /\ app.split => Nature(Hop(g, e))' \notin {"dep", "msg"}
    BY <1>1, <1>7 DEF CallInv, Nature, Hop, MainOf, Reply
  <2>1. <<e, g>> \in Called /\ Back(<<e, g>>) \notin Called /\ Back(<<e, g>>) = <<g, e>>
    BY <1>9
  <2>2. /\ <<e, g>> \in D /\ entityEdges[<<e, g>>].nature = "dep" /\ entityEdges[<<e, g>>].direction = "request"
        /\ <<g, e>> \in D /\ entityEdges[<<g, e>>].nature = "dep" /\ entityEdges[<<g, e>>].direction = "response"
    BY <2>1, <1>1, <1>3 DEF NatureInv
  <2>3. Nature(Hop(e, g))' = "dep"
    BY <2>2, <1>10
  <2>4. Calls(e) # {} /\ e \in Endpoints \ Bare
    BY <2>1, <1>9 DEF Called, Traced
  <2>5. Targets(<<g, e>>) = {<<e[1], e[2], IF app.split THEN "rest" ELSE "main">>}
    BY <2>2, <2>4 DEF Targets, Continuation, Main
  <2>6. Reply(g, e) \in Ends(<<g, e>>) /\ Reply(g, e)' = Reply(g, e)
    BY <2>5, <1>1, <1>9 DEF Ends, Reply, MainOf, Main
  <2>7. Nature(Reply(g, e))' = "dep"
    BY <2>2, <2>6, <1>5 DEF Nature
  <2>8. ASSUME app.split PROVE Nature(Hop(g, e))' \notin {"dep", "msg"}
    <3>1. Hop(g, e) \notin DOMAIN callbackEdges'
      <4> SUFFICES ASSUME Hop(g, e) \in DOMAIN callbackEdges' PROVE FALSE
        OBVIOUS
      <4>1. PICK p \in D : Hop(g, e) \in Ends(p)
        BY <1>6
      <4>2. p = <<g, e>>
        BY <4>1, <1>4, HopEnds
      <4>3. Hop(g, e)[2] = <<e[1], e[2], "rest">>
        BY <4>1, <4>2, <2>5, <2>8 DEF Ends
      <4> QED
        BY <4>3 DEF Hop, MainOf
    <3> QED
      BY <3>1 DEF Nature, Hop, MainOf
  <2> QED
    BY <2>3, <2>7, <2>8
<1>15. SpanInv'
  <2>1. ASSUME NEW q \in DOMAIN callbackEdges', ~FromOutside(q)
        PROVE  /\ EntityOf(q[1]) \in Traced /\ EntityOf(q[2]) \in Traced
               /\ \/ Sends(EntityOf(q[1]), EntityOf(q[2])) \/ Wired(EntityOf(q[1]), EntityOf(q[2]))
                  \/ Wired(EntityOf(q[2]), EntityOf(q[1]))
    <3>1. PICK p \in D : q \in Ends(p)
      BY <1>6
    <3>2. /\ EntityOf(q[1]) = p[1] /\ EntityOf(q[2]) = p[2] /\ p = <<p[1], p[2]>>
          /\ p[1] \notin Bare /\ p[2] \notin Bare /\ ~FromOutside(p)
      BY <3>1, <2>1, <1>4 DEF FromOutside
    <3>3. p \in Sent \cup Called \/ Back(p) \in Called
      BY <3>2, <1>8
    <3>4. p[1] \in Traced /\ p[2] \in Traced
      BY <3>2, <3>3 DEF Sent, Called, Back, Traced
    <3> QED
      BY <3>2, <3>3, <3>4, <1>9
  <2>2. ASSUME NEW e \in Traced, NEW g \in Traced, Sends(e, g) \/ Wired(e, g) \/ Wired(g, e)
        PROVE  \E q \in DOMAIN callbackEdges' : EntityOf(q[1]) = e /\ EntityOf(q[2]) = g
    <3>1. <<e, g>> \in D
      <4>1. <<e, g>> \in Sent \cup Called \/ <<g, e>> \in Called
        BY <2>2, <1>9
      <4> QED
        BY <4>1, <1>3 DEF Back
    <3>2. \E q : q \in Ends(<<e, g>>)
      <4>1. MainOf(e) \in Main(e) /\ \E t : t \in Targets(<<e, g>>)
        BY <1>9 DEF MainOf, Main, Targets
      <4>2. PICK t : t \in Targets(<<e, g>>)
        BY <4>1
      <4>3. <<MainOf(e), t>> \in Ends(<<e, g>>)
        BY <4>1, <4>2 DEF Ends
      <4> QED
        BY <4>3
    <3> QED
      BY <3>1, <3>2, <1>4, <1>5
  <2>3. ~TfLinked'
    BY <1>1 DEF TfLinked
  <2>4. \A q : FromOutside(q)' <=> FromOutside(q)
    BY DEF FromOutside
  <2> QED
    BY <2>1, <2>2, <2>3, <2>4, <1>7 DEF SpanInv, EntityOf
<1> QED
  BY <1>11, <1>12, <1>13, <1>14, <1>15 DEF FlowInv

\* What is tied within nodes leaves the messages, the calls and the edges
\* between nodes as they are.
LEMMA TiesKeep ==
    ASSUME FlowInv, UNCHANGED app, TfLinked' = TfLinked, NEW nature \in Natures,
           NEW P \in SUBSET (Endpoints \X Endpoints), \A p \in P : p[1][1] = p[2][1],
           callbackEdges' = AddTies(callbackEdges, MainPairs(P), nature)
    PROVE  FlowInv'
<1> DEFINE D == DOMAIN callbackEdges
           Q == MainPairs(P)
<1>1. TiesAdded(callbackEdges, callbackEdges', Q, nature)
  BY AddedTies DEF FlowInv
<1>2. \A e, g : (Sends(e, g)' <=> Sends(e, g)) /\ (Wired(e, g)' <=> Wired(e, g))
  BY SameApplication
<1> HIDE DEF Q
<1>3. /\ DOMAIN callbackEdges' = D \cup Q
      /\ \A q \in D : callbackEdges[q].nature = "msg" => callbackEdges'[q].nature = "msg"
      /\ \A q \in D \ Q : callbackEdges'[q] = callbackEdges[q]
      /\ Layer(callbackEdges)'
  BY <1>1 DEF TiesAdded, Layer
<1>4. ASSUME NEW q \in Q
      PROVE  /\ EntityOf(q[1]) \in Traced /\ EntityOf(q[2]) \in Traced /\ EntityOf(q[1])[1] = EntityOf(q[2])[1]
             /\ q[1][3] = "main" /\ q[2][3] = "main" /\ q[1][1] = q[2][1]
  <2>1. PICK e, g \in Traced : <<e, g>> \in P /\ q = Hop(e, g)
    BY MainPairsAre DEF Q
  <2>2. e[1] = g[1]
    BY <2>1
  <2> QED
    BY <2>1, <2>2, HopEnds
<1>5. \A q : q \notin Q => Nature(q)' = Nature(q)
  BY <1>3 DEF Nature
<1>6. VertexInv'
  BY <1>2, <1>3, <1>4 DEF FlowInv, VertexInv, EntityOf
<1>7. HopInv'
  <2> SUFFICES ASSUME NEW e \in Traced, NEW g \in Traced, Nature(Hop(e, g)) = "msg"
               PROVE  Nature(Hop(e, g))' = "msg"
    BY <1>2 DEF FlowInv, HopInv, Hop, MainOf
  <2>1. Hop(e, g) \in D /\ callbackEdges[Hop(e, g)].nature = "msg"
    BY DEF Nature
  <2>2. Hop(e, g)' = Hop(e, g)
    BY DEF Hop, MainOf
  <2> QED
    BY <2>1, <2>2, <1>3 DEF Nature
<1>8. CallInv'
  <2>1. ASSUME NEW e \in Traced, NEW g \in Traced, e[1] # g[1]
        PROVE  /\ Nature(Hop(e, g))' = Nature(Hop(e, g)) /\ Nature(Hop(g, e))' = Nature(Hop(g, e))
               /\ Nature(Reply(g, e))' = Nature(Reply(g, e))
    <3>1. Hop(e, g) \notin Q /\ Hop(g, e) \notin Q
      BY <2>1, <1>4, HopEnds
    <3>2. Reply(g, e)[1][1] = g[1] /\ Reply(g, e)[2][1] = e[1]
      BY DEF Reply, MainOf
    <3>3. Reply(g, e) \notin Q /\ Reply(g, e)' = Reply(g, e) /\ Hop(e, g)' = Hop(e, g) /\ Hop(g, e)' = Hop(g, e)
      BY <2>1, <1>4, <3>2 DEF Reply, Hop, MainOf
    <3> QED
      BY <3>1, <3>3, <1>5 DEF Nature
  <2> QED
    BY <2>1, <1>2 DEF FlowInv, CallInv
<1>9. SpanInv'
  BY <1>2, <1>3, <1>4 DEF FlowInv, SpanInv, EntityOf, FromOutside
<1> QED
  BY <1>3, <1>6, <1>7, <1>8, <1>9 DEF FlowInv

LEMMA LinkTfKeeps ==
    ASSUME FlowInv, LinkTf, app \in Applications
    PROVE  FlowInv'
<1> DEFINE D == DOMAIN callbackEdges
           Q == MainPairs(app.tf)
<1>1. /\ stage = "tf" /\ stage' = "nitros" /\ UNCHANGED app
      /\ callbackEdges' = AddEdges(callbackEdges, Q, "state", "none")
  BY DEF LinkTf
<1>2. \A e, g : (Sends(e, g)' <=> Sends(e, g)) /\ (Wired(e, g)' <=> Wired(e, g))
  BY <1>1, SameApplication
<1>3. "state" \in Natures /\ "none" \in Directions /\ app.tf \in SUBSET (Endpoints \X Endpoints)
  BY FlowGraphAssumption DEF Natures, Directions, Recordable
<1>4. ASSUME NEW e \in Traced, NEW g \in Traced
      PROVE  Hop(e, g) \in Q <=> <<e, g>> \in app.tf
  BY <1>3, HopInPairs
<1>5. ASSUME NEW q \in Q
      PROVE  /\ EntityOf(q[1]) \in Traced /\ EntityOf(q[2]) \in Traced
             /\ <<EntityOf(q[1]), EntityOf(q[2])>> \in app.tf /\ q[1][3] = "main" /\ q[2][3] = "main"
  <2>1. PICK e, g \in Traced : <<e, g>> \in app.tf /\ q = Hop(e, g)
    BY <1>3, MainPairsAre
  <2> QED
    BY <2>1, HopEnds
<1> HIDE DEF Q
<1>6. EdgesAdded(callbackEdges, callbackEdges', Q, "state", "none")
  BY <1>1, <1>3, AddedEdges DEF FlowInv
<1>7. /\ DOMAIN callbackEdges' = D \cup Q
      /\ \A q \in D \ Q : callbackEdges'[q] = callbackEdges[q]
      /\ Layer(callbackEdges)'
  BY <1>6 DEF EdgesAdded, Layer
<1>8. \A q : q \notin Q => Nature(q)' = Nature(q)
  BY <1>7 DEF Nature
<1>9. VertexInv'
  BY <1>2, <1>5, <1>7 DEF FlowInv, VertexInv, EntityOf
<1>10. HopInv'
  <2>1. ASSUME NEW e \in Traced, NEW g \in Traced, <<e, g>> \notin app.tf
        PROVE  Nature(Hop(e, g))' = Nature(Hop(e, g))
    <3>1. Hop(e, g) \notin Q /\ Hop(e, g)' = Hop(e, g)
      BY <2>1, <1>4 DEF Hop, MainOf
    <3> QED
      BY <3>1, <1>8 DEF Nature
  <2> QED
    BY <2>1, <1>1, <1>2 DEF FlowInv, HopInv
<1>11. CallInv'
  <2>1. ASSUME NEW e \in Traced, NEW g \in Traced, {<<e, g>>, <<g, e>>} \cap app.tf = {}
        PROVE  /\ Nature(Hop(e, g))' = Nature(Hop(e, g)) /\ Nature(Hop(g, e))' = Nature(Hop(g, e))
               /\ Nature(Reply(g, e))' = Nature(Reply(g, e))
    <3>1. Hop(e, g) \notin Q /\ Hop(g, e) \notin Q
      BY <2>1, <1>4
    <3>2. Reply(g, e) \notin Q
      <4>1. Reply(g, e) = Hop(g, e) \/ Reply(g, e)[2][3] = "rest"
        BY DEF Reply, Hop, MainOf
      <4> QED
        BY <4>1, <3>1, <1>5
    <3>3. Reply(g, e)' = Reply(g, e) /\ Hop(e, g)' = Hop(e, g) /\ Hop(g, e)' = Hop(g, e)
      BY <1>1 DEF Reply, Hop, MainOf
    <3> QED
      BY <3>1, <3>2, <3>3, <1>8 DEF Nature
  <2> QED
    BY <2>1, <1>1, <1>2 DEF FlowInv, CallInv
<1>12. SpanInv'
  <2>1. ASSUME NEW q \in DOMAIN callbackEdges', ~FromOutside(q)
        PROVE  LET e == EntityOf(q[1]) g == EntityOf(q[2])
               IN /\ e \in Traced /\ g \in Traced
                  /\ e[1] = g[1] \/ Sends(e, g) \/ Wired(e, g) \/ Wired(g, e) \/ <<e, g>> \in app.tf
    BY <2>1, <1>5, <1>7 DEF FlowInv, SpanInv
  <2>2. ASSUME NEW e \in Traced, NEW g \in Traced, Sends(e, g) \/ Wired(e, g) \/ Wired(g, e) \/ <<e, g>> \in app.tf
        PROVE  \E q \in DOMAIN callbackEdges' : EntityOf(q[1]) = e /\ EntityOf(q[2]) = g
    <3>1. CASE <<e, g>> \in app.tf
      <4>1. Hop(e, g) \in DOMAIN callbackEdges'
        BY <3>1, <1>4, <1>7
      <4> QED
        BY <4>1, HopEnds
    <3>2. CASE Sends(e, g) \/ Wired(e, g) \/ Wired(g, e)
      <4>1. PICK q \in D : EntityOf(q[1]) = e /\ EntityOf(q[2]) = g
        BY <3>2 DEF FlowInv, SpanInv
      <4> QED
        BY <4>1, <1>7
    <3> QED
      BY <2>2, <3>1, <3>2
  <2>3. \A q : FromOutside(q)' <=> FromOutside(q)
    BY DEF FromOutside
  <2> QED
    BY <2>1, <2>2, <2>3, <1>1, <1>2 DEF SpanInv, EntityOf
<1> QED
  BY <1>7, <1>9, <1>10, <1>11, <1>12 DEF FlowInv

-----------------------------------------------------------------------------
(* The joins: each has an anchor to which its other inputs are tied, and   *)
(* no later tie takes the place of these.                                  *)
Apart(n) == (app.polled \cup app.tf) \cap (SubsOf(n) \X SubsOf(n)) = {}
Anchored(n, S) ==
    \E c \in Endpoints : \A e \in S :
        e = c \/ (c \in SubsOf(n) /\ e \in SubsOf(n) \ Deposits(n) /\ Tied(e, c))

JoinInv ==
    \A n \in NodesOf : Apart(n) =>
        /\ \A x \in DataTopics : Anchored(n, Combine(n, x))
        /\ LET S == SubsOf(n) \cap Synchronised IN (\A e \in S : ~InJoin(n, e)) => Anchored(n, S)

LEMMA TwoOrMore ==
    ASSUME NEW S, IsFiniteSet(S)
    PROVE  Cardinality(S) >= 2 <=> \E a, b \in S : a # b
<1>1. ASSUME NEW a \in S, NEW b \in S, a # b PROVE Cardinality(S) >= 2
  <2>1. IsFiniteSet({b}) /\ Cardinality({b}) = 1
    BY FS_Singleton
  <2>2. IsFiniteSet({b} \cup {a}) /\ Cardinality({b} \cup {a}) = 2
    BY <2>1, <1>1, FS_AddElement
  <2>3. Cardinality({b} \cup {a}) <= Cardinality(S)
    BY FS_Subset
  <2>4. Cardinality(S) \in Nat
    BY FS_CardinalityType
  <2> QED
    BY <2>2, <2>3, <2>4
<1>2. ASSUME Cardinality(S) >= 2 PROVE \E a, b \in S : a # b
  <2>1. S # {}
    BY <1>2, FS_EmptySet
  <2>2. PICK a \in S : TRUE
    BY <2>1
  <2>3. S # {a}
    BY <1>2, FS_Singleton
  <2> QED
    BY <2>2, <2>3
<1> QED
  BY <1>1, <1>2

LEMMA SameJoins ==
    ASSUME UNCHANGED app
    PROVE  \A n : /\ SubsOf(n)' = SubsOf(n) /\ (Apart(n)' <=> Apart(n)) /\ Deposits(n)' = Deposits(n)
                  /\ \A x : Combine(n, x)' = Combine(n, x)
                  /\ \A e : InJoin(n, e)' <=> InJoin(n, e)
<1> SUFFICES ASSUME NEW n
             PROVE  /\ SubsOf(n)' = SubsOf(n) /\ (Apart(n)' <=> Apart(n)) /\ Deposits(n)' = Deposits(n)
                    /\ \A x : Combine(n, x)' = Combine(n, x)
                    /\ \A e : InJoin(n, e)' <=> InJoin(n, e)
  OBVIOUS
<1>1. SubsOf(n)' = SubsOf(n) /\ \A x : Combine(n, x)' = Combine(n, x)
  BY DEF SubsOf, Combine, Did
<1>2. \A e : InJoin(n, e)' <=> InJoin(n, e)
  BY <1>1 DEF InJoin
<1>3. Apart(n)' <=> Apart(n)
  BY <1>1 DEF Apart
<1>4. \A e : PubTopics(e)' = PubTopics(e) /\ Known(e)' = Known(e) /\ DataPubs(e)' = DataPubs(e)
  BY DEF PubTopics, Known, Primary, Alternates, Firing, DataPubs
<1>5. \A x : Completers(n, x)' = Completers(n, x)
  BY <1>4 DEF Completers
<1>6. PublishJoins(n)' = PublishJoins(n) /\ \A x : Members(n, x)' = Members(n, x)
  BY <1>4, <1>5 DEF PublishJoins, Members
<1>7. InPublishJoin(n)' = InPublishJoin(n)
  BY <1>6 DEF InPublishJoin
<1>8. FilterJoin(n)' = FilterJoin(n)
  BY <1>7 DEF FilterJoin, Filtered
<1>9. Deposits(n)' = Deposits(n)
  BY <1>4, <1>7, <1>8 DEF Deposits
<1> QED
  BY <1>1, <1>2, <1>3, <1>9

\* Ties that later edges stay clear of are kept.
LEMMA JoinsKept ==
    ASSUME JoinInv, UNCHANGED app, NEW Q,
           \A q \in DOMAIN callbackEdges \ Q : q \in DOMAIN callbackEdges' /\ callbackEdges'[q] = callbackEdges[q],
           \A n \in NodesOf : Apart(n) => \A e \in SubsOf(n) \ Deposits(n), c \in SubsOf(n) : Hop(e, c) \notin Q
    PROVE  JoinInv'
<1>1. ASSUME NEW n \in NodesOf, Apart(n), NEW S, Anchored(n, S)
      PROVE  Anchored(n, S)'
  <2>1. PICK c \in Endpoints : \A e \in S : e = c \/ (c \in SubsOf(n) /\ e \in SubsOf(n) \ Deposits(n) /\ Tied(e, c))
    BY <1>1 DEF Anchored
  <2>2. ASSUME NEW e \in SubsOf(n) \ Deposits(n), c \in SubsOf(n), Tied(e, c)
        PROVE  Tied(e, c)'
    <3>1. Hop(e, c) \notin Q /\ Hop(e, c)' = Hop(e, c)
      BY <1>1, <2>2 DEF Hop, MainOf
    <3> QED
      BY <2>2, <3>1 DEF Tied
  <2> QED
    BY <2>1, <2>2, SameJoins DEF Anchored
<1>2. ASSUME NEW n \in NodesOf, Apart(n)
      PROVE  /\ \A x \in DataTopics : Anchored(n, Combine(n, x))'
             /\ LET S == SubsOf(n) \cap Synchronised IN (\A e \in S : ~InJoin(n, e)) => Anchored(n, S)'
  <2>1. \A x \in DataTopics : Combine(n, x)' = Combine(n, x) /\ Anchored(n, Combine(n, x))
    BY <1>2, SameJoins DEF JoinInv
  <2>2. SubsOf(n)' = SubsOf(n)
    BY SameJoins
  <2>3. \A x \in DataTopics : Anchored(n, Combine(n, x))'
    BY <1>1, <1>2, <2>1 DEF Anchored
  <2> QED
    BY <1>1, <1>2, <2>3 DEF JoinInv
<1> QED
  BY <1>2, SameJoins DEF JoinInv

LEMMA CompletersCombine ==
    ASSUME app \in Applications, NEW n, NEW x
    PROVE  Completers(n, x) = Combine(n, x)
<1>1. \A e \in Bare : PubTopics(e) = {}
  BY BareIsSilent
<1>2. \A e \in Traced : PubTopics(e) = Did(app.publishes, e)
  BY RecordedIsKnown
<1> QED
  BY <1>1, <1>2 DEF Completers, Combine, SubsOf, Traced, Of

LEMMA WithinNode ==
    ASSUME NEW n
    PROVE  /\ \A x : Members(n, x) \subseteq Of(n)
           /\ FilterJoin(n) \subseteq SubsOf(n) /\ MayAnchor(n) \subseteq Of(n)
           /\ \A J \in Joins(n) : J \subseteq Of(n) \ Bare /\ Anchors(n, J) \subseteq J
           /\ SubsOf(n) \subseteq Of(n) /\ Of(n) \subseteq Endpoints
<1>1. \A x : Members(n, x) \subseteq Of(n) /\ Completers(n, x) \subseteq Of(n)
  BY DEF Members, Completers
<1>2. FilterJoin(n) \subseteq SubsOf(n)
  BY FlowGraphAssumption DEF FilterJoin, Filtered, SubsOf, Traced, Of
<1>3. SubsOf(n) \subseteq Of(n) /\ Of(n) \subseteq Endpoints
  BY DEF SubsOf, Of, Traced
<1>4. MayAnchor(n) \subseteq Of(n)
  <2>1. UNION {Completers(n, x) : x \in PublishJoins(n)} \subseteq Of(n)
    BY <1>1
  <2>2. {e \in FilterJoin(n) : DataPubs(e) # {}} \subseteq Of(n)
    BY <1>2, <1>3
  <2> QED
    BY <2>1, <2>2 DEF MayAnchor
<1>5. \A J \in Joins(n) : J \subseteq Of(n) \ Bare /\ Anchors(n, J) \subseteq J
  BY <1>1, <1>2, <1>3 DEF Joins, Anchors
<1> QED
  BY <1>1, <1>2, <1>3, <1>4, <1>5

LEMMA FiniteWithin ==
    ASSUME NEW n, NEW S \in SUBSET Of(n)
    PROVE  IsFiniteSet(S)
<1>1. S \subseteq Endpoints
  BY DEF Of
<1> QED
  BY <1>1, FS_Subset, FlowGraphAssumption

\* Two inputs that publish the same data topic are in a join anchored at a
\* subscription of the node.
LEMMA CombinedJoin ==
    ASSUME app \in Applications, NEW n, NEW x \in DataTopics,
           NEW a \in Combine(n, x), NEW b \in Combine(n, x), a # b
    PROVE  LET J == Members(n, x) \ Bare
           IN J \in Joins(n) /\ Combine(n, x) \subseteq J /\ Anchors(n, J) \subseteq SubsOf(n)
<1> DEFINE J == Members(n, x) \ Bare
<1>1. \A y : Completers(n, y) = Combine(n, y) /\ Combine(n, y) \subseteq SubsOf(n)
  BY CompletersCombine DEF Combine
<1>2. Combine(n, x) \in SUBSET Of(n)
  BY <1>1, WithinNode
<1>3. x \in PublishJoins(n)
  <2>1. IsFiniteSet(Combine(n, x))
    BY <1>2, FiniteWithin
  <2> QED
    BY <2>1, <1>1, TwoOrMore DEF PublishJoins
<1>4. J \in Joins(n)
  BY <1>3 DEF Joins
<1>5. Combine(n, x) \subseteq J
  BY <1>1 DEF Members, Combine, SubsOf, Traced
<1>6. a \in J \cap MayAnchor(n)
  BY <1>1, <1>3, <1>5 DEF MayAnchor
<1>7. MayAnchor(n) \subseteq SubsOf(n)
  <2>1. UNION {Completers(n, y) : y \in PublishJoins(n)} \subseteq SubsOf(n)
    BY <1>1
  <2>2. {e \in FilterJoin(n) : DataPubs(e) # {}} \subseteq SubsOf(n)
    BY WithinNode
  <2> QED
    BY <2>1, <2>2 DEF MayAnchor
<1>8. Anchors(n, J) \subseteq SubsOf(n)
  BY <1>6, <1>7 DEF Anchors
<1> QED
  BY <1>4, <1>5, <1>8

\* Two synchronised inputs outside the other joins are one by themselves.
LEMMA SynchronisedJoin ==
    ASSUME app \in Applications, NEW n, \A e \in SubsOf(n) \cap Synchronised : ~InJoin(n, e),
           NEW a \in SubsOf(n) \cap Synchronised, NEW b \in SubsOf(n) \cap Synchronised, a # b
    PROVE  LET J == SubsOf(n) \cap Synchronised
           IN J = FilterJoin(n) /\ J \in Joins(n) /\ Anchors(n, J) \subseteq SubsOf(n)
<1> DEFINE J == SubsOf(n) \cap Synchronised
<1>1. Filtered(n) = J
  BY FlowGraphAssumption DEF Filtered, SubsOf, Traced, Of
<1>2. J \in SUBSET Of(n)
  BY WithinNode
<1>3. Cardinality(J) >= 2
  BY <1>2, FiniteWithin, TwoOrMore
<1>4. J \cap InPublishJoin(n) = {}
  <2> SUFFICES ASSUME NEW x \in PublishJoins(n), NEW e \in J, e \in Members(n, x) PROVE InJoin(n, e)
    BY DEF InPublishJoin
  <2>1. Completers(n, x) = Combine(n, x) /\ x \in DataTopics /\ Cardinality(Combine(n, x)) >= 2
    BY CompletersCombine DEF PublishJoins
  <2>2. Combine(n, x) \in SUBSET Of(n)
    BY WithinNode DEF Combine
  <2>3. PICK c \in Combine(n, x), d \in Combine(n, x) : c # d
    BY <2>1, <2>2, FiniteWithin, TwoOrMore
  <2>4. CASE e \in Combine(n, x)
    BY <2>1, <2>3, <2>4 DEF InJoin
  <2>5. CASE On[e] \in DataTopics /\ \E f \in Combine(n, x) : TypeOf[On[f]] = TypeOf[On[e]]
    <3>1. PICK f \in Combine(n, x) : TypeOf[On[f]] = TypeOf[On[e]]
      BY <2>5
    <3>2. \E h \in Combine(n, x) : f # h
      BY <2>3
    <3> QED
      BY <3>1, <3>2, <2>1, <2>5 DEF InJoin
  <2>6. Kind[e] = "sub"
    BY DEF SubsOf
  <2> QED
    BY <2>1, <2>4, <2>5, <2>6 DEF Members
<1>5. FilterJoin(n) = J
  BY <1>1, <1>3, <1>4 DEF FilterJoin
<1>6. J \ Bare = J
  BY DEF SubsOf, Traced
<1>7. J \in Joins(n)
  BY <1>5, <1>6 DEF Joins
<1>8. Anchors(n, J) \subseteq SubsOf(n)
  BY DEF Anchors
<1> QED
  BY <1>5, <1>7, <1>8

LEMMA TieJoinsKeeps ==
    ASSUME FlowInv, TieJoins, app \in Applications
    PROVE  FlowInv' /\ JoinInv'
<1> DEFINE Groups == {g \in UNION {{n} \X Joins(n) : n \in NodesOf} : Cardinality(g[2]) >= 2}
<1>1. PICK anchor \in [Groups -> Endpoints] :
        /\ \A g \in Groups : anchor[g] \in Anchors(g[1], g[2])
        /\ callbackEdges' = AddTies(callbackEdges,
               MainPairs(UNION {(g[2] \ {anchor[g]}) \X {anchor[g]} : g \in Groups}), "join")
  BY DEF TieJoins
<1> DEFINE P == UNION {(g[2] \ {anchor[g]}) \X {anchor[g]} : g \in Groups}
           Q == MainPairs(P)
<1>2. stage = "joins" /\ stage' = "state" /\ UNCHANGED app /\ "join" \in Natures /\ callbackEdges' = AddTies(callbackEdges, Q, "join")
  BY <1>1 DEF TieJoins, Natures
<1>3. ASSUME NEW g \in Groups
      PROVE  g[2] \subseteq Of(g[1]) \ Bare /\ anchor[g] \in g[2] /\ g[2] \subseteq Endpoints
  <2>1. PICK n \in NodesOf : g \in {n} \X Joins(n)
    OBVIOUS
  <2>2. g[1] = n /\ g[2] \in Joins(n) /\ anchor[g] \in Anchors(n, g[2])
    BY <2>1, <1>1
  <2> QED
    BY <2>2, WithinNode
<1>4. P \in SUBSET (Endpoints \X Endpoints) /\ \A p \in P : p[1][1] = p[2][1]
  <2> SUFFICES ASSUME NEW p \in P PROVE p \in Endpoints \X Endpoints /\ p[1][1] = p[2][1]
    OBVIOUS
  <2>1. PICK g \in Groups : p \in (g[2] \ {anchor[g]}) \X {anchor[g]}
    OBVIOUS
  <2>2. p[1] \in g[2] /\ p[2] \in g[2] /\ p = <<p[1], p[2]>>
    BY <2>1, <1>3
  <2> QED
    BY <2>2, <1>3 DEF Of
<1>5. TfLinked' = TfLinked
  BY <1>2 DEF TfLinked
<1>6. ASSUME NEW g \in Groups, NEW e \in g[2], e # anchor[g], anchor[g] \in SubsOf(g[1]), e \in SubsOf(g[1])
      PROVE  Tied(e, anchor[g])'
  <2>1. <<e, anchor[g]>> \in P
    BY <1>6
  <2>2. e \in Traced /\ anchor[g] \in Traced
    BY <1>6 DEF SubsOf
  <2> HIDE DEF P
  <2>3. Hop(e, anchor[g]) \in Q
    BY <2>1, <2>2, <1>4, HopInPairs
  <2> HIDE DEF Q
  <2>4. TiesAdded(callbackEdges, callbackEdges', Q, "join")
    BY <1>2, AddedTies DEF FlowInv
  <2> QED
    BY <2>3, <2>4 DEF TiesAdded, Tied, Hop, MainOf
<1>7. ASSUME NEW n \in NodesOf, NEW J \in Joins(n), Cardinality(J) >= 2
      PROVE  <<n, J>> \in Groups
  <2>1. <<n, J>> \in {n} \X Joins(n)
    OBVIOUS
  <2> QED
    BY <2>1, <1>7
<1> HIDE DEF Groups, P, Q
<1>8. FlowInv'
  BY <1>2, <1>4, <1>5, TiesKeep DEF Q
<1>9. ASSUME NEW n \in NodesOf, NEW J \in Joins(n), Anchors(n, J) \subseteq SubsOf(n), NEW S \in SUBSET (J \cap SubsOf(n)),
             NEW a \in S, NEW b \in S, a # b, S \cap Deposits(n) = {}
      PROVE  \E c \in Endpoints : \A e \in S :
                e = c \/ (c \in SubsOf(n) /\ e \in SubsOf(n) \ Deposits(n) /\ Tied(e, c)')
  <2>1. J \in SUBSET Of(n)
    BY WithinNode
  <2>2. Cardinality(J) >= 2
    BY <2>1, <1>9, FiniteWithin, TwoOrMore
  <2>3. <<n, J>> \in Groups
    BY <2>2, <1>7
  <2>4. anchor[<<n, J>>] \in SubsOf(n)
    BY <2>3, <1>1, <1>9
  <2>5. \A e \in S : e # anchor[<<n, J>>] => Tied(e, anchor[<<n, J>>])'
    BY <2>3, <2>4, <1>6
  <2>6. SubsOf(n) \subseteq Endpoints
    BY WithinNode
  <2> QED
    BY <2>4, <2>5, <2>6, <1>9
<1>10. ASSUME NEW n \in NodesOf, NEW S, ~\E a, b \in S : a # b, S \subseteq Endpoints
       PROVE  \E c \in Endpoints : \A e \in S : e = c
  <2>1. Endpoints # {}
    BY DEF NodesOf
  <2> QED
    BY <2>1, <1>10
<1>11. ASSUME NEW n \in NodesOf, NEW x \in DataTopics
       PROVE  Anchored(n, Combine(n, x))'
  <2>1. Combine(n, x) \subseteq SubsOf(n) /\ Combine(n, x) \subseteq Endpoints
    BY WithinNode DEF Combine
  <2>2. \E c \in Endpoints : \A e \in Combine(n, x) :
            e = c \/ (c \in SubsOf(n) /\ e \in SubsOf(n) \ Deposits(n) /\ Tied(e, c)')
    <3>1. CASE \E a, b \in Combine(n, x) : a # b
      <4>1. PICK a \in Combine(n, x), b \in Combine(n, x) : a # b
        BY <3>1
      <4> DEFINE J == Members(n, x) \ Bare
      <4>2. J \in Joins(n) /\ Combine(n, x) \subseteq J /\ Anchors(n, J) \subseteq SubsOf(n)
        BY <4>1, CombinedJoin
      <4>3. \A e \in Combine(n, x) : e \notin Deposits(n)
        <5>1. \A e \in Combine(n, x) : PubTopics(e) = Did(app.publishes, e)
          BY RecordedIsKnown DEF Combine, SubsOf
        <5> QED
          BY <5>1 DEF Combine, Deposits, DataPubs
      <4>4. Combine(n, x) \in SUBSET (J \cap SubsOf(n)) /\ Combine(n, x) \cap Deposits(n) = {}
        BY <2>1, <4>2, <4>3
      <4> HIDE DEF J
      <4> QED
        BY <1>9, <4>1, <4>2, <4>4
    <3>2. CASE ~\E a, b \in Combine(n, x) : a # b
      BY <2>1, <3>2, <1>10
    <3> QED
      BY <3>1, <3>2
  <2> QED
    BY <2>2, <1>2, SameJoins DEF Anchored
<1>12. ASSUME NEW n \in NodesOf, \A e \in SubsOf(n) \cap Synchronised : ~InJoin(n, e)
       PROVE  Anchored(n, SubsOf(n) \cap Synchronised)'
  <2> DEFINE S == SubsOf(n) \cap Synchronised
  <2>1. S \subseteq Endpoints
    BY WithinNode
  <2>2. \E c \in Endpoints : \A e \in S : e = c \/ (c \in SubsOf(n) /\ e \in SubsOf(n) \ Deposits(n) /\ Tied(e, c)')
    <3>1. CASE \E a, b \in S : a # b
      <4>1. PICK a \in S, b \in S : a # b
        BY <3>1
      <4>2. S = FilterJoin(n) /\ S \in Joins(n) /\ Anchors(n, S) \subseteq SubsOf(n)
        BY <4>1, <1>12, SynchronisedJoin
      <4>3. S \cap Deposits(n) = {} /\ S \in SUBSET (S \cap SubsOf(n))
        BY <4>2 DEF Deposits
      <4> HIDE DEF S
      <4> QED
        BY <1>9, <4>1, <4>2, <4>3
    <3>2. CASE ~\E a, b \in S : a # b
      <4> HIDE DEF S
      <4> QED
        BY <2>1, <3>2, <1>10
    <3> QED
      BY <3>1, <3>2
  <2> QED
    BY <2>2, <1>2, SameJoins DEF Anchored
<1>13. JoinInv'
  BY <1>2, <1>11, <1>12, SameJoins DEF JoinInv
<1> QED
  BY <1>8, <1>13

\* A deposit is no input of a join, a polled read is excepted: the ties stay.
LEMMA LinkStateKeeps ==
    ASSUME FlowInv, JoinInv, LinkState, app \in Applications
    PROVE  FlowInv' /\ JoinInv'
<1> DEFINE P == InferredLinks \cup app.polled
           Q == MainPairs(P)
<1>1. /\ stage = "state" /\ stage' = "tf" /\ UNCHANGED app /\ "state" \in Natures
      /\ callbackEdges' = AddTies(callbackEdges, Q, "state")
  BY DEF LinkState, Natures
<1>2. \A n : Deposits(n) \subseteq Of(n) /\ Producers(n) \subseteq Of(n)
  BY DEF Deposits, Producers
<1>3. P \in SUBSET (Endpoints \X Endpoints) /\ \A p \in P : p[1][1] = p[2][1]
  <2>1. \A p \in InferredLinks : p \in Endpoints \X Endpoints /\ p[1][1] = p[2][1]
    BY <1>2 DEF InferredLinks, Of
  <2>2. app.polled \subseteq Endpoints \X Endpoints /\ \A p \in app.polled : p[1][1] = p[2][1]
    BY FlowGraphAssumption DEF Recordable
  <2> QED
    BY <2>1, <2>2
<1>4. ASSUME NEW n \in NodesOf, Apart(n), NEW e \in SubsOf(n) \ Deposits(n), NEW c \in SubsOf(n)
      PROVE  Hop(e, c) \notin Q
  <2>1. e \in Traced /\ c \in Traced /\ e[1] = n
    BY DEF SubsOf
  <2>2. <<e, c>> \notin app.polled
    BY <1>4 DEF Apart
  <2>3. <<e, c>> \notin InferredLinks
    BY <2>1, <1>2, <1>4 DEF InferredLinks, Of
  <2>4. <<e, c>> \notin P
    BY <2>2, <2>3
  <2> HIDE DEF P
  <2> QED
    BY <2>1, <2>4, <1>3, HopInPairs
<1>5. TfLinked' = TfLinked
  BY <1>1 DEF TfLinked
<1> HIDE DEF P
<1>6. FlowInv'
  BY <1>1, <1>3, <1>5, TiesKeep
<1> HIDE DEF Q
<1>7. TiesAdded(callbackEdges, callbackEdges', Q, "state")
  BY <1>1, AddedTies DEF FlowInv
<1>8. \A q \in DOMAIN callbackEdges \ Q : q \in DOMAIN callbackEdges' /\ callbackEdges'[q] = callbackEdges[q]
  BY <1>7 DEF TiesAdded
<1>9. JoinInv'
  BY <1>1, <1>4, <1>8, JoinsKept
<1> QED
  BY <1>6, <1>9

LEMMA LinkTfKeepsJoins ==
    ASSUME FlowInv, JoinInv, LinkTf, app \in Applications
    PROVE  JoinInv'
<1> DEFINE Q == MainPairs(app.tf)
<1>1. UNCHANGED app /\ callbackEdges' = AddEdges(callbackEdges, Q, "state", "none") /\ "state" \in Natures /\ "none" \in Directions
  BY DEF LinkTf, Natures, Directions
<1>2. app.tf \in SUBSET (Endpoints \X Endpoints)
  BY FlowGraphAssumption DEF Recordable
<1>3. ASSUME NEW n \in NodesOf, Apart(n), NEW e \in SubsOf(n), NEW c \in SubsOf(n)
      PROVE  Hop(e, c) \notin Q
  <2>1. e \in Traced /\ c \in Traced
    BY DEF SubsOf
  <2>2. <<e, c>> \notin app.tf
    BY <1>3 DEF Apart
  <2> QED
    BY <2>1, <2>2, <1>2, HopInPairs
<1> HIDE DEF Q
<1>4. EdgesAdded(callbackEdges, callbackEdges', Q, "state", "none")
  BY <1>1, AddedEdges DEF FlowInv
<1>5. \A q \in DOMAIN callbackEdges \ Q : q \in DOMAIN callbackEdges' /\ callbackEdges'[q] = callbackEdges[q]
  BY <1>4 DEF EdgesAdded
<1> QED
  BY <1>1, <1>3, <1>5, JoinsKept

LEMMA LinkNitrosKeeps ==
    ASSUME FlowInv, JoinInv, LinkNitros, app \in Applications
    PROVE  FlowInv' /\ JoinInv'
<1> DEFINE P == UNION {g.ingress \X g.egress : g \in app.groups}
           Q == MainPairs(P)
<1>1. /\ stage = "nitros" /\ stage' = "lift" /\ UNCHANGED app /\ "gxf_internal" \in Natures
      /\ callbackEdges' = AddTies(callbackEdges, Q, "gxf_internal")
  BY DEF LinkNitros, Natures
<1>2. \A p \in P : p \in Endpoints \X Endpoints /\ p[1][1] = p[2][1] /\ Kind[p[2]] = "waitable"
  <2> SUFFICES ASSUME NEW g \in app.groups, NEW e \in g.ingress, NEW f \in g.egress
               PROVE  e \in Endpoints /\ f \in Endpoints /\ e[1] = f[1] /\ Kind[f] = "waitable"
    OBVIOUS
  <2> QED
    BY FlowGraphAssumption DEF Recordable
<1>3. TfLinked' = TfLinked
  BY <1>1 DEF TfLinked
<1> HIDE DEF P
<1>4. ASSUME NEW n \in NodesOf, NEW e \in SubsOf(n), NEW c \in SubsOf(n)
      PROVE  Hop(e, c) \notin Q
  <2>1. e \in Traced /\ c \in Traced /\ Kind[c] = "sub"
    BY DEF SubsOf
  <2>2. <<e, c>> \notin P
    BY <2>1, <1>2
  <2> QED
    BY <2>1, <2>2, <1>2, HopInPairs
<1>5. FlowInv'
  BY <1>1, <1>2, <1>3, TiesKeep
<1> HIDE DEF Q
<1>6. TiesAdded(callbackEdges, callbackEdges', Q, "gxf_internal")
  BY <1>1, AddedTies DEF FlowInv
<1>7. \A q \in DOMAIN callbackEdges \ Q : q \in DOMAIN callbackEdges' /\ callbackEdges'[q] = callbackEdges[q]
  BY <1>6 DEF TiesAdded
<1>8. JoinInv'
  BY <1>1, <1>4, <1>7, JoinsKept
<1> QED
  BY <1>5, <1>8

LEMMA UnchangedKeeps ==
    ASSUME FlowInv, UNCHANGED <<app, callbackEdges>>, TfLinked' = TfLinked
    PROVE  FlowInv' /\ (JoinInv => JoinInv')
<1>1. \A e, g : (Sends(e, g)' <=> Sends(e, g)) /\ (Wired(e, g)' <=> Wired(e, g))
  BY SameApplication
<1>2. \A q : Nature(q)' = Nature(q)
  BY DEF Nature
<1>3. VertexInv' /\ HopInv' /\ SpanInv' /\ Layer(callbackEdges)'
  BY <1>1, <1>2 DEF FlowInv, VertexInv, HopInv, SpanInv, Layer, EntityOf, FromOutside, Hop, MainOf, Nature
<1>4. CallInv'
  <2>1. \A e, g : Nature(Hop(e, g))' = Nature(Hop(e, g)) /\ Nature(Reply(g, e))' = Nature(Reply(g, e))
    BY DEF Nature, Hop, MainOf, Reply
  <2> QED
    BY <1>1, <2>1 DEF FlowInv, CallInv
<1>5. JoinInv => JoinInv'
  <2> DEFINE Q == {}
  <2>1. \A n \in NodesOf : Apart(n) => \A e \in SubsOf(n) \ Deposits(n), c \in SubsOf(n) : Hop(e, c) \notin Q
    OBVIOUS
  <2>2. \A q \in DOMAIN callbackEdges \ Q : q \in DOMAIN callbackEdges' /\ callbackEdges'[q] = callbackEdges[q]
    OBVIOUS
  <2> HIDE DEF Q
  <2> QED
    BY <2>1, <2>2, JoinsKept
<1> QED
  BY <1>3, <1>4, <1>5 DEF FlowInv

-----------------------------------------------------------------------------
(* The layers of nodes and executors have the edges of all pairs that the  *)
(* code joins, the callers of a service and its other clients among them.  *)
LayersAreLifted ==
    LET Joined == {p \in Traced \X Traced :
                      \/ Sends(p[1], p[2]) \/ Wired(p[1], p[2]) \/ Wired(p[2], p[1])
                      \/ <<p[1], p[2]>> \in app.tf}
    IN /\ nodeEdges = {p \in {<<r[1][1], r[2][1]>> : r \in Joined} : p[1] # p[2]}
       /\ execEdges = {p \in {<<ExecOf[r[1][1]], ExecOf[r[2][1]]>> : r \in Joined} : p[1] # p[2]}

(* What holds of the graph while it is built.                              *)
GraphInv ==
    /\ EntityInv
    /\ stage \in CallbackStages => FlowInv
    /\ stage \in CallbackStages \ {"joins"} => JoinInv
    /\ stage = "done" => LayersAreLifted

LEMMA LiftEdgesShows ==
    ASSUME FlowInv, LiftEdges
    PROVE  LayersAreLifted'
<1> DEFINE Interacts(e, g) == Sends(e, g) \/ Wired(e, g) \/ Wired(g, e) \/ <<e, g>> \in app.tf
           Real == {p \in Traced \X Traced : Interacts(p[1], p[2])}
<1>1. /\ stage = "lift" /\ UNCHANGED <<app, callbackEdges>>
      /\ nodeEdges' = {p \in {<<q[1][1], q[2][1]>> : q \in Attached} : p[1] # p[2]}
      /\ execEdges' = {p \in {<<ExecOf[q[1][1]], ExecOf[q[2][1]]>> : q \in Attached} : p[1] # p[2]}
  BY DEF LiftEdges
<1>2. \A e, g : (Sends(e, g)' <=> Sends(e, g)) /\ (Wired(e, g)' <=> Wired(e, g))
  BY <1>1, SameApplication
<1>3. \A q \in Attached : q \in DOMAIN callbackEdges /\ ~FromOutside(q)
  BY DEF Attached, FromOutside
<1>4. ASSUME NEW q \in Attached, q[1][1] # q[2][1]
      PROVE  <<EntityOf(q[1]), EntityOf(q[2])>> \in Real
  <2>1. EntityOf(q[1])[1] = q[1][1] /\ EntityOf(q[2])[1] = q[2][1]
    BY DEF EntityOf
  <2>2. /\ EntityOf(q[1]) \in Traced /\ EntityOf(q[2]) \in Traced
        /\ Interacts(EntityOf(q[1]), EntityOf(q[2]))
    BY <2>1, <1>3, <1>4 DEF FlowInv, SpanInv
  <2> QED
    BY <2>2
<1>5. ASSUME NEW r \in Real
      PROVE  \E q \in Attached : q[1][1] = r[1][1] /\ q[2][1] = r[2][1]
  <2>1. r[1] \in Traced /\ r[2] \in Traced /\ Interacts(r[1], r[2])
    OBVIOUS
  <2>2. TfLinked
    BY <1>1 DEF TfLinked
  <2>3. PICK q \in DOMAIN callbackEdges : EntityOf(q[1]) = r[1] /\ EntityOf(q[2]) = r[2]
    BY <2>1, <2>2 DEF FlowInv, SpanInv
  <2>4. q[1][1] = r[1][1] /\ q[2][1] = r[2][1]
    <3>1. EntityOf(q[1])[1] = q[1][1] /\ EntityOf(q[2])[1] = q[2][1]
      BY DEF EntityOf
    <3> QED
      BY <3>1, <2>3
  <2>5. r[1][1] # "ext" /\ r[2][1] # "ext"
    BY <2>1, FlowGraphAssumption DEF Traced
  <2> QED
    BY <2>4, <2>5 DEF Attached
<1> HIDE DEF Real
<1>6. nodeEdges' = {p \in {<<r[1][1], r[2][1]>> : r \in Real} : p[1] # p[2]}
  <2>1. ASSUME NEW q \in Attached, q[1][1] # q[2][1]
        PROVE  \E r \in Real : <<r[1][1], r[2][1]>> = <<q[1][1], q[2][1]>>
    <3>1. EntityOf(q[1])[1] = q[1][1] /\ EntityOf(q[2])[1] = q[2][1]
      BY DEF EntityOf
    <3> QED
      BY <3>1, <2>1, <1>4
  <2> QED
    BY <2>1, <1>1, <1>5
<1>7. execEdges' = {p \in {<<ExecOf[r[1][1]], ExecOf[r[2][1]]>> : r \in Real} : p[1] # p[2]}
  <2>1. ASSUME NEW q \in Attached, ExecOf[q[1][1]] # ExecOf[q[2][1]]
        PROVE  \E r \in Real : <<ExecOf[r[1][1]], ExecOf[r[2][1]]>> = <<ExecOf[q[1][1]], ExecOf[q[2][1]]>>
    <3>1. EntityOf(q[1])[1] = q[1][1] /\ EntityOf(q[2])[1] = q[2][1]
      BY DEF EntityOf
    <3>2. q[1][1] # q[2][1]
      BY <2>1
    <3> QED
      BY <3>1, <3>2, <1>4
  <2>2. ASSUME NEW r \in Real
        PROVE  \E q \in Attached : <<ExecOf[q[1][1]], ExecOf[q[2][1]]>> = <<ExecOf[r[1][1]], ExecOf[r[2][1]]>>
    BY <1>5
  <2> QED
    BY <2>1, <2>2, <1>1
<1>8. Real = {p \in Traced \X Traced : \/ Sends(p[1], p[2])' \/ Wired(p[1], p[2])' \/ Wired(p[2], p[1])'
                                       \/ <<p[1], p[2]>> \in app'.tf}
  BY <1>1, <1>2 DEF Real
<1> QED
  BY <1>6, <1>7, <1>8 DEF LayersAreLifted

LEMMA GraphStep ==
    ASSUME GraphInv, [GraphNext]_graphVars
    PROVE  GraphInv'
<1>1. CASE DeclareMessages
  BY <1>1, DeclareMessagesKeeps DEF GraphInv, DeclareMessages, CallbackStages
<1>2. CASE DeclareCall
  BY <1>2, DeclareCallKeeps DEF GraphInv, DeclareCall, CallbackStages
<1>3. CASE DeclareBoundary
  BY <1>3, DeclareBoundaryKeeps DEF GraphInv, DeclareBoundary, CallbackStages
<1>4. app \in Applications
  BY DEF GraphInv, EntityInv
<1>5. ASSUME UNCHANGED app, stage' \in CallbackStages PROVE EntityInv'
  BY <1>4, <1>5 DEF EntityInv, CallbackStages, Stages
<1>6. CASE Propagate
  <2>1. stage' = "joins" /\ UNCHANGED app
    BY <1>6 DEF Propagate
  <2> QED
    BY <2>1, <1>5, <1>6, PropagateStarts DEF GraphInv, CallbackStages
<1>7. CASE TieJoins
  <2>1. stage = "joins" /\ stage' = "state" /\ UNCHANGED app
    BY <1>7 DEF TieJoins
  <2> QED
    BY <2>1, <1>4, <1>5, <1>7, TieJoinsKeeps DEF GraphInv, CallbackStages
<1>8. CASE LinkState
  <2>1. stage = "state" /\ stage' = "tf" /\ UNCHANGED app
    BY <1>8 DEF LinkState
  <2> QED
    BY <2>1, <1>4, <1>5, <1>8, LinkStateKeeps DEF GraphInv, CallbackStages
<1>9. CASE LinkTf
  <2>1. stage = "tf" /\ stage' = "nitros" /\ UNCHANGED app
    BY <1>9 DEF LinkTf
  <2> QED
    BY <2>1, <1>4, <1>5, <1>9, LinkTfKeeps, LinkTfKeepsJoins DEF GraphInv, CallbackStages
<1>10. CASE LinkNitros
  <2>1. stage = "nitros" /\ stage' = "lift" /\ UNCHANGED app
    BY <1>10 DEF LinkNitros
  <2> QED
    BY <2>1, <1>4, <1>5, <1>10, LinkNitrosKeeps DEF GraphInv, CallbackStages
<1>11. CASE LiftEdges
  <2>1. stage = "lift" /\ stage' = "done" /\ UNCHANGED <<app, callbackEdges>>
    BY <1>11 DEF LiftEdges
  <2>2. FlowInv /\ JoinInv /\ TfLinked' = TfLinked
    BY <2>1 DEF GraphInv, CallbackStages, TfLinked
  <2> QED
    BY <2>1, <2>2, <1>5, <1>11, UnchangedKeeps, LiftEdgesShows DEF GraphInv, CallbackStages
<1>12. CASE UNCHANGED graphVars
  <2>1. /\ UNCHANGED <<app, callbackEdges>> /\ TfLinked' = TfLinked /\ stage' = stage
        /\ todo' = todo /\ entityEdges' = entityEdges
    BY <1>12 DEF graphVars, TfLinked
  <2>2. EntityInv'
    <3>1. Sent' = Sent /\ Called' = Called
      BY <2>1, SameApplication
    <3>2. Done' = Done /\ Answers' = Answers
      BY <2>1, <3>1 DEF Done, Answers
    <3>3. (DomainInv => DomainInv') /\ (NatureInv => NatureInv') /\ (Layer(entityEdges) => Layer(entityEdges)')
      BY <2>1, <3>1, <3>2 DEF DomainInv, NatureInv, Layer, Paired, FromOutside, Back, EntityOf
    <3> QED
      BY <2>1, <3>1, <3>3 DEF GraphInv, EntityInv
  <2>3. LayersAreLifted => LayersAreLifted'
    <3>1. \A e, g : (Sends(e, g)' <=> Sends(e, g)) /\ (Wired(e, g)' <=> Wired(e, g))
      BY <2>1, SameApplication
    <3>2. nodeEdges' = nodeEdges /\ execEdges' = execEdges
      BY <1>12 DEF graphVars
    <3> QED
      BY <2>1, <3>1, <3>2 DEF LayersAreLifted
  <2> QED
    BY <2>1, <2>2, <2>3, UnchangedKeeps DEF GraphInv
<1> QED
  BY <1>1, <1>2, <1>3, <1>6, <1>7, <1>8, <1>9, <1>10, <1>11, <1>12 DEF GraphNext

LEMMA GraphInitially == GraphInit => GraphInv
  BY EntityInit DEF GraphInit, GraphInv, CallbackStages

LEMMA GraphInvariance == GraphSpec => []GraphInv
  BY GraphInitially, GraphStep, PTL DEF GraphSpec

\* A message hop between two callbacks is in the graph whatever ties are
\* added later (_l3_keep_hop), but for calls and reads of the tf buffer.
THEOREM HopsStay == GraphSpec => []HopsAreKept
<1>1. GraphInv => HopsAreKept
  BY DEF GraphInv, FlowInv, HopInv, HopsAreKept, CallbackStages
<1> QED
  BY <1>1, GraphInvariance, PTL

\* Requests lead to the server and answers to what is left of the caller,
\* which nothing but the services that it called leads to
\* (split_callbacks, add_horizontal_edges).
THEOREM CallsReachServers == GraphSpec => []CallsAreRouted
<1>1. GraphInv => CallsAreRouted
  <2> SUFFICES ASSUME GraphInv, stage = "done" PROVE CallsAreRouted
    BY DEF CallsAreRouted
  <2>1. CallInv /\ VertexInv
    BY DEF GraphInv, FlowInv, CallbackStages
  <2>2. ASSUME NEW e \in Traced, NEW g \in Traced, Asks(e, g), ~Wired(g, e), e[1] # g[1],
               {<<e, g>>, <<g, e>>} \cap app.tf = {}
        PROVE  /\ Nature(Hop(e, g)) = "dep" /\ Nature(Reply(g, e)) = "dep"
               /\ app.split => Nature(Hop(g, e)) # "dep"
    BY <2>1, <2>2 DEF CallInv, Asks
  <2>3. ASSUME NEW q \in DOMAIN callbackEdges
        PROVE  /\ q[1][3] = "main"
               /\ q[2][3] = "rest" /\ Kind[EntityOf(q[1])] # "cli" => Asks(EntityOf(q[2]), EntityOf(q[1]))
    BY <2>1 DEF VertexInv, Asks, Wired
  <2> QED
    BY <2>2, <2>3 DEF CallsAreRouted, Reply
<1> QED
  BY <1>1, GraphInvariance, PTL

\* The inputs of a join end up tied to one of them (detect_joins and the
\* anchors of add_horizontal_edges).
THEOREM InputsMeet == GraphSpec => []JoinsStayTogether
<1>1. GraphInv => JoinsStayTogether
  <2> SUFFICES ASSUME GraphInv, stage = "done" PROVE JoinsStayTogether
    BY DEF JoinsStayTogether
  <2>1. \A n, S : Anchored(n, S) => Meet(S)
    BY DEF Anchored, Meet, Tied
  <2>2. JoinInv
    BY DEF GraphInv, CallbackStages
  <2> QED
    BY <2>1, <2>2 DEF JoinInv, JoinsStayTogether, Apart
<1> QED
  BY <1>1, GraphInvariance, PTL

\* The layers of nodes and executors show all that was recorded between
\* them, and beyond it only callers of a service towards its other clients
\* (the lifting of add_horizontal_edges).
THEOREM LayersShowInteractions == GraphSpec => []NodeEdgesAreInteractions
<1>1. GraphInv => NodeEdgesAreInteractions
  <2> SUFFICES ASSUME GraphInv, stage = "done" PROVE NodeEdgesAreInteractions
    BY DEF NodeEdgesAreInteractions
  <2> DEFINE Joined == {p \in Traced \X Traced :
                           \/ Sends(p[1], p[2]) \/ Wired(p[1], p[2]) \/ Wired(p[2], p[1])
                           \/ <<p[1], p[2]>> \in app.tf}
             Real == {p \in Traced \X Traced :
                         \/ Sends(p[1], p[2]) \/ Asks(p[1], p[2]) \/ Asks(p[2], p[1]) \/ p \in app.tf}
             Clients == {p \in Traced \X Traced :
                            \/ Kind[p[2]] = "cli" /\ Wired(p[1], p[2])
                            \/ Kind[p[1]] = "cli" /\ Wired(p[2], p[1])}
  <2>1. nodeEdges = Pairs(Joined) /\ execEdges = ExecPairs(Joined)
    BY DEF GraphInv, LayersAreLifted, Pairs, ExecPairs
  <2>2. Real \subseteq Joined
    <3>1. \A e, g : Asks(e, g) => Wired(e, g)
      BY DEF Asks
    <3> QED
      BY <3>1
  <2>3. Joined \subseteq Real \cup Clients
    <3>1. \A e, g : Wired(e, g) => Asks(e, g) \/ Kind[g] = "cli"
      BY DEF Asks, Wired
    <3> QED
      BY <3>1
  <2> HIDE DEF Joined
  <2>4. \A R, S : R \subseteq S => Pairs(R) \subseteq Pairs(S) /\ ExecPairs(R) \subseteq ExecPairs(S)
    BY DEF Pairs, ExecPairs
  <2>5. /\ Pairs(Real) \subseteq nodeEdges /\ nodeEdges \subseteq Pairs(Real \cup Clients)
        /\ ExecPairs(Real) \subseteq execEdges /\ execEdges \subseteq ExecPairs(Real \cup Clients)
    <3> HIDE DEF Real, Clients
    <3> QED
      BY <2>1, <2>2, <2>3, <2>4
  <2> QED
    BY <2>5 DEF NodeEdgesAreInteractions
<1> QED
  BY <1>1, GraphInvariance, PTL
=============================================================================
