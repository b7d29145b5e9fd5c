---------------------------- MODULE KschedParse ----------------------------
(***************************************************************************)
(* The two parsers of a kernel session: parse_kernel of                    *)
(* postprocess/ksched_split.py, which reads the merged streams line by     *)
(* line, and parse_kernel_parallel of postprocess/ksched_parse_parallel.py,*)
(* which promises the same result with a worker for each stream.           *)
(*                                                                         *)
(* Columns that only travel with an interval (state, address, wakee, ids)  *)
(* are left out; sched_waking and gomp events are both marks.              *)
(***************************************************************************)
EXTENDS KernelTrace, SequencesExt

Unknown == [tid |-> Idle, at |-> 0]     \* no switch of this CPU seen yet
NotPending == 0
Half == Day \div 2
Tod(e) == e.at % Day                    \* all that a line says of its time

-----------------------------------------------------------------------------
LastOf(S) == IF S = {} THEN 0 ELSE Max(S)

(* Records by a column, each behind those that are not greater: numpy's    *)
(* lexsort and stable argsort keep the order of equals.                    *)
Insert(s, x, m) ==
    [k \in 1 .. Len(s) + 1 |-> IF k <= m THEN s[k] ELSE IF k = m + 1 THEN x ELSE s[k - 1]]

Sorted(s, key) ==
    LET behind(r, x) == LastOf({i \in DOMAIN r : r[i][key] <= x[key]})
        sort[n \in 0 .. Len(s)] ==
            IF n = 0 THEN <<>> ELSE Insert(sort[n - 1], s[n], behind(sort[n - 1], s[n]))
    IN sort[Len(s)]

(* The records at the places of a mask.                                    *)
Kept(s, mask) ==
    LET keep[n \in 0 .. Len(s)] ==
            IF n = 0 THEN <<>> ELSE IF n \in mask THEN Append(keep[n - 1], s[n]) ELSE keep[n - 1]
    IN keep[Len(s)]

(* What babeltrace2 prints of the whole session: the earliest event of all *)
(* that it has not printed yet, of the lowest CPU when there are several.  *)
Earlier(p, q) == \/ Event(p).at < Event(q).at
                 \/ Event(p).at = Event(q).at /\ p[1] < q[1]

Order ==
    LET R == Recorded
        first(S) == CHOOSE p \in S : \A q \in S \ {p} : Earlier(p, q)
        next(printed) == Append(printed, first(R \ ToSet(printed)))
        order[n \in 0 .. Cardinality(R)] == IF n = 0 THEN <<>> ELSE next(order[n - 1])
    IN order[Cardinality(R)]

Merged ==
    LET order == Order
    IN [n \in DOMAIN order |-> Event(order[n])]

Interval(t, a, b) == [tid |-> t, t0 |-> a, t1 |-> b]

-----------------------------------------------------------------------------
(* The sequential parser *)

(* The midnight roll: a time of day that is much less than the last one.   *)
(* Times are counted from 1 here, for 0 stands for nothing pending.        *)
Roll(p, e) ==
    LET extra == IF p.seen /\ Tod(e) + Half < p.day THEN p.extra + 1 ELSE p.extra
    IN [day |-> Tod(e), extra |-> extra, seen |-> TRUE,
        stamps |-> Append(p.stamps, 1 + extra * Day + Tod(e))]

NothingSeen == [day |-> 0, extra |-> 0, seen |-> FALSE, stamps |-> <<>>]

SeqStamps(lines) ==
    LET roll[n \in 0 .. Len(lines)] ==
            IF n = 0 THEN NothingSeen ELSE Roll(roll[n - 1], lines[n])
    IN roll[Len(lines)].stamps

Start0 == [running |-> [c \in Cpus |-> Unknown],
           pending |-> [t \in Threads \cup {Idle} |-> NotPending],
           pendingFx |-> [t \in Threads |-> NotPending],
           on |-> <<>>, off |-> <<>>, wk |-> <<>>, fx |-> <<>>, ctx |-> <<>>]

(* Slip: a switch-out is pending only after a known switch-in. *)
SlipSeqSwitch(p, e, ts) ==
    LET r == p.running[e.cpu]
        isOn == e.prev # Idle /\ r.tid = e.prev
        pending == IF isOn THEN [p.pending EXCEPT ![e.prev] = ts] ELSE p.pending
        isOff == e.next # Idle /\ pending[e.next] # NotPending
    IN [p EXCEPT !.ctx = IF e.prev \in ToSet(@) \cup {Idle} THEN @ ELSE Append(@, e.prev),
                 !.on = IF isOn THEN Append(@, Interval(e.prev, r.at, ts)) ELSE @,
                 !.off = IF isOff THEN Append(@, Interval(e.next, pending[e.next], ts)) ELSE @,
                 !.pending = [pending EXCEPT ![e.next] = NotPending],
                 !.running[e.cpu] = [tid |-> e.next, at |-> ts]]

SeqSwitch(p, e, ts) ==
    LET r == p.running[e.cpu]
        isOn == e.prev # Idle /\ r.tid = e.prev
        pending == [p.pending EXCEPT ![e.prev] = ts]
        isOff == e.next # Idle /\ pending[e.next] # NotPending
    IN [p EXCEPT !.ctx = IF e.prev \in ToSet(@) \cup {Idle} THEN @ ELSE Append(@, e.prev),
                 !.on = IF isOn THEN Append(@, Interval(e.prev, r.at, ts)) ELSE @,
                 !.off = IF isOff THEN Append(@, Interval(e.next, pending[e.next], ts)) ELSE @,
                 !.pending = [pending EXCEPT ![e.next] = NotPending],
                 !.running[e.cpu] = [tid |-> e.next, at |-> ts]]

SeqMark(p, e, ts) ==
    LET r == p.running[e.cpu]
    IN IF r.tid = Idle THEN p ELSE [p EXCEPT !.wk = Append(@, [tid |-> r.tid, ts |-> ts])]

(* Slip: any futex call is taken for a wait. *)
SlipSeqEntry(p, e, ts) ==
    LET r == p.running[e.cpu]
    IN IF r.tid = Idle THEN p ELSE [p EXCEPT !.pendingFx[r.tid] = ts]

SeqEntry(p, e, ts) ==
    LET r == p.running[e.cpu]
    IN IF r.tid = Idle THEN p
       ELSE [p EXCEPT !.pendingFx[r.tid] = IF e.wait THEN ts ELSE NotPending]

SeqExit(p, e, ts) ==
    LET r == p.running[e.cpu]
        began == p.pendingFx[r.tid]
    IN IF r.tid = Idle THEN p
       ELSE [p EXCEPT !.pendingFx[r.tid] = NotPending,
                      !.fx = IF began # NotPending /\ ts > began
                                THEN Append(@, Interval(r.tid, began, ts)) ELSE @]

SeqLine(p, e, ts) ==
    CASE e.kind = "switch" -> SeqSwitch(p, e, ts)
      [] e.kind = "mark" -> SeqMark(p, e, ts)
      [] e.kind = "entry" -> SeqEntry(p, e, ts)
      [] e.kind = "exit" -> SeqExit(p, e, ts)

Sequential ==
    LET m == Merged
        ts == SeqStamps(m)
        parse[n \in 0 .. Len(m)] ==
            IF n = 0 THEN Start0 ELSE SeqLine(parse[n - 1], m[n], ts[n])
    IN parse[Len(m)]

-----------------------------------------------------------------------------
(* The parallel parser *)

Worker0 == [running |-> Unknown, on |-> <<>>, sw |-> <<>>, wk |-> <<>>, fx |-> <<>>, ctx |-> <<>>]

(* Slip: no midnight roll. *)
SlipParStamp(e) == 1 + Tod(e)

(* The midnight roll of a worker: against the start of the session. *)
ParStamp(e) == 1 + Tod(e) + (IF Tod(e) + Half < Start THEN Day ELSE 0)

ParSwitch(w, e, ts) ==
    LET isOn == e.prev # Idle /\ w.running.tid = e.prev
        seen == {w.ctx[i].tid : i \in DOMAIN w.ctx}
    IN [w EXCEPT !.ctx = IF e.prev \in seen \cup {Idle} THEN @
                            ELSE Append(@, [tid |-> e.prev, ts |-> ts]),
                 !.on = IF isOn THEN Append(@, Interval(e.prev, w.running.at, ts)) ELSE @,
                 !.sw = Append(@, [prev |-> e.prev, next |-> e.next, ts |-> ts]),
                 !.running = [tid |-> e.next, at |-> ts]]

(* A futex record sets the pending wait, clears it or takes it. *)
FxKind(e) == IF e.kind = "exit" THEN "take" ELSE IF e.wait THEN "set" ELSE "clear"

ParLine(w, e) ==
    LET ts == ParStamp(e)
        t == w.running.tid
    IN CASE e.kind = "switch" -> ParSwitch(w, e, ts)
         [] e.kind # "switch" /\ t = Idle -> w
         [] e.kind = "mark" /\ t # Idle -> [w EXCEPT !.wk = Append(@, [tid |-> t, ts |-> ts])]
         [] e.kind \in {"entry", "exit"} /\ t # Idle ->
               [w EXCEPT !.fx = Append(@, [tid |-> t, ts |-> ts, kind |-> FxKind(e)])]

Worker(stream) ==
    LET read[n \in 0 .. Len(stream)] == IF n = 0 THEN Worker0 ELSE ParLine(read[n - 1], stream[n])
    IN read[Len(stream)]
Workers ==
    LET work[n \in 0 .. NCpus] == IF n = 0 THEN <<>> ELSE Append(work[n - 1], Worker(streams[n]))
    IN work[NCpus]
OfAll(ws, column) ==
    LET join[n \in 0 .. NCpus] == IF n = 0 THEN <<>> ELSE join[n - 1] \o ws[n][column]
    IN join[NCpus]

(* Slip: a take with a set that another take has had. *)
SlipPair(recs) ==
    LET s == Sorted(recs, "tid")
        opener(j) == LastOf({i \in 1 .. j : s[i].kind # "take"})
        ok(j) == /\ s[j].kind = "take" /\ opener(j) > 0
                 /\ s[opener(j)].tid = s[j].tid
                 /\ s[opener(j)].kind = "set"
        pairs == Kept([j \in DOMAIN s |-> j], {j \in DOMAIN s : ok(j)})
    IN [k \in DOMAIN pairs |->
          Interval(s[pairs[k]].tid, s[opener(pairs[k])].ts, s[pairs[k]].ts)]

(* _pair: in thread order, each take with the last set or clear before it, *)
(* if that is a set of the same thread and was not taken yet.              *)
Pair(recs) ==
    LET s == Sorted(recs, "tid")
        opener(j) == LastOf({i \in 1 .. j : s[i].kind # "take"})
        taken(j) == LastOf({i \in 1 .. j - 1 : s[i].kind = "take"})
        ok(j) == /\ s[j].kind = "take"
                 /\ opener(j) > taken(j)
                 /\ s[opener(j)].tid = s[j].tid
                 /\ s[opener(j)].kind = "set"
        pairs == Kept([j \in DOMAIN s |-> j], {j \in DOMAIN s : ok(j)})
    IN [k \in DOMAIN pairs |->
          Interval(s[pairs[k]].tid, s[opener(pairs[k])].ts, s[pairs[k]].ts)]

(* Two records of each switch, of the threads only. *)
SwitchRecords(ws) ==
    LET sw == Sorted(OfAll(ws, "sw"), "ts")
        half(x, k) == IF k % 2 = 1 THEN [tid |-> x.prev, ts |-> x.ts, kind |-> "set"]
                                   ELSE [tid |-> x.next, ts |-> x.ts, kind |-> "take"]
        recs == [k \in 1 .. 2 * Len(sw) |-> half(sw[(k + 1) \div 2], k)]
    IN Kept(recs, {k \in DOMAIN recs : recs[k].tid # Idle})

(* Each thread once, in the order in which they first left a CPU. *)
Context(ws) ==
    LET all == Sorted(OfAll(ws, "ctx"), "ts")
        first(i) == \A j \in 1 .. i - 1 : all[j].tid # all[i].tid
        firsts == Kept(all, {i \in DOMAIN all : first(i)})
    IN [k \in DOMAIN firsts |-> firsts[k].tid]

Parallel ==
    LET ws == Workers
        fx == Pair(Sorted(OfAll(ws, "fx"), "ts"))
    IN [on |-> Sorted(OfAll(ws, "on"), "t1"),
        off |-> Sorted(Pair(SwitchRecords(ws)), "t1"),
        wk |-> Sorted(OfAll(ws, "wk"), "ts"),
        fx |-> Sorted(Kept(fx, {i \in DOMAIN fx : fx[i].t1 > fx[i].t0}), "t1"),
        ctx |-> Context(ws)]

-----------------------------------------------------------------------------
(* The first line of the session is not past the first midnight. *)
StartsOnItsDay == Recorded # {} => \E p \in Recorded : Event(p).at < Day

OfThread(t, s) == Kept(s, {i \in DOMAIN s : s[i].tid = t})

(* "Same return value", ksched_parse_parallel.py:3: the same on-CPU intervals   *)
(* and marks in the same order, for each thread the same off-CPU intervals and   *)
(* futex waits, and the threads met in the same order (of two with the same      *)
(* container ids ksched_split.main keeps the later), whatever the interleaving   *)
(* and whatever was discarded.                                                   *)
SameResult ==
    StartsOnItsDay =>
        LET p == Parallel
            q == Sequential
        IN /\ p.on = q.on /\ p.wk = q.wk /\ p.ctx = q.ctx
           /\ \A t \in Threads : /\ OfThread(t, p.off) = OfThread(t, q.off)
                                /\ OfThread(t, p.fx) = OfThread(t, q.fx)

(* In a session shorter than half a day the workers' midnight roll gives *)
(* every event its time; that of the sequential parser does so when the  *)
(* session has an event before midnight.                                 *)
StampsAreRight ==
    /\ \A p \in Recorded : ParStamp(Event(p)) = 1 + Event(p).at
    /\ StartsOnItsDay =>
          LET m == Merged
          IN SeqStamps(m) = [i \in DOMAIN m |-> 1 + m[i].at]

(* When nothing was discarded, the on- and off-CPU intervals of a thread tile *)
(* the time from its first switch to its last, without gap or overlap, and no *)
(* tile is there twice: "each row sums to wall", ksched_split.py:20.          *)
RowsSumToWall ==
    lost = 0 /\ StartsOnItsDay =>
        LET p == Sequential
            times(t) == {1 + Event(q).at : q \in {r \in Recorded :
                           Event(r).kind = "switch" /\ t \in {Event(r).prev, Event(r).next}}}
            steps(S) == {x \in S \X S : x[1] < x[2] /\ ~\E y \in S : x[1] < y /\ y < x[2]}
            of(t, s) == {i \in DOMAIN s : s[i].tid = t}
            rows(t, s) == {<<s[i].t0, s[i].t1>> : i \in of(t, s)}
        IN \A t \in Threads :
             /\ rows(t, p.on) \cup rows(t, p.off) = steps(times(t))
             /\ rows(t, p.on) \cap rows(t, p.off) = {}
             /\ \A i, j \in of(t, p.on) : p.on[i] = p.on[j] => i = j
             /\ \A i, j \in of(t, p.off) : p.off[i] = p.off[j] => i = j

(* When nothing was discarded, the futex intervals are the waits that took   *)
(* place, begin and end, of the threads that the trace had seen getting a CPU *)
(* before they began: no other futex call is taken for a wait, and migration  *)
(* during a wait loses nothing.                                               *)
WaitsAreFound ==
    lost = 0 /\ StartsOnItsDay =>
        LET fx == Sequential.fx
            seen(w) == \E q \in Recorded : /\ Event(q).kind = "switch" /\ Event(q).next = w[1]
                                           /\ Event(q).at < w[2]
        IN {<<fx[i].tid, fx[i].t0 - 1, fx[i].t1 - 1>> : i \in DOMAIN fx} = {w \in waits : seen(w)}
=============================================================================
