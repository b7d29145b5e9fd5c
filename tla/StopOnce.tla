------------------------------ MODULE StopOnce ------------------------------
(***************************************************************************)
(* What stop_session promises its callers, whatever lock it uses: one      *)
(* shutdown sequence at a time; a caller that arrives while another one    *)
(* runs the sequence is held back and then returns without running it, or  *)
(* takes over when the other one was killed.                               *)
(***************************************************************************)
CONSTANT Callers

VARIABLE call   \* the state of each caller's stop_session

Init == call = [p \in Callers |-> "idle"]

Change(p, from, to) == call[p] = from /\ call' = [call EXCEPT ![p] = to]
NoneStopping == \A q \in Callers : call[q] # "stopping"

Call(p)   == Change(p, "idle", "pending")
Begin(p)  == NoneStopping /\ Change(p, "pending", "stopping")
Finish(p) == Change(p, "stopping", "stopped")
(* somebody else's shutdown is over *)
Leave(p)  == NoneStopping /\ (\E q \in Callers : call[q] = "stopped") /\ Change(p, "pending", "returned")
Die(p)    == call[p] \in {"pending", "stopping"} /\ call' = [call EXCEPT ![p] = "dead"]

Next == \E p \in Callers : Call(p) \/ Begin(p) \/ Finish(p) \/ Leave(p) \/ Die(p)
Spec == Init /\ [][Next]_call

=============================================================================
